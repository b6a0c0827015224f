----------------------------- MODULE DshProofs -----------------------------
(***************************************************************************)
(* The shell for any number of processes and any script: what a process    *)
(* can hold at each place of the command loop, of exec_cmd() and of        *)
(* execute_pipeline().  IInv says how far a shell is in its line, which    *)
(* pipe ends it has, whose child everybody is, and which of its children   *)
(* a shell has still to wait for.                                          *)
(***************************************************************************)
EXTENDS Dsh, SequenceTheorems, WellFoundedInduction, TLAPS

\* Where a shell has children to wait for.
Shells == {"fork", "close", "wait"}

\* What the variables besides those of TypeOK can hold.
Given ==
  /\ input \in Seq(CmdLines)
  /\ kind \in {"file", "pipe", "tty"}
  /\ times \in [1 .. Len(input) -> 0 .. 2]
  /\ last \in [Procs -> 0 .. 255]

\* The shell of the user is nobody's child, and nobody waits for it.
First == ps[1].pc \notin {"free", "zombie"} /\ ps[1].parent = 0

\* How far a shell is in its line.
Place(p) ==
  /\ ps[p].pc \notin Shells => ps[p].kids = <<>>
  /\ ps[p].pc \in {"prompt", "pipe", "close"} => ps[p].idx = 1
  /\ ps[p].pc \in {"pipe", "close"} => Len(ps[p].job) > 1
  /\ ps[p].pc \in Shells \cup {"child"} => ps[p].idx <= Len(ps[p].job)
  /\ ps[p].pc = "fork" => Len(ps[p].kids) = ps[p].idx - 1
  /\ ps[p].pc \in {"close", "wait"} => Len(ps[p].kids) = Len(ps[p].job)

\* The pipe ends that p has, besides its input and output: all those of one
\* pipeline or none.
Held(p) ==
  /\ ps[p].pc \in {"fork", "close"} => ps[p].fds = Between(p, ps[p].job)
  /\ ps[p].pc = "child" => \E q \in Procs : ps[p].fds = Between(q, ps[p].job)
  /\ ps[p].pc \notin {"fork", "close", "child"} => ps[p].fds = {}

\* The children that p has not yet waited for, as places in its list.
Unwaited(p) == {i \in DOMAIN ps[p].kids : ps[p].pc = "wait" => ps[p].idx <= i}

\* Who is whose child.
Family(p) ==
  /\ ps[p].parent # p
  /\ ps[p].pc = "zombie" => ps[p].parent # 0
  /\ ps[p].pc \in {"free", "gone"} => ps[p].parent = 0
  /\ ps[p].pc \in {"free", "zombie", "gone", "child", "program", "said"} =>
       \A r \in Procs : ps[r].parent # p
  /\ \A i \in Unwaited(p) : ps[ps[p].kids[i]].parent = p
  /\ \A i, j \in Unwaited(p) : ps[p].kids[i] = ps[p].kids[j] => i = j
  /\ ~failed => \A r \in Procs : ps[r].parent = p => \E i \in Unwaited(p) : r = ps[p].kids[i]

\* The status that p has kept, or is to get from the last of its children.
Code(p) ==
  /\ ps[p].pc \in {"prompt", "pipe", "fork", "child"} => ps[p].code = last[p]
  /\ ps[p].pc \in {"close", "wait"} =>
       LET c == ps[p].kids[Len(ps[p].kids)] IN ps[c].pc = "zombie" => ps[c].status = last[p]

\* What the processes share.
Shared ==
  /\ off \in 0 .. Len(input)
  /\ text \in [Pipes -> Seq(Item)]
  /\ \A q \in Pipes : Len(text[q]) <= MaxText
  /\ failed \in BOOLEAN

Local(p) == Place(p) /\ Held(p) /\ Family(p) /\ Code(p)

IInv ==
  /\ TypeOK
  /\ Given
  /\ First
  /\ \A p \in Procs : Local(p)

-----------------------------------------------------------------------------
\* A set of numbers has a smallest one: the next process id that fork() takes.
LEMMA LowestIsIn ==
  ASSUME NEW S, S \subseteq Nat, S # {}
  PROVE  Lowest(S) \in S
<1> DEFINE Less == {ss \in Nat \X Nat : ss[1] < ss[2]}
<1>1. IsWellFoundedOn(Less, Nat) BY NatLessThanWellFounded DEF OpToRel
<1> HIDE DEF Less
<1>2. PICK x \in S : \A y \in S : <<y, x>> \notin Less BY <1>1, WFMin
<1>3. ASSUME NEW y \in S PROVE x <= y
  <2>1. x \in Nat /\ y \in Nat OBVIOUS
  <2>2. y < x => <<y, x>> \in Less BY <2>1 DEF Less
  <2>3. QED BY <1>2, <2>1, <2>2
<1> QED BY <1>3 DEF Lowest

LEMMA FreeIsProc == Free \in Proc
<1>1. <<>> \in Seq(Procs) /\ <<>> \in Seq(Item) BY EmptySeq
<1>2. <<>> \in CmdLines
  <2>1. <<>> \in [1 .. 0 -> Names] OBVIOUS
  <2>2. 0 \in 0 .. MaxCmds BY SizeAssumption
  <2>3. QED BY <2>1, <2>2 DEF CmdLines
<1>3. 1 \in 1 .. MaxCmds /\ 0 \in 0 .. MaxProcs /\ 0 \in 0 .. 255 BY SizeAssumption
<1>4. QED BY <1>1, <1>2, <1>3 DEF Free, Proc

\* A command line has at most MaxCmds commands.
LEMMA LineIsSeq ==
  ASSUME NEW l \in CmdLines
  PROVE  /\ l \in Seq(Names)
         /\ Len(l) \in 0 .. MaxCmds
         /\ DOMAIN l = 1 .. Len(l)
<1>1. PICK n \in 0 .. MaxCmds : l \in [1 .. n -> Names] BY DEF CmdLines
<1>2. n \in Nat BY SizeAssumption
<1>3. l \in Seq(Names) /\ Len(l) = n BY <1>1, <1>2
<1>4. QED BY <1>1, <1>3

LEMMA LineLength ==
  ASSUME NEW l \in CmdLines
  PROVE  Len(l) = 0 \/ Len(l) = 1 \/ Len(l) > 1
<1>1. Len(l) \in Nat BY LineIsSeq, SizeAssumption
<1>2. QED BY <1>1

\* What leaving execute_pipeline() does to a process.
LEMMA BackIsProc ==
  ASSUME NEW r \in Proc
  PROVE  /\ Back(r) \in Proc
         /\ Back(r).pc = "prompt" /\ Back(r).job = <<>> /\ Back(r).idx = 1
         /\ Back(r).kids = <<>> /\ Back(r).fds = {}
         /\ Back(r).parent = r.parent /\ Back(r).code = r.code /\ Back(r).inbuf = r.inbuf
         /\ Back(r).in = r.in /\ Back(r).out = r.out /\ Back(r).status = r.status
<1>1. <<>> \in CmdLines /\ <<>> \in Seq(Procs) /\ 1 \in 1 .. MaxCmds /\ {} \in SUBSET Ends
  BY FreeIsProc DEF Free, Proc
<1>2. Back(r) \in Proc BY <1>1 DEF Back, Proc
<1>3. Back(r).pc = "prompt" /\ Back(r).idx = 1 BY DEF Back, Proc
<1>4. Back(r).job = <<>> BY DEF Back, Proc
<1>5. Back(r).kids = <<>> BY DEF Back, Proc
<1>6. Back(r).fds = {} BY DEF Back, Proc
<1>7. Back(r).parent = r.parent /\ Back(r).code = r.code /\ Back(r).status = r.status
  BY DEF Back, Proc
<1>8. Back(r).inbuf = r.inbuf BY DEF Back, Proc
<1>9. Back(r).in = r.in /\ Back(r).out = r.out BY DEF Back, Proc
<1>10. QED BY <1>2, <1>3, <1>4, <1>5, <1>6, <1>7, <1>8, <1>9

-----------------------------------------------------------------------------
\* What the processes and the status history are.
LEMMA ProcTypes ==
  ASSUME IInv, NEW p \in Procs
  PROVE  /\ ps \in [Procs -> Proc] /\ ps[p] \in Proc
         /\ last \in [Procs -> 0 .. 255] /\ last[p] \in 0 .. 255
         /\ Place(p) /\ Held(p) /\ Family(p) /\ Code(p)
         /\ Procs \subseteq Nat \ {0} /\ 1 \in Procs
<1>1. ps \in [Procs -> Proc] /\ last \in [Procs -> 0 .. 255] BY DEF IInv, TypeOK, Given
<1>2. Place(p) /\ Held(p) /\ Family(p) /\ Code(p) BY DEF IInv, Local
<1>3. Procs \subseteq Nat \ {0} /\ 1 \in Procs BY SizeAssumption DEF Procs
<1>4. QED BY <1>1, <1>2, <1>3

\* The fields of a process.
LEMMA Fields ==
  ASSUME NEW r \in Proc
  PROVE  /\ r.pc \in {"free", "prompt", "pipe", "fork", "close", "wait",
                      "child", "program", "said", "zombie", "gone"}
         /\ r.parent \in 0 .. MaxProcs /\ r.job \in CmdLines /\ r.idx \in 1 .. MaxCmds
         /\ r.kids \in Seq(Procs) /\ r.inbuf \in Seq(Item)
         /\ r.in \in Pipes \cup {Outside} /\ r.out \in Pipes \cup {Outside}
         /\ r.fds \in SUBSET Ends /\ r.code \in 0 .. 255 /\ r.status \in 0 .. 255
  BY DEF Proc

\* A list of children has its places from 1 to its length.
LEMMA KidsDomain ==
  ASSUME NEW r \in Proc
  PROVE  /\ DOMAIN r.kids = 1 .. Len(r.kids) /\ Len(r.kids) \in Nat
         /\ \A i \in DOMAIN r.kids : r.kids[i] \in Procs
<1>1. r.kids \in Seq(Procs) BY Fields
<1>2. DOMAIN r.kids = 1 .. Len(r.kids) /\ Len(r.kids) \in Nat BY <1>1, LenProperties
<1>3. ASSUME NEW i \in DOMAIN r.kids PROVE r.kids[i] \in Procs
  BY <1>1, <1>2, ElementOfSeq
<1>4. QED BY <1>2, <1>3

\* The last child of a shell that waits is one it has not waited for.
LEMMA LastIsUnwaited ==
  ASSUME IInv, NEW p \in Procs, ps[p].pc \in {"close", "wait"}
  PROVE  /\ Len(ps[p].kids) = Len(ps[p].job) /\ Len(ps[p].kids) \in Nat \ {0}
         /\ Len(ps[p].kids) \in Unwaited(p)
         /\ ps[p].kids[Len(ps[p].kids)] \in Procs
         /\ ps[ps[p].kids[Len(ps[p].kids)]].parent = p
<1>1. ps[p] \in Proc /\ Place(p) /\ Family(p) BY ProcTypes
<1>2. /\ Len(ps[p].kids) = Len(ps[p].job) /\ ps[p].idx <= Len(ps[p].job)
      /\ ps[p].idx \in 1 .. MaxCmds
  BY <1>1, Fields DEF Place, Shells
<1>3. DOMAIN ps[p].kids = 1 .. Len(ps[p].kids) /\ Len(ps[p].kids) \in Nat
  BY <1>1, KidsDomain
<1>4. Len(ps[p].kids) \in DOMAIN ps[p].kids /\ ps[p].idx <= Len(ps[p].kids) /\ Len(ps[p].kids) # 0
  BY <1>2, <1>3, SizeAssumption
<1>5. Len(ps[p].kids) \in Unwaited(p) BY <1>4 DEF Unwaited
<1>6. ps[ps[p].kids[Len(ps[p].kids)]].parent = p BY <1>1, <1>5 DEF Family
<1>7. ps[p].kids[Len(ps[p].kids)] \in Procs BY <1>1, <1>4, KidsDomain
<1>8. QED BY <1>2, <1>3, <1>4, <1>5, <1>6, <1>7

\* A step leaves a process as it is, but for its input, its output and perhaps
\* its parent.
Alike(q) ==
  /\ ps'[q].pc = ps[q].pc /\ ps'[q].job = ps[q].job /\ ps'[q].idx = ps[q].idx
  /\ ps'[q].kids = ps[q].kids /\ ps'[q].fds = ps[q].fds /\ ps'[q].code = ps[q].code
  /\ ps'[q].parent = ps[q].parent \/ (ps[q].pc # "zombie" /\ ps'[q].parent = 0)

\* Such a process keeps its place, its ends and its family when nobody becomes
\* its child or ceases to be.
LEMMA FamilyKept ==
  ASSUME IInv, NEW q \in Procs, Alike(q), failed => failed',
         \A x \in Procs : ps'[x].parent = q <=> ps[x].parent = q
  PROVE  Place(q)' /\ Held(q)' /\ Family(q)'
<1>1. ps[q] \in Proc /\ Place(q) /\ Held(q) /\ Family(q) /\ q # 0 BY ProcTypes
<1>2. Place(q)' BY <1>1 DEF Place, Alike
<1>3. Held(q)' BY <1>1 DEF Held, Between, Alike
<1>4. Unwaited(q)' = Unwaited(q) BY DEF Unwaited, Alike
<1>5. \A i \in Unwaited(q) : ps[q].kids[i] \in Procs BY <1>1, KidsDomain DEF Unwaited
<1>6. Family(q)' BY <1>1, <1>4, <1>5 DEF Family, Alike
<1>7. QED BY <1>2, <1>3, <1>6

\* It also keeps what it knows of a status, when none of its children ends.
LEMMA CodeKept ==
  ASSUME IInv, NEW q \in Procs, Alike(q), last'[q] = last[q],
         \A x \in Procs : ps[x].parent = q /\ ps'[x].pc = "zombie" =>
                            ps[x].pc = "zombie" /\ ps'[x].status = ps[x].status
  PROVE  Code(q)'
<1>1. Code(q) BY ProcTypes
<1>2. ASSUME ps[q].pc \in {"close", "wait"}
      PROVE  LET c == ps[q].kids[Len(ps[q].kids)] IN ps'[c].pc = "zombie" => ps'[c].status = last[q]
  BY <1>1, <1>2, LastIsUnwaited DEF Code
<1>3. QED BY <1>1, <1>2 DEF Code, Alike

-----------------------------------------------------------------------------
(***************************************************************************)
(* A step that changes one process, which lives on.                        *)
(***************************************************************************)

\* All others keep what they know.
LEMMA OthersKept ==
  ASSUME IInv, NEW p \in Procs, NEW r \in Proc, ps' = [ps EXCEPT ![p] = r],
         failed => failed', last' = last, Alive(p),
         r.parent = ps[p].parent, r.pc \notin {"free", "zombie", "gone"}
  PROVE  /\ ps' \in [Procs -> Proc] /\ ps'[p] = r
         /\ \A x \in Procs : ps'[x].parent = ps[x].parent
         /\ First'
         /\ \A q \in Procs \ {p} : Local(q)'
<1>1. ps \in [Procs -> Proc] BY ProcTypes
<1>2. ps' \in [Procs -> Proc] /\ ps'[p] = r /\ \A x \in Procs \ {p} : ps'[x] = ps[x] BY <1>1
<1>3. \A x \in Procs : ps'[x].parent = ps[x].parent BY <1>2
<1>4. First'
  <2>1. 1 \in Procs BY ProcTypes
  <2>2. First BY DEF IInv
  <2>3. QED BY <1>2, <1>3, <2>1, <2>2 DEF First
<1>5. ASSUME NEW q \in Procs \ {p} PROVE Local(q)'
  <2>1. Alike(q) BY <1>2, <1>5 DEF Alike
  <2>2. Place(q)' /\ Held(q)' /\ Family(q)' BY <1>3, <2>1, FamilyKept
  <2>3. \A x \in Procs : ps'[x].pc = "zombie" => ps'[x] = ps[x] BY <1>2
  <2>4. Code(q)' BY <2>1, <2>3, CodeKept
  <2>5. QED BY <2>2, <2>4 DEF Local
<1>6. QED BY <1>2, <1>3, <1>4, <1>5

\* Its own family, if it has no list of children after the step.
LEMMA ChildlessFamily ==
  ASSUME IInv, NEW p \in Procs, Alive(p), Alive(p)', ps'[p].kids = <<>>,
         \A x \in Procs : ps'[x].parent = ps[x].parent,
         ps'[p].pc \in {"child", "program", "said"} \/ ~failed' => \A x \in Procs : ps[x].parent # p
  PROVE  Family(p)'
<1>1. Family(p) BY ProcTypes
<1>2. Unwaited(p)' = {} BY DEF Unwaited
<1>3. QED BY <1>1, <1>2 DEF Family, Alive

\* The invariant after a step, from its parts.
LEMMA Assemble ==
  ASSUME ps' \in [Procs -> Proc], Shared', Given', First', \A p \in Procs : Local(p)'
  PROVE  IInv'
<1>1. ASSUME NEW p \in Procs PROVE Len(ps'[p].kids) <= Len(ps'[p].job)
  <2>1. ps'[p] \in Proc /\ Place(p)' BY DEF Local
  <2>2. Len(ps'[p].kids) \in Nat /\ Len(ps'[p].job) \in Nat BY <2>1, Fields, LineIsSeq, KidsDomain, SizeAssumption
  <2>3. ps'[p].idx \in 1 .. MaxCmds BY <2>1, Fields
  <2>4. CASE ps'[p].pc \notin Shells
    <3>1. Len(ps'[p].kids) = 0 BY <2>1, <2>4, EmptySeq DEF Place
    <3>2. QED BY <2>2, <3>1
  <2>5. CASE ps'[p].pc = "fork" BY <2>1, <2>2, <2>3, <2>5, SizeAssumption DEF Place, Shells
  <2>6. CASE ps'[p].pc \in {"close", "wait"} BY <2>1, <2>2, <2>6 DEF Place
  <2>7. QED BY <2>4, <2>5, <2>6 DEF Shells
<1>2. TypeOK' BY <1>1 DEF TypeOK, Shared
<1>3. QED BY <1>2 DEF IInv

LEMMA SharedHolds ==
  ASSUME IInv
  PROVE  Shared /\ Given /\ First
  BY DEF IInv, TypeOK, Shared

LEMMA WorldKept ==
  ASSUME Given, UNCHANGED world, last' \in [Procs -> 0 .. 255], times' = times
  PROVE  Given' /\ input' = input /\ kind' = kind
  BY DEF Given, world

LEMMA SharedKept ==
  ASSUME Shared, input' = input, UNCHANGED <<off, text>>, failed' \in BOOLEAN
  PROVE  Shared'
  BY DEF Shared

\* A shell whose list of children is empty has no children, while no fork() has failed.
LEMMA NoKids ==
  ASSUME IInv, NEW p \in Procs, ps[p].kids = <<>>, ~failed
  PROVE  \A x \in Procs : ps[x].parent # p
<1>1. ps[p] \in Proc /\ Family(p) BY ProcTypes
<1>2. DOMAIN ps[p].kids = 1 .. Len(ps[p].kids) BY <1>1, KidsDomain
<1>3. Len(ps[p].kids) = 0 BY EmptySeq
<1>4. Unwaited(p) = {} BY <1>2, <1>3 DEF Unwaited
<1>5. QED BY <1>1, <1>4 DEF Family

\* Back at the prompt.
LEMMA BackAtPrompt ==
  ASSUME IInv, NEW p \in Procs, Alive(p), ps'[p] = Back(ps[p]), last' = last,
         \A x \in Procs : ps'[x].parent = ps[x].parent,
         ps[p].code = last[p], ~failed' => \A x \in Procs : ps[x].parent # p
  PROVE  Local(p)'
<1>1. ps[p] \in Proc BY ProcTypes
<1>2. /\ ps'[p].pc = "prompt" /\ ps'[p].idx = 1 /\ ps'[p].kids = <<>> /\ ps'[p].fds = {}
      /\ ps'[p].code = ps[p].code
  BY <1>1, BackIsProc
<1>3. Place(p)' BY <1>2 DEF Place, Shells
<1>4. Held(p)' BY <1>2 DEF Held
<1>5. Alive(p)' BY <1>2 DEF Alive
<1>6. Family(p)' BY <1>2, <1>5, ChildlessFamily
<1>7. Code(p)' BY <1>2 DEF Code
<1>8. QED BY <1>3, <1>4, <1>6, <1>7 DEF Local

LEMMA MakePipesKeeps ==
  ASSUME IInv, NEW p \in Procs, MakePipes(p)
  PROVE  IInv'
<1> DEFINE r == [ps[p] EXCEPT !.pc = "fork", !.fds = Between(p, ps[p].job)]
<1>1. ps[p] \in Proc /\ ps \in [Procs -> Proc] /\ Place(p) /\ Held(p) /\ Code(p) BY ProcTypes
<1>2. r \in Proc BY <1>1 DEF Between, Proc
<1>3. /\ r.pc = "fork" /\ r.fds = Between(p, r.job) /\ r.job = ps[p].job /\ r.idx = ps[p].idx
      /\ r.parent = ps[p].parent /\ r.code = ps[p].code
  BY <1>1 DEF Proc
<1>4. r.kids = ps[p].kids BY <1>1 DEF Proc
<1>5. /\ ps[p].pc = "pipe" /\ UNCHANGED <<world, off, failed, times, last>> 
      /\ text' = [q \in Pipes |-> IF q[1] = p THEN <<>> ELSE text[q]]
      /\ ps' = [ps EXCEPT ![p] = r]
  BY <1>1 DEF MakePipes
<1> HIDE DEF r
<1>6. /\ ps' \in [Procs -> Proc] /\ ps'[p] = r /\ First' /\ \A q \in Procs \ {p} : Local(q)'
      /\ \A x \in Procs : ps'[x].parent = ps[x].parent
  BY <1>2, <1>3, <1>5, OthersKept DEF Alive
<1>7. r.kids = <<>> /\ r.idx = 1 /\ Len(r.job) > 1 BY <1>1, <1>3, <1>4, <1>5 DEF Place, Shells
<1>8. Place(p)'
  <2>1. Len(r.kids) = 0 BY <1>7, EmptySeq
  <2>2. Len(r.job) \in Nat BY <1>2, Fields, LineIsSeq, SizeAssumption
  <2>3. QED BY <1>3, <1>6, <1>7, <2>1, <2>2 DEF Place, Shells
<1>9. Held(p)' BY <1>3, <1>6 DEF Held, Between
<1>10. Family(p)'
  <2>1. Alive(p) /\ Alive(p)' BY <1>3, <1>5, <1>6 DEF Alive
  <2>2. ~failed => \A x \in Procs : ps[x].parent # p BY <1>4, <1>7, NoKids
  <2>3. QED BY <1>3, <1>5, <1>6, <1>7, <2>1, <2>2, ChildlessFamily
<1>11. Code(p)' BY <1>1, <1>3, <1>5, <1>6 DEF Code
<1>12. Given' /\ input' = input BY <1>5, SharedHolds, WorldKept, ProcTypes
<1>13. Shared'
  <2>1. Shared BY SharedHolds
  <2>2. <<>> \in Seq(Item) /\ Len(<<>>) = 0 BY EmptySeq
  <2>3. QED BY <1>5, <1>12, <2>1, <2>2, SizeAssumption DEF Shared
<1>14. QED BY <1>6, <1>8, <1>9, <1>10, <1>11, <1>12, <1>13, Assemble DEF Local

\* A line is given up or was a built-in command: PipeFails, HeadBuiltIn, ForkFails.
LEMMA ReturnKeeps ==
  ASSUME IInv, NEW p \in Procs, ps[p].pc \in {"pipe", "fork"}, ps' = [ps EXCEPT ![p] = Back(ps[p])],
         UNCHANGED <<world, off, text, times, last>>, failed' \in BOOLEAN, failed => failed',
         ps[p].kids = <<>> \/ failed'
  PROVE  IInv'
<1>1. ps[p] \in Proc /\ ps \in [Procs -> Proc] /\ Code(p) BY ProcTypes
<1>2. /\ Back(ps[p]) \in Proc /\ Back(ps[p]).parent = ps[p].parent
      /\ Back(ps[p]).pc = "prompt"
  BY <1>1, BackIsProc
<1>3. Alive(p) BY DEF Alive
<1>4. last' = last OBVIOUS
<1>5. /\ ps' \in [Procs -> Proc] /\ ps'[p] = Back(ps[p]) /\ First' /\ \A q \in Procs \ {p} : Local(q)'
      /\ \A x \in Procs : ps'[x].parent = ps[x].parent
  BY <1>2, <1>3, <1>4, OthersKept
<1>6. ps[p].code = last[p] BY <1>1 DEF Code
<1>7. ~failed' => \A x \in Procs : ps[x].parent # p BY NoKids
<1>8. Local(p)' BY <1>3, <1>4, <1>5, <1>6, <1>7, BackAtPrompt
<1>9. Given' /\ input' = input BY SharedHolds, WorldKept, ProcTypes
<1>10. Shared' BY <1>9, SharedHolds, SharedKept
<1>11. QED BY <1>5, <1>8, <1>9, <1>10, Assemble

LEMMA PipeFailsKeeps ==
  ASSUME IInv, NEW p \in Procs, PipeFails(p)
  PROVE  IInv'
<1>1. ps[p].pc = "pipe" /\ ps' = [ps EXCEPT ![p] = Back(ps[p])]
      /\ UNCHANGED <<world, off, text, failed, times, last>>
  BY DEF PipeFails
<1>2. ps[p].kids = <<>> BY <1>1, ProcTypes DEF Place, Shells
<1>3. failed \in BOOLEAN BY SharedHolds DEF Shared
<1>4. QED BY <1>1, <1>2, <1>3, ReturnKeeps

\* The first command of a line has no children before it.
LEMMA FirstHasNone ==
  ASSUME IInv, NEW p \in Procs, AtBuiltIn(p)
  PROVE  ps[p].pc = "fork" /\ ps[p].kids = <<>>
<1>1. ps[p] \in Proc /\ Place(p) BY ProcTypes
<1>2. ps[p].pc = "fork" /\ ps[p].idx = 1 BY DEF AtBuiltIn
<1>3. Len(ps[p].kids) = 0 BY <1>1, <1>2 DEF Place
<1>4. ps[p].kids \in Seq(Procs) BY <1>1, Fields
<1>5. ps[p].kids = <<>> BY <1>3, <1>4, EmptySeq
<1>6. QED BY <1>2, <1>5

LEMMA HeadBuiltInKeeps ==
  ASSUME IInv, NEW p \in Procs, HeadBuiltIn(p)
  PROVE  IInv'
<1>1. AtBuiltIn(p) /\ ps' = [ps EXCEPT ![p] = Back(ps[p])]
      /\ UNCHANGED <<world, off, text, failed, times, last>>
  BY DEF HeadBuiltIn
<1>2. ps[p].pc = "fork" /\ ps[p].kids = <<>> BY <1>1, FirstHasNone
<1>3. failed \in BOOLEAN BY SharedHolds DEF Shared
<1>4. QED BY <1>1, <1>2, <1>3, ReturnKeeps

LEMMA ForkFailsKeeps ==
  ASSUME IInv, NEW p \in Procs, ForkFails(p)
  PROVE  IInv'
<1>1. ps[p].pc = "fork" /\ ps' = [ps EXCEPT ![p] = Back(ps[p])] /\ failed' = TRUE
      /\ UNCHANGED <<world, off, text, times, last>>
  BY DEF ForkFails
<1>2. QED BY <1>1, ReturnKeeps

\* What read() returns is lines, and from the input no more than are left.
LEMMA AvailableIsLines ==
  ASSUME IInv, NEW p \in Procs
  PROVE  /\ Available(p) \in Seq(Item)
         /\ ps[p].in = Outside => Len(Available(p)) <= Len(input) - off
<1>1. ps[p] \in Proc /\ ps[p].in \in Pipes \cup {Outside} BY ProcTypes, Fields
<1>2. text \in [Pipes -> Seq(Item)] /\ off \in 0 .. Len(input) /\ input \in Seq(CmdLines)
  BY SharedHolds DEF Shared, Given
<1>3. CASE ps[p].in # Outside BY <1>1, <1>2, <1>3 DEF Available
<1>4. CASE ps[p].in = Outside
  <2> DEFINE most == IF kind = "tty" THEN 1 ELSE Block
             rest == Len(input) - off
             n == IF rest < most THEN rest ELSE most
  <2>1. Len(input) \in Nat /\ \A i \in 1 .. Len(input) : input[i] \in CmdLines
    BY <1>2, LenProperties, ElementOfSeq
  <2>2. n \in Nat /\ n <= rest /\ rest \in Nat /\ off \in Nat BY <1>2, <2>1, SizeAssumption
  <2>3. Available(p) = [i \in 1 .. n |-> [n |-> off + i, cmds |-> input[off + i]]]
    BY <1>4 DEF Available
  <2> HIDE DEF n
  <2>4. ASSUME NEW i \in 1 .. n PROVE [n |-> off + i, cmds |-> input[off + i]] \in Item
    <3>1. off + i \in 1 .. Len(input) BY <2>1, <2>2
    <3>2. QED BY <2>1, <3>1 DEF Item
  <2>5. Available(p) \in [1 .. n -> Item] BY <2>3, <2>4
  <2>6. Available(p) \in Seq(Item) /\ Len(Available(p)) = n BY <2>2, <2>5
  <2>7. QED BY <2>2, <2>6
<1>5. QED BY <1>3, <1>4

\* A line of one command has no pipes.
LEMMA OneHasNoPipes ==
  ASSUME NEW p, NEW job, Len(job) = 1
  PROVE  Between(p, job) = {}
<1>1. ASSUME NEW e \in Ends, e[1][2] < 1 PROVE FALSE
  <2>1. e[1][2] \in 1 .. MaxCmds - 1 BY DEF Ends, Pipes
  <2>2. QED BY <1>1, <2>1, SizeAssumption
<1>2. QED BY <1>1 DEF Between

LEMMA ReadLineKeeps ==
  ASSUME IInv, NEW p \in Procs, ReadLine(p)
  PROVE  IInv'
<1> DEFINE fresh == ps[p].inbuf = <<>>
           got   == IF fresh THEN Available(p) ELSE ps[p].inbuf
           cmds  == Head(got).cmds
           n     == Head(got).n
           to    == CASE Len(cmds) = 0 -> "prompt" [] Len(cmds) = 1 -> "fork" [] OTHER -> "pipe"
           r     == [ps[p] EXCEPT !.inbuf = Tail(got), !.job = cmds, !.pc = to]
<1>1. /\ ps[p] \in Proc /\ ps \in [Procs -> Proc] /\ Place(p) /\ Held(p) /\ Code(p)
      /\ Shared /\ Given
  BY ProcTypes, SharedHolds
<1>2. /\ ps[p].pc = "prompt" /\ got # <<>> /\ ps' = [ps EXCEPT ![p] = r]
      /\ times' = IF n = 0 \/ times[n] = 2 THEN times ELSE [times EXCEPT ![n] = @ + 1]
      /\ off' = IF fresh /\ ps[p].in = Outside THEN off + Len(got) ELSE off
      /\ text' = IF fresh /\ ps[p].in # Outside THEN [text EXCEPT ![ps[p].in] = <<>>] ELSE text
      /\ UNCHANGED <<world, failed, last>>
  <2>1. /\ ps[p].pc = "prompt" /\ got # <<>>
        /\ ps' = [ps EXCEPT ![p].inbuf = Tail(got), ![p].job = cmds, ![p].pc = to]
        /\ times' = IF n = 0 \/ times[n] = 2 THEN times ELSE [times EXCEPT ![n] = @ + 1]
        /\ off' = IF fresh /\ ps[p].in = Outside THEN off + Len(got) ELSE off
        /\ text' = IF fresh /\ ps[p].in # Outside THEN [text EXCEPT ![ps[p].in] = <<>>] ELSE text
        /\ UNCHANGED <<world, failed, last>>
    BY Zenon DEF ReadLine
  <2> HIDE DEF cmds, got, to
  <2>2. ps' = [ps EXCEPT ![p] = r] BY <1>1, <2>1
  <2>3. QED BY <2>1, <2>2
<1>3. got \in Seq(Item) /\ (fresh /\ ps[p].in = Outside => Len(got) <= Len(input) - off)
  BY <1>1, AvailableIsLines, Fields
<1>4. Head(got) \in Item /\ Tail(got) \in Seq(Item) BY <1>2, <1>3, HeadTailProperties
<1>5. cmds \in CmdLines BY <1>4 DEF Item
<1> HIDE DEF cmds, n, got
<1>6. to \in {"prompt", "fork", "pipe"} OBVIOUS
<1>7. r \in Proc BY <1>1, <1>4, <1>5, <1>6 DEF Proc
<1>8. r.pc = to /\ r.job = cmds /\ r.idx = ps[p].idx /\ r.parent = ps[p].parent /\ r.code = ps[p].code
  BY <1>1 DEF Proc
<1>9. r.kids = ps[p].kids /\ r.fds = ps[p].fds BY <1>1 DEF Proc
<1> HIDE DEF r
<1>10. Alive(p) /\ r.pc \notin {"free", "zombie", "gone"} BY <1>2, <1>6, <1>8 DEF Alive
<1>11. /\ ps' \in [Procs -> Proc] /\ ps'[p] = r /\ First' /\ \A q \in Procs \ {p} : Local(q)'
       /\ \A x \in Procs : ps'[x].parent = ps[x].parent
  BY <1>2, <1>7, <1>8, <1>10, OthersKept
<1>12. r.kids = <<>> /\ r.idx = 1 /\ r.fds = {} BY <1>1, <1>2, <1>8, <1>9 DEF Place, Held, Shells
<1>13. Len(cmds) \in Nat BY <1>5, LineIsSeq, SizeAssumption
<1>14. Place(p)'
  <2>1. Len(r.kids) = 0 BY <1>12, EmptySeq
  <2>2. to = "fork" => Len(cmds) = 1 OBVIOUS
  <2>3. to = "pipe" => Len(cmds) > 1
    <3>1. Len(cmds) = 0 => to = "prompt" OBVIOUS
    <3>2. Len(cmds) = 1 => to = "fork" OBVIOUS
    <3>3. Len(cmds) = 0 \/ Len(cmds) = 1 \/ Len(cmds) > 1 BY <1>5, LineLength
    <3> HIDE DEF to
    <3>4. QED BY <3>1, <3>2, <3>3
  <2> HIDE DEF to
  <2>4. ps'[p].pc = to /\ ps'[p].kids = <<>> /\ ps'[p].idx = 1 /\ ps'[p].job = cmds
        /\ Len(ps'[p].kids) = 0
    BY <1>8, <1>11, <1>12, <2>1
  <2>5. to = "fork" => 1 <= Len(cmds) BY <2>2
  <2>6. QED BY <1>6, <2>3, <2>4, <2>5 DEF Place, Shells
<1>15. Held(p)'
  <2>1. to = "fork" => Len(cmds) = 1 OBVIOUS
  <2>2. to = "fork" => Between(p, cmds) = {} BY <2>1, OneHasNoPipes
  <2>3. Between(p, cmds)' = Between(p, cmds') BY DEF Between
  <2>4. Between(p, ps[p].job)' = Between(p, r.job) BY <1>11 DEF Between
  <2>5. QED BY <1>6, <1>8, <1>11, <1>12, <2>2, <2>4 DEF Held
<1>16. Family(p)'
  <2>1. Alive(p)' BY <1>10, <1>11 DEF Alive
  <2>2. ~failed => \A x \in Procs : ps[x].parent # p BY <1>9, <1>12, NoKids
  <2>3. r.pc \notin {"child", "program", "said"} BY <1>6, <1>8
  <2>4. QED BY <1>2, <1>10, <1>11, <1>12, <2>1, <2>2, <2>3, ChildlessFamily
<1>17. Code(p)' BY <1>1, <1>2, <1>6, <1>8, <1>11 DEF Code
<1>18. times' \in [1 .. Len(input) -> 0 .. 2]
  <2>1. times \in [1 .. Len(input) -> 0 .. 2] BY <1>1 DEF Given
  <2>2. n \in 1 .. Len(input) => times[n] \in 0 .. 2 BY <2>1
  <2>3. n \in 1 .. Len(input) /\ times[n] # 2 => times[n] + 1 \in 0 .. 2 BY <2>2
  <2>4. QED BY <1>2, <2>1, <2>3
<1>19. Given' /\ input' = input BY <1>1, <1>2, <1>18 DEF Given, world
<1>20. Shared'
  <2>1. Len(got) \in Nat BY <1>3, LenProperties
  <2>2. input \in Seq(CmdLines) BY <1>1 DEF Given
  <2>3. Len(input) \in Nat BY <2>2, LenProperties
  <2>4. off' \in 0 .. Len(input) BY <1>1, <1>2, <1>3, <2>1, <2>3 DEF Shared
  <2>5. <<>> \in Seq(Item) /\ Len(<<>>) = 0 BY EmptySeq
  <2>6. ps[p].in # Outside => ps[p].in \in Pipes BY <1>1, Fields
  <2>7. /\ text' \in [Pipes -> Seq(Item)]
        /\ \A q \in Pipes : text'[q] = text[q] \/ text'[q] = <<>>
    BY <1>1, <1>2, <2>5, <2>6 DEF Shared
  <2>8. \A q \in Pipes : Len(text'[q]) <= MaxText
    BY <1>1, <2>5, <2>7, SizeAssumption DEF Shared
  <2>9. QED BY <1>1, <1>2, <1>19, <2>4, <2>7, <2>8 DEF Shared
<1>21. QED BY <1>11, <1>14, <1>15, <1>16, <1>17, <1>19, <1>20, Assemble DEF Local

LEMMA CloseKeeps ==
  ASSUME IInv, NEW p \in Procs, Close(p)
  PROVE  IInv'
<1> DEFINE r == [ps[p] EXCEPT !.pc = "wait", !.fds = {}]
<1>1. ps[p] \in Proc /\ ps \in [Procs -> Proc] /\ Place(p) /\ Family(p) /\ Code(p) BY ProcTypes
<1>2. /\ ps[p].pc = "close" /\ UNCHANGED <<world, off, text, failed, times, last>>
      /\ ps' = [ps EXCEPT ![p] = r]
  BY <1>1 DEF Close
<1>3. r \in Proc BY <1>1 DEF Proc
<1>4. /\ r.pc = "wait" /\ r.fds = {} /\ r.job = ps[p].job /\ r.idx = ps[p].idx
      /\ r.parent = ps[p].parent
  BY <1>1 DEF Proc
<1>5. r.kids = ps[p].kids BY <1>1 DEF Proc
<1> HIDE DEF r
<1>6. Alive(p) BY <1>2 DEF Alive
<1>7. /\ ps' \in [Procs -> Proc] /\ ps'[p] = r /\ First' /\ \A q \in Procs \ {p} : Local(q)'
      /\ \A x \in Procs : ps'[x].parent = ps[x].parent
  BY <1>2, <1>3, <1>4, <1>6, OthersKept
<1>8. Place(p)' BY <1>1, <1>2, <1>4, <1>5, <1>7 DEF Place, Shells
<1>9. Held(p)' BY <1>4, <1>7 DEF Held
<1>10. Family(p)'
  <2>1. DOMAIN ps[p].kids = 1 .. Len(ps[p].kids) BY <1>1, KidsDomain
  <2>2. Unwaited(p) = DOMAIN ps[p].kids BY <1>2 DEF Unwaited
  <2>3. ps[p].idx = 1 BY <1>1, <1>2 DEF Place
  <2>4. Unwaited(p)' = Unwaited(p)
    BY <1>4, <1>5, <1>7, <2>1, <2>2, <2>3 DEF Unwaited
  <2>5. \A i \in Unwaited(p) : ps[p].kids[i] \in Procs BY <1>1, <2>2, KidsDomain
  <2>6. QED BY <1>1, <1>2, <1>4, <1>5, <1>7, <2>4, <2>5 DEF Family
<1>11. Code(p)'
  <2>1. ps[p].kids[Len(ps[p].kids)] \in Procs \ {p}
    BY <1>1, <1>2, LastIsUnwaited DEF Family
  <2>2. ps'[ps[p].kids[Len(ps[p].kids)]] = ps[ps[p].kids[Len(ps[p].kids)]] BY <1>1, <1>2, <2>1
  <2>3. QED BY <1>1, <1>2, <1>4, <1>5, <1>7, <2>2 DEF Code
<1>12. Given' /\ input' = input BY <1>2, SharedHolds, WorldKept, ProcTypes
<1>13. Shared' BY <1>2, <1>12, SharedHolds, SharedKept DEF Shared
<1>14. QED BY <1>7, <1>8, <1>9, <1>10, <1>11, <1>12, <1>13, Assemble DEF Local

-----------------------------------------------------------------------------
\* A child becomes a program or, when execve() fails in a pipeline, a shell.
LEMMA BecomesKeeps ==
  ASSUME IInv, NEW c \in Procs, ps[c].pc \in {"child", "program"}, NEW r \in Proc,
         ps' = [ps EXCEPT ![c] = r], UNCHANGED <<world, off, failed, times, last>>,
         text' \in [Pipes -> Seq(Item)], \A q \in Pipes : Len(text'[q]) <= MaxText,
         r.pc \in {"prompt", "program", "said"}, r.kids = <<>>, r.fds = {}, r.pc = "prompt" => r.idx = 1,
         r.parent = ps[c].parent, r.pc = "prompt" => ps[c].pc = "child" /\ r.code = ps[c].code
  PROVE  IInv'
<1>1. Alive(c) /\ last' = last BY DEF Alive
<1>2. /\ ps' \in [Procs -> Proc] /\ ps'[c] = r /\ First' /\ \A q \in Procs \ {c} : Local(q)'
      /\ \A x \in Procs : ps'[x].parent = ps[x].parent
  BY <1>1, OthersKept
<1>3. Place(c)' BY <1>2 DEF Place, Shells
<1>4. Held(c)' BY <1>2 DEF Held
<1>5. Family(c)'
  <2>1. Alive(c)' BY <1>2 DEF Alive
  <2>2. \A x \in Procs : ps[x].parent # c BY ProcTypes DEF Family
  <2>3. QED BY <1>1, <1>2, <2>1, <2>2, ChildlessFamily
<1>6. Code(c)'
  <2>1. ps[c].pc = "child" => ps[c].code = last[c] BY ProcTypes DEF Code
  <2>2. QED BY <1>1, <1>2, <2>1 DEF Code
<1>7. Given' /\ input' = input BY SharedHolds, WorldKept, ProcTypes
<1>8. Shared' BY <1>7, SharedHolds DEF Shared
<1>9. QED BY <1>2, <1>3, <1>4, <1>5, <1>6, <1>7, <1>8, Assemble DEF Local

\* A line is put into a pipe that has room for it.
LEMMA TextGrows ==
  ASSUME Shared, NEW q \in Pipes, Len(text[q]) < MaxText, NEW l \in CmdLines,
         text' = [text EXCEPT ![q] = Append(@, [n |-> 0, cmds |-> l])]
  PROVE  text' \in [Pipes -> Seq(Item)] /\ \A x \in Pipes : Len(text'[x]) <= MaxText
<1>1. text \in [Pipes -> Seq(Item)] /\ \A x \in Pipes : Len(text[x]) <= MaxText BY DEF Shared
<1>2. [n |-> 0, cmds |-> l] \in Item BY DEF Item
<1>3. /\ Append(text[q], [n |-> 0, cmds |-> l]) \in Seq(Item)
      /\ Len(Append(text[q], [n |-> 0, cmds |-> l])) = Len(text[q]) + 1
  BY <1>1, <1>2, AppendProperties
<1>4. Len(text[q]) \in Nat BY <1>1, LenProperties
<1>5. text' \in [Pipes -> Seq(Item)] BY <1>1, <1>3
<1>6. ASSUME NEW x \in Pipes PROVE Len(text'[x]) <= MaxText
  <2>1. CASE x = q BY <1>1, <1>3, <1>4, <2>1, SizeAssumption
  <2>2. CASE x # q BY <1>1, <2>2
  <2>3. QED BY <2>1, <2>2
<1>7. QED BY <1>5, <1>6

LEMMA SpeakKeeps ==
  ASSUME IInv, NEW p \in Procs, Speak(p)
  PROVE  IInv'
<1> DEFINE r == [ps[p] EXCEPT !.pc = "said"]
<1>1. ps[p] \in Proc /\ ps \in [Procs -> Proc] /\ Place(p) /\ Held(p) BY ProcTypes
<1>2. PICK l \in Echo : text' = [text EXCEPT ![ps[p].out] = Append(@, [n |-> 0, cmds |-> l])]
  BY DEF Speak
<1>3. /\ ps[p].pc = "program" /\ ps[p].out # Outside /\ Len(text[ps[p].out]) < MaxText
      /\ ps' = [ps EXCEPT ![p] = r] /\ UNCHANGED <<world, off, failed, times, last>>
  BY <1>1 DEF Speak
<1>4. r \in Proc BY <1>1 DEF Proc
<1>5. /\ r.pc = "said" /\ r.kids = ps[p].kids /\ r.parent = ps[p].parent BY <1>1 DEF Proc
<1>6. r.fds = ps[p].fds /\ r.idx = ps[p].idx BY <1>1 DEF Proc
<1> HIDE DEF r
<1>7. r.kids = <<>> /\ r.fds = {} BY <1>1, <1>3, <1>5, <1>6 DEF Place, Held, Shells
<1>8. ps[p].out \in Pipes BY <1>1, <1>3, Fields
<1>9. l \in CmdLines BY ScriptsAssumption
<1>10. text' \in [Pipes -> Seq(Item)] /\ \A q \in Pipes : Len(text'[q]) <= MaxText
  BY <1>2, <1>3, <1>8, <1>9, SharedHolds, TextGrows
<1>11. QED BY <1>3, <1>4, <1>5, <1>7, <1>10, BecomesKeeps

\* What is left of a shell when its process becomes a program.
LEMMA ProgramIsProc ==
  ASSUME NEW r \in Proc
  PROVE  /\ Program(r) \in Proc
         /\ Program(r).pc = "program" /\ Program(r).kids = <<>> /\ Program(r).fds = {}
         /\ Program(r).parent = r.parent
<1>1. Back(r) \in Proc /\ <<>> \in Seq(Item) BY BackIsProc, EmptySeq
<1>2. Program(r) \in Proc BY <1>1 DEF Program, Proc
<1>3. Program(r).pc = "program" /\ Program(r).parent = Back(r).parent BY <1>1 DEF Program, Proc
<1>4. Program(r).kids = Back(r).kids BY <1>1 DEF Program, Proc
<1>5. Program(r).fds = Back(r).fds BY <1>1 DEF Program, Proc
<1>6. QED BY <1>2, <1>3, <1>4, <1>5, BackIsProc

-----------------------------------------------------------------------------
(***************************************************************************)
(* A process ends: exit() in a shell or in one of its copies, or the end   *)
(* of a program.                                                           *)
(***************************************************************************)

\* A process that loses its parent.
LEMMA OrphanIsProc ==
  ASSUME NEW r \in Proc
  PROVE  LET q == [r EXCEPT !.parent = 0]
         IN  /\ q \in Proc /\ q.pc = r.pc /\ q.kids = r.kids /\ q.fds = r.fds /\ q.job = r.job
             /\ q.idx = r.idx /\ q.parent = 0 /\ q.code = r.code
<1> DEFINE q == [r EXCEPT !.parent = 0]
<1>1. q \in Proc
  <2>1. 0 \in 0 .. MaxProcs BY SizeAssumption
  <2>2. QED BY <2>1 DEF Proc
<1>2. q.pc = r.pc /\ q.idx = r.idx /\ q.parent = 0 /\ q.code = r.code BY DEF Proc
<1>3. q.kids = r.kids BY DEF Proc
<1>4. q.fds = r.fds BY DEF Proc
<1>5. q.job = r.job BY DEF Proc
<1>6. QED BY <1>1, <1>2, <1>3, <1>4, <1>5

LEMMA GoneIsProc ==
  LET q == [Free EXCEPT !.pc = "gone"]
  IN  q \in Proc /\ q.pc = "gone" /\ q.kids = <<>> /\ q.fds = {} /\ q.parent = 0
<1> DEFINE q == [Free EXCEPT !.pc = "gone"]
<1>1. q \in Proc BY FreeIsProc DEF Proc
<1>2. q.pc = "gone" /\ q.kids = <<>> /\ q.fds = {} /\ q.parent = 0 BY DEF Free
<1>3. QED BY <1>1, <1>2

\* What is left of the process that ends.
LEMMA EndedSelf ==
  ASSUME IInv, NEW p \in Procs, NEW s \in 0 .. 255, ps' = Ended(p, s)
  PROVE  /\ ps'[p] \in Proc /\ ps'[p].kids = <<>> /\ ps'[p].fds = {}
         /\ \/ /\ p = 1 /\ ps[p].parent = 0
               /\ ps'[p].pc = "gone" /\ ps'[p].parent = 0
            \/ /\ p # 1 /\ ps[p].parent = 0
               /\ ps'[p].pc = "free" /\ ps'[p].parent = 0
            \/ /\ p # 1 /\ ps[p].parent # 0
               /\ ps'[p].pc = "zombie" /\ ps'[p].parent = ps[p].parent /\ ps'[p].status = s
<1>1. ps[p] \in Proc /\ ps[p].parent \in 0 .. MaxProcs BY ProcTypes, Fields
<1>2. CASE p = 1
  <2>1. ps'[p] = [Free EXCEPT !.pc = "gone"] BY <1>2 DEF Ended
  <2>2. ps[p].parent = 0 BY <1>2, SharedHolds DEF First
  <2>3. QED BY <1>2, <2>1, <2>2, GoneIsProc
<1>3. CASE p # 1 /\ ps[p].parent = 0
  <2>1. ps'[p] = Free BY <1>3 DEF Ended
  <2>2. QED BY <1>3, <2>1, FreeIsProc DEF Free
<1>4. CASE p # 1 /\ ps[p].parent # 0
  <2>1. ps'[p] = [Free EXCEPT !.pc = "zombie", !.parent = ps[p].parent, !.status = s]
    BY <1>4 DEF Ended
  <2>2. ps'[p] \in Proc
    <3> DEFINE r == ps[p].parent
    <3>1. r \in 0 .. MaxProcs BY <1>1
    <3>2. ps'[p] = [Free EXCEPT !.pc = "zombie", !.parent = r, !.status = s] BY <2>1
    <3> HIDE DEF r
    <3>3. [Free EXCEPT !.pc = "zombie", !.parent = r, !.status = s] \in Proc
      BY <3>1, FreeIsProc DEF Proc
    <3>4. QED BY <3>2, <3>3
  <2>3. /\ ps'[p].pc = "zombie" /\ ps'[p].kids = <<>> /\ ps'[p].fds = {}
        /\ ps'[p].parent = ps[p].parent /\ ps'[p].status = s
    BY <2>1 DEF Free
  <2>4. QED BY <1>4, <2>2, <2>3
<1>5. QED BY <1>2, <1>3, <1>4

\* The others: a zombie child is gone, other children lose their parent.
LEMMA EndedOther ==
  ASSUME IInv, NEW p \in Procs, NEW s \in 0 .. 255, ps' = Ended(p, s), NEW q \in Procs \ {p}
  PROVE  /\ ps'[q] \in Proc
         /\ ps[q].parent # p => ps'[q] = ps[q]
         /\ ps[q].parent = p => ps'[q].parent = 0
         /\ ps[q].parent = p /\ ps[q].pc = "zombie" => ps'[q] = Free
         /\ ~(ps[q].parent = p /\ ps[q].pc = "zombie") => Alike(q)
<1>1. ps[q] \in Proc BY ProcTypes
<1>2. CASE ps[q].parent # p
  <2>1. ps'[q] = ps[q] BY <1>2 DEF Ended
  <2>2. QED BY <1>1, <1>2, <2>1 DEF Alike
<1>3. CASE ps[q].parent = p /\ ps[q].pc = "zombie"
  <2>1. ps'[q] = Free BY <1>3 DEF Ended
  <2>2. QED BY <1>3, <2>1, FreeIsProc DEF Free
<1>4. CASE ps[q].parent = p /\ ps[q].pc # "zombie"
  <2>1. ps'[q] = [ps[q] EXCEPT !.parent = 0] BY <1>4 DEF Ended
  <2>2. QED BY <1>1, <1>4, <2>1, OrphanIsProc DEF Alike
<1>5. QED BY <1>2, <1>3, <1>4

\* The family of everybody after p has ended.
LEMMA EndedFamily ==
  ASSUME IInv, NEW p \in Procs, NEW s \in 0 .. 255, ps' = Ended(p, s), failed' = failed
  PROVE  /\ ps' \in [Procs -> Proc]
         /\ First'
         /\ \A q \in Procs : Place(q)' /\ Held(q)' /\ Family(q)'
<1>1. ps[p].parent # p /\ Procs \subseteq Nat \ {0} /\ 1 \in Procs /\ p # 0
  BY ProcTypes DEF Family
<1>2. ps' \in [Procs -> Proc]
  <2>1. \A q \in Procs : ps'[q] \in Proc BY EndedSelf, EndedOther
  <2>2. DOMAIN ps' = Procs /\ ps' = [q \in Procs |-> ps'[q]] BY DEF Ended
  <2>3. QED BY <2>1, <2>2
<1>3. \A x \in Procs : ps'[x].parent # p
  <2>1. ASSUME NEW x \in Procs \ {p} PROVE ps'[x].parent # p
    <3>1. CASE ps[x].parent = p BY <1>1, <3>1, EndedOther
    <3>2. CASE ps[x].parent # p BY <3>2, EndedOther
    <3>3. QED BY <3>1, <3>2
  <2>2. ps'[p].parent # p BY <1>1, EndedSelf
  <2>3. QED BY <2>1, <2>2
<1>4. ASSUME NEW x \in Procs, NEW q \in Procs \ {p} PROVE ps'[x].parent = q <=> ps[x].parent = q
  <2>1. q # 0 BY <1>1
  <2>2. CASE x = p BY <2>1, <2>2, EndedSelf
  <2>3. CASE x # p /\ ps[x].parent = p BY <2>1, <2>3, EndedOther
  <2>4. CASE x # p /\ ps[x].parent # p BY <2>4, EndedOther
  <2>5. QED BY <2>2, <2>3, <2>4
<1>5. Place(p)' /\ Held(p)' /\ Family(p)'
  <2>1. /\ ps'[p].kids = <<>> /\ ps'[p].fds = {} /\ ps'[p].pc \in {"gone", "free", "zombie"}
        /\ ps'[p].pc = "zombie" => ps'[p].parent # 0
        /\ ps'[p].pc # "zombie" => ps'[p].parent = 0
    BY EndedSelf
  <2>2. Place(p)' /\ Held(p)' BY <2>1 DEF Place, Held, Shells
  <2>3. Unwaited(p)' = {} BY <2>1 DEF Unwaited
  <2>4. Family(p)' BY <1>3, <2>1, <2>3 DEF Family
  <2>5. QED BY <2>2, <2>4
<1>6. ASSUME NEW q \in Procs \ {p} PROVE Place(q)' /\ Held(q)' /\ Family(q)'
  <2>1. CASE ps[q].parent = p /\ ps[q].pc = "zombie"
    <3>1. ps'[q] = Free BY <2>1, EndedOther
    <3>2. ps'[q].pc = "free" /\ ps'[q].kids = <<>> /\ ps'[q].fds = {} /\ ps'[q].parent = 0
      BY <3>1 DEF Free
    <3>3. Place(q)' /\ Held(q)' BY <3>2 DEF Place, Held, Shells
    <3>4. \A x \in Procs : ps'[x].parent # q BY <1>4, <2>1, ProcTypes DEF Family
    <3>5. Unwaited(q)' = {} BY <3>2 DEF Unwaited
    <3>6. q # 0 BY <1>1
    <3>7. Family(q)' BY <3>2, <3>4, <3>5, <3>6 DEF Family
    <3>8. QED BY <3>3, <3>7
  <2>2. CASE ~(ps[q].parent = p /\ ps[q].pc = "zombie")
    <3>1. Alike(q) BY <2>2, EndedOther
    <3>2. QED BY <1>4, <3>1, FamilyKept
  <2>3. QED BY <2>1, <2>2
<1>7. First'
  <2>1. CASE p = 1 BY <2>1, EndedSelf DEF First
  <2>2. CASE p # 1
    <3>1. First /\ 1 \in Procs \ {p} BY <1>1, <2>2, SharedHolds
    <3>2. ps[1].parent # p BY <1>1, <3>1 DEF First
    <3>3. ps'[1] = ps[1] BY <3>1, <3>2, EndedOther
    <3>4. QED BY <3>1, <3>3 DEF First
  <2>3. QED BY <2>1, <2>2
<1>8. QED BY <1>2, <1>5, <1>6, <1>7

\* Only a shell that has started all its commands notes a status: those before
\* that keep the one they have.
LEMMA NotedElsewhere ==
  ASSUME IInv, NEW p \in Procs, NEW s \in 0 .. 255, last' = Noted(p, s), NEW q \in Procs
  PROVE  /\ last' \in [Procs -> 0 .. 255]
         /\ ps[q].pc \in {"prompt", "pipe", "fork", "child"} => last'[q] = last[q]
         /\ ps[q].pc \in {"close", "wait"} =>
              last'[q] = IF ps[q].kids[Len(ps[q].kids)] = p THEN s ELSE last[q]
<1> DEFINE r == ps[p].parent
           notes == /\ r # 0 /\ ps[r].kids # <<>> /\ Len(ps[r].kids) = Len(ps[r].job)
                    /\ p = ps[r].kids[Len(ps[r].kids)]
<1>1. /\ last \in [Procs -> 0 .. 255] /\ ps[q] \in Proc /\ Place(q) /\ q # 0
      /\ ps[p].parent \in 0 .. MaxProcs
  BY ProcTypes, Fields
<1>2. last' = IF notes THEN [last EXCEPT ![r] = s] ELSE last BY DEF Noted
<1>3. last' \in [Procs -> 0 .. 255]
  <2> HIDE DEF notes, r
  <2>1. CASE notes BY <1>1, <1>2, <2>1
  <2>2. CASE ~notes BY <1>1, <1>2, <2>2
  <2>3. QED BY <2>1, <2>2
<1>4. ASSUME ps[q].pc \in {"prompt", "pipe", "fork", "child"} PROVE last'[q] = last[q]
  <2>1. CASE ps[q].pc = "fork"
    <3>1. /\ Len(ps[q].kids) = ps[q].idx - 1 /\ ps[q].idx <= Len(ps[q].job)
          /\ ps[q].idx \in 1 .. MaxCmds /\ ps[q].job \in CmdLines
      BY <1>1, <2>1, Fields DEF Place, Shells
    <3>2. Len(ps[q].job) \in Nat BY <3>1, LineIsSeq, SizeAssumption
    <3>3. Len(ps[q].kids) # Len(ps[q].job) BY <3>1, <3>2, SizeAssumption
    <3>4. QED BY <1>1, <1>2, <3>3
  <2>2. CASE ps[q].pc # "fork"
    <3>1. ps[q].kids = <<>> BY <1>1, <1>4, <2>2 DEF Place, Shells
    <3>2. QED BY <1>1, <1>2, <3>1
  <2>3. QED BY <2>1, <2>2
<1>5. ASSUME ps[q].pc \in {"close", "wait"}
      PROVE  last'[q] = IF ps[q].kids[Len(ps[q].kids)] = p THEN s ELSE last[q]
  <2>1. /\ Len(ps[q].kids) = Len(ps[q].job) /\ Len(ps[q].kids) # 0
        /\ ps[ps[q].kids[Len(ps[q].kids)]].parent = q
    BY <1>5, LastIsUnwaited
  <2>2. ps[q].kids # <<>> BY <2>1, EmptySeq
  <2>3. QED BY <1>1, <1>2, <2>1, <2>2
<1>6. QED BY <1>3, <1>4, <1>5

\* The statuses after p has ended.
LEMMA EndedCode ==
  ASSUME IInv, NEW p \in Procs, NEW s \in 0 .. 255, ps' = Ended(p, s), last' = Noted(p, s),
         NEW q \in Procs
  PROVE  Code(q)'
<1>1. CASE q = p \/ (ps[q].parent = p /\ ps[q].pc = "zombie")
  <2>1. q = p => ps'[q].pc \in {"gone", "free", "zombie"} BY EndedSelf
  <2>2. q # p => ps'[q] = Free BY <1>1, EndedOther
  <2>3. Free.pc = "free" BY DEF Free
  <2>4. QED BY <2>1, <2>2, <2>3 DEF Code
<1>2. CASE q # p /\ ~(ps[q].parent = p /\ ps[q].pc = "zombie")
  <2>1. Alike(q) /\ Code(q) BY <1>2, EndedOther, ProcTypes
  <2>2. ASSUME ps[q].pc \in {"prompt", "pipe", "fork", "child"} PROVE ps'[q].code = last'[q]
    BY <2>1, <2>2, NotedElsewhere DEF Alike, Code
  <2>3. ASSUME ps[q].pc \in {"close", "wait"}
        PROVE  LET c == ps[q].kids[Len(ps[q].kids)] IN ps'[c].pc = "zombie" => ps'[c].status = last'[q]
    <3> DEFINE c == ps[q].kids[Len(ps[q].kids)]
    <3>1. c \in Procs /\ ps[c].parent = q BY <2>3, LastIsUnwaited
    <3>2. last'[q] = IF c = p THEN s ELSE last[q] BY <2>3, NotedElsewhere
    <3>3. CASE c = p
      <4>1. ps'[p].pc = "zombie" => ps'[p].status = s BY EndedSelf
      <4>2. QED BY <3>2, <3>3, <4>1
    <3>4. CASE c # p
      <4>1. ps'[c] = ps[c] BY <1>2, <3>1, <3>4, EndedOther
      <4>2. QED BY <2>1, <2>3, <3>2, <3>4, <4>1 DEF Code
    <3>5. QED BY <3>3, <3>4
  <2>4. QED BY <2>1, <2>2, <2>3 DEF Code, Alike
<1>3. QED BY <1>1, <1>2

LEMMA EndedKeeps ==
  ASSUME IInv, NEW p \in Procs, NEW s \in 0 .. 255, ps' = Ended(p, s), last' = Noted(p, s),
         UNCHANGED <<world, failed, times>>, Shared'
  PROVE  IInv'
<1>1. /\ ps' \in [Procs -> Proc] /\ First'
      /\ \A q \in Procs : Place(q)' /\ Held(q)' /\ Family(q)'
  BY EndedFamily
<1>2. \A q \in Procs : Code(q)' BY EndedCode
<1>3. last' \in [Procs -> 0 .. 255] BY NotedElsewhere
<1>4. Given' BY <1>3, SharedHolds, WorldKept
<1>5. QED BY <1>1, <1>2, <1>4, Assemble DEF Local

\* The end of a process that changes nothing but the processes.
LEMMA EndsInPlace ==
  ASSUME IInv, NEW p \in Procs, NEW s \in 0 .. 255, ps' = Ended(p, s), last' = Noted(p, s),
         UNCHANGED <<world, off, text, failed, times>>
  PROVE  IInv'
<1>1. Shared' BY SharedHolds DEF Shared, world
<1>2. QED BY <1>1, EndedKeeps

LEMMA KilledKeeps ==
  ASSUME IInv, NEW p \in Procs, NEW in, Killed(p, in)
  PROVE  IInv'
<1>1. /\ ps' = Ended(p, 0) /\ last' = Noted(p, 0)
      /\ UNCHANGED <<world, off, text, failed, times>>
  BY DEF Killed
<1>2. 0 \in 0 .. 255 OBVIOUS
<1>3. QED BY <1>1, <1>2, EndsInPlace

\* What exit() gives back stays inside of the input, what it writes in the pipe.
LEMMA ExitKeepsInv ==
  ASSUME IInv, NEW p \in Procs, NEW in, NEW out \in Pipes \cup {Outside}, NEW s \in 0 .. 255,
         Exit(p, in, out, s)
  PROVE  IInv'
<1> DEFINE note == [n |-> 0, cmds |-> <<"missing">>]
<1>1. ASSUME ~Killed(p, in)
      PROVE  /\ ps' = Ended(p, s) /\ last' = Noted(p, s) /\ UNCHANGED <<world, failed, times>>
             /\ off' = IF kind = "file" /\ in = Outside /\ Len(ps[p].inbuf) <= off
                         THEN off - Len(ps[p].inbuf) ELSE off
             /\ \/ out # Outside /\ Len(text[out]) < MaxText /\ text' = [text EXCEPT ![out] = Append(@, note)]
                \/ text' = text
  BY <1>1 DEF Exit
<1>2. Shared /\ Given BY SharedHolds
<1>3. ASSUME ~Killed(p, in) PROVE input' = input /\ off' \in 0 .. Len(input)
  <2>1. ps[p].inbuf \in Seq(Item) BY ProcTypes, Fields
  <2>2. Len(ps[p].inbuf) \in Nat BY <2>1, LenProperties
  <2>3. Len(input) \in Nat BY <1>2, LenProperties DEF Given
  <2>4. off \in 0 .. Len(input) BY <1>2 DEF Shared
  <2>5. input' = input BY <1>1, <1>3 DEF world
  <2>6. QED BY <1>1, <1>3, <2>2, <2>3, <2>4, <2>5
<1>4. ASSUME ~Killed(p, in)
      PROVE  text' \in [Pipes -> Seq(Item)] /\ \A x \in Pipes : Len(text'[x]) <= MaxText
  <2>1. <<"missing">> \in CmdLines
    <3>1. <<"missing">> \in [1 .. 1 -> Names] BY DEF Names
    <3>2. 1 \in 0 .. MaxCmds BY SizeAssumption
    <3>3. QED BY <3>1, <3>2 DEF CmdLines
  <2>2. CASE out # Outside /\ Len(text[out]) < MaxText /\ text' = [text EXCEPT ![out] = Append(@, note)]
    BY <1>2, <2>1, <2>2, TextGrows
  <2>3. CASE text' = text BY <1>2, <2>3 DEF Shared
  <2>4. QED BY <1>1, <1>4, <2>2, <2>3
<1>5. CASE ~Killed(p, in)
  <2>1. Shared' BY <1>1, <1>2, <1>3, <1>4, <1>5 DEF Shared
  <2>2. QED BY <1>1, <1>5, <2>1, EndedKeeps
<1>6. CASE Killed(p, in) BY <1>6, KilledKeeps
<1>7. QED BY <1>5, <1>6

LEMMA EndOfInputKeeps ==
  ASSUME IInv, NEW p \in Procs, EndOfInput(p)
  PROVE  IInv'
<1>1. Exit(p, ps[p].in, ps[p].out, 0) BY DEF EndOfInput
<1>2. ps[p].out \in Pipes \cup {Outside} BY ProcTypes, Fields
<1>3. QED BY <1>1, <1>2, ExitKeepsInv

LEMMA HeadExitKeeps ==
  ASSUME IInv, NEW p \in Procs, HeadExit(p)
  PROVE  IInv'
<1>1. Exit(p, ps[p].in, ps[p].out, 0) BY DEF HeadExit
<1>2. ps[p].out \in Pipes \cup {Outside} BY ProcTypes, Fields
<1>3. QED BY <1>1, <1>2, ExitKeepsInv

LEMMA FinishKeeps ==
  ASSUME IInv, NEW p \in Procs, Finish(p)
  PROVE  IInv'
<1>1. PICK s \in Statuses : ps' = Ended(p, s) /\ last' = Noted(p, s) BY DEF Finish
<1>2. s \in 0 .. 255 BY StatusAssumption
<1>3. UNCHANGED <<world, off, text, failed, times>> BY DEF Finish
<1>4. QED BY <1>1, <1>2, <1>3, EndsInPlace

LEMMA SingleChildKeeps ==
  ASSUME IInv, NEW c \in Procs, SingleChild(c)
  PROVE  IInv'
<1>1. ps[c].pc = "child" BY DEF SingleChild
<1>2. ps[c] \in Proc /\ ps[c].out \in Pipes \cup {Outside} BY ProcTypes, Fields
<1>3. \/ \E s \in {1, 2} : Exit(c, ps[c].in, ps[c].out, s)
      \/ Becomes(c, Program(ps[c]))
  BY DEF SingleChild
<1>4. ASSUME NEW s \in {1, 2}, Exit(c, ps[c].in, ps[c].out, s) PROVE IInv'
  BY <1>2, <1>4, ExitKeepsInv
<1>5. CASE Becomes(c, Program(ps[c]))
  <2>1. ps' = [ps EXCEPT ![c] = Program(ps[c])] /\ UNCHANGED <<world, off, text, failed, times, last>>
    BY <1>5 DEF Becomes
  <2>2. text' \in [Pipes -> Seq(Item)] /\ \A q \in Pipes : Len(text'[q]) <= MaxText
    BY <2>1, SharedHolds DEF Shared
  <2>3. QED BY <1>1, <1>2, <2>1, <2>2, ProgramIsProc, BecomesKeeps
<1>6. QED BY <1>3, <1>4, <1>5

\* A child of a pipeline finds the shell that has made the pipes among its ends,
\* and takes from it an input and an output that exist.
LEMMA ChildEnds ==
  ASSUME IInv, NEW c \in Procs, ps[c].pc = "child", Len(ps[c].job) > 1
  PROVE  LET me    == ps[c]
             owner == (CHOOSE e \in me.fds : TRUE)[1][1]
         IN  /\ (IF me.idx > 1 THEN <<owner, me.idx - 1>> ELSE me.in) \in Pipes \cup {Outside}
             /\ (IF me.idx < Len(me.job) THEN <<owner, me.idx>> ELSE me.out) \in Pipes \cup {Outside}
<1> DEFINE me    == ps[c]
           e     == CHOOSE x \in me.fds : TRUE
           owner == e[1][1]
<1>1. /\ ps[c] \in Proc /\ me.idx \in 1 .. MaxCmds /\ me.in \in Pipes \cup {Outside}
      /\ me.out \in Pipes \cup {Outside} /\ me.job \in CmdLines /\ me.fds \in SUBSET Ends
  BY ProcTypes, Fields
<1>2. PICK q \in Procs : me.fds = Between(q, me.job) BY ProcTypes DEF Held
<1>3. me.idx <= Len(me.job) BY ProcTypes DEF Place, Shells
<1>4. Len(me.job) \in 0 .. MaxCmds BY <1>1, LineIsSeq
<1>5. <<<<q, 1>>, "r">> \in me.fds
  <2>1. 1 \in 1 .. MaxCmds - 1 BY <1>4, SizeAssumption
  <2>2. <<<<q, 1>>, "r">> \in Ends BY <2>1 DEF Ends, Pipes
  <2>3. QED BY <1>2, <2>2 DEF Between
<1>6. e \in me.fds BY <1>5
<1>7. owner \in Procs
  <2>1. e \in Ends BY <1>1, <1>6
  <2>2. QED BY <2>1 DEF Ends, Pipes
<1> HIDE DEF e, owner
<1>8. ASSUME me.idx > 1 PROVE <<owner, me.idx - 1>> \in Pipes
  <2>1. me.idx - 1 \in 1 .. MaxCmds - 1 BY <1>1, <1>8, SizeAssumption
  <2>2. QED BY <1>7, <2>1 DEF Pipes
<1>9. ASSUME me.idx < Len(me.job) PROVE <<owner, me.idx>> \in Pipes
  <2>1. me.idx \in 1 .. MaxCmds - 1 BY <1>1, <1>4, <1>9, SizeAssumption
  <2>2. QED BY <1>7, <2>1 DEF Pipes
<1>10. QED BY <1>1, <1>8, <1>9 DEF e, owner

LEMMA PipedChildKeeps ==
  ASSUME IInv, NEW c \in Procs, PipedChild(c)
  PROVE  IInv'
<1> DEFINE me    == ps[c]
           owner == (CHOOSE e \in me.fds : TRUE)[1][1]
           in    == IF me.idx > 1 THEN <<owner, me.idx - 1>> ELSE me.in
           out   == IF me.idx < Len(me.job) THEN <<owner, me.idx>> ELSE me.out
<1>1. ps[c].pc = "child" /\ Len(ps[c].job) > 1 BY DEF PipedChild
<1>2. me \in Proc /\ me.out \in Pipes \cup {Outside} BY ProcTypes, Fields
<1>3. in \in Pipes \cup {Outside} /\ out \in Pipes \cup {Outside} BY <1>1, ChildEnds
<1>4. \/ \E i \in {me.in, in} : Exit(c, i, me.out, 1)
      \/ Becomes(c, [Program(me) EXCEPT !.in = in, !.out = out])
      \/ Becomes(c, [Back(me) EXCEPT !.in = in, !.out = out])
  BY DEF PipedChild
<1> HIDE DEF in, out
<1>5. ASSUME NEW i \in {me.in, in}, Exit(c, i, me.out, 1) PROVE IInv'
  BY <1>2, <1>5, ExitKeepsInv
<1>6. ASSUME NEW r \in {[Program(me) EXCEPT !.in = in, !.out = out], [Back(me) EXCEPT !.in = in, !.out = out]},
             Becomes(c, r)
      PROVE  IInv'
  <2>1. ps' = [ps EXCEPT ![c] = r] /\ UNCHANGED <<world, off, text, failed, times, last>>
    BY <1>6 DEF Becomes
  <2>2. text' \in [Pipes -> Seq(Item)] /\ \A q \in Pipes : Len(text'[q]) <= MaxText
    BY <2>1, SharedHolds DEF Shared
  <2>3. CASE r = [Program(me) EXCEPT !.in = in, !.out = out]
    <3> DEFINE b == Program(me)
    <3>1. b \in Proc /\ b.pc = "program" /\ b.kids = <<>> /\ b.fds = {} /\ b.parent = me.parent
      BY <1>2, ProgramIsProc
    <3>2. r = [b EXCEPT !.in = in, !.out = out] BY <2>3
    <3> HIDE DEF b
    <3>3. r \in Proc
      <4>1. [b EXCEPT !.in = in, !.out = out] \in Proc BY <1>3, <3>1 DEF Proc
      <4>2. QED BY <3>2, <4>1
    <3>4. r.pc = "program" /\ r.kids = b.kids BY <3>1, <3>2 DEF Proc
    <3>5. r.fds = b.fds /\ r.parent = b.parent BY <3>1, <3>2 DEF Proc
    <3>6. QED BY <1>1, <2>1, <2>2, <3>1, <3>3, <3>4, <3>5, BecomesKeeps
  <2>4. CASE r = [Back(me) EXCEPT !.in = in, !.out = out]
    <3> DEFINE b == Back(me)
    <3>1. /\ b \in Proc /\ b.pc = "prompt" /\ b.kids = <<>> /\ b.fds = {} /\ b.parent = me.parent
          /\ b.idx = 1 /\ b.code = me.code
      BY <1>2, BackIsProc
    <3>2. r = [b EXCEPT !.in = in, !.out = out] BY <2>4
    <3> HIDE DEF b
    <3>3. r \in Proc
      <4>1. [b EXCEPT !.in = in, !.out = out] \in Proc BY <1>3, <3>1 DEF Proc
      <4>2. QED BY <3>2, <4>1
    <3>4. r.pc = "prompt" /\ r.kids = b.kids BY <3>1, <3>2 DEF Proc
    <3>5. r.fds = b.fds /\ r.parent = b.parent BY <3>1, <3>2 DEF Proc
    <3>6. r.idx = b.idx /\ r.code = b.code BY <3>1, <3>2 DEF Proc
    <3>7. QED BY <1>1, <2>1, <2>2, <3>1, <3>3, <3>4, <3>5, <3>6, BecomesKeeps
  <2>5. QED BY <2>3, <2>4
<1>7. QED BY <1>4, <1>5, <1>6

-----------------------------------------------------------------------------
(***************************************************************************)
(* fork() and waitpid(), which change a shell and one of its children.     *)
(***************************************************************************)

\* The process that fork() makes is one that nobody has to do with.
LEMMA ForkTakes ==
  ASSUME IInv, Frees # {}
  PROVE  LET c == Lowest(Frees)
         IN  /\ c \in Procs \ {1} /\ ps[c].pc = "free" /\ ps[c].parent = 0
             /\ \A x \in Procs : ps[x].parent # c
<1> DEFINE c == Lowest(Frees)
<1>1. Frees \subseteq Nat BY DEF Frees, Procs
<1>2. c \in Frees BY <1>1, LowestIsIn
<1> HIDE DEF c
<1>3. c \in Procs /\ ps[c].pc = "free" BY <1>2 DEF Frees
<1>4. Family(c) BY <1>3, ProcTypes
<1>5. c # 1 BY <1>3, SharedHolds DEF First
<1>6. ps[c].parent = 0 /\ \A x \in Procs : ps[x].parent # c BY <1>3, <1>4 DEF Family
<1>7. QED BY <1>3, <1>5, <1>6 DEF c

\* What fork() does to the shell and to the new process.
LEMMA ForkEffect ==
  ASSUME IInv, NEW p \in Procs, Fork(p)
  PROVE  \E c \in Procs \ {1, p} :
           /\ ps[c].pc = "free" /\ ps[c].parent = 0 /\ \A x \in Procs : ps[x].parent # c
           /\ ps' \in [Procs -> Proc]
           /\ ps'[p].kids = Append(ps[p].kids, c) /\ ps'[p].job = ps[p].job /\ ps'[p].fds = ps[p].fds
           /\ ps'[p].parent = ps[p].parent /\ ps'[p].code = ps[p].code
           /\ ps'[p].inbuf = ps[p].inbuf /\ ps'[p].in = ps[p].in
           /\ \/ /\ ps[p].idx # Len(ps[p].job) /\ ps'[p].pc = "fork" /\ ps'[p].idx = ps[p].idx + 1
              \/ /\ ps[p].idx = Len(ps[p].job) /\ Len(ps[p].job) > 1
                 /\ ps'[p].pc = "close" /\ ps'[p].idx = 1
              \/ /\ ps[p].idx = Len(ps[p].job) /\ ~(Len(ps[p].job) > 1)
                 /\ ps'[p].pc = "wait" /\ ps'[p].idx = 1
           /\ ps'[c].pc = "child" /\ ps'[c].parent = p /\ ps'[c].kids = <<>> /\ ps'[c].job = ps[p].job
           /\ ps'[c].fds = ps[p].fds /\ ps'[c].idx = ps[p].idx /\ ps'[c].code = ps[p].code
           /\ ps'[c].inbuf = ps[p].inbuf /\ ps'[c].in = ps[p].in
           /\ \A x \in Procs \ {p, c} : ps'[x] = ps[x]
           /\ last' = [last EXCEPT ![c] = last[p]]
<1> DEFINE c    == Lowest(Frees)
           n    == Len(ps[p].job)
           done == ps[p].idx = n
           to   == CASE ~done -> "fork" [] done /\ n > 1 -> "close" [] OTHER -> "wait"
           next == IF done THEN 1 ELSE ps[p].idx + 1
           rp   == [ps[p] EXCEPT !.kids = Append(@, c), !.idx = next, !.pc = to]
           rc   == [ps[p] EXCEPT !.pc = "child", !.parent = p, !.kids = <<>>]
<1>1. ps[p] \in Proc /\ ps \in [Procs -> Proc] /\ Place(p) BY ProcTypes
<1>2. ps[p].pc = "fork" /\ Frees # {} /\ last' = [last EXCEPT ![c] = last[p]] BY DEF Fork
<1>3. /\ c \in Procs \ {1} /\ ps[c].pc = "free" /\ ps[c].parent = 0
      /\ \A x \in Procs : ps[x].parent # c
  BY <1>2, ForkTakes
<1>4. ps' = [ps EXCEPT ![p].kids = Append(@, c), ![p].idx = IF done THEN 1 ELSE @ + 1, ![p].pc = to,
                       ![c] = rc]
  BY DEF Fork
<1> HIDE DEF c, to
<1>5. c # p BY <1>2, <1>3
<1>6. /\ ps[p].kids \in Seq(Procs) /\ ps[p].idx \in 1 .. MaxCmds /\ ps[p].job \in CmdLines
      /\ ps[p].idx <= n /\ n \in 0 .. MaxCmds
  BY <1>1, <1>2, Fields, LineIsSeq DEF Place, Shells
<1>7. Append(ps[p].kids, c) \in Seq(Procs) BY <1>3, <1>6, AppendProperties
<1>8. next \in 1 .. MaxCmds BY <1>6, SizeAssumption
<1>9. /\ to \in {"fork", "close", "wait"}
      /\ ~done => to = "fork"
      /\ done /\ n > 1 => to = "close"
      /\ done /\ ~(n > 1) => to = "wait"
  BY DEF to
<1>10. p \in 0 .. MaxProcs /\ <<>> \in Seq(Procs) BY EmptySeq, SizeAssumption DEF Procs
<1>11. rp \in Proc
  <2> HIDE DEF next
  <2>1. QED BY <1>1, <1>7, <1>8, <1>9 DEF Proc
<1>12. rc \in Proc BY <1>1, <1>10 DEF Proc
<1>13. ps' = [ps EXCEPT ![p] = rp, ![c] = rc] BY <1>1, <1>4, <1>5
<1>14. rp.kids = Append(ps[p].kids, c) /\ rp.parent = ps[p].parent BY <1>1 DEF Proc
<1>15. rp.job = ps[p].job /\ rp.fds = ps[p].fds BY <1>1 DEF Proc
<1>16. rp.idx = next /\ rp.pc = to /\ rp.code = ps[p].code BY <1>1 DEF Proc
<1>17. rc.pc = "child" /\ rc.parent = p /\ rc.kids = <<>> BY <1>1 DEF Proc
<1>18. rc.job = ps[p].job /\ rc.fds = ps[p].fds BY <1>1 DEF Proc
<1>19. rc.idx = ps[p].idx /\ rc.code = ps[p].code BY <1>1 DEF Proc
<1>20. rp.inbuf = ps[p].inbuf /\ rp.in = ps[p].in BY <1>1 DEF Proc
<1>21. rc.inbuf = ps[p].inbuf /\ rc.in = ps[p].in BY <1>1 DEF Proc
<1> HIDE DEF rp, rc
<1>22. /\ ps' \in [Procs -> Proc] /\ ps'[p] = rp /\ ps'[c] = rc
       /\ \A x \in Procs \ {p, c} : ps'[x] = ps[x]
  BY <1>1, <1>3, <1>5, <1>11, <1>12, <1>13
<1>23. \/ ps[p].idx # n /\ rp.pc = "fork" /\ rp.idx = ps[p].idx + 1
       \/ ps[p].idx = n /\ n > 1 /\ rp.pc = "close" /\ rp.idx = 1
       \/ ps[p].idx = n /\ ~(n > 1) /\ rp.pc = "wait" /\ rp.idx = 1
  BY <1>9, <1>16
<1>24. QED
  BY <1>2, <1>3, <1>5, <1>14, <1>15, <1>16, <1>17, <1>18, <1>19, <1>20, <1>21, <1>22, <1>23

LEMMA ForkKeeps ==
  ASSUME IInv, NEW p \in Procs, Fork(p)
  PROVE  IInv'
<1>1. PICK c \in Procs \ {1, p} :
        /\ ps[c].pc = "free" /\ ps[c].parent = 0 /\ \A x \in Procs : ps[x].parent # c
        /\ ps' \in [Procs -> Proc]
        /\ ps'[p].kids = Append(ps[p].kids, c) /\ ps'[p].job = ps[p].job /\ ps'[p].fds = ps[p].fds
        /\ ps'[p].parent = ps[p].parent /\ ps'[p].code = ps[p].code
        /\ \/ /\ ps[p].idx # Len(ps[p].job) /\ ps'[p].pc = "fork" /\ ps'[p].idx = ps[p].idx + 1
           \/ /\ ps[p].idx = Len(ps[p].job) /\ Len(ps[p].job) > 1
              /\ ps'[p].pc = "close" /\ ps'[p].idx = 1
           \/ /\ ps[p].idx = Len(ps[p].job) /\ ~(Len(ps[p].job) > 1)
              /\ ps'[p].pc = "wait" /\ ps'[p].idx = 1
        /\ ps'[c].pc = "child" /\ ps'[c].parent = p /\ ps'[c].kids = <<>> /\ ps'[c].job = ps[p].job
        /\ ps'[c].fds = ps[p].fds /\ ps'[c].idx = ps[p].idx /\ ps'[c].code = ps[p].code
        /\ \A x \in Procs \ {p, c} : ps'[x] = ps[x]
        /\ last' = [last EXCEPT ![c] = last[p]]
  BY ForkEffect
<1>2. ps[p].pc = "fork" /\ UNCHANGED <<world, off, text, failed, times>> BY DEF Fork
<1>3. /\ ps[p] \in Proc /\ Place(p) /\ Held(p) /\ Family(p) /\ Code(p)
      /\ last \in [Procs -> 0 .. 255] /\ p # 0 /\ c # 0 /\ p # c
  BY ProcTypes
<1>4. /\ ps[p].kids \in Seq(Procs) /\ ps[p].idx \in 1 .. MaxCmds /\ ps[p].job \in CmdLines
      /\ ps[p].idx <= Len(ps[p].job) /\ Len(ps[p].job) \in 0 .. MaxCmds
      /\ Len(ps[p].kids) = ps[p].idx - 1
  BY <1>2, <1>3, Fields, LineIsSeq DEF Place, Shells
<1>5. /\ Len(ps'[p].kids) = ps[p].idx
      /\ \A i \in 1 .. ps[p].idx - 1 : ps'[p].kids[i] = ps[p].kids[i] /\ ps[p].kids[i] \in Procs
      /\ ps'[p].kids[ps[p].idx] = c
      /\ DOMAIN ps'[p].kids = 1 .. ps[p].idx /\ DOMAIN ps[p].kids = 1 .. ps[p].idx - 1
  <2>1. Append(ps[p].kids, c) \in Seq(Procs) /\ Len(Append(ps[p].kids, c)) = Len(ps[p].kids) + 1
    BY <1>4, AppendProperties
  <2>2. DOMAIN Append(ps[p].kids, c) = 1 .. Len(Append(ps[p].kids, c)) BY <2>1, LenProperties
  <2>3. DOMAIN ps[p].kids = 1 .. Len(ps[p].kids) BY <1>3, KidsDomain
  <2>4. \A i \in 1 .. Len(ps[p].kids) : ps[p].kids[i] \in Procs BY <1>4, ElementOfSeq
  <2>5. /\ \A i \in 1 .. Len(ps[p].kids) : Append(ps[p].kids, c)[i] = ps[p].kids[i]
        /\ Append(ps[p].kids, c)[Len(ps[p].kids) + 1] = c
    BY <1>4, AppendProperties
  <2>6. Len(ps[p].kids) + 1 = ps[p].idx BY <1>4, SizeAssumption
  <2>7. QED BY <1>1, <1>4, <2>1, <2>2, <2>3, <2>4, <2>5, <2>6
<1>6. ps'[p].pc \in Shells /\ Unwaited(p)' = 1 .. ps[p].idx /\ Unwaited(p) = 1 .. ps[p].idx - 1
  <2>1. ps'[p].pc \in Shells BY <1>1 DEF Shells
  <2>2. Unwaited(p) = DOMAIN ps[p].kids BY <1>2 DEF Unwaited
  <2>3. ps'[p].pc = "wait" => ps'[p].idx = 1 BY <1>1
  <2>4. Unwaited(p)' = DOMAIN ps'[p].kids
    <3>1. \A i \in DOMAIN ps'[p].kids : 1 <= i BY <1>5
    <3>2. QED BY <2>3, <3>1 DEF Unwaited
  <2>5. QED BY <1>5, <2>1, <2>2, <2>4
<1>7. ASSUME NEW x \in Procs PROVE ps'[x].parent = IF x = c THEN p ELSE ps[x].parent
  BY <1>1
<1>8. Place(p)'
  <2>1. CASE ps[p].idx # Len(ps[p].job)
    <3>1. ps'[p].pc = "fork" /\ ps'[p].idx = ps[p].idx + 1 BY <1>1, <2>1
    <3>2. ps[p].idx + 1 <= Len(ps[p].job) /\ ps[p].idx = ps[p].idx + 1 - 1
      BY <1>4, <2>1, SizeAssumption
    <3>3. QED BY <1>1, <1>5, <3>1, <3>2 DEF Place, Shells
  <2>2. CASE ps[p].idx = Len(ps[p].job)
    <3>1. ps'[p].idx = 1 /\ ps'[p].pc \in {"close", "wait"}
          /\ (ps'[p].pc = "close" => Len(ps[p].job) > 1)
      BY <1>1, <2>2
    <3>2. 1 <= Len(ps[p].job) BY <1>4, <2>2, SizeAssumption
    <3>3. QED BY <1>1, <1>5, <2>2, <3>1, <3>2 DEF Place, Shells
  <2>3. QED BY <2>1, <2>2
<1>9. Held(p)'
  <2>1. ps[p].fds = Between(p, ps[p].job) BY <1>2, <1>3 DEF Held
  <2>2. ps'[p].pc = "wait" => Len(ps[p].job) = 1
    <3>1. ps'[p].pc = "wait" => ps[p].idx = Len(ps[p].job) /\ ~(Len(ps[p].job) > 1) BY <1>1
    <3>2. ps[p].idx = Len(ps[p].job) => Len(ps[p].job) # 0 BY <1>4, SizeAssumption
    <3>3. QED BY <1>4, <3>1, <3>2, LineLength
  <2>3. ps'[p].pc = "wait" => ps[p].fds = {} BY <2>1, <2>2, OneHasNoPipes
  <2>4. Between(p, ps[p].job)' = Between(p, ps[p].job) BY <1>1 DEF Between
  <2>5. QED BY <1>1, <2>1, <2>3, <2>4 DEF Held
<1>10. Family(p)'
  <2>1. \A i \in Unwaited(p) : ps[ps[p].kids[i]].parent = p /\ ps[p].kids[i] # c
    BY <1>1, <1>3 DEF Family
  <2>2. ASSUME NEW i \in Unwaited(p)' PROVE ps'[ps'[p].kids[i]].parent = p
    <3>1. CASE i = ps[p].idx BY <1>1, <1>5, <3>1
    <3>2. CASE i # ps[p].idx
      <4>1. i \in 1 .. ps[p].idx - 1 BY <1>4, <1>6, <2>2, <3>2
      <4>2. QED BY <1>5, <1>6, <1>7, <2>1, <4>1
    <3>3. QED BY <3>1, <3>2
  <2>3. ASSUME NEW i \in Unwaited(p)', NEW j \in Unwaited(p)', ps'[p].kids[i] = ps'[p].kids[j]
        PROVE  i = j
    <3>1. \A k \in 1 .. ps[p].idx : k # ps[p].idx => k \in 1 .. ps[p].idx - 1 BY <1>4
    <3>2. i \in 1 .. ps[p].idx /\ j \in 1 .. ps[p].idx BY <1>6, <2>3
    <3>3. CASE i # ps[p].idx /\ j # ps[p].idx
      <4>1. i \in Unwaited(p) /\ j \in Unwaited(p) BY <1>6, <3>1, <3>2, <3>3
      <4>2. ps[p].kids[i] = ps[p].kids[j] BY <1>5, <1>6, <2>3, <4>1
      <4>3. QED BY <1>3, <4>1, <4>2 DEF Family
    <3>4. CASE i = ps[p].idx \/ j = ps[p].idx
      <4>1. \A k \in 1 .. ps[p].idx - 1 : ps'[p].kids[k] # c BY <1>5, <1>6, <2>1
      <4>2. QED BY <1>5, <2>3, <3>1, <3>2, <3>4, <4>1
    <3>5. QED BY <3>3, <3>4
  <2>4. ASSUME ~failed', NEW x \in Procs, ps'[x].parent = p
        PROVE  \E i \in Unwaited(p)' : x = ps'[p].kids[i]
    <3>1. CASE x = c
      <4>1. ps[p].idx \in 1 .. ps[p].idx BY <1>4, SizeAssumption
      <4>2. QED BY <1>5, <1>6, <3>1, <4>1
    <3>2. CASE x # c
      <4>1. ~failed BY <1>2, <2>4
      <4>2. PICK i \in Unwaited(p) : x = ps[p].kids[i]
        BY <1>3, <1>7, <2>4, <3>2, <4>1 DEF Family
      <4>3. i \in 1 .. ps[p].idx BY <1>4, <1>6
      <4>4. QED BY <1>5, <1>6, <4>2, <4>3
    <3>3. QED BY <3>1, <3>2
  <2>5. ps'[p].pc \in {"fork", "close", "wait"} /\ ps'[p].parent # p
    BY <1>1, <1>3, <1>6 DEF Family, Shells
  <2>6. QED BY <2>2, <2>3, <2>4, <2>5 DEF Family
<1>11. Code(p)'
  <2>1. ps[p].code = last[p] /\ last'[p] = last[p] BY <1>1, <1>2, <1>3 DEF Code
  <2>2. ps'[p].pc \in {"close", "wait"} => ps'[p].kids[Len(ps'[p].kids)] = c BY <1>5
  <2>3. ps'[p].pc \in {"fork", "close", "wait"} BY <1>6 DEF Shells
  <2>4. QED BY <1>1, <2>1, <2>2, <2>3 DEF Code
<1>12. Local(c)'
  <2>1. Place(c)' BY <1>1, <1>4 DEF Place, Shells
  <2>2. Held(c)'
    <3>1. ps[p].fds = Between(p, ps[p].job) BY <1>2, <1>3 DEF Held
    <3>2. ps'[c].fds = Between(p, ps'[c].job) BY <1>1, <3>1
    <3>3. QED BY <1>1, <3>2 DEF Held, Between
  <2>3. Family(c)'
    <3>1. Unwaited(c)' = {} BY <1>1 DEF Unwaited
    <3>2. \A x \in Procs : ps'[x].parent # c BY <1>1, <1>3, <1>7
    <3>3. QED BY <1>1, <1>3, <3>1, <3>2 DEF Family
  <2>4. Code(c)'
    <3>1. ps[p].code = last[p] /\ last'[c] = last[p] BY <1>1, <1>2, <1>3 DEF Code
    <3>2. QED BY <1>1, <3>1 DEF Code
  <2>5. QED BY <2>1, <2>2, <2>3, <2>4 DEF Local
<1>13. ASSUME NEW q \in Procs \ {p, c} PROVE Local(q)'
  <2>1. Alike(q) /\ last'[q] = last[q] BY <1>1, <1>3, <1>13 DEF Alike
  <2>2. q # 0 BY ProcTypes
  <2>3. \A x \in Procs : ps'[x].parent = q <=> ps[x].parent = q BY <1>1, <1>7, <1>13, <2>2
  <2>4. \A x \in Procs : ps'[x].pc = "zombie" => ps'[x] = ps[x]
    BY <1>1, <1>6 DEF Shells
  <2>5. Place(q)' /\ Held(q)' /\ Family(q)' BY <1>2, <2>1, <2>3, FamilyKept
  <2>6. Code(q)' BY <2>1, <2>4, CodeKept
  <2>7. QED BY <2>5, <2>6 DEF Local
<1>14. First'
  <2>1. 1 \in Procs /\ First BY ProcTypes, SharedHolds
  <2>2. CASE p = 1 BY <1>1, <1>6, <2>1, <2>2 DEF First, Shells
  <2>3. CASE p # 1
    <3>1. ps'[1] = ps[1] BY <1>1, <2>1, <2>3
    <3>2. QED BY <2>1, <3>1 DEF First
  <2>4. QED BY <2>2, <2>3
<1>15. Given' /\ Shared'
  <2>1. last' \in [Procs -> 0 .. 255]
    <3>1. last' = [last EXCEPT ![c] = last[p]] BY <1>1
    <3>2. QED BY <1>3, <3>1
  <2>2. Given' /\ input' = input BY <1>2, <2>1, SharedHolds, WorldKept
  <2>3. QED BY <1>2, <2>2, SharedHolds DEF Shared
<1>16. Local(p)' BY <1>8, <1>9, <1>10, <1>11 DEF Local
<1>17. QED BY <1>1, <1>12, <1>13, <1>14, <1>15, <1>16, Assemble

\* What waitpid() does to the shell and to the child that it waits for.
LEMMA WaitEffect ==
  ASSUME IInv, NEW p \in Procs, Wait(p)
  PROVE  \E c \in Procs \ {1, p} :
           /\ c = ps[p].kids[ps[p].idx] /\ ps[c].pc = "zombie" /\ ps[c].parent = p
           /\ ps' \in [Procs -> Proc] /\ ps'[c] = Free
           /\ \A x \in Procs \ {p, c} : ps'[x] = ps[x]
           /\ ps'[p].parent = ps[p].parent /\ ps'[p].inbuf = ps[p].inbuf /\ ps'[p].in = ps[p].in
           /\ \/ /\ ps[p].idx = Len(ps[p].job) /\ ps'[p].pc = "prompt" /\ ps'[p].idx = 1
                 /\ ps'[p].kids = <<>> /\ ps'[p].fds = {} /\ ps'[p].code = ps[c].status
              \/ /\ ps[p].idx # Len(ps[p].job) /\ ps'[p].pc = "wait" /\ ps'[p].idx = ps[p].idx + 1
                 /\ ps'[p].kids = ps[p].kids /\ ps'[p].fds = ps[p].fds /\ ps'[p].job = ps[p].job
<1> DEFINE c == ps[p].kids[ps[p].idx]
           b == Back(ps[p])
           s == ps[c].status
           last1 == [b EXCEPT !.code = s]
           next == [ps[p] EXCEPT !.idx = @ + 1]
           rp == IF ps[p].idx = Len(ps[p].job) THEN last1 ELSE next
<1>1. ps[p] \in Proc /\ ps \in [Procs -> Proc] /\ Place(p) /\ Family(p) BY ProcTypes
<1>2. ps[p].pc = "wait" /\ ps[c].pc = "zombie" BY DEF Wait
<1>3. /\ ps[p].idx \in 1 .. MaxCmds /\ ps[p].job \in CmdLines /\ ps[p].idx <= Len(ps[p].job)
      /\ Len(ps[p].kids) = Len(ps[p].job) /\ Len(ps[p].job) \in 0 .. MaxCmds
  BY <1>1, <1>2, Fields, LineIsSeq DEF Place, Shells
<1>4. DOMAIN ps[p].kids = 1 .. Len(ps[p].kids) BY <1>1, KidsDomain
<1>5. ps[p].idx \in DOMAIN ps[p].kids BY <1>3, <1>4, SizeAssumption
<1>6. ps[p].idx \in Unwaited(p) BY <1>3, <1>5, SizeAssumption DEF Unwaited
<1>7. c \in Procs /\ ps[c].parent = p BY <1>1, <1>5, <1>6, KidsDomain DEF Family
<1>8. ps' = [ps EXCEPT ![c] = Free, ![p] = rp] BY DEF Wait
<1> HIDE DEF c
<1>9. c # p /\ c # 1 BY <1>2, SharedHolds DEF First
<1>10. s \in 0 .. 255 BY <1>1, <1>7, Fields
<1>11. /\ b \in Proc /\ b.pc = "prompt" /\ b.idx = 1 /\ b.kids = <<>> /\ b.fds = {}
       /\ b.parent = ps[p].parent /\ b.inbuf = ps[p].inbuf /\ b.in = ps[p].in
  BY <1>1, BackIsProc
<1> HIDE DEF b, s
<1>12. last1 \in Proc BY <1>10, <1>11 DEF Proc
<1>13. last1.pc = "prompt" /\ last1.idx = 1 /\ last1.parent = ps[p].parent /\ last1.code = s
  BY <1>11 DEF Proc
<1>14. last1.kids = <<>> BY <1>11 DEF Proc
<1>15. last1.fds = {} BY <1>11 DEF Proc
<1>16. ps[p].idx # Len(ps[p].job) => next \in Proc
  <2>1. ps[p].idx # Len(ps[p].job) => ps[p].idx + 1 \in 1 .. MaxCmds BY <1>3, SizeAssumption
  <2>2. QED BY <1>1, <2>1 DEF Proc
<1>17. next.pc = ps[p].pc /\ next.idx = ps[p].idx + 1 /\ next.parent = ps[p].parent BY <1>1 DEF Proc
<1>18. next.kids = ps[p].kids BY <1>1 DEF Proc
<1>19. next.fds = ps[p].fds /\ next.job = ps[p].job BY <1>1 DEF Proc
<1>20. last1.inbuf = ps[p].inbuf /\ last1.in = ps[p].in BY <1>11 DEF Proc
<1>21. next.inbuf = ps[p].inbuf /\ next.in = ps[p].in BY <1>1 DEF Proc
<1> HIDE DEF last1, next
<1>22. rp \in Proc BY <1>12, <1>16
<1>23. rp.parent = ps[p].parent /\ rp.inbuf = ps[p].inbuf /\ rp.in = ps[p].in
  BY <1>13, <1>17, <1>20, <1>21
<1>24. \/ /\ ps[p].idx = Len(ps[p].job) /\ rp.pc = "prompt" /\ rp.idx = 1
          /\ rp.kids = <<>> /\ rp.fds = {} /\ rp.code = s
       \/ /\ ps[p].idx # Len(ps[p].job) /\ rp.pc = "wait" /\ rp.idx = ps[p].idx + 1
          /\ rp.kids = ps[p].kids /\ rp.fds = ps[p].fds /\ rp.job = ps[p].job
  <2>1. CASE ps[p].idx = Len(ps[p].job)
    <3>1. rp = last1 BY <2>1
    <3>2. QED BY <1>13, <1>14, <1>15, <2>1, <3>1
  <2>2. CASE ps[p].idx # Len(ps[p].job)
    <3>1. rp = next BY <2>2
    <3>2. QED BY <1>2, <1>17, <1>18, <1>19, <2>2, <3>1
  <2>3. QED BY <2>1, <2>2
<1> HIDE DEF rp
<1>25. /\ ps' \in [Procs -> Proc] /\ ps'[p] = rp /\ ps'[c] = Free
       /\ \A x \in Procs \ {p, c} : ps'[x] = ps[x]
  BY <1>1, <1>7, <1>8, <1>9, <1>22, FreeIsProc
<1>26. QED BY <1>2, <1>7, <1>9, <1>23, <1>24, <1>25 DEF c, s

LEMMA WaitKeeps ==
  ASSUME IInv, NEW p \in Procs, Wait(p)
  PROVE  IInv'
<1>1. PICK c \in Procs \ {1, p} :
        /\ c = ps[p].kids[ps[p].idx] /\ ps[c].pc = "zombie" /\ ps[c].parent = p
        /\ ps' \in [Procs -> Proc] /\ ps'[c] = Free
        /\ \A x \in Procs \ {p, c} : ps'[x] = ps[x]
        /\ ps'[p].parent = ps[p].parent
        /\ \/ /\ ps[p].idx = Len(ps[p].job) /\ ps'[p].pc = "prompt" /\ ps'[p].idx = 1
              /\ ps'[p].kids = <<>> /\ ps'[p].fds = {} /\ ps'[p].code = ps[c].status
           \/ /\ ps[p].idx # Len(ps[p].job) /\ ps'[p].pc = "wait" /\ ps'[p].idx = ps[p].idx + 1
              /\ ps'[p].kids = ps[p].kids /\ ps'[p].fds = ps[p].fds /\ ps'[p].job = ps[p].job
  BY WaitEffect
<1>2. ps[p].pc = "wait" /\ UNCHANGED <<world, off, text, failed, times, last>> BY DEF Wait
<1>3. /\ ps[p] \in Proc /\ Place(p) /\ Held(p) /\ Family(p) /\ Code(p)
      /\ last \in [Procs -> 0 .. 255] /\ p # 0 /\ c # 0 /\ p # c
  BY ProcTypes
<1>4. /\ ps[p].idx \in 1 .. MaxCmds /\ ps[p].job \in CmdLines /\ ps[p].idx <= Len(ps[p].job)
      /\ Len(ps[p].kids) = Len(ps[p].job) /\ Len(ps[p].job) \in 0 .. MaxCmds
      /\ DOMAIN ps[p].kids = 1 .. Len(ps[p].kids)
  BY <1>2, <1>3, Fields, LineIsSeq, KidsDomain DEF Place, Shells
<1>5. Free.pc = "free" /\ Free.kids = <<>> /\ Free.fds = {} /\ Free.parent = 0 BY DEF Free
<1>6. ASSUME NEW x \in Procs PROVE ps'[x].parent = IF x = c THEN 0 ELSE ps[x].parent
  BY <1>1, <1>5
<1>7. Unwaited(p) = ps[p].idx .. Len(ps[p].job)
  BY <1>2, <1>4, SizeAssumption DEF Unwaited
<1>8. \A i \in Unwaited(p) : /\ ps[p].kids[i] \in Procs /\ ps[ps[p].kids[i]].parent = p
                             /\ ps[p].kids[i] = c => i = ps[p].idx
  <2>1. ps[p].idx \in Unwaited(p) BY <1>4, <1>7, SizeAssumption
  <2>2. \A i \in Unwaited(p) : ps[p].kids[i] \in Procs BY <1>3, KidsDomain DEF Unwaited
  <2>3. QED BY <1>1, <1>3, <2>1, <2>2 DEF Family
<1>9. ASSUME ps[p].idx = Len(ps[p].job)
      PROVE  Local(p)' /\ ps'[p].pc = "prompt"
  <2>1. /\ ps'[p].pc = "prompt" /\ ps'[p].idx = 1 /\ ps'[p].kids = <<>> /\ ps'[p].fds = {}
        /\ ps'[p].code = ps[c].status
    BY <1>1, <1>9
  <2>2. Place(p)' /\ Held(p)' BY <2>1 DEF Place, Held, Shells
  <2>3. Family(p)'
    <3>1. Unwaited(p)' = {} BY <2>1 DEF Unwaited
    <3>2. ASSUME ~failed', NEW x \in Procs, ps'[x].parent = p PROVE FALSE
      <4>1. x # c /\ ps[x].parent = p /\ ~failed BY <1>2, <1>3, <1>6, <3>2
      <4>2. PICK i \in Unwaited(p) : x = ps[p].kids[i] BY <1>3, <4>1 DEF Family
      <4>3. i = ps[p].idx BY <1>4, <1>7, <1>9, SizeAssumption
      <4>4. QED BY <1>1, <4>1, <4>2, <4>3
    <3>3. ps'[p].parent # p BY <1>1, <1>3 DEF Family
    <3>4. QED BY <2>1, <3>1, <3>2, <3>3 DEF Family
  <2>4. Code(p)'
    <3>1. c = ps[p].kids[Len(ps[p].kids)] BY <1>1, <1>4, <1>9
    <3>2. ps[c].status = last[p] BY <1>1, <1>2, <1>3, <3>1 DEF Code
    <3>3. QED BY <1>2, <2>1, <3>2 DEF Code
  <2>5. QED BY <2>1, <2>2, <2>3, <2>4 DEF Local
<1>10. ASSUME ps[p].idx # Len(ps[p].job)
       PROVE  Local(p)' /\ ps'[p].pc = "wait"
  <2>1. /\ ps'[p].pc = "wait" /\ ps'[p].idx = ps[p].idx + 1
        /\ ps'[p].kids = ps[p].kids /\ ps'[p].fds = ps[p].fds /\ ps'[p].job = ps[p].job
    BY <1>1, <1>10
  <2>2. ps[p].idx + 1 <= Len(ps[p].job) BY <1>4, <1>10, SizeAssumption
  <2>3. Place(p)' BY <1>4, <2>1, <2>2 DEF Place, Shells
  <2>4. Held(p)' BY <1>2, <1>3, <2>1 DEF Held
  <2>5. Unwaited(p)' = Unwaited(p) \ {ps[p].idx}
    <3>1. Unwaited(p)' = ps[p].idx + 1 .. Len(ps[p].job)
      BY <1>4, <2>1, SizeAssumption DEF Unwaited
    <3>2. QED BY <1>4, <1>7, <3>1, SizeAssumption
  <2>6. Family(p)'
    <3>1. \A i \in Unwaited(p)' : ps'[ps'[p].kids[i]].parent = p BY <1>6, <1>8, <2>1, <2>5
    <3>2. \A i, j \in Unwaited(p)' : ps'[p].kids[i] = ps'[p].kids[j] => i = j
      BY <1>3, <2>1, <2>5 DEF Family
    <3>3. ASSUME ~failed', NEW x \in Procs, ps'[x].parent = p
          PROVE  \E i \in Unwaited(p)' : x = ps'[p].kids[i]
      <4>1. x # c /\ ps[x].parent = p /\ ~failed BY <1>2, <1>3, <1>6, <3>3
      <4>2. PICK i \in Unwaited(p) : x = ps[p].kids[i] BY <1>3, <4>1 DEF Family
      <4>3. i # ps[p].idx BY <1>1, <4>1, <4>2
      <4>4. QED BY <2>1, <2>5, <4>2, <4>3
    <3>4. ps'[p].parent # p BY <1>1, <1>3 DEF Family
    <3>5. QED BY <2>1, <3>1, <3>2, <3>3, <3>4 DEF Family
  <2>7. Code(p)'
    <3>1. Len(ps[p].kids) \in Unwaited(p) /\ Len(ps[p].kids) # ps[p].idx
      BY <1>4, <1>7, <1>10, SizeAssumption
    <3> DEFINE d == ps[p].kids[Len(ps[p].kids)]
    <3>2. d \in Procs /\ d # c /\ ps[d].parent = p BY <1>8, <3>1
    <3>3. d # p BY <1>3, <3>2 DEF Family
    <3>4. ps'[d] = ps[d] BY <1>1, <3>2, <3>3
    <3>5. ps[d].pc = "zombie" => ps[d].status = last[p] BY <1>2, <1>3 DEF Code
    <3>6. QED BY <1>2, <2>1, <3>4, <3>5 DEF Code
  <2>8. QED BY <2>1, <2>3, <2>4, <2>6, <2>7 DEF Local
<1>11. Local(p)' /\ ps'[p].pc \in {"prompt", "wait"} BY <1>1, <1>9, <1>10
<1>12. Local(c)'
  <2>1. ps'[c].pc = "free" /\ ps'[c].kids = <<>> /\ ps'[c].fds = {} /\ ps'[c].parent = 0
    BY <1>1, <1>5
  <2>2. Place(c)' /\ Held(c)' BY <2>1 DEF Place, Held, Shells
  <2>3. Unwaited(c)' = {} BY <2>1 DEF Unwaited
  <2>4. \A x \in Procs : ps[x].parent # c BY <1>1, ProcTypes DEF Family
  <2>5. \A x \in Procs : ps'[x].parent # c BY <1>3, <1>6, <2>4
  <2>6. Family(c)' BY <1>3, <2>1, <2>3, <2>5 DEF Family
  <2>7. Code(c)' BY <2>1 DEF Code
  <2>8. QED BY <2>2, <2>6, <2>7 DEF Local
<1>13. ASSUME NEW q \in Procs \ {p, c} PROVE Local(q)'
  <2>1. Alike(q) /\ last'[q] = last[q] BY <1>1, <1>2, <1>13 DEF Alike
  <2>2. q # 0 BY ProcTypes
  <2>3. \A x \in Procs : ps'[x].parent = q <=> ps[x].parent = q BY <1>1, <1>6, <1>13, <2>2
  <2>4. \A x \in Procs : ps'[x].pc = "zombie" => ps'[x] = ps[x]
    BY <1>1, <1>5, <1>11
  <2>5. Place(q)' /\ Held(q)' /\ Family(q)' BY <1>2, <2>1, <2>3, FamilyKept
  <2>6. Code(q)' BY <2>1, <2>4, CodeKept
  <2>7. QED BY <2>5, <2>6 DEF Local
<1>14. First'
  <2>1. 1 \in Procs /\ First BY ProcTypes, SharedHolds
  <2>2. CASE p = 1 BY <1>1, <1>11, <2>1, <2>2 DEF First
  <2>3. CASE p # 1
    <3>1. ps'[1] = ps[1] BY <1>1, <2>1, <2>3
    <3>2. QED BY <2>1, <3>1 DEF First
  <2>4. QED BY <2>2, <2>3
<1>15. Given' /\ Shared'
  <2>1. last' \in [Procs -> 0 .. 255] BY <1>2, <1>3
  <2>2. Given' /\ input' = input BY <1>2, <2>1, SharedHolds, WorldKept
  <2>3. QED BY <1>2, <2>2, SharedHolds DEF Shared
<1>16. QED BY <1>1, <1>11, <1>12, <1>13, <1>14, <1>15, Assemble

-----------------------------------------------------------------------------
(***************************************************************************)
(* The theorems.                                                           *)
(***************************************************************************)
LEMMA InitInv == Init => IInv
<1> SUFFICES ASSUME Init PROVE IInv OBVIOUS
<1> DEFINE shell == [Free EXCEPT !.pc = "prompt"]
<1>1. 1 \in Procs /\ Procs \subseteq Nat \ {0} BY SizeAssumption DEF Procs
<1>2. shell \in Proc BY FreeIsProc DEF Proc
<1>3. shell.pc = "prompt" /\ shell.parent = 0 /\ shell.idx = 1 /\ shell.kids = <<>>
      /\ shell.fds = {} /\ shell.code = 0
  BY DEF Free
<1>4. Free.pc = "free" /\ Free.parent = 0 /\ Free.kids = <<>> /\ Free.fds = {} BY DEF Free
<1> HIDE DEF shell
<1>5. /\ ps \in [Procs -> Proc] /\ ps[1] = shell
      /\ \A p \in Procs \ {1} : ps[p] = Free
  BY <1>1, <1>2, FreeIsProc DEF Init, shell
<1>6. \A p \in Procs : /\ ps[p].pc \in {"prompt", "free"} /\ ps[p].parent = 0
                       /\ ps[p].kids = <<>> /\ ps[p].fds = {}
                       /\ ps[p].pc = "prompt" => ps[p].idx = 1 /\ ps[p].code = 0
  BY <1>3, <1>4, <1>5
<1>7. input \in Seq(CmdLines) BY ScriptsAssumption DEF Init
<1>8. Len(input) \in Nat BY <1>7, LenProperties
<1>9. Given
  <2>1. kind \in {"file", "pipe", "tty"} BY KindsAssumption DEF Init
  <2>2. times \in [1 .. Len(input) -> 0 .. 2] BY DEF Init
  <2>3. last \in [Procs -> 0 .. 255] BY DEF Init
  <2>4. QED BY <1>7, <2>1, <2>2, <2>3 DEF Given
<1>10. Shared
  <2>1. <<>> \in Seq(Item) /\ Len(<<>>) = 0 BY EmptySeq
  <2>2. text \in [Pipes -> Seq(Item)] /\ \A q \in Pipes : Len(text[q]) <= MaxText
    BY <2>1, SizeAssumption DEF Init
  <2>3. off = 0 /\ failed = FALSE BY DEF Init
  <2>4. 0 \in 0 .. Len(input) BY <1>8
  <2>5. QED BY <2>2, <2>3, <2>4 DEF Shared
<1>11. First BY <1>3, <1>5 DEF First
<1>12. ASSUME NEW p \in Procs PROVE Local(p) /\ Len(ps[p].kids) <= Len(ps[p].job)
  <2>1. Place(p) BY <1>6 DEF Place, Shells
  <2>2. Held(p) BY <1>6 DEF Held
  <2>3. Unwaited(p) = {} BY <1>6 DEF Unwaited
  <2>4. Family(p) BY <1>1, <1>6, <2>3 DEF Family
  <2>5. last[p] = 0 BY DEF Init
  <2>6. Code(p) BY <1>6, <2>5 DEF Code
  <2>7. Len(ps[p].job) \in Nat BY <1>5, Fields, LineIsSeq, SizeAssumption
  <2>8. Len(ps[p].kids) = 0 BY <1>6, EmptySeq
  <2>9. QED BY <2>1, <2>2, <2>4, <2>6, <2>7, <2>8 DEF Local
<1>13. TypeOK BY <1>5, <1>10, <1>12 DEF TypeOK, Shared
<1>14. QED BY <1>9, <1>11, <1>12, <1>13 DEF IInv

LEMMA NextInv == IInv /\ [Next]_vars => IInv'
<1> SUFFICES ASSUME IInv, [Next]_vars PROVE IInv' OBVIOUS
<1>1. CASE UNCHANGED vars
  <2>1. /\ UNCHANGED world /\ ps' = ps /\ off' = off /\ text' = text /\ failed' = failed
        /\ times' = times /\ last' = last
    BY <1>1 DEF vars
  <2>2. ASSUME NEW p \in Procs PROVE Local(p)'
    <3>1. Alike(p) BY <2>1 DEF Alike
    <3>2. Place(p)' /\ Held(p)' /\ Family(p)' BY <2>1, <3>1, FamilyKept
    <3>3. Code(p)' BY <2>1, <3>1, CodeKept
    <3>4. QED BY <3>2, <3>3 DEF Local
  <2>3. Given' /\ input' = input BY <2>1, SharedHolds, WorldKept, ProcTypes DEF Given
  <2>4. Shared' BY <2>1, <2>3, SharedHolds DEF Shared
  <2>5. First' /\ ps' \in [Procs -> Proc] BY <2>1, SharedHolds DEF First, IInv, TypeOK
  <2>6. QED BY <2>2, <2>3, <2>4, <2>5, Assemble
<1>2. ASSUME NEW p \in Procs, Step(p) \/ PipeFails(p) \/ ForkFails(p) \/ BrokenPipe(p) \/ Speak(p)
      PROVE  IInv'
  <2>1. CASE ReadLine(p) BY <2>1, ReadLineKeeps
  <2>2. CASE EndOfInput(p) BY <2>2, EndOfInputKeeps
  <2>3. CASE MakePipes(p) BY <2>3, MakePipesKeeps
  <2>4. CASE HeadBuiltIn(p) BY <2>4, HeadBuiltInKeeps
  <2>5. CASE HeadExit(p) BY <2>5, HeadExitKeeps
  <2>6. CASE Fork(p) BY <2>6, ForkKeeps
  <2>7. CASE Close(p) BY <2>7, CloseKeeps
  <2>8. CASE Wait(p) BY <2>8, WaitKeeps
  <2>9. CASE SingleChild(p) BY <2>9, SingleChildKeeps
  <2>10. CASE PipedChild(p) BY <2>10, PipedChildKeeps
  <2>11. CASE Finish(p) BY <2>11, FinishKeeps
  <2>12. CASE PipeFails(p) BY <2>12, PipeFailsKeeps
  <2>13. CASE ForkFails(p) BY <2>13, ForkFailsKeeps
  <2>14. CASE Speak(p) BY <2>14, SpeakKeeps
  <2>15. CASE BrokenPipe(p) BY <2>15, KilledKeeps DEF BrokenPipe
  <2>16. QED
    BY <1>2, <2>1, <2>2, <2>3, <2>4, <2>5, <2>6, <2>7, <2>8, <2>9, <2>10, <2>11, <2>12, <2>13, <2>14, <2>15
    DEF Step
<1>3. QED BY <1>1, <1>2 DEF Next

\* What a process can hold at each place of the shell's code.
THEOREM Invariance == Spec => []IInv
<1>1. QED BY InitInv, NextInv, PTL DEF Spec

\* The type invariant: the offset stays in the input, a list of pids is never
\* longer than the line it belongs to, and no pipe or process is one that does
\* not exist (dshlib.c:324-541).
THEOREM TypeCorrect == Spec => []TypeOK
<1>1. IInv => TypeOK BY DEF IInv
<1>2. QED BY <1>1, Invariance, PTL

\* A shell at its prompt has no children, dead or alive, unless some fork() has
\* failed (dshlib.c:407-410, 535-542).
THEOREM ShellReaps == Spec => []Reaped
<1>1. IInv => Reaped
  <2> SUFFICES ASSUME IInv, ~failed, NEW p \in Procs, NEW c \in Procs, ps[p].pc = "prompt"
               PROVE  ps[c].parent # p
    BY DEF Reaped
  <2>1. ps[p].kids = <<>> BY ProcTypes DEF Place, Shells
  <2>2. QED BY <2>1, NoKids
<1>2. QED BY <1>1, Invariance, PTL

\* Pipe ends are held only where a pipeline is being set up (dshlib.c:434-532).
THEOREM ShellCloses == Spec => []EndsClosed
<1>1. IInv => EndsClosed BY DEF IInv, Local, Held, EndsClosed
<1>2. QED BY <1>1, Invariance, PTL

\* rc prints how the last command of the last complete line has ended, in every
\* copy of the shell (dshlib.c:324-328, 409, 538-541).
THEOREM RcCorrect == Spec => []RcIsLast
<1>1. IInv => RcIsLast BY DEF IInv, Local, Code, RcIsLast
<1>2. QED BY <1>1, Invariance, PTL
=============================================================================
