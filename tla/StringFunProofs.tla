-------------------------- MODULE StringFunProofs --------------------------
(***************************************************************************)
(* The string utility does what its options say, for every size of buffer, *)
(* every string and every content of the memory behind the buffer.  What   *)
(* is right is said over the whole text (the squeezed string, its words    *)
(* and their numbers in order); the loops of the code go over cells.  So   *)
(* each proof needs what the text has up to the loop's counter, and that   *)
(* one more cell adds at most one number to a set whose numbers are put in *)
(* order (OrderedAdd).                                                     *)
(***************************************************************************)
EXTENDS StringFun, SequenceTheorems, FiniteSetTheorems, TLAPS

-----------------------------------------------------------------------------
(***************************************************************************)
(* The numbers of a finite set in their order.                             *)
(***************************************************************************)
\* How many elements of S come up to n.
Rank(S, n) == Cardinality({m \in S : m <= n})

LEMMA UpToFinite ==
  ASSUME NEW S \in SUBSET Int, IsFiniteSet(S), NEW n \in Int
  PROVE  /\ IsFiniteSet({m \in S : m <= n})
         /\ Rank(S, n) \in 0 .. Cardinality(S) /\ Cardinality(S) \in Nat
<1>1. {m \in S : m <= n} \in SUBSET S OBVIOUS
<1>2. /\ IsFiniteSet({m \in S : m <= n})
      /\ Cardinality({m \in S : m <= n}) <= Cardinality(S)
  BY <1>1, FS_Subset
<1>3. Cardinality({m \in S : m <= n}) \in Nat /\ Cardinality(S) \in Nat BY <1>2, FS_CardinalityType
<1>4. QED BY <1>2, <1>3 DEF Rank

LEMMA RankGrows ==
  ASSUME NEW S \in SUBSET Int, IsFiniteSet(S), NEW n \in S, NEW m \in S, m < n
  PROVE  Rank(S, m) < Rank(S, n)
<1> DEFINE A == {x \in S : x <= m}
           B == {x \in S : x <= n}
<1>1. A \in SUBSET B /\ n \in B /\ n \notin A
  <2>1. m \in Int /\ n \in Int /\ \A x \in S : x \in Int OBVIOUS
  <2>2. \A x \in S : x <= m => x <= n BY <2>1
  <2>3. n <= n /\ ~(n <= m) BY <2>1
  <2>4. QED BY <2>2, <2>3
<1>2. IsFiniteSet(B) /\ Cardinality(B) \in Nat /\ Cardinality(A) \in Nat
  BY UpToFinite DEF Rank
<1> HIDE DEF A, B
<1>3. Cardinality(A) <= Cardinality(B) /\ (Cardinality(B) = Cardinality(A) => B = A)
  BY <1>1, <1>2, FS_Subset
<1>4. Cardinality(A) < Cardinality(B) BY <1>1, <1>2, <1>3
<1>5. QED BY <1>4 DEF A, B, Rank

LEMMA RankDiffers ==
  ASSUME NEW S \in SUBSET Int, IsFiniteSet(S), NEW m \in S, NEW n \in S, Rank(S, m) = Rank(S, n)
  PROVE  m = n
<1> DEFINE c == Cardinality(S)
<1> HIDE DEF c
<1>1. c \in Nat /\ Rank(S, m) \in 0 .. c /\ Rank(S, n) \in 0 .. c BY UpToFinite DEF c
<1>2. Rank(S, m) \in Int /\ Rank(S, n) \in Int BY <1>1
<1>3. ~(m < n) /\ ~(n < m) BY <1>2, RankGrows
<1>4. QED BY <1>3

LEMMA OneOfRank ==
  ASSUME NEW S \in SUBSET Int, IsFiniteSet(S), NEW i \in 1 .. Cardinality(S)
  PROVE  \E n \in S : Rank(S, n) = i
<1> DEFINE f == [n \in S |-> Rank(S, n)]
           c == Cardinality(S)
<1>1. c \in Nat BY FS_CardinalityType
<1>2. ASSUME NEW n \in S PROVE Rank(S, n) \in 1 .. c
  <2>1. Rank(S, n) \in 0 .. c BY UpToFinite
  <2>2. Rank(S, n) # 0
    <3>1. n \in {m \in S : m <= n} OBVIOUS
    <3>2. IsFiniteSet({m \in S : m <= n}) BY UpToFinite
    <3>3. QED BY <3>1, <3>2, FS_EmptySet DEF Rank
  <2>3. QED BY <2>1, <2>2, <1>1
<1>3. \A m, n \in S : f[m] = f[n] => m = n BY RankDiffers
<1>4. f \in Injection(S, 1 .. c) BY <1>2, <1>3 DEF Injection, IsInjective
<1>5. IsFiniteSet(1 .. c) /\ Cardinality(1 .. c) = c BY <1>1, FS_Interval
<1>6. f \in Surjection(S, 1 .. c) BY <1>4, <1>5, FS_Injection
<1>7. PICK n \in S : f[n] = i BY <1>6 DEF Surjection
<1>8. QED BY <1>7

LEMMA OrderedIs ==
  ASSUME NEW S \in SUBSET Int, IsFiniteSet(S)
  PROVE  /\ Cardinality(S) \in Nat /\ Ordered(S) \in [1 .. Cardinality(S) -> S]
         /\ \A i \in 1 .. Cardinality(S) : Rank(S, Ordered(S)[i]) = i
<1>1. ASSUME NEW i \in 1 .. Cardinality(S)
      PROVE  /\ (CHOOSE n \in S : Cardinality({m \in S : m <= n}) = i) \in S
             /\ Rank(S, CHOOSE n \in S : Cardinality({m \in S : m <= n}) = i) = i
  BY OneOfRank DEF Rank
<1>2. Cardinality(S) \in Nat BY FS_CardinalityType
<1>3. QED BY <1>1, <1>2 DEF Ordered

LEMMA OrderedEmpty == Ordered({}) = <<>>
<1>1. Cardinality({}) = 0 BY FS_EmptySet
<1>2. QED BY <1>1 DEF Ordered

\* A number above all others comes last.
LEMMA OrderedAdd ==
  ASSUME NEW S \in SUBSET Int, IsFiniteSet(S), NEW x \in Int, \A n \in S : n < x
  PROVE  /\ IsFiniteSet(S \cup {x}) /\ Cardinality(S \cup {x}) = Cardinality(S) + 1
         /\ \A i \in 1 .. Cardinality(S) : Ordered(S \cup {x})[i] = Ordered(S)[i]
         /\ Ordered(S \cup {x})[Cardinality(S) + 1] = x
<1> DEFINE T == S \cup {x}
           c == Cardinality(S)
<1>1. x \notin S OBVIOUS
<1>2. IsFiniteSet(T) /\ Cardinality(T) = c + 1 /\ c \in Nat
  BY <1>1, FS_AddElement, FS_CardinalityType
<1>3. T \in SUBSET Int OBVIOUS
<1>4. /\ Ordered(T) \in [1 .. c + 1 -> T] /\ \A i \in 1 .. c + 1 : Rank(T, Ordered(T)[i]) = i
      /\ Ordered(S) \in [1 .. c -> S] /\ \A i \in 1 .. c : Rank(S, Ordered(S)[i]) = i
  BY <1>2, <1>3, OrderedIs
<1>5. \A m, n \in T : Rank(T, m) = Rank(T, n) => m = n
  <2> HIDE DEF T
  <2>1. QED BY <1>2, <1>3, RankDiffers
<1>6. \A n \in S : Rank(T, n) = Rank(S, n)
  <2>1. \A n \in S : {m \in T : m <= n} = {m \in S : m <= n} OBVIOUS
  <2>2. QED BY <2>1 DEF Rank
<1>7. Rank(T, x) = c + 1
  <2>1. \A m \in T : m <= x OBVIOUS
  <2>2. {m \in T : m <= x} = T BY <2>1
  <2>3. QED BY <2>2, <1>2 DEF Rank
<1>8. ASSUME NEW i \in 1 .. c PROVE Ordered(T)[i] = Ordered(S)[i]
  <2>1. i \in 1 .. c + 1 BY <1>2
  <2>2. Ordered(S)[i] \in S BY <1>4
  <2>3. Rank(T, Ordered(S)[i]) = i BY <1>4, <1>6, <2>2
  <2>4. QED BY <1>4, <1>5, <2>1, <2>2, <2>3
<1>9. c + 1 \in 1 .. c + 1 BY <1>2
<1>10. Ordered(T)[c + 1] = x BY <1>4, <1>5, <1>7, <1>9
<1>11. QED BY <1>2, <1>8, <1>10

-----------------------------------------------------------------------------
(***************************************************************************)
(* Types and bounds.                                                       *)
(***************************************************************************)
\* Where an operation works on the buffer.
Working == {"c", "r", "swap", "w", "x"}

\* What main() gets, and that the copy in memory is of characters.
Given ==
  /\ Len(str) <= Top + 1
  /\ opt = "x" => rewrite \in Rewrites
  /\ pc \in Working \cup {"setup"} =>
       \A c \in Cells : c < length \/ c >= Size => mem[c] \in Chars

\* Where the loops are.
Loops ==
  /\ pc = "setup" => k = 0 /\ start = -1 /\ count = 0 /\ printed = <<>> /\ end = -1
  /\ pc \in Working => src = Len(str) /\ length = Size /\ opt = (IF pc = "swap" THEN "r" ELSE pc)
  /\ pc \in {"c", "w"} => k <= Len(str)
  /\ pc = "w" => start < k
  /\ pc = "r" => k = 0
  /\ end < Len(str)

IInv == TypeOK /\ Given /\ Loops

LEMMA FunIsSeq ==
  ASSUME NEW S, NEW n \in Nat, NEW f \in [1 .. n -> S]
  PROVE  f \in Seq(S) /\ Len(f) = n
<1>1. f \in Seq(S) BY SeqDef
<1>2. DOMAIN f = 1 .. n /\ DOMAIN f = 1 .. Len(f) /\ Len(f) \in Nat BY <1>1, LenProperties
<1>3. QED BY <1>1, <1>2

LEMMA Sizes ==
  ASSUME TypeOK, Given
  PROVE  /\ Len(str) \in Nat /\ DOMAIN str = 1 .. Len(str) /\ Len(str) <= Top + 1
         /\ Size \in Nat \ {0} /\ Top \in Nat /\ Size <= Top + 1
         /\ \A i \in 1 .. Len(str) : str[i] \in Chars
<1>1. str \in Seq(Chars) BY DEF TypeOK
<1>2. QED BY <1>1, SizeAssumption, LenProperties, ElementOfSeq DEF Given

LEMMA InitTypes == Init => IInv
<1> SUFFICES ASSUME Init PROVE IInv OBVIOUS
<1>1. str \in Seq(Chars) /\ Len(str) <= Top + 1 BY StringsAssumption DEF Init
<1>2. Len(str) \in Nat BY <1>1, LenProperties
<1>3. Size \in Nat /\ Top \in Nat BY SizeAssumption
<1>4. mem \in [Cells -> Chars \cup {Nul, "?"}] /\ \A c \in Cells : c >= Size => mem[c] \in Chars
  <2>1. PICK u \in Unknown : mem = [c \in Cells |-> IF c < Size THEN "?" ELSE u] BY DEF Init
  <2>2. u \in Chars BY UnknownAssumption
  <2>3. \A c \in Cells : c \in Int BY DEF Cells
  <2>4. QED BY <1>3, <2>1, <2>2, <2>3
<1>5. printed \in Seq(Seq(Chars)) BY EmptySeq DEF Init
<1>6. 0 \in 0 .. Len(str) /\ 0 \in 0 .. Size /\ 0 \in 0 .. Top + 1 /\ -1 \in -1 .. Top
  BY <1>2, <1>3
<1>7. TypeOK BY <1>1, <1>4, <1>5, <1>6 DEF Init, TypeOK
<1>8. \A c \in Cells : ~(c < 0) BY DEF Cells
<1>9. Given BY <1>1, <1>4, <1>8 DEF Init, Given, Working
<1>10. Loops BY <1>2 DEF Init, Loops, Working
<1>11. QED BY <1>9, <1>10, <1>7 DEF IInv

\* One character goes into the buffer.
LEMMA PutTypes ==
  ASSUME IInv, pc = "setup", length < Size, NEW c \in Chars, Put(c), UNCHANGED <<input, pc>>
  PROVE  /\ Given' /\ length' \in 0 .. Size /\ mem' \in [Cells -> Chars \cup {Nul, "?"}]
         /\ \A x \in Cells : x # length => mem'[x] = mem[x]
         /\ length \in Cells /\ mem'[length] = c
<1>1. Size \in Nat /\ Top \in Nat /\ Size <= Top + 1 /\ length \in 0 .. Size
  BY Sizes DEF IInv, TypeOK
<1>2. length \in Cells /\ length' = length + 1 /\ mem' = [mem EXCEPT ![length] = c]
  BY <1>1 DEF Cells, Put
<1>3. mem \in [Cells -> Chars \cup {Nul, "?"}] BY DEF IInv, TypeOK
<1>4. \A x \in Cells : x \in Int BY DEF Cells
<1>5. \A x \in Cells : x < length' \/ x >= Size => mem'[x] \in Chars
  BY <1>1, <1>2, <1>3, <1>4 DEF IInv, Given
<1>6. Given' BY <1>5 DEF IInv, Given, input
<1>7. QED BY <1>1, <1>2, <1>3, <1>6

LEMMA CopyTypes ==
  ASSUME IInv, CopyBlank \/ CopyChar \/ PadDot
  PROVE  IInv'
<1>1. pc = "setup" /\ UNCHANGED <<input, pc, k, end, start, count, printed>>
  BY DEF CopyBlank, CopyChar, PadDot
<1>2. src' \in 0 .. Len(str) /\ flag' \in BOOLEAN
  <2>1. Len(str) \in Nat /\ src \in 0 .. Len(str) /\ flag \in BOOLEAN BY Sizes DEF IInv, TypeOK
  <2>2. src' \in {src, src + 1} /\ (src' # src => src < Len(str)) BY DEF CopyBlank, CopyChar, PadDot
  <2>3. flag' \in BOOLEAN BY <2>1 DEF CopyBlank, CopyChar, PadDot
  <2>4. QED BY <2>1, <2>2, <2>3
<1>3. Given' /\ length' \in 0 .. Size /\ mem' \in [Cells -> Chars \cup {Nul, "?"}]
  <2>1. CASE UNCHANGED <<mem, length>> BY <1>1, <2>1 DEF IInv, Given, TypeOK, input
  <2>2. CASE \E c \in Chars : Put(c) /\ length < Size BY <1>1, <2>2, PutTypes
  <2>3. Space \in Chars /\ Dot \in Chars BY DEF Chars, Blank
  <2>4. QED BY <2>1, <2>2, <2>3, Sizes DEF CopyBlank, CopyChar, PadDot, IInv, TypeOK
<1>4. TypeOK' BY <1>1, <1>2, <1>3 DEF IInv, TypeOK, input
<1>5. Loops' BY <1>1 DEF IInv, Loops, Working, input
<1>6. QED BY <1>3, <1>4, <1>5 DEF IInv

LEMMA DispatchTypes == ASSUME IInv, Dispatch PROVE IInv'
<1>1. Len(str) \in Nat /\ Len(str) <= Top + 1 /\ Top \in Nat BY Sizes DEF IInv
<1>2. Given' BY DEF Dispatch, IInv, Given, Loops, Working, input
<1>3. end' \in -1 .. Top /\ end' < Len(str) BY <1>1 DEF Dispatch, user_str_len
<1>4. TypeOK' BY <1>3 DEF Dispatch, IInv, TypeOK, input
<1>5. Loops' BY <1>1, <1>3 DEF Dispatch, IInv, Loops, TypeOK, Working, input
<1>6. QED BY <1>2, <1>4, <1>5 DEF IInv

\* A step that ends the program leaves the rest as it was.
LEMMA EndTypes ==
  ASSUME IInv, Rejected \/ CountDone \/ ReplaceTooLong \/ ReplaceBadly
  PROVE  IInv'
<1>1. /\ pc' \in {"rejected", "done", "overflow", "undefined"}
      /\ UNCHANGED <<input, mem, src, length, flag, k, end, start, count, printed>>
  BY DEF Rejected, CountDone, ReplaceTooLong, ReplaceBadly
<1>2. TypeOK' BY <1>1 DEF IInv, TypeOK, input
<1>3. Given' /\ Loops' BY <1>1 DEF IInv, Given, Loops, Working, input
<1>4. QED BY <1>2, <1>3 DEF IInv

LEMMA CountTypes == ASSUME IInv, CountWord PROVE IInv'
<1>1. Len(str) \in Nat /\ Len(str) <= Top + 1 /\ Top \in Nat /\ k \in Nat
  BY Sizes DEF IInv, TypeOK
<1>2. k' \in 0 .. Top + 1 /\ k' <= Len(str) BY <1>1 DEF CountWord, user_str_len
<1>3. count' \in Nat /\ flag' \in BOOLEAN BY DEF CountWord, IInv, TypeOK
<1>4. TypeOK' BY <1>2, <1>3 DEF CountWord, IInv, TypeOK, input
<1>5. Given' BY DEF CountWord, IInv, Given, input
<1>6. Loops' BY <1>2 DEF CountWord, IInv, Loops, Working, input
<1>7. QED BY <1>4, <1>5, <1>6 DEF IInv

\* The word before cell n is of characters.
LEMMA WordType ==
  ASSUME IInv, pc = "w", start # -1, start < k, k <= Len(str)
  PROVE  /\ Word(k) \in Seq(Chars) /\ Len(Word(k)) = k - start
         /\ \A j \in 1 .. k - start : Word(k)[j] = mem[start + j - 1]
<1>1. Len(str) <= Top + 1 /\ Top \in Nat /\ k \in 0 .. Top + 1 /\ start \in -1 .. Top /\ Len(str) \in Nat
  BY Sizes DEF IInv, TypeOK
<1>2. \A j \in 1 .. k - start : start + j - 1 \in Cells BY <1>1 DEF Cells
<1>3. \A c \in Cells : mem[c] \in Chars
  <2>1. \A c \in Cells : c < Size \/ c >= Size BY Sizes DEF Cells, IInv
  <2>2. QED BY <2>1 DEF IInv, Given, Loops, Working
<1>4. k - start \in Nat BY <1>1
<1>5. Word(k) \in [1 .. k - start -> Chars] BY <1>2, <1>3 DEF Word
<1>6. QED BY <1>4, <1>5, FunIsSeq DEF Word

LEMMA PrintTypes == ASSUME IInv, PrintWord PROVE IInv'
<1>1. Len(str) \in Nat /\ Len(str) <= Top + 1 /\ Top \in Nat /\ k \in Nat /\ start \in -1 .. Top
  BY Sizes DEF IInv, TypeOK
<1>2. pc = "w" /\ k < Len(str) /\ k' = k + 1 BY DEF PrintWord, user_str_len
<1>3. k' \in 0 .. Top + 1 /\ k' <= Len(str) BY <1>1, <1>2
<1>4. start < k BY <1>2 DEF IInv, Loops
<1>5. start' \in {start, k, -1} /\ start' \in -1 .. Top /\ start' < k'
  <2>1. start' \in {start, k, -1} BY DEF PrintWord
  <2>2. QED BY <1>1, <1>2, <1>4, <2>1
<1>6. printed' \in Seq(Seq(Chars))
  <2>1. printed \in Seq(Seq(Chars)) BY DEF IInv, TypeOK
  <2>2. start # -1 => Word(k) \in Seq(Chars) BY <1>1, <1>2, <1>4, WordType
  <2>3. start # -1 => Append(printed, Word(k)) \in Seq(Seq(Chars)) BY <2>1, <2>2, AppendProperties
  <2>4. printed' \in {printed, Append(printed, Word(k))} /\ (start = -1 => printed' = printed)
    BY DEF PrintWord
  <2>5. QED BY <2>1, <2>3, <2>4
<1>7. TypeOK' BY <1>3, <1>5, <1>6 DEF PrintWord, IInv, TypeOK, input
<1>8. Given' BY DEF PrintWord, IInv, Given, input
<1>9. Loops' BY <1>3, <1>5 DEF PrintWord, IInv, Loops, Working, input
<1>10. QED BY <1>7, <1>8, <1>9 DEF IInv

LEMMA PrintLastTypes == ASSUME IInv, PrintLast PROVE IInv'
<1>1. Len(str) \in Nat /\ k = Len(str) /\ pc = "w" /\ start < k
  BY Sizes DEF IInv, Loops, PrintLast, user_str_len
<1>2. printed' \in Seq(Seq(Chars))
  <2>1. printed \in Seq(Seq(Chars)) BY DEF IInv, TypeOK
  <2>2. start # -1 => Word(k) \in Seq(Chars) BY <1>1, WordType
  <2>3. QED BY <2>1, <2>2, AppendProperties DEF PrintLast
<1>3. TypeOK' BY <1>2 DEF PrintLast, IInv, TypeOK, input
<1>4. Given' /\ Loops' BY DEF PrintLast, IInv, Given, Loops, Working, input
<1>5. QED BY <1>3, <1>4 DEF IInv

LEMMA SkipTypes == ASSUME IInv, SkipDot PROVE IInv'
<1>1. end \in -1 .. Top /\ Top \in Nat /\ Len(str) \in Nat BY Sizes DEF IInv, TypeOK
<1>2. end' \in -1 .. Top /\ end' < Len(str) /\ pc' \in {"r", "swap"}
  BY <1>1 DEF SkipDot, IInv, Loops
<1>3. TypeOK' BY <1>2 DEF SkipDot, IInv, TypeOK, input
<1>4. Given' BY <1>2 DEF SkipDot, IInv, Given, Working, input
<1>5. Loops' BY <1>2 DEF SkipDot, IInv, Loops, Working, input
<1>6. QED BY <1>3, <1>4, <1>5 DEF IInv

\* What a swap does to memory.
LEMMA SwapTypes ==
  ASSUME IInv, Swap
  PROVE  /\ IInv'
         /\ k < end => /\ k \in Cells /\ end \in Cells
                       /\ \A c \in Cells : mem'[c] = IF c = k THEN mem[end]
                                                     ELSE IF c = end THEN mem[k] ELSE mem[c]
<1>1. /\ end \in -1 .. Top /\ Top \in Nat /\ Len(str) \in Nat /\ k \in 0 .. Top + 1
      /\ mem \in [Cells -> Chars \cup {Nul, "?"}]
  BY Sizes DEF IInv, TypeOK
<1>2. ASSUME k < end
      PROVE  /\ k \in Cells /\ end \in Cells /\ mem' \in [Cells -> Chars \cup {Nul, "?"}]
             /\ \A c \in Cells : mem'[c] = IF c = k THEN mem[end]
                                           ELSE IF c = end THEN mem[k] ELSE mem[c]
             /\ k' = k + 1 /\ end' = end - 1 /\ pc' = "swap"
  <2>1. k \in Cells /\ end \in Cells /\ k # end BY <1>1, <1>2 DEF Cells
  <2>2. mem' = [mem EXCEPT ![k] = mem[end], ![end] = mem[k]] BY <1>2 DEF Swap
  <2>3. QED BY <1>1, <1>2, <2>1, <2>2 DEF Swap
<1>3. ~(k < end) => UNCHANGED <<mem, k, end>> /\ pc' = "done" BY DEF Swap
<1>4. k' \in 0 .. Top + 1 /\ end' \in -1 .. Top /\ end' < Len(str)
  BY <1>1, <1>2, <1>3 DEF IInv, Loops
<1>5. TypeOK' BY <1>1, <1>2, <1>3, <1>4 DEF Swap, IInv, TypeOK, input
<1>6. Given'
  <2>1. CASE k < end
    <3>1. \A c \in Cells : mem[c] \in Chars
      <4>1. \A c \in Cells : c < Size \/ c >= Size BY Sizes DEF Cells, IInv
      <4>2. QED BY <4>1 DEF Swap, IInv, Given, Loops, Working
    <3>2. \A c \in Cells : mem'[c] \in Chars BY <1>2, <2>1, <3>1
    <3>3. QED BY <3>2 DEF Swap, IInv, Given, input
  <2>2. CASE ~(k < end) BY <1>3, <2>2 DEF Swap, IInv, Given, Working, input
  <2>3. QED BY <2>1, <2>2
<1>7. Loops' BY <1>2, <1>3, <1>4 DEF Swap, IInv, Loops, Working, input
<1>8. QED BY <1>2, <1>5, <1>6, <1>7 DEF IInv

LEMMA AllChars ==
  ASSUME IInv, pc \in Working
  PROVE  \A c \in Cells : mem[c] \in Chars
<1>1. \A c \in Cells : c < Size \/ c >= Size BY Sizes DEF Cells, IInv
<1>2. QED BY <1>1 DEF IInv, Given, Loops

\* What strncpy() and strncat() copy from memory.
LEMMA CopyType ==
  ASSUME IInv, pc \in Working, NEW n \in Nat, NEW len \in Nat, n + len <= Top + 1
  PROVE  /\ Copy(n, len) \in Seq(Chars) /\ Len(Copy(n, len)) = len
         /\ \A j \in 1 .. len : Copy(n, len)[j] = mem[n + j - 1]
<1>1. \A j \in 1 .. len : n + j - 1 \in Cells BY Sizes DEF Cells, IInv
<1>2. Copy(n, len) \in [1 .. len -> Chars] BY <1>1, AllChars DEF Copy
<1>3. QED BY <1>2, FunIsSeq DEF Copy

Temp(n) ==
  Copy(0, n) \o replace \o Copy(n + Len(target), user_str_len - (n + Len(target)))

\* The text with its replacement at n, before it is cut off for the buffer.
LEMMA TempIs ==
  ASSUME IInv, pc = "x", NEW n \in Nat, Len(str) >= n + Len(target)
  PROVE  /\ target \in Seq(Chars) /\ replace \in Seq(Chars)
         /\ Len(target) \in Nat /\ Len(replace) \in Nat
         /\ Temp(n) \in Seq(Chars) /\ Len(Temp(n)) = NewLen
         /\ \A i \in 1 .. NewLen :
              Temp(n)[i] = IF i <= n THEN mem[i - 1]
                           ELSE IF i <= n + Len(replace) THEN replace[i - n]
                           ELSE mem[i - 1 - Len(replace) + Len(target)]
<1>1. rewrite \in Rewrites BY DEF IInv, Given, Loops, Working
<1>2. target \in Seq(Chars) /\ replace \in Seq(Chars) BY <1>1, StringsAssumption DEF target, replace
<1>3. Len(target) \in Nat /\ Len(replace) \in Nat BY <1>2, LenProperties
<1> DEFINE t == Len(target)
           u == Len(str)
           v == Len(replace)
           a == Copy(0, n)
           b == Copy(n + t, u - (n + t))
<1>4. u \in Nat /\ u <= Top + 1 /\ Top \in Nat BY Sizes DEF IInv
<1>5. pc \in Working BY DEF Working
<1>6. a \in Seq(Chars) /\ Len(a) = n /\ \A j \in 1 .. n : a[j] = mem[0 + j - 1]
  <2>1. 0 + n <= Top + 1 BY <1>3, <1>4
  <2>2. QED BY <1>5, <2>1, CopyType
<1>7. /\ b \in Seq(Chars) /\ Len(b) = u - (n + t)
      /\ \A j \in 1 .. u - (n + t) : b[j] = mem[n + t + j - 1]
  <2>1. n + t \in Nat /\ u - (n + t) \in Nat /\ (n + t) + (u - (n + t)) <= Top + 1 BY <1>3, <1>4
  <2> HIDE DEF t, u
  <2>2. QED BY <1>5, <2>1, CopyType
<1> HIDE DEF a, b
<1>8. /\ a \o replace \in Seq(Chars) /\ Len(a \o replace) = n + v
      /\ \A i \in 1 .. n : (a \o replace)[i] = a[i]
      /\ \A i \in 1 .. v : (a \o replace)[n + i] = replace[i]
  <2>1. a \o replace \in Seq(Chars) /\ Len(a \o replace) = Len(a) + Len(replace)
    BY <1>2, <1>6, ConcatProperties
  <2>2. \A i \in 1 .. Len(a) + Len(replace) :
             (a \o replace)[i] = IF i <= Len(a) THEN a[i] ELSE replace[i - Len(a)]
    BY <1>2, <1>6, ConcatProperties
  <2>3. v \in Nat /\ Len(replace) = v BY <1>3
  <2> HIDE DEF t, u, v
  <2>4. Len(a) = n /\ n \in Nat BY <1>6
  <2>5. \A i \in 1 .. n : i \in 1 .. n + v /\ i <= n BY <2>3, <2>4
  <2>6. \A i \in 1 .. v : n + i \in 1 .. n + v /\ ~(n + i <= n) /\ (n + i) - n = i BY <2>3, <2>4
  <2>7. \A i \in 1 .. n : (a \o replace)[i] = a[i] BY <2>3, <2>4, <2>2, <2>5
  <2>8. \A i \in 1 .. v : (a \o replace)[n + i] = replace[i] BY <2>3, <2>4, <2>2, <2>6
  <2>9. QED BY <2>1, <2>3, <2>4, <2>7, <2>8
<1> DEFINE c == a \o replace
<1> HIDE DEF c
<1>9. /\ c \o b \in Seq(Chars) /\ Len(c \o b) = n + v + (u - (n + t))
      /\ \A i \in 1 .. n + v : (c \o b)[i] = c[i]
      /\ \A i \in 1 .. u - (n + t) : (c \o b)[n + v + i] = b[i]
  <2>1. c \in Seq(Chars) /\ Len(c) = n + v BY <1>8 DEF c
  <2>2. n + v \in Nat /\ u - (n + t) \in Nat BY <1>3, <1>4
  <2> HIDE DEF t, u, v
  <2>3. b \in Seq(Chars) BY <1>7
  <2>4. c \o b \in Seq(Chars) /\ Len(c \o b) = Len(c) + Len(b) BY <2>1, <2>3, ConcatProperties
  <2>5. \A i \in 1 .. Len(c) + Len(b) : (c \o b)[i] = IF i <= Len(c) THEN c[i] ELSE b[i - Len(c)]
    BY <2>1, <2>3, ConcatProperties
  <2> DEFINE d == n + v
             e == u - (n + t)
  <2>6. d \in Nat /\ e \in Nat /\ Len(c) = d /\ Len(b) = e BY <1>7, <2>1, <2>2
  <2> HIDE DEF d, e
  <2>7. /\ c \o b \in Seq(Chars) /\ Len(c \o b) = d + e
        /\ \A i \in 1 .. d : (c \o b)[i] = c[i]
        /\ \A i \in 1 .. e : (c \o b)[d + i] = b[i]
    BY <2>4, <2>6, <2>5
  <2>8. QED BY <2>7 DEF d, e
<1>10. Temp(n) = c \o b BY DEF Temp, a, b, c, user_str_len
<1>11. NewLen = n + v + (u - (n + t)) BY <1>3, <1>4 DEF NewLen, user_str_len
<1>12. ASSUME NEW i \in 1 .. NewLen
       PROVE  Temp(n)[i] = IF i <= n THEN mem[i - 1]
                           ELSE IF i <= n + v THEN replace[i - n] ELSE mem[i - 1 - v + t]
  <2> HIDE DEF t, u, v
  <2>1. t \in Nat /\ u \in Nat /\ v \in Nat /\ u >= n + t BY <1>3, <1>4 DEF t, u, v
  <2>2. i \in Nat /\ i >= 1 /\ i <= n + v + (u - (n + t)) BY <1>11, <1>12, <2>1
  <2>3. CASE i <= n
    <3>1. i \in 1 .. n + v /\ i \in 1 .. n /\ i <= n + v BY <2>1, <2>2, <2>3
    <3>2. Temp(n)[i] = a[i] BY <1>8, <1>9, <1>10, <1>11, <1>12, <2>3, <3>1 DEF c
    <3>3. 0 + i - 1 = i - 1 BY <2>2
    <3>4. QED BY <1>6, <2>3, <3>1, <3>2, <3>3
  <2>4. CASE i > n /\ i <= n + v
    <3>1. i \in 1 .. n + v /\ i - n \in 1 .. v /\ n + (i - n) = i BY <2>1, <2>2, <2>4
    <3>2. Temp(n)[i] = replace[i - n] BY <1>8, <1>9, <1>10, <1>11, <1>12, <2>4, <3>1 DEF c
    <3>3. QED BY <2>4, <3>2
  <2>5. CASE i > n + v
    <3>1. i - (n + v) \in 1 .. u - (n + t) BY <2>1, <2>2, <2>5
    <3>2. n + v + (i - (n + v)) = i BY <2>1, <2>2, <2>5
    <3>3. Temp(n)[i] = b[i - (n + v)] BY <1>9, <1>10, <3>1, <3>2
    <3>4. n + t + (i - (n + v)) - 1 = i - 1 - v + t BY <2>1, <2>2
    <3>5. ~(i <= n) /\ ~(i <= n + v) BY <2>1, <2>2, <2>5
    <3>6. QED BY <1>7, <3>1, <3>3, <3>4, <3>5
  <2>6. QED BY <2>1, <2>2, <2>3, <2>4, <2>5
<1>13. QED BY <1>2, <1>3, <1>9, <1>10, <1>11, <1>12

\* A replacement: where it is, and what the buffer holds after it.
LEMMA ReplaceIs ==
  ASSUME IInv, Replace
  PROVE  \E n \in 0 .. Size - Len(target) :
           /\ Found(n) /\ Len(str) >= n + Len(target) /\ NewLen <= Size
           /\ \A c \in Cells : mem'[c] = IF c >= Size THEN mem[c]
                                         ELSE IF c < NewLen /\ c < Size - 1 THEN Temp(n)[c + 1] ELSE Nul
           /\ \A c \in Cells : mem'[c] \in Chars \cup {Nul, "?"}
           /\ DOMAIN mem' = Cells
<1>1. PICK n \in 0 .. Size - Len(target) :
        /\ Found(n) /\ user_str_len >= n + Len(target)
        /\ mem' = [c \in Cells |-> IF c >= Size THEN mem[c]
                                   ELSE IF c < Len(Temp(n)) /\ c < Size - 1 THEN Temp(n)[c + 1] ELSE Nul]
  BY DEF Replace, Temp
<1>2. pc = "x" /\ NewLen <= Size BY DEF Replace
<1>3. n \in Nat BY <1>1
<1>4. Temp(n) \in Seq(Chars) /\ Len(Temp(n)) = NewLen BY <1>1, <1>2, <1>3, TempIs DEF user_str_len
<1>5. NewLen \in Nat /\ \A i \in 1 .. NewLen : Temp(n)[i] \in Chars BY <1>4, LenProperties, ElementOfSeq
<1>6. \A c \in Cells : c \in Nat BY DEF Cells
<1>7. \A c \in Cells : c < NewLen => c + 1 \in 1 .. NewLen BY <1>5, <1>6
<1>8. \A c \in Cells : mem[c] \in Chars BY <1>2, AllChars DEF Working
<1>9. QED BY <1>1, <1>2, <1>4, <1>5, <1>7, <1>8 DEF user_str_len

LEMMA ReplaceTypes == ASSUME IInv, Replace PROVE IInv'
<1>1. mem' \in [Cells -> Chars \cup {Nul, "?"}]
  <2>1. \A c \in Cells : mem'[c] \in Chars \cup {Nul, "?"} BY ReplaceIs
  <2>2. \E f : mem' = [c \in Cells |-> f[c]]
    <3>1. PICK n \in 0 .. Size - Len(target) :
            mem' = [c \in Cells |-> IF c >= Size THEN mem[c]
                                   ELSE IF c < Len(Temp(n)) /\ c < Size - 1 THEN Temp(n)[c + 1] ELSE Nul]
      BY DEF Replace, Temp
    <3>2. mem' = [c \in Cells |-> mem'[c]] BY <3>1
    <3>3. QED BY <3>2
  <2>3. QED BY <2>1, <2>2
<1>2. TypeOK' BY <1>1 DEF Replace, IInv, TypeOK, input
<1>3. Given' /\ Loops' BY DEF Replace, IInv, Given, Loops, Working, input
<1>4. QED BY <1>2, <1>3 DEF IInv

LEMMA NextTypes == IInv /\ [Next]_vars => IInv'
<1>1. ASSUME IInv, UNCHANGED vars PROVE IInv'
  BY <1>1 DEF IInv, TypeOK, Given, Loops, vars, input
<1>2. QED
  BY <1>1, CopyTypes, DispatchTypes, EndTypes, CountTypes, PrintTypes, PrintLastTypes, SkipTypes,
     SwapTypes, ReplaceTypes DEF Next

\* The inductive invariant of the string utility.
LEMMA Invariance == Spec => []IInv
BY InitTypes, NextTypes, PTL DEF Spec

\* The loops of the string utility read and write no memory but the cells of the
\* model, of which there are as many as the string has characters, or the buffer
\* if that is longer (stringfun.c:21-165).
THEOREM TypeCorrect == Spec => []TypeOK
BY Invariance, PTL DEF IInv

\* With a string that is not longer than the buffer, no operation writes behind
\* the buffer (stringfun.c:21-138).
THEOREM StringStays == Spec => StaysInBuffer
<1> DEFINE A == Len(str) <= Size => \A c \in Size .. Top : mem'[c] = mem[c]
<1>1. ASSUME IInv, Next, Len(str) <= Size, NEW c \in Size .. Top PROVE mem'[c] = mem[c]
  <2>1. Size \in Nat /\ Top \in Nat /\ c \in Cells /\ c >= Size /\ Len(str) \in Nat
    BY <1>1, Sizes DEF Cells, IInv
  <2>2. mem \in [Cells -> Chars \cup {Nul, "?"}] /\ length \in Nat /\ end < Len(str)
        /\ k \in Nat /\ end \in Int
    BY <1>1, <2>1 DEF IInv, TypeOK, Loops
  <2>3. CASE CopyBlank \/ CopyChar \/ PadDot
    <3>1. CASE mem' = mem BY <3>1
    <3>2. CASE \E x : mem' = [mem EXCEPT ![length] = x] /\ length < Size
      <4>1. c # length BY <2>1, <2>2, <3>2
      <4>2. QED BY <2>1, <2>2, <3>2, <4>1
    <3>3. QED BY <2>3, <3>1, <3>2 DEF CopyBlank, CopyChar, PadDot, Put
  <2>4. CASE Swap
    <3>1. CASE k < end
      <4>1. c # k /\ c # end BY <1>1, <2>1, <2>2, <3>1
      <4>2. QED BY <1>1, <2>1, <2>4, <3>1, <4>1, SwapTypes
    <3>2. CASE ~(k < end) BY <2>4, <3>2 DEF Swap
    <3>3. QED BY <3>1, <3>2
  <2>5. CASE Replace BY <1>1, <2>1, <2>5, ReplaceIs
  <2>6. CASE ~(CopyBlank \/ CopyChar \/ PadDot \/ Swap \/ Replace)
    <3>1. mem' = mem
      BY <1>1, <2>6 DEF Next, Rejected, Dispatch, CountWord, CountDone, PrintWord, PrintLast, SkipDot,
                        ReplaceBadly, ReplaceTooLong
    <3>2. QED BY <3>1
  <2>7. QED BY <2>3, <2>4, <2>5, <2>6
<1>2. IInv /\ [Next]_vars => [A]_vars BY <1>1
<1> HIDE DEF A
<1>3. Spec => [][A]_vars BY <1>2, Invariance, PTL DEF Spec
<1>4. QED BY <1>3 DEF A, StaysInBuffer

-----------------------------------------------------------------------------
(***************************************************************************)
(* The squeezed text, character by character.                              *)
(***************************************************************************)

\* Position n of s is no blank, or the first of its blanks.
Keeps(s, n) == s[n] \notin Blank \/ n = 1 \/ s[n - 1] \notin Blank
Kept(s, m)  == {n \in 1 .. m : Keeps(s, n)}
AsSpace(c)  == IF c \in Blank THEN Space ELSE c

\* The squeezed text of the first m characters of s.
SqueezedTo(s, m) == [j \in 1 .. Cardinality(Kept(s, m)) |-> AsSpace(s[Ordered(Kept(s, m))[j]])]

LEMMA KeptIs ==
  ASSUME NEW s, NEW m \in Nat
  PROVE  /\ Kept(s, m) \in SUBSET Int /\ Kept(s, m) \in SUBSET (1 .. m) /\ IsFiniteSet(Kept(s, m))
         /\ Cardinality(Kept(s, m)) \in Nat /\ Cardinality(Kept(s, m)) <= m
         /\ Ordered(Kept(s, m)) \in [1 .. Cardinality(Kept(s, m)) -> Kept(s, m)]
<1>1. Kept(s, m) \in SUBSET (1 .. m) BY DEF Kept
<1>2. IsFiniteSet(1 .. m) /\ Cardinality(1 .. m) = m BY FS_Interval
<1>3. IsFiniteSet(Kept(s, m)) /\ Cardinality(Kept(s, m)) <= m BY <1>1, <1>2, FS_Subset
<1>4. Kept(s, m) \in SUBSET Int BY <1>1
<1>5. QED BY <1>1, <1>3, <1>4, OrderedIs

LEMMA SqueezedType ==
  ASSUME NEW s \in Seq(Chars), NEW m \in 0 .. Len(s)
  PROVE  /\ SqueezedTo(s, m) \in Seq(Chars)
         /\ Len(SqueezedTo(s, m)) = Cardinality(Kept(s, m))
         /\ Len(SqueezedTo(s, m)) \in 0 .. m
<1>1. m \in Nat /\ \A i \in 1 .. m : s[i] \in Chars
  <2>1. Len(s) \in Nat /\ \A i \in 1 .. Len(s) : s[i] \in Chars BY LenProperties, ElementOfSeq
  <2>2. QED BY <2>1
<1> DEFINE c == Cardinality(Kept(s, m))
<1>2. c \in Nat /\ c <= m /\ \A j \in 1 .. c : Ordered(Kept(s, m))[j] \in 1 .. m BY <1>1, KeptIs
<1>3. \A j \in 1 .. c : AsSpace(s[Ordered(Kept(s, m))[j]]) \in Chars
  BY <1>1, <1>2 DEF AsSpace, Chars, Blank
<1>4. SqueezedTo(s, m) \in [1 .. c -> Chars] BY <1>3 DEF SqueezedTo
<1> HIDE DEF c
<1>5. SqueezedTo(s, m) \in Seq(Chars) /\ Len(SqueezedTo(s, m)) = c BY <1>2, <1>4, FunIsSeq
<1>6. QED BY <1>1, <1>2, <1>5 DEF c

\* One more character is one more in the squeezed text, or none.
LEMMA SqueezedNext ==
  ASSUME NEW s \in Seq(Chars), NEW m \in Nat, m < Len(s)
  PROVE  /\ Keeps(s, m + 1) =>
              /\ Len(SqueezedTo(s, m + 1)) = Len(SqueezedTo(s, m)) + 1
              /\ \A j \in 1 .. Len(SqueezedTo(s, m)) : SqueezedTo(s, m + 1)[j] = SqueezedTo(s, m)[j]
              /\ SqueezedTo(s, m + 1)[Len(SqueezedTo(s, m)) + 1] = AsSpace(s[m + 1])
         /\ ~Keeps(s, m + 1) => SqueezedTo(s, m + 1) = SqueezedTo(s, m)
<1>1. Len(s) \in Nat /\ m \in 0 .. Len(s) /\ m + 1 \in 0 .. Len(s) /\ m + 1 \in Nat BY LenProperties
<1> DEFINE S == Kept(s, m)
           T == Kept(s, m + 1)
           c == Cardinality(S)
<1>2. Len(SqueezedTo(s, m)) = c /\ Len(SqueezedTo(s, m + 1)) = Cardinality(T) BY <1>1, SqueezedType
<1>3. 1 .. m + 1 = 1 .. m \cup {m + 1} OBVIOUS
<1>4. CASE Keeps(s, m + 1)
  <2>1. T = S \cup {m + 1} BY <1>3, <1>4 DEF Kept
  <2>2. S \in SUBSET Int /\ IsFiniteSet(S) /\ (\A n \in S : n < m + 1) /\ Cardinality(S) \in Nat
    <3>1. S \in SUBSET Int /\ IsFiniteSet(S) /\ S \in SUBSET (1 .. m) /\ Cardinality(S) \in Nat
      BY KeptIs
    <3>2. QED BY <3>1
  <2>3. c = Cardinality(S) OBVIOUS
  <2> HIDE DEF S, T, c
  <2>4. /\ Cardinality(T) = c + 1 /\ Ordered(T)[c + 1] = m + 1
        /\ \A i \in 1 .. c : Ordered(T)[i] = Ordered(S)[i]
    <3>1. m + 1 \in Int BY <1>1
    <3>2. /\ Cardinality(S \cup {m + 1}) = Cardinality(S) + 1
          /\ \A i \in 1 .. Cardinality(S) : Ordered(S \cup {m + 1})[i] = Ordered(S)[i]
          /\ Ordered(S \cup {m + 1})[Cardinality(S) + 1] = m + 1
      BY <2>2, <3>1, OrderedAdd
    <3>3. QED BY <2>1, <2>3, <3>2
  <2>5. c \in Nat /\ \A j \in 1 .. c : j \in 1 .. c + 1 BY <2>2, <2>3
  <2>6. c + 1 \in 1 .. c + 1 BY <2>5
  <2>7. SqueezedTo(s, m + 1) = [j \in 1 .. c + 1 |-> AsSpace(s[Ordered(T)[j]])]
    BY <2>4 DEF SqueezedTo, T
  <2>8. SqueezedTo(s, m) = [j \in 1 .. c |-> AsSpace(s[Ordered(S)[j]])]
    BY DEF SqueezedTo, S, c
  <2>9. Len(SqueezedTo(s, m)) = c /\ Len(SqueezedTo(s, m + 1)) = c + 1 BY <1>2, <2>4 DEF T
  <2>10. \A j \in 1 .. c : SqueezedTo(s, m + 1)[j] = SqueezedTo(s, m)[j]
    <3>1. ASSUME NEW j \in 1 .. c PROVE SqueezedTo(s, m + 1)[j] = SqueezedTo(s, m)[j]
      <4>1. j \in 1 .. c + 1 /\ Ordered(T)[j] = Ordered(S)[j] BY <2>4, <2>5, <3>1
      <4>2. SqueezedTo(s, m + 1)[j] = AsSpace(s[Ordered(T)[j]]) BY <2>7, <4>1
      <4>3. SqueezedTo(s, m)[j] = AsSpace(s[Ordered(S)[j]]) BY <2>8, <3>1
      <4>4. QED BY <4>1, <4>2, <4>3
    <3>2. QED BY <3>1
  <2>11. SqueezedTo(s, m + 1)[c + 1] = AsSpace(s[m + 1]) BY <2>4, <2>7, <2>6
  <2>12. QED BY <1>4, <2>9, <2>10, <2>11
<1>5. CASE ~Keeps(s, m + 1)
  <2>1. Kept(s, m + 1) = Kept(s, m) BY <1>3, <1>5 DEF Kept
  <2>2. SqueezedTo(s, m + 1) = SqueezedTo(s, m) BY ONLY <2>1 DEF SqueezedTo
  <2>3. QED BY <1>5, <2>2
<1>6. QED BY <1>4, <1>5

LEMMA SqueezedWhole ==
  ASSUME NEW s \in Seq(Chars)
  PROVE  /\ Squeezed(s) = SqueezedTo(s, Len(s))
         /\ Len(s) > 0 => Squeezed(Front(s)) = SqueezedTo(s, Len(s) - 1)
<1>1. ASSUME NEW t \in Seq(Chars) PROVE Squeezed(t) = SqueezedTo(t, Len(t))
  <2>1. DOMAIN t = 1 .. Len(t) BY LenProperties
  <2>2. {n \in DOMAIN t : t[n] \notin Blank \/ n = 1 \/ t[n - 1] \notin Blank} = Kept(t, Len(t))
    BY <2>1 DEF Kept, Keeps
  <2>3. DOMAIN Ordered(Kept(t, Len(t))) = 1 .. Cardinality(Kept(t, Len(t))) BY DEF Ordered
  <2>4. QED BY <2>2, <2>3 DEF Squeezed, SqueezedTo, AsSpace
<1>2. ASSUME Len(s) > 0 PROVE Squeezed(Front(s)) = SqueezedTo(s, Len(s) - 1)
  <2> DEFINE m == Len(s) - 1
             t == Front(s)
  <2>1. Len(s) \in Nat /\ m \in Nat /\ \A i \in 1 .. m : s[i] \in Chars
    <3>1. Len(s) \in Nat /\ \A i \in 1 .. Len(s) : s[i] \in Chars BY LenProperties, ElementOfSeq
    <3>2. QED BY <1>2, <3>1
  <2> HIDE DEF m
  <2>2. t = SubSeq(s, 1, m) BY DEF Front, m
  <2>3. /\ SubSeq(s, 1, m) \in Seq(Chars) /\ Len(SubSeq(s, 1, m)) = IF 1 <= m THEN m - 1 + 1 ELSE 0
        /\ \A i \in 1 .. m - 1 + 1 : SubSeq(s, 1, m)[i] = s[1 + i - 1]
    BY <2>1, SubSeqProperties
  <2>4. t \in Seq(Chars) /\ Len(t) = m /\ \A i \in 1 .. m : t[i] = s[i] BY <2>1, <2>2, <2>3
  <2> HIDE DEF t
  <2>5. \A n \in 1 .. m : Keeps(t, n) <=> Keeps(s, n)
    <3>1. \A n \in 1 .. m : n = 1 \/ n - 1 \in 1 .. m BY <2>1
    <3>2. QED BY <2>4, <3>1 DEF Keeps
  <2>6. Kept(t, m) = Kept(s, m) BY <2>5 DEF Kept
  <2>7. \A j \in 1 .. Cardinality(Kept(s, m)) : Ordered(Kept(s, m))[j] \in 1 .. m BY <2>1, KeptIs
  <2>8. SqueezedTo(t, m) = SqueezedTo(s, m) BY <2>4, <2>6, <2>7 DEF SqueezedTo
  <2>9. Squeezed(t) = SqueezedTo(t, m) BY <1>1, <2>4
  <2>10. QED BY <2>8, <2>9 DEF m, t
<1>3. QED BY <1>1, <1>2

-----------------------------------------------------------------------------
(***************************************************************************)
(* setup_buff(): the cells that are written hold the text so far, and dots *)
(* when all of it is there.                                                *)
(***************************************************************************)
Filled(s, c) == IF c < Len(s) THEN s[c + 1] ELSE Dot

SoFar == SqueezedTo(str, src)

\* What holds of strings with a blank at an end as well.
Stored ==
  /\ pc \in {"c", "r", "w", "x"} => Len(Text) <= Size /\ Holds(Text, Dot)
  /\ pc = "rejected" => Len(str) > 0 /\ Len(Squeezed(Front(str))) >= Size

Copying ==
  /\ pc = "setup" =>
       /\ flag <=> src > 0 /\ str[src] \in Blank
       /\ src < Len(str) => length = Len(SoFar)
       /\ Len(SoFar) <= length
       /\ \A c \in 0 .. length - 1 : mem[c] = Filled(SoFar, c)
  /\ Stored

LEMMA SoFarType ==
  ASSUME IInv
  PROVE  /\ str \in Seq(Chars) /\ src \in 0 .. Len(str) /\ Len(str) \in Nat
         /\ SoFar \in Seq(Chars) /\ Len(SoFar) \in 0 .. src
<1>1. str \in Seq(Chars) /\ src \in 0 .. Len(str) /\ Len(str) \in Nat BY Sizes DEF IInv, TypeOK
<1>2. QED BY <1>1, SqueezedType DEF SoFar

LEMMA CopyingInit == Init => Copying
<1> SUFFICES ASSUME Init PROVE Copying OBVIOUS
<1>1. IInv /\ pc = "setup" /\ src = 0 /\ length = 0 /\ flag = FALSE BY InitTypes DEF Init
<1>2. Len(SoFar) = 0 BY <1>1, SoFarType
<1>3. QED BY <1>1, <1>2 DEF Copying, Stored

\* A blank behind a blank leaves the buffer as it is.
LEMMA SqueezeStep ==
  ASSUME IInv, Copying, CopyBlank, flag
  PROVE  Copying'
<1>1. /\ pc = "setup" /\ src < Len(str) /\ str[src + 1] \in Blank /\ pc' = pc
      /\ src' = src + 1 /\ flag' = TRUE /\ UNCHANGED <<str, mem, length>>
  BY DEF CopyBlank, input
<1>2. src > 0 /\ str[src] \in Blank /\ length = Len(SoFar) BY <1>1 DEF Copying
<1>3. ~Keeps(str, src + 1) /\ src \in Nat /\ src + 1 > 0
  BY <1>1, <1>2, SoFarType DEF Keeps
<1>4. SoFar' = SoFar BY <1>1, <1>3, SqueezedNext, SoFarType DEF SoFar
<1>5. QED BY <1>1, <1>2, <1>3, <1>4 DEF Copying, Stored

\* Every other character is one more in the buffer.
LEMMA KeepStep ==
  ASSUME IInv, Copying, CopyChar \/ (CopyBlank /\ ~flag)
  PROVE  Copying'
<1> DEFINE n == src + 1
           x == AsSpace(str[n])
<1>1. /\ pc = "setup" /\ src < Len(str) /\ length < Size /\ Put(x)
      /\ (flag' <=> str[n] \in Blank)
      /\ src' = n /\ UNCHANGED <<input, pc>>
  <2>1. CASE CopyChar BY <2>1 DEF CopyChar, AsSpace
  <2>2. CASE CopyBlank /\ ~flag BY <2>2 DEF CopyBlank, AsSpace
  <2>3. QED BY <2>1, <2>2
<1>2. /\ length = Len(SoFar) /\ length \in Nat /\ src \in Nat /\ n \in 1 .. Len(str) /\ n > 0
      /\ n - 1 = src
  BY <1>1, SoFarType DEF Copying, IInv, TypeOK
<1>3. Keeps(str, n) BY <1>1, <1>2, SoFarType DEF Copying, CopyChar, CopyBlank, Keeps
<1>4. str' = str BY <1>1 DEF input
<1>5. /\ Len(SoFar') = length + 1
      /\ \A j \in 1 .. length : SoFar'[j] = SoFar[j]
      /\ SoFar'[length + 1] = x
  <2>1. str \in Seq(Chars) /\ src \in Nat /\ src < Len(str) /\ Keeps(str, src + 1)
    BY <1>1, <1>2, <1>3, SoFarType
  <2>2. SoFar' = SqueezedTo(str, src + 1) BY <1>1, <1>4 DEF SoFar
  <2> HIDE DEF n
  <2>3. /\ Len(SqueezedTo(str, src + 1)) = Len(SqueezedTo(str, src)) + 1
        /\ \A j \in 1 .. Len(SqueezedTo(str, src)) :
              SqueezedTo(str, src + 1)[j] = SqueezedTo(str, src)[j]
        /\ SqueezedTo(str, src + 1)[Len(SqueezedTo(str, src)) + 1] = AsSpace(str[src + 1])
    BY <2>1, SqueezedNext
  <2>4. QED BY <1>2, <2>2, <2>3 DEF SoFar, n
<1>6. x \in Chars BY <1>2, Sizes DEF IInv, AsSpace, Chars, Blank
<1> HIDE DEF x
<1>7. /\ length \in Cells /\ mem'[length] = x /\ \A c \in Cells : c # length => mem'[c] = mem[c]
  BY <1>1, <1>6, PutTypes
<1>8. length' = length + 1 BY <1>1 DEF Put
<1>9. \A c \in 0 .. length - 1 : c \in Cells /\ c # length /\ c + 1 \in 1 .. length /\ c < length /\ c < length + 1
  BY <1>2, <1>7, SizeAssumption DEF Cells
<1>10. ASSUME NEW c \in 0 .. length' - 1 PROVE mem'[c] = Filled(SoFar, c)'
  <2>1. c \in 0 .. length - 1 \/ c = length BY <1>2, <1>8
  <2>2. CASE c = length BY <1>2, <1>5, <1>7, <2>2 DEF Filled
  <2>3. CASE c \in 0 .. length - 1
    <3>1. mem[c] = SoFar[c + 1] BY <1>1, <1>2, <1>9, <2>3 DEF Copying, Filled
    <3>2. SoFar'[c + 1] = SoFar[c + 1] /\ c < Len(SoFar') BY <1>5, <1>9, <2>3
    <3>3. mem'[c] = mem[c] BY <1>7, <1>9, <2>3
    <3>4. QED BY <3>1, <3>2, <3>3 DEF Filled
  <2>4. QED BY <2>1, <2>2, <2>3
<1>11. pc' = "setup" /\ (flag' <=> src' > 0 /\ str'[src'] \in Blank) BY <1>1, <1>2, <1>4
<1>12. length' <= Len(SoFar') /\ Len(SoFar') <= length' /\ length' = Len(SoFar') BY <1>2, <1>5, <1>8
<1>13. QED BY <1>10, <1>11, <1>12 DEF Copying, Stored

\* Behind the text come dots.
LEMMA PadStep ==
  ASSUME IInv, Copying, PadDot
  PROVE  Copying'
<1>1. /\ pc = "setup" /\ src = Len(str) /\ length < Size /\ Put(Dot)
      /\ UNCHANGED <<input, pc>> /\ UNCHANGED <<src, flag>>
  BY DEF PadDot
<1>2. UNCHANGED <<str, pc, src, flag>> BY <1>1 DEF input
<1>3. SoFar' = SoFar BY <1>2 DEF SoFar
<1>4. Len(SoFar) <= length /\ length \in Nat /\ Len(SoFar) \in Nat
  BY <1>1, SoFarType DEF Copying, IInv, TypeOK
<1>5. Dot \in Chars BY DEF Chars
<1>6. /\ length \in Cells /\ mem'[length] = Dot /\ \A c \in Cells : c # length => mem'[c] = mem[c]
  BY <1>1, <1>5, PutTypes
<1>7. length' = length + 1 BY <1>1 DEF Put
<1>8. \A c \in 0 .. length - 1 : c \in Cells /\ c # length
  BY <1>4, <1>6, SizeAssumption DEF Cells
<1>9. ASSUME NEW c \in 0 .. length' - 1 PROVE mem'[c] = Filled(SoFar, c)'
  <2>1. c \in 0 .. length - 1 \/ c = length BY <1>4, <1>7
  <2>2. CASE c = length BY <1>3, <1>4, <1>6, <2>2 DEF Filled
  <2>3. CASE c \in 0 .. length - 1
    <3>1. mem[c] = Filled(SoFar, c) BY <1>1, <2>3 DEF Copying
    <3>2. QED BY <1>3, <1>6, <1>8, <2>3, <3>1 DEF Filled
  <2>4. QED BY <2>1, <2>2, <2>3
<1>10. ~(src < Len(str)) BY <1>1, SoFarType
<1>11. Len(SoFar') <= length' BY <1>3, <1>4, <1>7
<1>12. QED BY <1>1, <1>2, <1>9, <1>10, <1>11 DEF Copying, Stored

\* Then the buffer holds the text.
LEMMA DispatchStep ==
  ASSUME IInv, Copying, Dispatch
  PROVE  Copying'
<1>1. /\ pc = "setup" /\ src = Len(str) /\ length = Size /\ pc' = opt /\ UNCHANGED <<str, mem>>
      /\ pc' # "setup" /\ pc' # "rejected"
  BY DEF Dispatch, input, IInv, TypeOK
<1>2. Text = SoFar BY <1>1, SoFarType, SqueezedWhole DEF Text, SoFar
<1>3. Text' = Text BY <1>1 DEF Text
<1>4. Len(Text) <= Size /\ \A c \in 0 .. Size - 1 : mem[c] = Filled(Text, c)
  BY <1>1, <1>2 DEF Copying
<1>5. Len(Text)' <= Size /\ Holds(Text, Dot)'
  BY <1>1, <1>3, <1>4 DEF Holds, Filled
<1>6. QED BY <1>1, <1>5 DEF Copying, Stored

\* A string is rejected with a character left over.
LEMMA RejectStep ==
  ASSUME IInv, Copying, Rejected
  PROVE  Copying'
<1>1. pc = "setup" /\ src < Len(str) /\ length >= Size /\ pc' = "rejected" /\ str' = str
  BY DEF Rejected, input
<1> DEFINE m == Len(str) - 1
<1>2. m \in Nat /\ m \in 0 .. Len(str) /\ src \in Nat /\ src \in 0 .. Len(str) /\ Len(str) > 0
      /\ \A n \in 1 .. src : n \in 1 .. m
  BY <1>1, SoFarType
<1> HIDE DEF m
<1>3. Kept(str, src) \in SUBSET Kept(str, m) BY <1>2 DEF Kept
<1>4. Cardinality(Kept(str, src)) <= Cardinality(Kept(str, m)) BY <1>2, <1>3, KeptIs, FS_Subset
<1>5. Len(SoFar) <= Len(SqueezedTo(str, m)) BY <1>2, <1>4, SqueezedType, SoFarType DEF SoFar
<1>6. Len(SoFar) >= Size BY <1>1 DEF Copying
<1>7. Squeezed(Front(str)) = SqueezedTo(str, m) BY <1>2, SqueezedWhole, SoFarType DEF m
<1>8. Len(SqueezedTo(str, m)) \in Nat /\ Len(SoFar) \in Nat /\ Size \in Nat
  BY <1>2, SqueezedType, SoFarType, SizeAssumption
<1>9. Len(Squeezed(Front(str))) >= Size BY <1>5, <1>6, <1>7, <1>8
<1>10. QED BY <1>1, <1>2, <1>9 DEF Copying, Stored

LEMMA CopyingNext == IInv /\ Copying /\ [Next]_vars => Copying'
<1> SUFFICES ASSUME IInv, Copying, [Next]_vars PROVE Copying' OBVIOUS
<1>1. CASE CopyBlank \/ CopyChar BY <1>1, SqueezeStep, KeepStep
<1>2. CASE PadDot \/ Dispatch \/ Rejected BY <1>2, PadStep, DispatchStep, RejectStep
<1>3. CASE CountWord \/ PrintWord
  BY <1>3 DEF CountWord, PrintWord, Copying, Stored, Text, Holds, input
<1>4. CASE SkipDot
  <2>1. pc = "r" /\ pc' \in {"r", "swap"} /\ UNCHANGED <<mem, str>> BY <1>4 DEF SkipDot, input
  <2>2. QED BY <2>1 DEF Copying, Stored, Text, Holds
<1>5. CASE Swap \/ PrintLast \/ CountDone \/ ReplaceBadly \/ ReplaceTooLong \/ Replace
  <2>1. pc' \notin {"setup", "c", "r", "w", "x", "rejected"}
    BY <1>5 DEF Swap, PrintLast, CountDone, ReplaceBadly, ReplaceTooLong, Replace
  <2>2. QED BY <2>1 DEF Copying, Stored
<1>6. CASE UNCHANGED vars
  BY <1>6 DEF vars, input, Copying, Stored, SoFar, Text, Holds
<1>7. QED BY <1>1, <1>2, <1>3, <1>4, <1>5, <1>6 DEF Next

LEMMA CopyingAlways == Spec => [](IInv /\ Copying)
BY CopyingInit, CopyingNext, Invariance, PTL DEF Spec

\* A string that ends in no blank has one character more than is squeezed without
\* its last one.
LEMMA LastCounts ==
  ASSUME NEW s \in Seq(Chars), Len(s) > 0, s[Len(s)] \notin Blank
  PROVE  Len(Squeezed(s)) = Len(Squeezed(Front(s))) + 1
<1> DEFINE m == Len(s) - 1
<1>1. m \in Nat /\ m < Len(s) /\ m + 1 = Len(s) BY LenProperties
<1>2. Squeezed(s) = SqueezedTo(s, m + 1) /\ Squeezed(Front(s)) = SqueezedTo(s, m) BY <1>1, SqueezedWhole
<1>3. Keeps(s, m + 1) BY <1>1 DEF Keeps
<1> HIDE DEF m
<1>4. QED BY <1>1, <1>2, <1>3, SqueezedNext

\* When an operation starts, the buffer holds the string with its blanks
\* squeezed and dots behind it, and a string is rejected only if its text does
\* not fit; for every string without a blank at either end (stringfun.c:28-53).
THEOREM SetupRight == Spec => []SetupIsRight
<1>1. IInv /\ Copying => SetupIsRight
  <2> SUFFICES ASSUME IInv, Copying, Tight, pc = "rejected" PROVE Len(Text) > Size
    BY DEF Copying, Stored, SetupIsRight
  <2>1. str \in Seq(Chars) /\ Len(str) > 0 /\ Len(Squeezed(Front(str))) >= Size
    BY SoFarType DEF Copying, Stored
  <2>2. str[Len(str)] \notin Blank
    <3>1. Len(str) \in DOMAIN str \cap {1, Len(str)} BY <2>1, LenProperties
    <3>2. QED BY <3>1 DEF Tight
  <2>3. Len(Text) = Len(Squeezed(Front(str))) + 1 BY <2>1, <2>2, LastCounts DEF Text
  <2>4. Len(Text) \in Nat /\ Size \in Nat
    <3>1. Len(str) \in 0 .. Len(str) BY <2>1, LenProperties
    <3>2. QED BY <2>1, <3>1, SqueezedType, SqueezedWhole, SizeAssumption DEF Text
  <2>5. Len(Squeezed(Front(str))) \in Int
    <3>1. Len(str) - 1 \in 0 .. Len(str) BY <2>1, LenProperties
    <3>2. QED BY <2>1, <3>1, SqueezedType, SqueezedWhole
  <2>6. QED BY <2>1, <2>3, <2>4, <2>5
<1>2. QED BY <1>1, CopyingAlways, PTL

-----------------------------------------------------------------------------
(***************************************************************************)
(* The text, and its words by their first and last positions.              *)
(***************************************************************************)
Inside(seps) == {n \in 1 .. Len(Text) : Text[n] \notin seps}
Firsts(seps) == {n \in Inside(seps) : n - 1 \notin Inside(seps)}
Lasts(seps)  == {n \in Inside(seps) : n + 1 \notin Inside(seps)}

LEMMA TextType ==
  ASSUME IInv
  PROVE  /\ Text \in Seq(Chars) /\ Len(Text) \in Nat /\ Len(Text) <= Len(str)
         /\ Len(str) > 0 => Len(Text) > 0
         /\ DOMAIN Text = 1 .. Len(Text) /\ \A n \in 1 .. Len(Text) : Text[n] \in Chars
<1>1. str \in Seq(Chars) /\ Len(str) \in Nat BY SoFarType
<1>2. Text = SqueezedTo(str, Len(str)) BY <1>1, SqueezedWhole DEF Text
<1>3. Len(str) \in 0 .. Len(str) BY <1>1
<1>4. /\ Text \in Seq(Chars) /\ Len(Text) = Cardinality(Kept(str, Len(str)))
      /\ Len(Text) \in 0 .. Len(str)
  BY <1>1, <1>2, <1>3, SqueezedType
<1>5. ASSUME Len(str) > 0 PROVE Len(Text) # 0
  <2>1. 1 \in Kept(str, Len(str)) BY <1>1, <1>5 DEF Kept, Keeps
  <2>2. IsFiniteSet(Kept(str, Len(str))) BY <1>1, KeptIs
  <2>3. QED BY <1>4, <2>1, <2>2, FS_EmptySet
<1>6. DOMAIN Text = 1 .. Len(Text) /\ \A n \in 1 .. Len(Text) : Text[n] \in Chars
  BY <1>4, LenProperties, ElementOfSeq
<1>7. QED BY <1>1, <1>4, <1>5, <1>6

LEMMA PositionsAre ==
  ASSUME IInv, NEW seps
  PROVE  /\ Firsts(seps) \in SUBSET Int /\ IsFiniteSet(Firsts(seps))
         /\ Lasts(seps) \in SUBSET Int /\ IsFiniteSet(Lasts(seps))
<1>1. Len(Text) \in Nat BY TextType
<1>2. IsFiniteSet(1 .. Len(Text)) BY <1>1, FS_Interval
<1>3. Firsts(seps) \in SUBSET (1 .. Len(Text)) /\ Lasts(seps) \in SUBSET (1 .. Len(Text))
  BY DEF Firsts, Lasts, Inside
<1>4. IsFiniteSet(Firsts(seps)) /\ IsFiniteSet(Lasts(seps)) BY <1>2, <1>3, FS_Subset
<1>5. QED BY <1>3, <1>4

LEMMA WordsAre ==
  ASSUME IInv, NEW seps
  PROVE  /\ Words(seps) = [j \in 1 .. Cardinality(Firsts(seps)) |->
                             SubSeq(Text, Ordered(Firsts(seps))[j], Ordered(Lasts(seps))[j])]
         /\ Len(Words(seps)) = Cardinality(Firsts(seps))
         /\ Cardinality(Firsts(seps)) \in Nat
<1>1. DOMAIN Text = 1 .. Len(Text) BY TextType
<1>2. DOMAIN Text \ {n \in DOMAIN Text : Text[n] \in seps} = Inside(seps) BY <1>1 DEF Inside
<1>3. DOMAIN Ordered(Firsts(seps)) = 1 .. Cardinality(Firsts(seps)) BY DEF Ordered
<1>4. Words(seps) = [j \in 1 .. Cardinality(Firsts(seps)) |->
                       SubSeq(Text, Ordered(Firsts(seps))[j], Ordered(Lasts(seps))[j])]
  BY <1>2, <1>3 DEF Words, Cut, Firsts, Lasts
<1>5. Cardinality(Firsts(seps)) \in Nat BY PositionsAre, FS_CardinalityType
<1>6. QED
  <2> DEFINE e(j) == SubSeq(Text, Ordered(Firsts(seps))[j], Ordered(Lasts(seps))[j])
             c == Cardinality(Firsts(seps))
  <2>1. Words(seps) = [j \in 1 .. c |-> e(j)] BY <1>4
  <2> HIDE DEF e, c
  <2>2. Words(seps) \in [1 .. c -> {e(j) : j \in 1 .. c}] BY <2>1
  <2>3. c \in Nat BY <1>5 DEF c
  <2>4. Len(Words(seps)) = c BY <2>2, <2>3, FunIsSeq
  <2>5. QED BY <1>4, <1>5, <2>4 DEF c

-----------------------------------------------------------------------------
(***************************************************************************)
(* count_words(): the words that start in the cells before k.              *)
(***************************************************************************)
Starts(m) == {n \in 1 .. m : mem[n - 1] # Space /\ (n = 1 \/ mem[n - 2] = Space)}

Counting ==
  /\ pc = "c" => /\ IsFiniteSet(Starts(k)) /\ count = Cardinality(Starts(k))
                 /\ flag <=> k > 0 /\ mem[k - 1] # Space
  /\ CountIsRight

LEMMA CountStep ==
  ASSUME IInv, Counting, CountWord
  PROVE  Counting'
<1>1. /\ pc = "c" /\ pc' = "c" /\ k' = k + 1 /\ mem' = mem
      /\ count' = (IF mem[k] # Space /\ ~flag THEN count + 1 ELSE count)
      /\ flag' <=> mem[k] # Space
  BY DEF CountWord
<1>2. k \in Nat /\ (k + 1) - 1 = k /\ (k + 1) - 2 = k - 1 /\ (k + 1 = 1 <=> k = 0)
  BY DEF IInv, TypeOK
<1>3. 1 .. k + 1 = (1 .. k) \cup {k + 1} /\ k + 1 \notin 1 .. k BY <1>2
<1>4. CASE mem[k] # Space /\ ~flag
  <2>1. Starts(k + 1) = Starts(k) \cup {k + 1} /\ k + 1 \notin Starts(k)
    BY <1>1, <1>2, <1>3, <1>4 DEF Counting, Starts
  <2>2. IsFiniteSet(Starts(k + 1)) /\ Cardinality(Starts(k + 1)) = Cardinality(Starts(k)) + 1
    BY <1>1, <2>1, FS_AddElement DEF Counting
  <2>3. Starts(k)' = Starts(k + 1) BY <1>1 DEF Starts
  <2>4. pc' # "done" /\ k' > 0 /\ k' - 1 = k BY <1>1, <1>2
  <2>5. QED BY <1>1, <1>4, <2>2, <2>3, <2>4 DEF Counting, CountIsRight
<1>5. CASE ~(mem[k] # Space /\ ~flag)
  <2>1. Starts(k + 1) = Starts(k)
    BY <1>1, <1>2, <1>3, <1>5 DEF Counting, Starts
  <2>2. Starts(k)' = Starts(k + 1) BY <1>1 DEF Starts
  <2>3. pc' # "done" /\ k' > 0 /\ k' - 1 = k BY <1>1, <1>2
  <2>4. QED BY <1>1, <1>5, <2>1, <2>2, <2>3 DEF Counting, CountIsRight
<1>6. QED BY <1>4, <1>5

\* What the buffer holds of the text and behind it.
LEMMA BufferIs ==
  ASSUME IInv, Copying, pc \in {"c", "r", "w", "x"}
  PROVE  /\ Len(Text) <= Size
         /\ \A n \in 1 .. Len(Text) : mem[n - 1] = Text[n]
         /\ \A n \in 1 .. Size : n > Len(Text) => mem[n - 1] = Dot
<1>1. Len(Text) <= Size /\ Holds(Text, Dot) BY DEF Copying, Stored
<1>2. Len(Text) \in Nat /\ Size \in Nat BY TextType, SizeAssumption
<1>3. \A n \in 1 .. Size : n - 1 \in 0 .. Size - 1 /\ (n - 1 < Len(Text) <=> n <= Len(Text)) /\ (n - 1) + 1 = n
  BY <1>2
<1>4. \A n \in 1 .. Size : mem[n - 1] = IF n <= Len(Text) THEN Text[n] ELSE Dot BY <1>1, <1>3 DEF Holds
<1>5. QED BY <1>1, <1>2, <1>4

\* At the end of the loop the starts in memory are those of the words.
LEMMA CountedAll ==
  ASSUME IInv, Copying, Counting, CountDone
  PROVE  Counting'
<1>1. /\ pc = "c" /\ k = Len(str) /\ pc' = "done" /\ UNCHANGED <<str, count>>
  BY DEF CountDone, input, user_str_len
<1> DEFINE L == Len(Text)
<1>2. ASSUME Len(Text) = Len(str) \/ (Len(str) <= Size /\ Last(Text) # Space)
      PROVE  Starts(Len(str)) = Firsts({Space})
  <2>1. /\ Len(str) \in Nat /\ L \in Nat /\ L <= Len(str) /\ (Len(str) > 0 => L > 0)
        /\ Size \in Nat
    BY Sizes, TextType DEF IInv
  <2>2. /\ L <= Size /\ (\A n \in 1 .. L : mem[n - 1] = Text[n])
        /\ \A n \in 1 .. Size : n > L => mem[n - 1] = Dot
    BY <1>1, BufferIs
  <2>3. Last(Text) = Text[L] BY DEF Last
  <2> HIDE DEF L
  <2>4. ASSUME NEW n \in 1 .. Len(str), n > L PROVE n \notin Starts(Len(str))
    <3>1. n - 1 \in 1 .. Len(str) /\ Len(str) <= Size /\ Text[L] # Space /\ n # 1 /\ L \in 1 .. L
      BY <1>2, <2>1, <2>3, <2>4 DEF L
    <3>2. n - 1 \in 1 .. Size /\ (n - 1) - 1 = n - 2 /\ (n - 1 = L \/ n - 1 > L) BY <2>1, <2>4, <3>1
    <3>3. mem[n - 2] # Space BY <2>2, <3>1, <3>2 DEF Dot, Space
    <3>4. QED BY <3>1, <3>3 DEF Starts
  <2>5. ASSUME NEW n \in 1 .. L PROVE n \in Starts(Len(str)) <=> n \in Firsts({Space})
    <3>1. n \in 1 .. Len(str) /\ n - 1 \notin 1 .. L <=> n = 1 BY <2>1
    <3>2. n # 1 => n - 1 \in 1 .. L /\ (n - 1) - 1 = n - 2 BY <2>1
    <3>3. n \in 1 .. Len(str) /\ (n - 1 \in 1 .. L <=> n # 1) BY <2>1
    <3>4. mem[n - 1] = Text[n] /\ (n # 1 => mem[n - 2] = Text[n - 1]) BY <2>2, <3>2
    <3>5. QED BY <3>2, <3>3, <3>4 DEF Starts, Firsts, Inside, L
  <2>6. Starts(Len(str)) \in SUBSET (1 .. Len(str)) /\ Firsts({Space}) \in SUBSET (1 .. L)
    BY DEF Starts, Firsts, Inside, L
  <2>7. \A n \in 1 .. Len(str) : n \in 1 .. L \/ n > L BY <2>1
  <2>8. QED BY <2>4, <2>5, <2>6, <2>7
<1>3. Len(Words({Space})) = Cardinality(Firsts({Space})) BY WordsAre
<1>4. Len(Text)' = Len(Text) /\ Len(str)' = Len(str) /\ Last(Text)' = Last(Text)
      /\ Len(Words({Space}))' = Len(Words({Space}))
  BY <1>1 DEF Text, Words
<1>5. QED BY <1>1, <1>2, <1>3, <1>4 DEF Counting, CountIsRight

LEMMA CountingNext == IInv /\ Copying /\ Counting /\ [Next]_vars => Counting'
<1> SUFFICES ASSUME IInv, Copying, Counting, [Next]_vars PROVE Counting' OBVIOUS
<1>1. CASE CopyBlank \/ CopyChar \/ PadDot \/ Rejected \/ ReplaceBadly \/ ReplaceTooLong
  <2>1. pc' \notin {"c", "done"}
    BY <1>1 DEF CopyBlank, CopyChar, PadDot, Rejected, ReplaceBadly, ReplaceTooLong
  <2>2. QED BY <2>1 DEF Counting, CountIsRight
<1>2. CASE Dispatch
  <2>1. pc' = opt /\ pc' # "done" /\ flag' = FALSE /\ k' = 0 /\ count' = 0
    BY <1>2 DEF Dispatch, IInv, TypeOK, Loops
  <2>2. Starts(k)' = {} BY <2>1 DEF Starts
  <2>3. IsFiniteSet({}) /\ Cardinality({}) = 0 BY FS_EmptySet
  <2>4. IsFiniteSet(Starts(k))' /\ count' = Cardinality(Starts(k))' BY <2>1, <2>2, <2>3
  <2>5. flag' <=> k' > 0 /\ mem'[k' - 1] # Space BY <2>1
  <2>6. QED BY <2>1, <2>4, <2>5 DEF Counting, CountIsRight
<1>3. CASE CountWord BY <1>3, CountStep
<1>4. CASE CountDone BY <1>4, CountedAll
<1>5. CASE PrintWord \/ PrintLast \/ SkipDot \/ Swap \/ Replace
  <2>1. pc' # "c" /\ opt' # "c"
    BY <1>5 DEF PrintWord, PrintLast, SkipDot, Swap, Replace, IInv, Loops, Working, input
  <2>2. QED BY <2>1 DEF Counting, CountIsRight
<1>6. CASE UNCHANGED vars
  BY <1>6 DEF vars, input, Counting, CountIsRight, Starts, Text, Words
<1>7. QED BY <1>1, <1>2, <1>3, <1>4, <1>5, <1>6 DEF Next

\* The count is the number of words when nothing was squeezed, or when the dots
\* up to the string's length stick to a last word (stringfun.c:75-90).
THEOREM CountRight == Spec => []CountIsRight
<1>1. Init => Counting BY DEF Init, Counting, CountIsRight
<1>2. Counting => CountIsRight BY DEF Counting
<1>3. QED BY <1>1, <1>2, CountingNext, CopyingAlways, PTL DEF Spec

-----------------------------------------------------------------------------
(***************************************************************************)
(* word_print(): the words that start and that end in the cells before k.  *)
(***************************************************************************)
Seps == {Space, Dot}

FirstsTo(m) == {n \in Firsts(Seps) : n <= m}
LastsTo(m)  == {n \in Lasts(Seps) : n < m}

\* The j-th of the words so far.
WordOf(m, j) == SubSeq(Text, Ordered(FirstsTo(m))[j], Ordered(LastsTo(m))[j])

Printing ==
  /\ pc = "w" /\ Len(str) <= Size =>
       /\ start = -1 <=> k \notin Inside(Seps)
       /\ start = -1 => Cardinality(FirstsTo(k)) = Cardinality(LastsTo(k))
       /\ start # -1 => /\ start \in Nat /\ start + 1 <= k
                        /\ Cardinality(FirstsTo(k)) = Cardinality(LastsTo(k)) + 1
                        /\ Ordered(FirstsTo(k))[Cardinality(FirstsTo(k))] = start + 1
       /\ Len(printed) = Cardinality(LastsTo(k))
       /\ \A j \in 1 .. Len(printed) : printed[j] = WordOf(k, j)
  /\ PrintIsRight

LEMMA SomePositions ==
  ASSUME IInv, NEW m \in Nat
  PROVE  /\ FirstsTo(m) \in SUBSET Int /\ IsFiniteSet(FirstsTo(m))
         /\ LastsTo(m) \in SUBSET Int /\ IsFiniteSet(LastsTo(m))
         /\ Cardinality(FirstsTo(m)) \in Nat /\ Cardinality(LastsTo(m)) \in Nat
<1>1. FirstsTo(m) \in SUBSET Firsts(Seps) /\ LastsTo(m) \in SUBSET Lasts(Seps)
  BY DEF FirstsTo, LastsTo
<1>2. IsFiniteSet(FirstsTo(m)) /\ IsFiniteSet(LastsTo(m)) BY <1>1, PositionsAre, FS_Subset
<1>3. FirstsTo(m) \in SUBSET Int /\ LastsTo(m) \in SUBSET Int
  <2>1. Firsts(Seps) \in SUBSET Int /\ Lasts(Seps) \in SUBSET Int BY PositionsAre
  <2>2. QED BY <1>1, <2>1
<1>4. QED BY <1>2, <1>3, FS_CardinalityType

\* One more character starts a word or not, and ends one or not.
LEMMA FirstsNext ==
  ASSUME IInv, NEW m \in Nat
  PROVE  /\ m \notin Inside(Seps) /\ m + 1 \in Inside(Seps) =>
              /\ Cardinality(FirstsTo(m + 1)) = Cardinality(FirstsTo(m)) + 1
              /\ \A i \in 1 .. Cardinality(FirstsTo(m)) :
                   Ordered(FirstsTo(m + 1))[i] = Ordered(FirstsTo(m))[i]
              /\ Ordered(FirstsTo(m + 1))[Cardinality(FirstsTo(m + 1))] = m + 1
         /\ m \in Inside(Seps) \/ m + 1 \notin Inside(Seps) => FirstsTo(m + 1) = FirstsTo(m)
<1>1. (m + 1) - 1 = m /\ m + 1 \in Int OBVIOUS
<1>2. m + 1 \in Firsts(Seps) <=> m \notin Inside(Seps) /\ m + 1 \in Inside(Seps)
  BY <1>1 DEF Firsts
<1>3. \A n \in Firsts(Seps) : n <= m + 1 <=> n <= m \/ n = m + 1
  <2>1. Firsts(Seps) \in SUBSET Int BY PositionsAre
  <2>2. QED BY <2>1
<1>4. ASSUME m + 1 \notin Firsts(Seps) PROVE FirstsTo(m + 1) = FirstsTo(m)
  BY <1>3, <1>4 DEF FirstsTo
<1>5. ASSUME m + 1 \in Firsts(Seps)
      PROVE  /\ Cardinality(FirstsTo(m + 1)) = Cardinality(FirstsTo(m)) + 1
             /\ \A i \in 1 .. Cardinality(FirstsTo(m)) :
                  Ordered(FirstsTo(m + 1))[i] = Ordered(FirstsTo(m))[i]
             /\ Ordered(FirstsTo(m + 1))[Cardinality(FirstsTo(m + 1))] = m + 1
  <2>1. FirstsTo(m + 1) = FirstsTo(m) \cup {m + 1} BY <1>3, <1>5 DEF FirstsTo
  <2>2. FirstsTo(m) \in SUBSET Int /\ IsFiniteSet(FirstsTo(m)) BY SomePositions
  <2>3. \A n \in FirstsTo(m) : n < m + 1
    <3>1. \A n \in FirstsTo(m) : n <= m BY DEF FirstsTo
    <3>2. QED BY <2>2, <3>1
  <2>4. /\ Cardinality(FirstsTo(m) \cup {m + 1}) = Cardinality(FirstsTo(m)) + 1
        /\ \A i \in 1 .. Cardinality(FirstsTo(m)) :
             Ordered(FirstsTo(m) \cup {m + 1})[i] = Ordered(FirstsTo(m))[i]
        /\ Ordered(FirstsTo(m) \cup {m + 1})[Cardinality(FirstsTo(m)) + 1] = m + 1
    BY <1>1, <2>2, <2>3, OrderedAdd
  <2>5. QED BY <2>1, <2>4
<1>6. QED BY <1>2, <1>4, <1>5

LEMMA LastsNext ==
  ASSUME IInv, NEW m \in Nat
  PROVE  /\ m \in Inside(Seps) /\ m + 1 \notin Inside(Seps) =>
              /\ Cardinality(LastsTo(m + 1)) = Cardinality(LastsTo(m)) + 1
              /\ \A i \in 1 .. Cardinality(LastsTo(m)) :
                   Ordered(LastsTo(m + 1))[i] = Ordered(LastsTo(m))[i]
              /\ Ordered(LastsTo(m + 1))[Cardinality(LastsTo(m + 1))] = m
         /\ m \notin Inside(Seps) \/ m + 1 \in Inside(Seps) => LastsTo(m + 1) = LastsTo(m)
<1>1. m \in Int OBVIOUS
<1>2. m \in Lasts(Seps) <=> m \in Inside(Seps) /\ m + 1 \notin Inside(Seps)
  BY <1>1 DEF Lasts
<1>3. \A n \in Lasts(Seps) : n < m + 1 <=> n < m \/ n = m
  <2>1. Lasts(Seps) \in SUBSET Int BY PositionsAre
  <2>2. QED BY <2>1
<1>4. ASSUME m \notin Lasts(Seps) PROVE LastsTo(m + 1) = LastsTo(m)
  BY <1>3, <1>4 DEF LastsTo
<1>5. ASSUME m \in Lasts(Seps)
      PROVE  /\ Cardinality(LastsTo(m + 1)) = Cardinality(LastsTo(m)) + 1
             /\ \A i \in 1 .. Cardinality(LastsTo(m)) :
                  Ordered(LastsTo(m + 1))[i] = Ordered(LastsTo(m))[i]
             /\ Ordered(LastsTo(m + 1))[Cardinality(LastsTo(m + 1))] = m
  <2>1. LastsTo(m + 1) = LastsTo(m) \cup {m} BY <1>3, <1>5 DEF LastsTo
  <2>2. LastsTo(m) \in SUBSET Int /\ IsFiniteSet(LastsTo(m)) BY SomePositions
  <2>3. \A n \in LastsTo(m) : n < m BY DEF LastsTo
  <2>4. /\ Cardinality(LastsTo(m) \cup {m}) = Cardinality(LastsTo(m)) + 1
        /\ \A i \in 1 .. Cardinality(LastsTo(m)) :
             Ordered(LastsTo(m) \cup {m})[i] = Ordered(LastsTo(m))[i]
        /\ Ordered(LastsTo(m) \cup {m})[Cardinality(LastsTo(m)) + 1] = m
    BY <1>1, <2>2, <2>3, OrderedAdd
  <2>5. QED BY <2>1, <2>4
<1>6. QED BY <1>2, <1>4, <1>5

\* The characters from start are a piece of the text.
LEMMA WordIsPiece ==
  ASSUME IInv, Copying, Printing, pc = "w", Len(str) <= Size, start # -1
  PROVE  Word(k) = SubSeq(Text, start + 1, k) /\ Word(k) \in Seq(Chars)
<1>1. start \in Nat /\ start + 1 <= k /\ k \in Inside(Seps) BY DEF Printing
<1>2. k \in Nat /\ k <= Len(Text) /\ start < k /\ k <= Len(str)
  BY <1>1, TextType DEF Inside, IInv, TypeOK, Loops
<1>3. /\ Word(k) \in Seq(Chars) /\ Len(Word(k)) = k - start
      /\ \A j \in 1 .. k - start : Word(k)[j] = mem[start + j - 1]
  BY <1>2, WordType
<1> DEFINE p == SubSeq(Text, start + 1, k)
<1>4. p \in Seq(Chars) /\ Len(p) = k - start /\ \A j \in 1 .. k - start : p[j] = Text[start + j]
  <2>1. \A i \in start + 1 .. k : Text[i] \in Chars
    <3>1. \A i \in start + 1 .. k : i \in 1 .. Len(Text) BY <1>1, <1>2, TextType
    <3>2. QED BY <3>1, TextType
  <2>2. start + 1 \in Int /\ k \in Int BY <1>1, <1>2
  <2> DEFINE a == start + 1
  <2>3. a \in Int BY <2>2
  <2>4. k - a + 1 = k - start /\ a <= k /\ \A j \in 1 .. k - start : a + j - 1 = start + j BY <1>1, <1>2
  <2> HIDE DEF a
  <2>5. /\ SubSeq(Text, a, k) \in Seq(Chars)
        /\ Len(SubSeq(Text, a, k)) = IF a <= k THEN k - a + 1 ELSE 0
        /\ \A j \in 1 .. k - a + 1 : SubSeq(Text, a, k)[j] = Text[a + j - 1]
    <3>1. \A i \in a .. k : Text[i] \in Chars BY <2>1 DEF a
    <3>2. QED BY <2>2, <2>3, <3>1, SubSeqProperties
  <2>6. p = SubSeq(Text, a, k) BY DEF a
  <2> HIDE DEF p
  <2>7. QED BY <2>4, <2>5, <2>6
<1> HIDE DEF p
<1>5. \A j \in 1 .. k - start : mem[start + j - 1] = Text[start + j]
  <2>1. \A n \in 1 .. Len(Text) : mem[n - 1] = Text[n] BY BufferIs
  <2>2. \A j \in 1 .. k - start : start + j \in 1 .. Len(Text) /\ (start + j) - 1 = start + j - 1
    BY <1>1, <1>2, TextType
  <2>3. QED BY <2>1, <2>2
<1>6. Word(k) = p BY <1>3, <1>4, <1>5, SeqEqual
<1>7. QED BY <1>3, <1>6 DEF p

\* At a separator the word before it is among the words so far.
LEMMA WordEnds ==
  ASSUME IInv, Copying, Printing, pc = "w", Len(str) <= Size, k + 1 \notin Inside(Seps),
         NEW p, p = IF start = -1 THEN printed ELSE Append(printed, Word(k))
  PROVE  /\ Len(p) = Cardinality(LastsTo(k + 1))
         /\ Cardinality(FirstsTo(k + 1)) = Cardinality(LastsTo(k + 1))
         /\ \A j \in 1 .. Len(p) : p[j] = WordOf(k + 1, j)
         /\ p \in Seq(Seq(Chars))
<1>1. printed \in Seq(Seq(Chars)) /\ k \in Nat BY DEF IInv, TypeOK
<1>2. FirstsTo(k + 1) = FirstsTo(k) BY <1>1, FirstsNext
<1>3. CASE start = -1
  <2>1. LastsTo(k + 1) = LastsTo(k) BY <1>1, <1>3, LastsNext DEF Printing
  <2>2. QED BY <1>1, <1>2, <1>3, <2>1 DEF Printing, WordOf
<1>4. CASE start # -1
  <2> DEFINE c == Cardinality(LastsTo(k))
  <2>1. /\ Cardinality(LastsTo(k + 1)) = c + 1 /\ Ordered(LastsTo(k + 1))[c + 1] = k
        /\ \A i \in 1 .. c : Ordered(LastsTo(k + 1))[i] = Ordered(LastsTo(k))[i]
    BY <1>1, <1>4, LastsNext DEF Printing
  <2>2. /\ Cardinality(FirstsTo(k)) = c + 1 /\ Ordered(FirstsTo(k))[c + 1] = start + 1
        /\ Len(printed) = c /\ \A j \in 1 .. c : printed[j] = WordOf(k, j)
    BY <1>4 DEF Printing
  <2>3. Word(k) = SubSeq(Text, start + 1, k) /\ Word(k) \in Seq(Chars) BY <1>4, WordIsPiece
  <2>4. c \in Nat BY <1>1, SomePositions
  <2> HIDE DEF c
  <2>5. /\ p \in Seq(Seq(Chars)) /\ Len(p) = c + 1
        /\ \A j \in 1 .. c : p[j] = printed[j]
        /\ p[c + 1] = Word(k)
    <3>1. p = Append(printed, Word(k)) BY <1>4
    <3> DEFINE C == Seq(Chars)
    <3>2. printed \in Seq(C) /\ Word(k) \in C BY <1>1, <2>3
    <3> HIDE DEF C
    <3>3. p \in Seq(C) /\ Len(p) = Len(printed) + 1 BY <3>1, <3>2, AppendProperties
    <3>4. p[Len(printed) + 1] = Word(k) BY <3>1, <3>2, AppendProperties
    <3>5. \A j \in 1 .. Len(printed) : p[j] = printed[j] BY <3>1, <3>2, AppendProperties
    <3>6. QED BY <2>2, <3>3, <3>4, <3>5 DEF C
  <2>6. \A j \in 1 .. c : p[j] = WordOf(k + 1, j) BY <1>2, <2>1, <2>2, <2>5 DEF WordOf
  <2>7. p[c + 1] = WordOf(k + 1, c + 1) BY <1>2, <2>1, <2>2, <2>3, <2>5 DEF WordOf
  <2>8. \A j \in 1 .. c + 1 : j \in 1 .. c \/ j = c + 1 BY <2>4
  <2>9. QED BY <1>2, <2>1, <2>2, <2>5, <2>6, <2>7, <2>8
<1>5. QED BY <1>3, <1>4

\* At another character the words so far are the same.
LEMMA WordGoesOn ==
  ASSUME IInv, Copying, Printing, pc = "w", Len(str) <= Size, k + 1 \in Inside(Seps)
  PROVE  /\ LastsTo(k + 1) = LastsTo(k)
         /\ Cardinality(FirstsTo(k + 1)) = Cardinality(LastsTo(k + 1)) + 1
         /\ Ordered(FirstsTo(k + 1))[Cardinality(FirstsTo(k + 1))] = (IF start = -1 THEN k ELSE start) + 1
         /\ \A j \in 1 .. Len(printed) : printed[j] = WordOf(k + 1, j)
<1>1. k \in Nat BY DEF IInv, TypeOK
<1>2. LastsTo(k + 1) = LastsTo(k) BY <1>1, LastsNext
<1>3. CASE start = -1
  <2>1. /\ Cardinality(FirstsTo(k + 1)) = Cardinality(FirstsTo(k)) + 1
        /\ \A i \in 1 .. Cardinality(FirstsTo(k)) :
             Ordered(FirstsTo(k + 1))[i] = Ordered(FirstsTo(k))[i]
        /\ Ordered(FirstsTo(k + 1))[Cardinality(FirstsTo(k + 1))] = k + 1
    BY <1>1, <1>3, FirstsNext DEF Printing
  <2>2. /\ Len(printed) = Cardinality(FirstsTo(k))
        /\ Cardinality(FirstsTo(k)) = Cardinality(LastsTo(k))
        /\ \A j \in 1 .. Len(printed) : printed[j] = WordOf(k, j)
    BY <1>3 DEF Printing
  <2>3. \A j \in 1 .. Len(printed) : printed[j] = WordOf(k + 1, j)
    BY <1>2, <2>1, <2>2 DEF WordOf
  <2>4. QED BY <1>2, <1>3, <2>1, <2>2, <2>3
<1>4. CASE start # -1
  <2>1. FirstsTo(k + 1) = FirstsTo(k) BY <1>1, <1>4, FirstsNext DEF Printing
  <2>2. QED BY <1>2, <1>4, <2>1 DEF Printing, WordOf
<1>5. QED BY <1>3, <1>4

LEMMA PrintStep ==
  ASSUME IInv, Copying, Printing, PrintWord
  PROVE  Printing'
<1>1. pc = "w" /\ pc' = "w" /\ k < Len(str) /\ k' = k + 1 /\ UNCHANGED <<mem, str, opt>>
  BY DEF PrintWord, user_str_len, input
<1>2. k \in Nat /\ start \in -1 .. Top BY DEF IInv, TypeOK
<1>3. Text' = Text /\ Inside(Seps)' = Inside(Seps) BY <1>1 DEF Text, Inside
<1>4. Firsts(Seps)' = Firsts(Seps) /\ Lasts(Seps)' = Lasts(Seps) BY <1>3 DEF Firsts, Lasts
<1>5. FirstsTo(k)' = FirstsTo(k + 1) /\ LastsTo(k)' = LastsTo(k + 1)
  BY <1>1, <1>4 DEF FirstsTo, LastsTo
<1>6. ASSUME NEW j PROVE WordOf(k, j)' = WordOf(k + 1, j) BY <1>3, <1>5 DEF WordOf
<1>7. ASSUME Len(str) <= Size PROVE mem[k] \notin Seps <=> k + 1 \in Inside(Seps)
  <2>1. /\ \A n \in 1 .. Len(Text) : mem[n - 1] = Text[n]
        /\ \A n \in 1 .. Size : n > Len(Text) => mem[n - 1] = Dot
    BY <1>1, BufferIs
  <2>2. k + 1 \in 1 .. Size /\ (k + 1) - 1 = k /\ Len(str) \in Nat /\ Size \in Nat
    BY <1>1, <1>2, <1>7, Sizes DEF IInv
  <2>3. k + 1 \in 1 .. Len(Text) \/ k + 1 > Len(Text) BY <1>2, TextType
  <2>4. k + 1 > Len(Text) => k + 1 \notin 1 .. Len(Text) BY <1>2, TextType
  <2>5. QED BY <2>1, <2>2, <2>3, <2>4 DEF Inside, Seps
<1>8. CASE Len(str) <= Size /\ mem[k] \in Seps
  <2>1. start' = -1 /\ printed' = IF start = -1 THEN printed ELSE Append(printed, Word(k))
    BY <1>8 DEF PrintWord, Seps
  <2>2. k + 1 \notin Inside(Seps) BY <1>7, <1>8
  <2>3. /\ Len(printed') = Cardinality(LastsTo(k + 1))
        /\ Cardinality(FirstsTo(k + 1)) = Cardinality(LastsTo(k + 1))
        /\ \A j \in 1 .. Len(printed') : printed'[j] = WordOf(k + 1, j)
    BY <1>1, <1>8, <2>1, <2>2, WordEnds
  <2>4. QED BY <1>1, <1>3, <1>5, <1>6, <2>1, <2>2, <2>3 DEF Printing, PrintIsRight
<1>9. CASE Len(str) <= Size /\ mem[k] \notin Seps
  <2>1. start' = (IF start = -1 THEN k ELSE start) /\ printed' = printed
    BY <1>9 DEF PrintWord, Seps
  <2>2. k + 1 \in Inside(Seps) BY <1>7, <1>9
  <2>3. /\ LastsTo(k + 1) = LastsTo(k)
        /\ Cardinality(FirstsTo(k + 1)) = Cardinality(LastsTo(k + 1)) + 1
        /\ Ordered(FirstsTo(k + 1))[Cardinality(FirstsTo(k + 1))] = start' + 1
        /\ \A j \in 1 .. Len(printed) : printed[j] = WordOf(k + 1, j)
    BY <1>1, <1>9, <2>1, <2>2, WordGoesOn
  <2>4. start' \in Nat /\ start' + 1 <= k' /\ start' # -1
    BY <1>1, <1>2, <2>1 DEF IInv, Loops
  <2>5. Len(printed) = Cardinality(LastsTo(k)) BY <1>1, <1>9 DEF Printing
  <2>6. QED BY <1>1, <1>3, <1>5, <1>6, <2>1, <2>2, <2>3, <2>4, <2>5 DEF Printing, PrintIsRight
<1>10. CASE ~(Len(str) <= Size) BY <1>1, <1>10 DEF Printing, PrintIsRight
<1>11. QED BY <1>8, <1>9, <1>10

LEMMA PrintedAll ==
  ASSUME IInv, Copying, Printing, PrintLast
  PROVE  Printing'
<1>1. /\ pc = "w" /\ k = Len(str) /\ pc' = "done" /\ UNCHANGED <<str, opt>>
      /\ printed' = IF start = -1 THEN printed ELSE Append(printed, Word(k))
  BY DEF PrintLast, input, user_str_len
<1>2. ASSUME Len(str) <= Size PROVE printed' = Words(Seps)
  <2>1. k \in Nat /\ Len(Text) \in Nat /\ Len(Text) <= k BY <1>1, TextType DEF IInv, TypeOK
  <2>2. k + 1 \notin 1 .. Len(Text) /\ \A n \in 1 .. Len(Text) : n <= k + 1 /\ n < k + 1
    BY <2>1
  <2>3. k + 1 \notin Inside(Seps) BY <2>2 DEF Inside
  <2>4. /\ Len(printed') = Cardinality(LastsTo(k + 1))
        /\ Cardinality(FirstsTo(k + 1)) = Cardinality(LastsTo(k + 1))
        /\ \A j \in 1 .. Len(printed') : printed'[j] = WordOf(k + 1, j)
        /\ printed' \in Seq(Seq(Chars))
    BY <1>1, <1>2, <2>3, WordEnds
  <2>5. FirstsTo(k + 1) = Firsts(Seps) /\ LastsTo(k + 1) = Lasts(Seps)
    BY <2>2 DEF FirstsTo, LastsTo, Firsts, Lasts, Inside
  <2>6. /\ Words(Seps) = [j \in 1 .. Cardinality(Firsts(Seps)) |->
                            SubSeq(Text, Ordered(Firsts(Seps))[j], Ordered(Lasts(Seps))[j])]
    BY WordsAre
  <2>7. printed' \in [1 .. Len(printed') -> Seq(Chars)] BY <2>4, LenProperties
  <2>8. QED BY <2>4, <2>5, <2>6, <2>7 DEF WordOf
<1>3. Words(Seps)' = Words(Seps) BY <1>1 DEF Words, Text
<1>4. QED BY <1>1, <1>2, <1>3 DEF Printing, PrintIsRight, Seps

LEMMA PrintingNext == IInv /\ Copying /\ Printing /\ [Next]_vars => Printing'
<1> SUFFICES ASSUME IInv, Copying, Printing, [Next]_vars PROVE Printing' OBVIOUS
<1>1. CASE CopyBlank \/ CopyChar \/ PadDot \/ Rejected \/ ReplaceBadly \/ ReplaceTooLong
  <2>1. pc' \notin {"w", "done"}
    BY <1>1 DEF CopyBlank, CopyChar, PadDot, Rejected, ReplaceBadly, ReplaceTooLong
  <2>2. QED BY <2>1 DEF Printing, PrintIsRight
<1>2. CASE Dispatch
  <2>1. pc' = opt /\ pc' # "done" /\ k' = 0 /\ start' = -1 /\ printed' = <<>>
    BY <1>2 DEF Dispatch, IInv, TypeOK, Loops
  <2>2. IInv' BY <1>2, DispatchTypes
  <2>3. Inside(Seps)' \in SUBSET (1 .. Len(Text)') /\ 0 \notin 1 .. Len(Text)' BY <2>2, TextType DEF Inside
  <2>4. Firsts(Seps)' \in SUBSET (1 .. Len(Text)') /\ Lasts(Seps)' \in SUBSET (1 .. Len(Text)')
    BY <2>3 DEF Firsts, Lasts
  <2>5. \A n \in 1 .. Len(Text)' : ~(n <= 0) /\ ~(n < 0) OBVIOUS
  <2>6. FirstsTo(k)' = {} /\ LastsTo(k)' = {} BY <2>1, <2>4, <2>5 DEF FirstsTo, LastsTo
  <2>7. Cardinality({}) = 0 /\ Len(printed') = 0 BY <2>1, FS_EmptySet
  <2>8. k' \notin Inside(Seps)' BY <2>1, <2>3
  <2>9. \A j \in 1 .. Len(printed') : FALSE BY <2>7
  <2>10. QED BY <2>1, <2>6, <2>7, <2>8, <2>9 DEF Printing, PrintIsRight
<1>3. CASE PrintWord BY <1>3, PrintStep
<1>4. CASE PrintLast BY <1>4, PrintedAll
<1>5. CASE CountWord \/ CountDone \/ SkipDot \/ Swap \/ Replace
  <2>1. pc' # "w" /\ opt' # "w"
    BY <1>5 DEF CountWord, CountDone, SkipDot, Swap, Replace, IInv, Loops, Working, input
  <2>2. QED BY <2>1 DEF Printing, PrintIsRight
<1>6. CASE UNCHANGED vars
  <2>1. UNCHANGED <<pc, opt, str, k, start, printed, mem>> BY <1>6 DEF vars, input
  <2>2. UNCHANGED <<Text, Inside(Seps)>> BY <2>1 DEF Text, Inside
  <2>3. UNCHANGED <<Firsts(Seps), Lasts(Seps)>> BY <2>2 DEF Firsts, Lasts
  <2>4. UNCHANGED <<FirstsTo(k), LastsTo(k)>> BY <2>1, <2>3 DEF FirstsTo, LastsTo
  <2>5. \A j : WordOf(k, j)' = WordOf(k, j) BY <2>2, <2>4 DEF WordOf
  <2>6. Words({Space, Dot})' = Words({Space, Dot}) BY <2>1, <2>2 DEF Words
  <2>7. QED BY <2>1, <2>2, <2>4, <2>5, <2>6 DEF Printing, PrintIsRight
<1>7. QED BY <1>1, <1>2, <1>3, <1>4, <1>5, <1>6 DEF Next

\* The words printed are those of the text, each whole and in order, if the
\* string is not longer than the buffer (stringfun.c:140-165).
THEOREM PrintRight == Spec => []PrintIsRight
<1>1. Init => Printing BY DEF Init, Printing, PrintIsRight
<1>2. Printing => PrintIsRight BY DEF Printing
<1>3. QED BY <1>1, <1>2, PrintingNext, CopyingAlways, PTL DEF Spec

-----------------------------------------------------------------------------
(***************************************************************************)
(* reverse_string(): behind end are dots; then what is between k and end   *)
(* is still to be swapped.                                                 *)
(***************************************************************************)

\* A finite set of numbers has a greatest one.
LEMMA MaxIs ==
  ASSUME NEW S \in SUBSET Int, IsFiniteSet(S), S # {}
  PROVE  Max(S) \in S /\ \A y \in S : y <= Max(S)
<1> DEFINE c == Cardinality(S)
<1>1. c \in Nat /\ c # 0 BY FS_EmptySet, FS_CardinalityType
<1>2. c \in 1 .. c BY <1>1
<1>3. PICK x \in S : Rank(S, x) = c BY <1>2, OneOfRank
<1>4. {m \in S : m <= x} = S
  <2>1. {m \in S : m <= x} \in SUBSET S OBVIOUS
  <2>2. QED BY <1>3, <2>1, FS_Subset DEF Rank
<1>5. \A y \in S : x >= y
  <2>1. \A y \in S : y <= x BY <1>4
  <2>2. x \in Int /\ \A y \in S : y \in Int OBVIOUS
  <2>3. QED BY <2>1, <2>2
<1>6. Max(S) \in S /\ \A y \in S : Max(S) >= y BY <1>5 DEF Max
<1>7. Max(S) \in Int /\ \A y \in S : y \in Int BY <1>6
<1>8. QED BY <1>6, <1>7

LEMMA SolidIs ==
  ASSUME IInv
  PROVE  /\ Len(Solid) \in Nat /\ Len(Solid) <= Len(Text)
         /\ \A n \in 1 .. Len(Solid) : Solid[n] = Text[n]
         /\ Len(Solid) # 0 => Text[Len(Solid)] # Dot
         /\ \A n \in 1 .. Len(Text) : n > Len(Solid) => Text[n] = Dot
<1> DEFINE other == {n \in 1 .. Len(Text) : Text[n] # Dot}
           m == IF other = {} THEN 0 ELSE Max(other)
<1>1. Len(Text) \in Nat /\ DOMAIN Text = 1 .. Len(Text) /\ \A n \in 1 .. Len(Text) : Text[n] \in Chars
  BY TextType
<1>2. other # {} => Max(other) \in other /\ \A y \in other : y <= Max(other)
  <2>1. other \in SUBSET (1 .. Len(Text)) /\ IsFiniteSet(1 .. Len(Text)) BY <1>1, FS_Interval
  <2>2. IsFiniteSet(other) BY <2>1, FS_Subset
  <2>3. other \in SUBSET Int OBVIOUS
  <2> HIDE DEF other
  <2>4. QED BY <2>2, <2>3, MaxIs
<1>3. Solid = SubSeq(Text, 1, m) BY <1>1 DEF Solid
<1>4. m \in Nat /\ m <= Len(Text) /\ (m # 0 => m \in other) BY <1>1, <1>2
<1>5. \A n \in 1 .. Len(Text) : n > m => n \notin other
  <2>1. \A n \in other : n <= m BY <1>2
  <2>2. QED BY <1>4, <2>1
<1>6. m # 0 => Text[m] # Dot BY <1>4
<1>7. \A n \in 1 .. Len(Text) : n > m => Text[n] = Dot BY <1>5
<1> HIDE DEF m, other
<1>8. /\ Len(SubSeq(Text, 1, m)) = IF 1 <= m THEN m - 1 + 1 ELSE 0
      /\ \A i \in 1 .. m - 1 + 1 : SubSeq(Text, 1, m)[i] = Text[1 + i - 1]
  <2>1. \A i \in 1 .. m : Text[i] \in Chars BY <1>1, <1>4
  <2>2. QED BY <1>4, <2>1, SubSeqProperties
<1>9. Len(Solid) = m /\ \A n \in 1 .. m : Solid[n] = Text[n] BY <1>3, <1>4, <1>8
<1>10. QED BY <1>4, <1>6, <1>7, <1>9

Reversing ==
  /\ pc = "r" /\ Len(str) <= Size =>
       \A n \in 1 .. Size : n > end + 1 => n > Len(str) \/ mem[n - 1] = Dot
  /\ pc = "swap" /\ Len(str) <= Size =>
       /\ k + end = Len(Solid) - 1 /\ k <= end + 1
       /\ \A n \in 1 .. Size :
            mem[n - 1] = IF n > Len(Solid) THEN Dot
                         ELSE IF k < n /\ n <= end + 1 THEN Solid[n] ELSE Solid[Len(Solid) - n + 1]
  /\ ReverseIsRight

LEMMA SkipStep ==
  ASSUME IInv, Copying, Reversing, SkipDot
  PROVE  Reversing'
<1>1. pc = "r" /\ k = 0 /\ UNCHANGED <<str, opt, mem, k>> BY DEF SkipDot, input, IInv, Loops
<1>2. end \in Int /\ end >= -1 /\ end < Len(str) /\ Len(str) \in Nat /\ Size \in Nat
  BY Sizes DEF IInv, TypeOK, Loops
<1>3. CASE end >= 0 /\ mem[end] = Dot
  <2>1. end' = end - 1 /\ pc' = "r" BY <1>1, <1>3 DEF SkipDot
  <2>2. \A n \in 1 .. Size : n > end' + 1 => n > end + 1 \/ n - 1 = end BY <1>2, <2>1
  <2>3. QED BY <1>1, <1>3, <2>1, <2>2 DEF Reversing, ReverseIsRight
<1>4. CASE ~(end >= 0 /\ mem[end] = Dot) /\ Len(str) <= Size
  <2>1. end' = end /\ pc' = "swap" BY <1>4 DEF SkipDot
  <2> DEFINE e == end + 1
             M == Len(Solid)
             T == Len(Text)
  <2>2. /\ M \in Nat /\ T \in Nat /\ M <= T /\ T <= Len(str) /\ e \in Nat /\ e <= Len(str)
        /\ T <= Size
    BY <1>2, <1>4, SolidIs, TextType
  <2>3. /\ \A n \in 1 .. T : mem[n - 1] = Text[n]
        /\ \A n \in 1 .. Size : n > T => mem[n - 1] = Dot
    BY <1>1, BufferIs
  <2>4. /\ \A n \in 1 .. M : Solid[n] = Text[n]
        /\ M # 0 => Text[M] # Dot
        /\ \A n \in 1 .. T : n > M => Text[n] = Dot
    BY SolidIs
  <2>5. \A n \in 1 .. Size : n > e => n > Len(str) \/ mem[n - 1] = Dot BY <1>1, <1>4 DEF Reversing
  <2>6. e # 0 => mem[e - 1] # Dot BY <1>2, <1>4
  <2> HIDE DEF e, M, T
  <2>7. ~(M > e)
    <3>1. M > e => M \in 1 .. T /\ M \in 1 .. Size /\ ~(M > Len(str)) /\ M # 0 BY <1>2, <2>2
    <3>2. QED BY <2>3, <2>4, <2>5, <3>1
  <2>8. ~(e > M)
    <3>1. e > M => e # 0 /\ e \in 1 .. Size /\ (e \in 1 .. T \/ e > T) BY <1>2, <1>4, <2>2
    <3>2. QED BY <2>3, <2>4, <2>6, <3>1
  <2>9. e = M BY <2>2, <2>7, <2>8
  <2>10. k + end = M - 1 /\ k <= end + 1 BY <1>1, <1>2, <2>2, <2>9 DEF e
  <2>11. ASSUME NEW n \in 1 .. Size
         PROVE  mem[n - 1] = IF n > M THEN Dot
                             ELSE IF k < n /\ n <= end + 1 THEN Solid[n] ELSE Solid[M - n + 1]
    <3>1. CASE n > M
      <4>1. n \in 1 .. T \/ n > T BY <2>2
      <4>2. QED BY <2>3, <2>4, <3>1, <4>1
    <3>2. CASE ~(n > M)
      <4>1. n \in 1 .. M /\ n \in 1 .. T /\ k < n /\ n <= end + 1 BY <1>1, <2>2, <2>9, <3>2 DEF e
      <4>2. QED BY <2>3, <2>4, <3>2, <4>1
    <3>3. QED BY <3>1, <3>2
  <2>12. Solid' = Solid BY <1>1 DEF Solid, Text
  <2>13. QED BY <1>1, <2>1, <2>10, <2>11, <2>12 DEF Reversing, ReverseIsRight, M
<1>5. CASE ~(Len(str) <= Size) BY <1>1, <1>5 DEF Reversing, ReverseIsRight
<1>6. QED BY <1>3, <1>4, <1>5

\* A swap puts two characters where they belong.
LEMMA SwapStep ==
  ASSUME IInv, Reversing, Swap, k < end
  PROVE  Reversing'
<1>1. pc = "swap" /\ pc' = "swap" /\ k' = k + 1 /\ end' = end - 1 /\ UNCHANGED <<str, opt>>
  BY DEF Swap, input
<1>2. k \in Nat /\ end \in Int /\ end < Len(str) /\ Len(str) \in Nat /\ Size \in Nat
      /\ Len(str) <= Top + 1 /\ Top \in Nat /\ Size <= Top + 1
  BY Sizes DEF IInv, TypeOK, Loops
<1>3. \A c \in Cells : mem'[c] = IF c = k THEN mem[end] ELSE IF c = end THEN mem[k] ELSE mem[c]
  BY SwapTypes
<1>4. Solid' = Solid BY <1>1 DEF Solid, Text
<1>5. CASE Len(str) <= Size
  <2> DEFINE M == Len(Solid)
  <2>1. /\ k + end = M - 1
        /\ \A n \in 1 .. Size :
             mem[n - 1] = IF n > M THEN Dot
                          ELSE IF k < n /\ n <= end + 1 THEN Solid[n] ELSE Solid[M - n + 1]
    BY <1>1, <1>5 DEF Reversing
  <2>2. M \in Nat BY SolidIs
  <2> HIDE DEF M
  <2>3. k + 1 \in 1 .. Size /\ end + 1 \in 1 .. Size /\ k + 1 <= M /\ end + 1 <= M
    BY <1>2, <1>5, <2>1, <2>2
  <2>4. mem[k] = Solid[k + 1] /\ mem[end] = Solid[end + 1]
    <3>1. (k + 1) - 1 = k /\ (end + 1) - 1 = end /\ k < k + 1 /\ k + 1 <= end + 1
          /\ k < end + 1 /\ end + 1 <= end + 1 /\ ~(k + 1 > M) /\ ~(end + 1 > M)
      BY <1>2, <2>2, <2>3
    <3>2. QED BY <2>1, <2>3, <3>1
  <2>5. ASSUME NEW n \in 1 .. Size
        PROVE  mem'[n - 1] = IF n > M THEN Dot
                             ELSE IF k' < n /\ n <= end' + 1 THEN Solid[n] ELSE Solid[M - n + 1]
    <3>1. n - 1 \in Cells BY <1>2 DEF Cells
    <3>2. CASE n = k + 1
      <4>1. n - 1 = k /\ ~(n > M) /\ ~(k' < n) /\ M - n + 1 = end + 1
        BY <1>1, <1>2, <2>1, <2>2, <2>3, <3>2
      <4>2. QED BY <1>3, <2>4, <3>1, <4>1
    <3>3. CASE n = end + 1
      <4>1. n - 1 = end /\ end # k /\ ~(n > M) /\ ~(n <= end' + 1) /\ M - n + 1 = k + 1
        BY <1>1, <1>2, <2>1, <2>2, <2>3, <3>3
      <4>2. QED BY <1>3, <2>4, <3>1, <4>1
    <3>4. CASE n # k + 1 /\ n # end + 1
      <4>1. n - 1 # k /\ n - 1 # end /\ (k' < n <=> k < n) /\ (n <= end' + 1 <=> n <= end + 1)
        BY <1>1, <1>2, <3>4
      <4>2. mem'[n - 1] = mem[n - 1] BY <1>3, <3>1, <4>1
      <4>3. QED BY <2>1, <4>1, <4>2
    <3>5. QED BY <3>2, <3>3, <3>4
  <2>6. k' + end' = M - 1 /\ k' <= end' + 1 BY <1>1, <1>2, <2>1, <2>2
  <2>7. QED BY <1>1, <1>4, <2>5, <2>6 DEF Reversing, ReverseIsRight, M
<1>6. CASE ~(Len(str) <= Size) BY <1>1, <1>6 DEF Reversing, ReverseIsRight
<1>7. QED BY <1>5, <1>6

\* When nothing is left to swap the buffer holds the reversed text.
LEMMA SwappedAll ==
  ASSUME IInv, Reversing, Swap, ~(k < end)
  PROVE  Reversing'
<1>1. pc = "swap" /\ pc' = "done" /\ UNCHANGED <<str, opt, mem>> BY DEF Swap, input
<1>2. ASSUME Len(str) <= Size PROVE Holds(Reverse(Solid), Dot)
  <2> DEFINE M == Len(Solid)
             r == [i \in 1 .. M |-> Solid[(M - i) + 1]]
  <2>1. /\ k + end = M - 1 /\ k <= end + 1
        /\ \A n \in 1 .. Size :
             mem[n - 1] = IF n > M THEN Dot
                          ELSE IF k < n /\ n <= end + 1 THEN Solid[n] ELSE Solid[M - n + 1]
    BY <1>1, <1>2 DEF Reversing
  <2>2. M \in Nat /\ Size \in Nat /\ k \in Nat /\ end \in Int
    BY SolidIs, SizeAssumption DEF IInv, TypeOK
  <2>3. Reverse(Solid) = r BY DEF Reverse
  <2> HIDE DEF M
  <2>4. Len(r) = M
    <3>1. r \in [1 .. M -> {Solid[(M - i) + 1] : i \in 1 .. M}] OBVIOUS
    <3>2. QED BY <2>2, <3>1, FunIsSeq
  <2>5. \A i \in 1 .. M : r[i] = Solid[(M - i) + 1] OBVIOUS
  <2> HIDE DEF r
  <2>6. ASSUME NEW c \in 0 .. Size - 1 PROVE mem[c] = IF c < Len(r) THEN r[c + 1] ELSE Dot
    <3>1. c + 1 \in 1 .. Size /\ (c + 1) - 1 = c BY <2>2
    <3>2. CASE c < M
      <4>1. c + 1 \in 1 .. M /\ ~(c + 1 > M) BY <2>2, <3>2
      <4>2. r[c + 1] = Solid[(M - (c + 1)) + 1] BY <2>5, <4>1
      <4>3. k < c + 1 /\ c + 1 <= end + 1 => M - (c + 1) + 1 = c + 1 BY <2>1, <2>2
      <4>4. mem[c] = Solid[M - (c + 1) + 1] BY <2>1, <3>1, <4>1, <4>3
      <4>5. QED BY <2>4, <3>2, <4>2, <4>4
    <3>3. CASE ~(c < M)
      <4>1. c + 1 > M BY <2>2, <3>3
      <4>2. QED BY <2>1, <2>4, <3>1, <3>3, <4>1
    <3>4. QED BY <3>2, <3>3
  <2>7. QED BY <2>3, <2>6 DEF Holds
<1>3. Holds(Reverse(Solid), Dot)' <=> Holds(Reverse(Solid), Dot) BY <1>1 DEF Holds, Solid, Text
<1>4. QED BY <1>1, <1>2, <1>3 DEF Reversing, ReverseIsRight

LEMMA ReversingNext == IInv /\ Copying /\ Reversing /\ [Next]_vars => Reversing'
<1> SUFFICES ASSUME IInv, Copying, Reversing, [Next]_vars PROVE Reversing' OBVIOUS
<1>1. CASE CopyBlank \/ CopyChar \/ PadDot \/ Rejected \/ ReplaceBadly \/ ReplaceTooLong
  <2>1. pc' \notin {"r", "swap", "done"}
    BY <1>1 DEF CopyBlank, CopyChar, PadDot, Rejected, ReplaceBadly, ReplaceTooLong
  <2>2. QED BY <2>1 DEF Reversing, ReverseIsRight
<1>2. CASE Dispatch
  <2>1. /\ pc' = opt /\ pc' \notin {"done", "swap"} /\ (opt = "r" => end' = Len(str) - 1)
        /\ str' = str
    BY <1>2 DEF Dispatch, IInv, TypeOK, Loops, user_str_len, input
  <2>2. Len(str) \in Nat BY Sizes DEF IInv
  <2>3. opt = "r" => \A n \in 1 .. Size : n > end' + 1 => n > Len(str') BY <2>1, <2>2
  <2>4. QED BY <2>1, <2>3 DEF Reversing, ReverseIsRight
<1>3. CASE SkipDot BY <1>3, SkipStep
<1>4. CASE Swap BY <1>4, SwapStep, SwappedAll
<1>5. CASE CountWord \/ CountDone \/ PrintWord \/ PrintLast \/ Replace
  <2>1. pc' \notin {"r", "swap"} /\ opt' # "r"
    BY <1>5 DEF CountWord, CountDone, PrintWord, PrintLast, Replace, IInv, Loops, Working, input
  <2>2. QED BY <2>1 DEF Reversing, ReverseIsRight
<1>6. CASE UNCHANGED vars
  BY <1>6 DEF vars, input, Reversing, ReverseIsRight, Holds, Solid, Text
<1>7. QED BY <1>1, <1>2, <1>3, <1>4, <1>5, <1>6 DEF Next

\* The text is reversed without the dots at its end, if the string is not longer
\* than the buffer (stringfun.c:92-112).
THEOREM ReverseRight == Spec => []ReverseIsRight
<1>1. Init => Reversing BY DEF Init, Reversing, ReverseIsRight
<1>2. Reversing => ReverseIsRight BY DEF Reversing
<1>3. QED BY <1>1, <1>2, ReversingNext, CopyingAlways, PTL DEF Spec

-----------------------------------------------------------------------------
(***************************************************************************)
(* replace_string().                                                       *)
(***************************************************************************)

\* s stands in t behind its first m elements.
Occurs(s, t, m) == m + Len(s) <= Len(t) /\ \A j \in 1 .. Len(s) : t[m + j] = s[j]

OccursFirst(s, t, n) == Occurs(s, t, n) /\ \A m \in 0 .. n - 1 : ~Occurs(s, t, m)

\* t with r in the place of s behind its first n elements.
Replacing(r, s, t, n) == SubSeq(t, 1, n) \o r \o SubSeq(t, (n + Len(s)) + 1, Len(t))

LEMMA PieceIs ==
  ASSUME NEW C, NEW t \in Seq(C), NEW a \in Nat, NEW b \in Nat, b <= Len(t)
  PROVE  /\ SubSeq(t, a + 1, b) \in Seq(C)
         /\ a <= b => /\ Len(SubSeq(t, a + 1, b)) = b - a
                      /\ \A j \in 1 .. b - a : SubSeq(t, a + 1, b)[j] = t[a + j]
         /\ ~(a <= b) => Len(SubSeq(t, a + 1, b)) = 0
<1>1. Len(t) \in Nat /\ \A i \in 1 .. Len(t) : t[i] \in C BY LenProperties, ElementOfSeq
<1> DEFINE d == a + 1
<1>2. d \in Int /\ b \in Int /\ \A i \in d .. b : t[i] \in C
  <2>1. \A i \in d .. b : i \in 1 .. Len(t) BY <1>1
  <2>2. QED BY <1>1, <2>1
<1>3. d \in Nat /\ d = a + 1 OBVIOUS
<1> HIDE DEF d
<1>4. /\ SubSeq(t, d, b) \in Seq(C)
      /\ Len(SubSeq(t, d, b)) = IF d <= b THEN b - d + 1 ELSE 0
      /\ \A i \in 1 .. b - d + 1 : SubSeq(t, d, b)[i] = t[d + i - 1]
  BY <1>2, SubSeqProperties
<1>5. b - d + 1 = b - a /\ \A i \in 1 .. b - a : d + i - 1 = a + i BY <1>3
<1>6. a <= b => Len(SubSeq(t, d, b)) = b - a BY <1>3, <1>4
<1>7. ~(a <= b) => Len(SubSeq(t, d, b)) = 0 BY <1>3, <1>4
<1>8. QED BY <1>4, <1>5, <1>6, <1>7 DEF d

LEMMA SubSeqsAre ==
  ASSUME NEW C, NEW s \in Seq(C), NEW t \in Seq(C)
  PROVE  s \in SubSeqs(t) <=> \E m \in 0 .. Len(t) : Occurs(s, t, m)
<1>1. Len(s) \in Nat /\ Len(t) \in Nat BY LenProperties
<1>2. ASSUME s \in SubSeqs(t) PROVE \E m \in 0 .. Len(t) : Occurs(s, t, m)
  <2>1. PICK a, b \in 0 .. Len(t) : s = SubSeq(t, a + 1, b) BY <1>2 DEF SubSeqs
  <2>2. a \in Nat /\ b \in Nat /\ b <= Len(t) BY <1>1, <2>1
  <2>3. CASE a <= b
    <3>1. Len(s) = b - a /\ \A j \in 1 .. b - a : s[j] = t[a + j] BY <2>1, <2>2, <2>3, PieceIs
    <3>2. Occurs(s, t, a) BY <1>1, <2>2, <2>3, <3>1 DEF Occurs
    <3>3. QED BY <3>2
  <2>4. CASE ~(a <= b)
    <3>1. Len(s) = 0 BY <2>1, <2>2, <2>4, PieceIs
    <3>2. Occurs(s, t, 0) /\ 0 \in 0 .. Len(t) BY <1>1, <3>1 DEF Occurs
    <3>3. QED BY <3>2
  <2>5. QED BY <2>3, <2>4
<1>3. ASSUME NEW m \in 0 .. Len(t), Occurs(s, t, m) PROVE s \in SubSeqs(t)
  <2> DEFINE b == m + Len(s)
  <2>1. m \in Nat /\ b \in Nat /\ b <= Len(t) /\ b \in 0 .. Len(t) /\ m <= b /\ b - m = Len(s)
    BY <1>1, <1>3 DEF Occurs
  <2> HIDE DEF b
  <2>2. /\ SubSeq(t, m + 1, b) \in Seq(C) /\ Len(SubSeq(t, m + 1, b)) = Len(s)
        /\ \A j \in 1 .. Len(s) : SubSeq(t, m + 1, b)[j] = t[m + j]
    BY <2>1, PieceIs
  <2>3. SubSeq(t, m + 1, b) = s BY <1>3, <2>2, SeqEqual DEF Occurs
  <2>4. QED BY <1>3, <2>1, <2>3 DEF SubSeqs
<1>4. QED BY <1>2, <1>3

\* What is replaced when s stands in t first behind n elements.
LEMMA ReplacedIs ==
  ASSUME NEW C, NEW r, NEW s \in Seq(C), NEW t \in Seq(C), NEW n \in Nat, OccursFirst(s, t, n)
  PROVE  ReplaceFirstSubSeq(r, s, t) = Replacing(r, s, t, n)
<1> DEFINE l == n + Len(s)
<1>1. Occurs(s, t, n) /\ \A m \in 0 .. n - 1 : ~Occurs(s, t, m) BY DEF OccursFirst
<1>2. Len(s) \in Nat /\ Len(t) \in Nat /\ l \in 0 .. Len(t) /\ n \in 0 .. Len(t)
  <2>1. Len(s) \in Nat /\ Len(t) \in Nat BY LenProperties
  <2>2. QED BY <1>1, <2>1 DEF Occurs
<1>3. ASSUME NEW i \in 0 .. Len(t)
      PROVE  s \in SubSeqs(SubSeq(t, 1, i)) <=> \E m \in 0 .. i : m + Len(s) <= i /\ Occurs(s, t, m)
  <2> DEFINE u == SubSeq(t, 0 + 1, i)
  <2>1. i \in Nat /\ i <= Len(t) /\ 0 <= i /\ i - 0 = i BY <1>2
  <2>2. u \in Seq(C) /\ Len(u) = i /\ \A j \in 1 .. i : u[j] = t[0 + j]
    BY <2>1, PieceIs
  <2>3. SubSeq(t, 1, i) = u /\ \A j \in 1 .. i : 0 + j = j OBVIOUS
  <2> HIDE DEF u
  <2>4. s \in SubSeqs(u) <=> \E m \in 0 .. Len(u) : Occurs(s, u, m) BY <2>2, SubSeqsAre
  <2>5. ASSUME NEW m \in 0 .. i
        PROVE  Occurs(s, u, m) <=> m + Len(s) <= i /\ Occurs(s, t, m)
    <3>1. CASE m + Len(s) <= i
      <4>1. \A j \in 1 .. Len(s) : m + j \in 1 .. i BY <1>2, <2>1, <2>5, <3>1
      <4>2. \A j \in 1 .. Len(s) : u[m + j] = t[m + j] BY <2>2, <2>3, <4>1
      <4>3. m + Len(s) <= Len(t) BY <1>2, <2>1, <3>1
      <4>4. QED BY <2>2, <3>1, <4>2, <4>3 DEF Occurs
    <3>2. CASE ~(m + Len(s) <= i) BY <2>2, <3>2 DEF Occurs
    <3>3. QED BY <3>1, <3>2
  <2>6. QED BY <2>2, <2>3, <2>4, <2>5
<1>4. ASSUME NEW i \in 0 .. Len(t)
      PROVE  s \in SubSeqs(SubSeq(t, 1, i)) <=> i >= l
  <2>1. ASSUME i >= l PROVE \E m \in 0 .. i : m + Len(s) <= i /\ Occurs(s, t, m)
    <3>1. n \in 0 .. i /\ n + Len(s) <= i BY <1>2, <2>1
    <3>2. QED BY <1>1, <3>1
  <2>2. ASSUME NEW m \in 0 .. i, m + Len(s) <= i, Occurs(s, t, m) PROVE i >= l
    <3>1. m \notin 0 .. n - 1 BY <1>1, <2>2
    <3>2. m >= n BY <3>1
    <3>3. QED BY <1>2, <2>2, <3>2
  <2> HIDE DEF l
  <2>3. QED BY <1>3, <2>1, <2>2
<1> DEFINE Last0(i) == /\ s \in SubSeqs(SubSeq(t, 1, i))
                       /\ \A j \in 0 .. i - 1 : s \notin SubSeqs(SubSeq(t, 1, j))
<1>5. \A i \in 0 .. Len(t) : Last0(i) <=> i = l
  <2> HIDE DEF l
  <2>1. ASSUME NEW i \in 0 .. Len(t) PROVE Last0(i) <=> i = l
    <3>1. \A j \in 0 .. i - 1 : j \in 0 .. Len(t) BY <1>2
    <3>2. Last0(i) <=> i >= l /\ \A j \in 0 .. i - 1 : ~(j >= l) BY <1>4, <3>1
    <3>3. i > l => l \in 0 .. i - 1 /\ l >= l BY <1>2
    <3>4. i = l => i >= l /\ \A j \in 0 .. i - 1 : ~(j >= l) BY <1>2
    <3>5. i >= l => i = l \/ i > l BY <1>2
    <3> HIDE DEF Last0
    <3>6. QED BY <3>2, <3>3, <3>4, <3>5
  <2> HIDE DEF Last0
  <2>2. QED BY <2>1
<1>6. (CHOOSE i \in 0 .. Len(t) : Last0(i)) = l
  <2> HIDE DEF Last0, l
  <2>1. QED BY <1>2, <1>5
<1>7. IndexFirstSubSeq(s, t) = n + 1
  <2>1. IndexFirstSubSeq(s, t) = l - (Len(s) - 1) BY <1>6 DEF IndexFirstSubSeq
  <2>2. QED BY <1>2, <2>1
<1>8. s \in SubSeqs(t) BY <1>1, <1>2, SubSeqsAre
<1>9. (n + 1) - 1 = n /\ (n + 1) + Len(s) = (n + Len(s)) + 1 BY <1>2
<1>10. QED BY <1>7, <1>8, <1>9 DEF ReplaceFirstSubSeq, ReplaceSubSeqAt, Replacing

\* The text with the dots up to the length of the string.
FilledText == [n \in 1 .. Len(str) |-> IF n <= Len(Text) THEN Text[n] ELSE Dot]

LEMMA FilledIs ==
  ASSUME IInv, Copying, pc = "x", Len(str) <= Size
  PROVE  /\ FilledText \in Seq(Chars) /\ Len(FilledText) = Len(str)
         /\ \A n \in 1 .. Len(str) : FilledText[n] = mem[n - 1]
<1>1. Len(str) \in Nat /\ Size \in Nat /\ Len(Text) \in Nat BY Sizes, TextType DEF IInv
<1>2. \A n \in 1 .. Len(str) : n <= Len(Text) => Text[n] \in Chars
  <2>1. \A n \in 1 .. Len(str) : n <= Len(Text) => n \in 1 .. Len(Text) BY <1>1
  <2>2. QED BY <2>1, TextType
<1>3. FilledText \in [1 .. Len(str) -> Chars] BY <1>2 DEF FilledText, Chars
<1>4. FilledText \in Seq(Chars) /\ Len(FilledText) = Len(str) BY <1>1, <1>3, FunIsSeq
<1>5. /\ \A n \in 1 .. Len(Text) : mem[n - 1] = Text[n]
      /\ \A n \in 1 .. Size : n > Len(Text) => mem[n - 1] = Dot
  BY BufferIs
<1>6. ASSUME NEW n \in 1 .. Len(str) PROVE FilledText[n] = mem[n - 1]
  <2>1. n \in 1 .. Size /\ (n <= Len(Text) => n \in 1 .. Len(Text)) /\ (~(n <= Len(Text)) => n > Len(Text))
    BY <1>1
  <2>2. QED BY <1>5, <2>1 DEF FilledText
<1>7. QED BY <1>4, <1>6

\* What replace_string() puts together is what the first replacement gives.
LEMMA TempIsNew ==
  ASSUME IInv, Copying, pc = "x", Len(str) <= Size,
         NEW n \in Nat, Found(n), Len(str) >= n + Len(target)
  PROVE  Temp(n) = ReplaceFirstSubSeq(replace, target, FilledText)
<1> DEFINE t == FilledText
           u == Len(str)
           v == Len(target)
<1>1. target \in Seq(Chars) /\ replace \in Seq(Chars) /\ v \in Nat BY TempIs
<1>2. t \in Seq(Chars) /\ Len(t) = u /\ \A i \in 1 .. u : t[i] = mem[i - 1] BY FilledIs
<1>3. u \in Nat /\ u <= Top + 1 /\ Top \in Nat /\ pc \in Working BY Sizes DEF IInv, Working
<1> HIDE DEF t, u
<1>4. u >= n + v BY DEF u
<1>5. ASSUME NEW m \in 0 .. n PROVE At(m) <=> Occurs(target, t, m)
  <2>1. m \in Nat /\ m + v <= u /\ m + v <= Top + 1 BY <1>1, <1>3, <1>4
  <2>2. \A j \in 1 .. v : m + j \in 1 .. u /\ (m + j) - 1 = m + j - 1 BY <1>1, <1>3, <2>1
  <2>3. \A j \in 1 .. v : t[m + j] = mem[m + j - 1] BY <1>2, <2>2
  <2>4. QED BY <1>2, <2>1, <2>3 DEF At, Occurs
<1>6. OccursFirst(target, t, n)
  <2>1. n \in 0 .. n /\ \A m \in 0 .. n - 1 : m \in 0 .. n OBVIOUS
  <2>2. QED BY <1>5, <2>1 DEF Found, OccursFirst
<1>7. ReplaceFirstSubSeq(replace, target, t) = SubSeq(t, 1, n) \o replace \o SubSeq(t, (n + v) + 1, u)
  <2>1. ReplaceFirstSubSeq(replace, target, t) = Replacing(replace, target, t, n)
    BY <1>1, <1>2, <1>6, ReplacedIs
  <2>2. QED BY <1>2, <2>1 DEF Replacing
<1>8. SubSeq(t, 1, n) = Copy(0, n)
  <2>1. n <= u /\ n <= Len(t) /\ 0 <= n /\ n - 0 = n /\ 0 + 1 = 1 /\ 0 + n <= Top + 1
    BY <1>1, <1>2, <1>3, <1>4
  <2>2. /\ SubSeq(t, 0 + 1, n) \in Seq(Chars) /\ Len(SubSeq(t, 0 + 1, n)) = n
        /\ \A j \in 1 .. n : SubSeq(t, 0 + 1, n)[j] = t[0 + j]
    BY <1>2, <2>1, PieceIs
  <2>3. /\ Copy(0, n) \in Seq(Chars) /\ Len(Copy(0, n)) = n
        /\ \A j \in 1 .. n : Copy(0, n)[j] = mem[0 + j - 1]
    BY <1>3, <2>1, CopyType
  <2>4. \A j \in 1 .. n : 0 + j \in 1 .. u /\ (0 + j) - 1 = 0 + j - 1 BY <1>3, <2>1
  <2>5. \A j \in 1 .. n : SubSeq(t, 0 + 1, n)[j] = Copy(0, n)[j] BY <1>2, <2>2, <2>3, <2>4
  <2>6. SubSeq(t, 0 + 1, n) = Copy(0, n) BY <2>2, <2>3, <2>5, SeqEqual
  <2>7. QED BY <2>1, <2>6
<1>9. SubSeq(t, (n + v) + 1, u) = Copy(n + v, u - (n + v))
  <2> DEFINE a == n + v
             d == u - a
  <2>1. a \in Nat /\ a <= u /\ d \in Nat /\ a + d <= Top + 1 /\ u <= Len(t)
    BY <1>1, <1>2, <1>3, <1>4
  <2> HIDE DEF a
  <2>2. /\ SubSeq(t, a + 1, u) \in Seq(Chars) /\ Len(SubSeq(t, a + 1, u)) = u - a
        /\ \A j \in 1 .. u - a : SubSeq(t, a + 1, u)[j] = t[a + j]
    BY <1>2, <1>3, <2>1, PieceIs
  <2>3. /\ Copy(a, d) \in Seq(Chars) /\ Len(Copy(a, d)) = d
        /\ \A j \in 1 .. d : Copy(a, d)[j] = mem[a + j - 1]
    <3> HIDE DEF d
    <3>1. QED BY <1>3, <2>1, CopyType
  <2>4. \A j \in 1 .. d : a + j \in 1 .. u /\ (a + j) - 1 = a + j - 1 BY <1>3, <2>1
  <2>5. \A j \in 1 .. d : SubSeq(t, a + 1, u)[j] = Copy(a, d)[j] BY <1>2, <2>2, <2>3, <2>4
  <2>6. Len(SubSeq(t, a + 1, u)) = d BY <2>2
  <2> HIDE DEF d
  <2>7. SubSeq(t, a + 1, u) = Copy(a, d) BY <2>2, <2>3, <2>5, <2>6, SeqEqual
  <2>8. QED BY <2>7 DEF a, d
<1>10. QED BY <1>7, <1>8, <1>9 DEF Temp, user_str_len, t, u

LEMMA ReplacedRight ==
  ASSUME IInv, Copying, Replace
  PROVE  ReplaceIsRight'
<1>1. pc = "x" /\ pc' = "done" /\ UNCHANGED <<str, rewrite, opt>> BY DEF Replace, input
<1>2. ASSUME Len(str) <= Size
      PROVE  LET new == ReplaceFirstSubSeq(replace, target, FilledText)
             IN  \A c \in 0 .. Size - 1 :
                   IF c < Len(new) /\ c < Size - 1 THEN mem'[c] = new[c + 1] ELSE mem'[c] \in {Nul, Dot}
  <2>1. PICK n \in 0 .. Size - Len(target) :
          /\ Found(n) /\ Len(str) >= n + Len(target) /\ NewLen <= Size
          /\ \A c \in Cells : mem'[c] = IF c >= Size THEN mem[c]
                                        ELSE IF c < NewLen /\ c < Size - 1 THEN Temp(n)[c + 1] ELSE Nul
    BY ReplaceIs
  <2> DEFINE new == ReplaceFirstSubSeq(replace, target, FilledText)
  <2>2. n \in Nat BY <2>1
  <2>3. new = Temp(n) BY <1>1, <1>2, <2>1, <2>2, TempIsNew
  <2>4. Len(Temp(n)) = NewLen BY <1>1, <2>1, <2>2, TempIs
  <2> HIDE DEF new
  <2>5. Size \in Nat \ {0} /\ Top \in Nat /\ Size <= Top + 1 BY SizeAssumption
  <2>6. ASSUME NEW c \in 0 .. Size - 1
        PROVE  IF c < Len(new) /\ c < Size - 1 THEN mem'[c] = new[c + 1] ELSE mem'[c] \in {Nul, Dot}
    <3>1. c \in Cells /\ ~(c >= Size) BY <2>5 DEF Cells
    <3>2. QED BY <2>1, <2>3, <2>4, <3>1
  <2>7. QED BY <2>6 DEF new
<1>3. FilledText' = FilledText /\ target' = target /\ replace' = replace
  BY <1>1 DEF FilledText, Text, target, replace
<1> DEFINE old == ReplaceFirstSubSeq(replace, target, FilledText)
<1>4. old' = old BY <1>3
<1>5. QED BY <1>1, <1>2, <1>3, <1>4 DEF ReplaceIsRight, FilledText

LEMMA ReplaceNext == IInv /\ Copying /\ ReplaceIsRight /\ [Next]_vars => ReplaceIsRight'
<1> SUFFICES ASSUME IInv, Copying, ReplaceIsRight, [Next]_vars PROVE ReplaceIsRight' OBVIOUS
<1>1. CASE CopyBlank \/ CopyChar \/ PadDot \/ Rejected \/ ReplaceBadly \/ ReplaceTooLong
  <2>1. pc' # "done"
    BY <1>1 DEF CopyBlank, CopyChar, PadDot, Rejected, ReplaceBadly, ReplaceTooLong
  <2>2. QED BY <2>1 DEF ReplaceIsRight
<1>2. CASE Dispatch
  <2>1. pc' # "done" BY <1>2 DEF Dispatch, IInv, TypeOK
  <2>2. QED BY <2>1 DEF ReplaceIsRight
<1>3. CASE CountWord \/ CountDone \/ PrintWord \/ PrintLast \/ SkipDot \/ Swap
  <2>1. opt' # "x"
    BY <1>3 DEF CountWord, CountDone, PrintWord, PrintLast, SkipDot, Swap, IInv, Loops, Working, input
  <2>2. QED BY <2>1 DEF ReplaceIsRight
<1>4. CASE Replace BY <1>4, ReplacedRight
<1>5. CASE UNCHANGED vars
  BY <1>5 DEF vars, input, ReplaceIsRight, Text, target, replace
<1>6. QED BY <1>1, <1>2, <1>3, <1>4, <1>5 DEF Next

\* The first target in the text, or in the dots behind it, is replaced and the
\* rest stays, but for one character at the end of a buffer that gets full; if
\* the string is not longer than the buffer (stringfun.c:114-138).
THEOREM ReplaceRight == Spec => []ReplaceIsRight
<1>1. Init => ReplaceIsRight BY DEF Init, ReplaceIsRight
<1>2. QED BY <1>1, ReplaceNext, CopyingAlways, PTL DEF Spec
=============================================================================
