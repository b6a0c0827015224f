------------------------------ MODULE StringFun ------------------------------
(***************************************************************************)
(* The string utility of assn-1/stringfun.c: setup_buff() copies the       *)
(* user's string into a buffer, with every run of blanks as one space and  *)
(* dots behind it; then one operation works on the buffer.  The operations *)
(* get the length of the user's string, which may be longer than its copy  *)
(* and longer than the buffer: what lies behind the buffer is a cell of    *)
(* memory like another, with unknown contents.                             *)
(***************************************************************************)
EXTENDS Integers, Sequences, SequencesExt, Pieces

CONSTANTS Size,      \* BUFFER_SZ
          Top,       \* the last cell of memory that is modelled
          Strings,   \* what the user may give: argv[2]
          Rewrites,  \* and for -x: pairs of target and replacement
          Unknown    \* what a cell behind the buffer may hold

Dot   == "."
Space == " "
Blank == {Space, "\t"}
Nul   == "\\0"
Chars == {"a", "b", Dot} \cup Blank

ASSUME SizeAssumption == Size \in Nat \ {0} /\ Top \in Nat /\ Size <= Top + 1
ASSUME StringsAssumption ==
  /\ Strings \subseteq Seq(Chars) /\ \A s \in Strings : Len(s) <= Top + 1
  /\ \A r \in Rewrites : r[1] \in Seq(Chars) /\ r[2] \in Seq(Chars)
ASSUME UnknownAssumption == Unknown \subseteq Chars

VARIABLES opt,      \* the option: "c", "r", "w" or "x"
          str,      \* input_string
          rewrite,  \* argv[3] and argv[4]
          pc,       \* "setup", then opt, then "done", or how the program ended
          mem,      \* buff[0 .. Size - 1], and the cells behind it
          src,      \* characters of str that setup_buff() has read
          length,   \* length of setup_buff()
          flag,     \* space_flag; the i of count_words()
          k,        \* the loop counter, or the pointer start, of an operation
          end,      \* the pointer end of reverse_string()
          start,    \* where a word starts, or -1
          count,    \* the words that count_words() has seen
          printed   \* what word_print() has printed

input == <<opt, str, rewrite>>
vars  == <<input, pc, mem, src, length, flag, k, end, start, count, printed>>

Cells == 0 .. Top

\* The type invariant: every index is one of a modelled cell or next to it, so
\* the loops read and write no more memory than that (stringfun.c:21-165).
TypeOK ==
  /\ opt \in {"c", "r", "w", "x"}
  /\ str \in Seq(Chars)
  /\ pc \in {"setup", "c", "r", "swap", "w", "x", "done", "rejected", "overflow", "undefined"}
  /\ mem \in [Cells -> Chars \cup {Nul, "?"}]
  /\ src \in 0 .. Len(str)
  /\ length \in 0 .. Size
  /\ flag \in BOOLEAN
  /\ k \in 0 .. Top + 1
  /\ end \in -1 .. Top
  /\ start \in -1 .. Top
  /\ count \in Nat
  /\ printed \in Seq(Seq(Chars))

Init ==
  /\ opt \in {"c", "r", "w", "x"}
  /\ str \in Strings
  /\ rewrite \in IF opt = "x" THEN Rewrites ELSE {<<>>}
  /\ pc = "setup"
  /\ mem \in {[c \in Cells |-> IF c < Size THEN "?" ELSE u] : u \in Unknown}
  /\ src = 0 /\ length = 0 /\ flag = FALSE
  /\ k = 0 /\ end = -1 /\ start = -1
  /\ count = 0
  /\ printed = <<>>

-----------------------------------------------------------------------------
(***************************************************************************)
(* setup_buff().                                                           *)
(***************************************************************************)
user_str_len == Len(str)

Put(c) == mem' = [mem EXCEPT ![length] = c] /\ length' = length + 1

\* Mutant of CopyBlank: the flag is never set, so that blanks are not squeezed.
CopyBlankAlways ==
  /\ pc = "setup" /\ src < Len(str) /\ length < Size
  /\ str[src + 1] \in Blank
  /\ Put(Space)
  /\ flag' = FALSE
  /\ src' = src + 1
  /\ UNCHANGED <<input, pc, k, end, start, count, printed>>

CopyBlank ==
  /\ pc = "setup" /\ src < Len(str) /\ length < Size
  /\ str[src + 1] \in Blank
  /\ IF flag THEN UNCHANGED <<mem, length>> ELSE Put(Space)
  /\ flag' = TRUE
  /\ src' = src + 1
  /\ UNCHANGED <<input, pc, k, end, start, count, printed>>

CopyChar ==
  /\ pc = "setup" /\ src < Len(str) /\ length < Size
  /\ str[src + 1] \notin Blank
  /\ Put(str[src + 1])
  /\ flag' = FALSE
  /\ src' = src + 1
  /\ UNCHANGED <<input, pc, k, end, start, count, printed>>

\* The buffer is full and there is more to copy: main() exits with 2.
Rejected ==
  /\ pc = "setup" /\ src < Len(str) /\ length >= Size
  /\ pc' = "rejected"
  /\ UNCHANGED <<input, mem, src, length, flag, k, end, start, count, printed>>

\* Mutant of PadDot: one dot too many.
PadDotToo ==
  /\ pc = "setup" /\ src = Len(str) /\ length <= Size
  /\ Put(Dot)
  /\ UNCHANGED <<input, pc, src, flag, k, end, start, count, printed>>

\* The rest of the buffer is filled.
PadDot ==
  /\ pc = "setup" /\ src = Len(str) /\ length < Size
  /\ Put(Dot)
  /\ UNCHANGED <<input, pc, src, flag, k, end, start, count, printed>>

\* Mutant of Dispatch: the pointer end is one too far.
DispatchOneMore ==
  /\ pc = "setup" /\ src = Len(str) /\ length = Size
  /\ pc' = opt
  /\ flag' = FALSE
  /\ end' = IF opt = "r" /\ user_str_len <= Top THEN user_str_len ELSE -1
  /\ UNCHANGED <<input, mem, src, length, k, start, count, printed>>

\* setup_buff() returns the length of the string, and main() calls an operation.
Dispatch ==
  /\ pc = "setup" /\ src = Len(str) /\ length = Size
  /\ pc' = opt
  /\ flag' = FALSE
  /\ end' = IF opt = "r" THEN user_str_len - 1 ELSE -1
  /\ UNCHANGED <<input, mem, src, length, k, start, count, printed>>

-----------------------------------------------------------------------------
(***************************************************************************)
(* count_words() and word_print().                                         *)
(***************************************************************************)

\* Mutant of CountWord: the flag is not reset between words.
CountWordOnce ==
  /\ pc = "c" /\ k < user_str_len
  /\ count' = IF mem[k] # Space /\ ~flag THEN count + 1 ELSE count
  /\ flag' = (flag \/ mem[k] # Space)
  /\ k' = k + 1
  /\ UNCHANGED <<input, pc, mem, src, length, end, start, printed>>

\* One round of the loop of count_words(): a dot is not a space.
CountWord ==
  /\ pc = "c" /\ k < user_str_len
  /\ count' = IF mem[k] # Space /\ ~flag THEN count + 1 ELSE count
  /\ flag' = (mem[k] # Space)
  /\ k' = k + 1
  /\ UNCHANGED <<input, pc, mem, src, length, end, start, printed>>

\* The word from start to the character before n.
Word(n) == [j \in 1 .. n - start |-> mem[start + j - 1]]

\* One round of the loop of word_print().
PrintWord ==
  /\ pc = "w" /\ k < user_str_len
  /\ IF mem[k] \notin {Space, Dot}
       THEN start' = (IF start = -1 THEN k ELSE start) /\ UNCHANGED printed
       ELSE /\ start' = -1
            /\ printed' = IF start = -1 THEN printed ELSE Append(printed, Word(k))
  /\ k' = k + 1
  /\ UNCHANGED <<input, pc, mem, src, length, flag, end, count>>

\* Mutant of PrintLast: a word at the very end is forgotten.
PrintLastNot ==
  /\ pc = "w" /\ k = user_str_len
  /\ pc' = "done"
  /\ UNCHANGED <<input, mem, src, length, flag, k, end, start, count, printed>>

\* A word that goes to the end is printed after the loop.
PrintLast ==
  /\ pc = "w" /\ k = user_str_len
  /\ pc' = "done"
  /\ printed' = IF start = -1 THEN printed ELSE Append(printed, Word(k))
  /\ UNCHANGED <<input, mem, src, length, flag, k, end, start, count>>

CountDone ==
  /\ pc = "c" /\ k = user_str_len
  /\ pc' = "done"
  /\ UNCHANGED <<input, mem, src, length, flag, k, end, start, count, printed>>

-----------------------------------------------------------------------------
(***************************************************************************)
(* reverse_string().                                                       *)
(***************************************************************************)

\* The first loop: end leaves out the dots at the end.
SkipDot ==
  /\ pc = "r"
  /\ IF end >= 0 /\ mem[end] = Dot
       THEN end' = end - 1 /\ UNCHANGED pc
       ELSE pc' = "swap" /\ UNCHANGED end
  /\ UNCHANGED <<input, mem, src, length, flag, k, start, count, printed>>

\* Mutant of Swap: the pointers stop one pair too early.
SwapFewer ==
  /\ pc = "swap"
  /\ IF k + 1 < end
       THEN /\ mem' = [mem EXCEPT ![k] = mem[end], ![end] = mem[k]]
            /\ k' = k + 1 /\ end' = end - 1 /\ UNCHANGED pc
       ELSE pc' = "done" /\ UNCHANGED <<mem, k, end>>
  /\ UNCHANGED <<input, src, length, flag, start, count, printed>>

\* The second loop.
Swap ==
  /\ pc = "swap"
  /\ IF k < end
       THEN /\ mem' = [mem EXCEPT ![k] = mem[end], ![end] = mem[k]]
            /\ k' = k + 1 /\ end' = end - 1 /\ UNCHANGED pc
       ELSE pc' = "done" /\ UNCHANGED <<mem, k, end>>
  /\ UNCHANGED <<input, src, length, flag, start, count, printed>>

-----------------------------------------------------------------------------
(***************************************************************************)
(* replace_string().                                                       *)
(***************************************************************************)
target  == rewrite[1]
replace == rewrite[2]

\* target is in memory at n.
At(n) == n + Len(target) <= Top + 1 /\ \A j \in 1 .. Len(target) : mem[n + j - 1] = target[j]

\* pre_target_len: where strstr() finds target first.
Found(n) == At(n) /\ \A m \in 0 .. n - 1 : ~At(m)

\* The length that is compared with that of the buffer: where the target is
\* cancels out, so the comparison does not depend on whether it is found.
NewLen == user_str_len - Len(target) + Len(replace)

\* The characters n .. n + len - 1 of memory.
Copy(n, len) == [j \in 1 .. len |-> mem[n + j - 1]]

\* "Buffer overflow": nothing is replaced.
ReplaceTooLong ==
  /\ pc = "x" /\ NewLen > Size
  /\ pc' = "overflow"
  /\ UNCHANGED <<input, mem, src, length, flag, k, end, start, count, printed>>

\* strstr() returns NULL or goes beyond the buffer; or strncat() takes a
\* negative length for a large one; or the zero byte of the copy is one too many
\* for temp: what comes then is left open.
ReplaceBadly ==
  /\ pc = "x" /\ NewLen <= Size
  /\ NewLen < Size => \A n \in 0 .. Size - Len(target) : Found(n) => user_str_len < n + Len(target)
  /\ pc' = "undefined"
  /\ UNCHANGED <<input, mem, src, length, flag, k, end, start, count, printed>>

\* Mutant of Replace: the characters behind the target are taken from its start.
ReplaceKeeps ==
  /\ pc = "x" /\ NewLen <= Size
  /\ \E n \in 0 .. Size - Len(target) :
       /\ Found(n) /\ user_str_len >= n + Len(target)
       /\ LET temp == Copy(0, n) \o replace \o Copy(n, user_str_len - (n + Len(target))) IN
            mem' = [c \in Cells |->
                      IF c >= Size THEN mem[c]
                      ELSE IF c < Len(temp) /\ c < Size - 1 THEN temp[c + 1] ELSE Nul]
  /\ pc' = "done"
  /\ UNCHANGED <<input, src, length, flag, k, end, start, count, printed>>

\* The first target in the buffer is replaced.  strncpy() and the assignment
\* after it put zero bytes behind the text, at least in the last cell.
Replace ==
  /\ pc = "x" /\ NewLen <= Size
  /\ \E n \in 0 .. Size - Len(target) :
       /\ Found(n) /\ user_str_len >= n + Len(target)
       /\ LET temp == Copy(0, n) \o replace
                        \o Copy(n + Len(target), user_str_len - (n + Len(target))) IN
            mem' = [c \in Cells |->
                      IF c >= Size THEN mem[c]
                      ELSE IF c < Len(temp) /\ c < Size - 1 THEN temp[c + 1] ELSE Nul]
  /\ pc' = "done"
  /\ UNCHANGED <<input, src, length, flag, k, end, start, count, printed>>

Next ==
  \/ CopyBlank \/ CopyChar \/ Rejected \/ PadDot \/ Dispatch
  \/ CountWord \/ CountDone \/ PrintWord \/ PrintLast
  \/ SkipDot \/ Swap
  \/ ReplaceBadly \/ ReplaceTooLong \/ Replace

Spec == Init /\ [][Next]_vars
-----------------------------------------------------------------------------
\* s with one space for every run of blanks, also at its ends.
Squeezed(s) ==
  LET kept == Ordered({n \in DOMAIN s : s[n] \notin Blank \/ n = 1 \/ s[n - 1] \notin Blank})
  IN  [j \in DOMAIN kept |-> IF s[kept[j]] \in Blank THEN Space ELSE s[kept[j]]]

Text == Squeezed(str)

\* The words of the text, with the characters of seps between them.
Words(seps) == Cut(Text, {n \in DOMAIN Text : Text[n] \in seps})

\* The text without the dots at its end.
Solid == LET other == {n \in DOMAIN Text : Text[n] # Dot}
         IN  SubSeq(Text, 1, IF other = {} THEN 0 ELSE Max(other))

\* The buffer holds s, and fill behind it.
Holds(s, fill) == \A c \in 0 .. Size - 1 : mem[c] = IF c < Len(s) THEN s[c + 1] ELSE fill

\* No blank at either end of the string.
Tight == \A n \in DOMAIN str \cap {1, Len(str)} : str[n] \notin Blank

\* The buffer has the squeezed text with dots behind it, and a string is
\* rejected only if its text does not fit.  Strings with a blank at an end are
\* left out: test.sh:28-33 wants that blank removed, the code keeps one, and
\* rejects some such strings whose text would fit (stringfun.c:28-53).
SetupIsRight ==
  Tight => /\ pc \in {"c", "r", "w", "x"} => Len(Text) <= Size /\ Holds(Text, Dot)
           /\ pc = "rejected" => Len(Text) > Size

\* The words are counted right if nothing was squeezed, or if the length that
\* count_words() gets ends in dots that stick to the last word.  Otherwise the
\* dots are one word more (stringfun.c:75-90).
CountIsRight ==
  pc = "done" /\ opt = "c" /\ \/ Len(Text) = Len(str)
                              \/ Len(str) <= Size /\ Last(Text) # Space
    => count = Len(Words({Space}))

\* The words printed are those of the text, dots being no part of them, unless
\* the string is longer than the buffer (stringfun.c:148-164).
PrintIsRight ==
  pc = "done" /\ opt = "w" /\ Len(str) <= Size => printed = Words({Space, Dot})

\* The text without its last dots is reversed, unless the string is longer than
\* the buffer (stringfun.c:95-109).
ReverseIsRight ==
  pc = "done" /\ opt = "r" /\ Len(str) <= Size => Holds(Reverse(Solid), Dot)

\* The first occurrence of the target in the text, or in the dots that fill it
\* up to the length of the string, is replaced; at most one character is lost at
\* the end of the buffer, and nothing of the old text is left behind the new one.
\* What fills the buffer there is left open: dots in test.sh:72-76 and 96-100,
\* zero bytes in the code (stringfun.c:116-134).
ReplaceIsRight ==
  pc = "done" /\ opt = "x" /\ Len(str) <= Size =>
    LET filled == [n \in 1 .. Len(str) |-> IF n <= Len(Text) THEN Text[n] ELSE Dot]
        new    == ReplaceFirstSubSeq(replace, target, filled)
    IN  \A c \in 0 .. Size - 1 :
          IF c < Len(new) /\ c < Size - 1 THEN mem[c] = new[c + 1] ELSE mem[c] \in {Nul, Dot}

\* A string that is not longer than the buffer never makes an operation write
\* behind it (stringfun.c:21-138).
StaysInBuffer ==
  [][Len(str) <= Size => \A c \in Size .. Top : mem'[c] = mem[c]]_vars
=============================================================================
