------------------------------- MODULE Pieces -------------------------------
(***************************************************************************)
(* Sequences cut into pieces, for saying what a loop over characters finds. *)
(***************************************************************************)
EXTENDS Integers, Sequences, SequencesExt

\* The numbers of a finite set S, in their order.
Ordered(S) ==
  [k \in 1 .. Cardinality(S) |-> CHOOSE n \in S : Cardinality({m \in S : m <= n}) = k]

\* The longest pieces of s that have no position in seps, in their order.
Cut(s, seps) ==
  LET in    == DOMAIN s \ seps
      first == Ordered({n \in in : n - 1 \notin in})
      last  == Ordered({n \in in : n + 1 \notin in})
  IN  [k \in DOMAIN first |-> SubSeq(s, first[k], last[k])]
=============================================================================
