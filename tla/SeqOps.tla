------------------------------- MODULE SeqOps -------------------------------
(***************************************************************************)
(* The operations on std::vector and std::list that the modelled code      *)
(* performs on a sequence: erasing an element and folding an operation     *)
(* over the elements in order.  They are kept apart from SequencesExt,     *)
(* which also loads Bags and TLC, so that proofs about the modules that    *)
(* use them have only these definitions in scope.                          *)
(***************************************************************************)
EXTENDS Integers, Sequences, FiniteSetsExt, Folds, Functions

\* s without its k-th element: s.erase(s.begin() + k - 1).
Erase(s, k) == [j \in 1 .. Len(s) - 1 |-> IF j < k THEN s[j] ELSE s[j + 1]]

\* s without its first e: s.erase(find(s.begin(), s.end(), e)), and s itself
\* when find comes back with s.end() and nothing is erased.
EraseFirst(s, e) ==
  LET found == {k \in DOMAIN s : s[k] = e}
  IN IF found = {} THEN s ELSE Erase(s, Min(found))

\* back() and pop_back().
Last(s) == s[Len(s)]
Front(s) == SubSeq(s, 1, Len(s) - 1)

\* What the loop "for each e of s, m = op(m, e)" makes of m.
Fold(op(_, _), m, s) ==
  MapThenFoldSet(LAMBDA e, n : op(n, e), m, LAMBDA k : s[k], Max, DOMAIN s)

\* The numbers of s added up.
Plus(m, n) == m + n
Total(s) == Fold(Plus, 0, s)
=============================================================================
