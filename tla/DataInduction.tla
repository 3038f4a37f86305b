----------------------------- MODULE DataInduction ------------------------------
(***************************************************************************)
(* Induction over data, in a form that first-order provers can use: a set  *)
(* of numbers that holds 0 and is closed under successor holds them all.   *)
(* From it, what a loop over a sequence (Fold of SeqOps) computes: the     *)
(* values g[0], g[1], ... its variable has before the first, after the     *)
(* first, ... element.  And what the operations on sequences return.       *)
(***************************************************************************)
EXTENDS SeqOps, FiniteSets, FiniteSetTheorems, WellFoundedInduction, TLAPS

\* A set that holds 0 and, with every number, its successor holds every
\* number.
THEOREM NatSetInduction ==
  ASSUME NEW S, 0 \in S, \A n \in Nat : n \in S => n + 1 \in S
  PROVE  Nat \subseteq S
<1> DEFINE T == Nat \ S
           R == OpToRel(<, Nat)
<1> SUFFICES ASSUME T # {} PROVE FALSE
  OBVIOUS
<1>1. IsWellFoundedOn(R, Nat)
  BY NatLessThanWellFounded, Zenon
<1>2. PICK x \in T : \A y \in T : ~(<<y, x>> \in R)
  <2> HIDE DEF R
  <2> QED BY <1>1, WFMin, Zenon
<1>3. x \in Nat /\ x # 0
  OBVIOUS
<1>4. x - 1 \in Nat /\ x - 1 \in S
  <2>1. x - 1 \in Nat
    BY <1>3
  <2>2. <<x - 1, x>> \in R
    BY <1>3, <2>1 DEF OpToRel
  <2> QED BY <2>1, <2>2, <1>2, Zenon
<1>5. x \in S
  <2>1. (x - 1) + 1 = x
    BY <1>3
  <2> QED BY <1>4, <2>1
<1> QED
  BY <1>5

\* The same up to a bound: the form every loop over a sequence needs.
LEMMA UpToInduction ==
  ASSUME NEW n \in Nat, NEW S, 0 \in S,
         \A k \in 0 .. (n - 1) : k \in S => k + 1 \in S
  PROVE  0 .. n \subseteq S
<1> DEFINE T == {k \in Nat : k <= n => k \in S}
<1>1. 0 \in T
  OBVIOUS
<1>2. ASSUME NEW k \in Nat, k \in T PROVE k + 1 \in T
  <2> SUFFICES ASSUME k + 1 <= n PROVE k + 1 \in S
    OBVIOUS
  <2>1. k \in 0 .. (n - 1) /\ k <= n
    OBVIOUS
  <2> QED BY <2>1, <1>2
<1>3. Nat \subseteq T
  <2> HIDE DEF T
  <2> QED BY <1>1, <1>2, NatSetInduction
<1> QED
  BY <1>3

\* p picks an element of every nonempty subset of S.
Picks(p, S) == \A t \in SUBSET S : t # {} => p[t] \in t

\* f is the recursive function on subsets of S that a fold unfolds to: a for
\* the empty set, and otherwise h of the element picked and of the value for
\* the rest.
IsFold(f, S, X, a, p, h) ==
  /\ f \in [SUBSET S -> X]
  /\ \A t \in SUBSET S : f[t] = IF t = {} THEN a ELSE h[<<p[t], f[t \ {p[t]}]>>]

\* That function exists for every finite set and every way of picking, so that
\* the CHOOSE inside MapThenFoldSet chooses it.
LEMMA SetRecursion ==
  ASSUME NEW S, IsFiniteSet(S), NEW X, NEW a \in X, NEW p, Picks(p, S),
         NEW h \in [S \X X -> X]
  PROVE  \E f : IsFold(f, S, X, a, p, h)
<1> USE DEF Picks
<1> DEFINE Good(f, t) == f[t] = IF t = {} THEN a ELSE h[<<p[t], f[t \ {p[t]}]>>]
           N == {n \in Nat : \E f \in [SUBSET S -> X] :
                               \A t \in SUBSET S : Cardinality(t) <= n => Good(f, t)}
<1>c. \A t \in SUBSET S : IsFiniteSet(t) /\ Cardinality(t) \in Nat /\ Cardinality(t) <= Cardinality(S)
  BY FS_Subset, FS_CardinalityType
<1>r. \A t \in SUBSET S : t # {} =>
         /\ t \ {p[t]} \in SUBSET S
         /\ Cardinality(t \ {p[t]}) = Cardinality(t) - 1
  BY <1>c, FS_RemoveElement
<1>1. 0 \in N
  <2>1. [t \in SUBSET S |-> a] \in [SUBSET S -> X]
    OBVIOUS
  <2>2. \A t \in SUBSET S : Cardinality(t) <= 0 => t = {}
    BY <1>c, FS_EmptySet
  <2>3. \A t \in SUBSET S : Cardinality(t) <= 0 => Good([u \in SUBSET S |-> a], t)
    BY <2>2
  <2> HIDE DEF Good
  <2> QED BY <2>1, <2>3
<1>2. ASSUME NEW n \in Nat, n \in N PROVE n + 1 \in N
  <2>1. PICK f \in [SUBSET S -> X] : \A t \in SUBSET S : Cardinality(t) <= n => Good(f, t)
    BY <1>2
  <2> DEFINE g == [t \in SUBSET S |-> IF t = {} THEN a ELSE h[<<p[t], f[t \ {p[t]}]>>]]
  <2>2. g \in [SUBSET S -> X]
    BY <1>r
  <2>3. \A t \in SUBSET S : Cardinality(t) <= n => g[t] = f[t]
    BY <2>1
  <2>4. ASSUME NEW t \in SUBSET S, Cardinality(t) <= n + 1 PROVE Good(g, t)
    <3>1. CASE t = {}
      BY <3>1
    <3>2. CASE t # {}
      <4>1. t \ {p[t]} \in SUBSET S /\ Cardinality(t \ {p[t]}) <= n
        BY <1>r, <1>c, <2>4, <3>2
      <4>2. g[t \ {p[t]}] = f[t \ {p[t]}]
        BY <2>3, <4>1
      <4>3. g[t] = h[<<p[t], f[t \ {p[t]}]>>]
        BY <3>2
      <4> QED BY <4>2, <4>3, <3>2
    <3> QED BY <3>1, <3>2
  <2> HIDE DEF g, Good
  <2> QED BY <2>2, <2>4
<1>3. Cardinality(S) \in N
  <2> HIDE DEF N
  <2> QED BY <1>1, <1>2, NatSetInduction, <1>c
<1> QED
  BY <1>3, <1>c DEF IsFold

\* A nonempty set of numbers up to n has a greatest element, and Max is it.
LEMMA MaxOf ==
  ASSUME NEW n \in Nat, NEW t \in SUBSET (1 .. n), t # {}
  PROVE  Max(t) \in t /\ \A y \in t : Max(t) >= y
<1> DEFINE U == {k \in Nat : \A s \in SUBSET (1 .. k) : s # {} => \E x \in s : \A y \in s : x >= y}
<1>1. 0 \in U
  <2>1. \A s \in SUBSET (1 .. 0) : s = {}
    OBVIOUS
  <2> QED BY <2>1
<1>2. ASSUME NEW k \in Nat, k \in U PROVE k + 1 \in U
  <2> SUFFICES ASSUME NEW s \in SUBSET (1 .. (k + 1)), s # {}
               PROVE  \E x \in s : \A y \in s : x >= y
    OBVIOUS
  <2>1. CASE k + 1 \in s
    BY <2>1
  <2>2. CASE k + 1 \notin s
    <3>1. s \in SUBSET (1 .. k)
      BY <2>2
    <3> QED BY <3>1, <1>2
  <2> QED BY <2>1, <2>2
<1>3. n \in U
  <2> HIDE DEF U
  <2> QED BY <1>1, <1>2, NatSetInduction
<1>4. \E x \in t : \A y \in t : x >= y
  BY <1>3
<1> QED
  BY <1>4 DEF Max

\* A nonempty set of numbers up to n has a least element, and Min is it.
LEMMA MinOf ==
  ASSUME NEW n \in Nat, NEW t \in SUBSET (1 .. n), t # {}
  PROVE  Min(t) \in t /\ \A y \in t : Min(t) <= y
<1> DEFINE U == {k \in Nat : \A s \in SUBSET (1 .. k) : s # {} => \E x \in s : \A y \in s : x <= y}
<1>1. 0 \in U
  <2>1. \A s \in SUBSET (1 .. 0) : s = {}
    OBVIOUS
  <2> QED BY <2>1
<1>2. ASSUME NEW k \in Nat, k \in U PROVE k + 1 \in U
  <2> SUFFICES ASSUME NEW s \in SUBSET (1 .. (k + 1)), s # {}
               PROVE  \E x \in s : \A y \in s : x <= y
    OBVIOUS
  <2>1. CASE s = {k + 1}
    BY <2>1
  <2>2. CASE s # {k + 1}
    <3> DEFINE r == s \ {k + 1}
    <3>1. r \in SUBSET (1 .. k) /\ r # {}
      BY <2>2
    <3>2. PICK x \in r : \A y \in r : x <= y
      BY <3>1, <1>2
    <3> QED BY <3>1, <3>2
  <2> QED BY <2>1, <2>2
<1>3. n \in U
  <2> HIDE DEF U
  <2> QED BY <1>1, <1>2, NatSetInduction
<1>4. \E x \in t : \A y \in t : x <= y
  BY <1>3
<1> QED
  BY <1>4 DEF Min

\* The greatest index of a prefix, and the prefix without it.
LEMMA MaxUpTo ==
  ASSUME NEW n \in Nat, NEW k \in 1 .. n
  PROVE  Max(1 .. k) = k /\ (1 .. k) \ {k} = 1 .. (k - 1)
<1>1. 1 .. k \in SUBSET (1 .. n) /\ 1 .. k # {} /\ k \in 1 .. k
  OBVIOUS
<1>2. Max(1 .. k) \in 1 .. k /\ Max(1 .. k) >= k
  BY <1>1, MaxOf
<1> QED
  BY <1>2

\* IsFold for the indices of a sequence, taken from the last one down.
FoldsUp(f, n, X, a, h) ==
  /\ f \in [SUBSET (1 .. n) -> X]
  /\ \A t \in SUBSET (1 .. n) : f[t] = IF t = {} THEN a ELSE h[<<Max(t), f[t \ {Max(t)}]>>]

\* The function a fold over a sequence of length n unfolds to exists.
LEMMA FoldExists ==
  ASSUME NEW n \in Nat, NEW X, NEW a \in X, NEW h \in [(1 .. n) \X X -> X]
  PROVE  \E f : FoldsUp(f, n, X, a, h)
<1> DEFINE S == 1 .. n
           p == [t \in SUBSET S |-> Max(t)]
<1>1. IsFiniteSet(S)
  BY FS_Interval
<1>2. Picks(p, S)
  BY MaxOf DEF Picks
<1>3. PICK f : IsFold(f, S, X, a, p, h)
  BY <1>1, <1>2, SetRecursion
<1>4. \A t \in SUBSET S : p[t] = Max(t)
  OBVIOUS
<1> HIDE DEF p
<1> QED
  BY <1>3, <1>4 DEF IsFold, FoldsUp

\* What is known of the function that Fold chooses: only how one value follows
\* from another of the right type.
Stepwise(f, n, X, a, h) ==
  /\ f[{}] = a
  /\ \A t \in SUBSET (1 .. n) :
       t # {} /\ f[t \ {Max(t)}] \in X => f[t] = h[<<Max(t), f[t \ {Max(t)}]>>]

\* g lists the values of the variable of a loop over 1 .. n whose body is h:
\* g[k] is its value after k elements, and g[n] is the result f[1 .. n].
Unrolls(g, f, n, X, a, h) ==
  /\ g \in [0 .. n -> X]
  /\ g[0] = a
  /\ \A k \in 1 .. n : g[k] = h[<<k, g[k - 1]>>]
  /\ g[n] = f[1 .. n]

\* A fold is a loop: the values of its variable can be listed from the first
\* to the last.
LEMMA FoldUnrolls ==
  ASSUME NEW n \in Nat, NEW X, NEW a \in X, NEW h \in [(1 .. n) \X X -> X], NEW f,
         Stepwise(f, n, X, a, h)
  PROVE  \E g : Unrolls(g, f, n, X, a, h)
<1> USE DEF Stepwise
<1> DEFINE S == {k \in 0 .. n : f[1 .. k] \in X}
<1>1. 0 \in S
  <2>1. 1 .. 0 = {}
    OBVIOUS
  <2> QED BY <2>1
<1>2. ASSUME NEW k \in 1 .. n
      PROVE  /\ 1 .. k \in SUBSET (1 .. n) /\ 1 .. k # {}
             /\ Max(1 .. k) = k
             /\ (1 .. k) \ {Max(1 .. k)} = 1 .. (k - 1)
  BY MaxUpTo
<1>3. ASSUME NEW k \in 1 .. n, f[1 .. (k - 1)] \in X
      PROVE  f[1 .. k] = h[<<k, f[1 .. (k - 1)]>>] /\ f[1 .. k] \in X
  <2>1. f[1 .. k] = h[<<k, f[1 .. (k - 1)]>>]
    BY <1>2, <1>3
  <2> QED BY <2>1, <1>3
<1>4. ASSUME NEW k \in 0 .. (n - 1), k \in S PROVE k + 1 \in S
  <2>1. k + 1 \in 1 .. n /\ (k + 1) - 1 = k
    OBVIOUS
  <2>2. f[1 .. k] \in X
    BY <1>4
  <2>3. f[1 .. (k + 1)] \in X
    BY <2>1, <2>2, <1>3
  <2> QED BY <2>1, <2>3
<1>5. 0 .. n \subseteq S
  <2> HIDE DEF S
  <2> QED BY <1>1, <1>4, UpToInduction
<1> DEFINE g == [k \in 0 .. n |-> f[1 .. k]]
<1>6. g \in [0 .. n -> X]
  BY <1>5
<1>7. g[0] = a /\ g[n] = f[1 .. n]
  <2>1. 1 .. 0 = {}
    OBVIOUS
  <2> QED BY <2>1
<1>8. ASSUME NEW k \in 1 .. n PROVE g[k] = h[<<k, g[k - 1]>>]
  <2>1. k - 1 \in 0 .. n /\ k \in 0 .. n
    OBVIOUS
  <2>2. f[1 .. (k - 1)] \in X
    BY <2>1, <1>5
  <2> QED BY <2>1, <2>2, <1>3
<1> HIDE DEF g
<1> QED
  BY <1>6, <1>7, <1>8 DEF Unrolls

\* Erasing element k leaves the elements before it where they are and moves
\* the ones after it down by one.
LEMMA EraseFacts ==
  ASSUME NEW M, NEW s \in Seq(M), NEW k \in 1 .. Len(s)
  PROVE  /\ Erase(s, k) \in Seq(M)
         /\ Len(Erase(s, k)) = Len(s) - 1
         /\ \A j \in 1 .. (Len(s) - 1) : Erase(s, k)[j] = IF j < k THEN s[j] ELSE s[j + 1]
<1> DEFINE r == [j \in 1 .. (Len(s) - 1) |-> IF j < k THEN s[j] ELSE s[j + 1]]
<1>1. Len(s) \in Nat /\ Len(s) - 1 \in Nat
  OBVIOUS
<1>2. r \in [1 .. (Len(s) - 1) -> M]
  BY <1>1
<1>3. r \in Seq(M) /\ Len(r) = Len(s) - 1
  BY <1>1, <1>2
<1>4. Erase(s, k) = r
  BY DEF Erase
<1> QED
  BY <1>2, <1>3, <1>4

\* No two positions of s hold the same element.
Injective(s) == \A j, k \in DOMAIN s : s[j] = s[k] => j = k

\* When no element occurs twice, erasing the first occurrence of the k-th
\* element erases the k-th.
LEMMA EraseFirstFacts ==
  ASSUME NEW M, NEW s \in Seq(M), Injective(s), NEW k \in 1 .. Len(s)
  PROVE  EraseFirst(s, s[k]) = Erase(s, k)
<1>1. DOMAIN s = 1 .. Len(s)
  OBVIOUS
<1>2. {j \in DOMAIN s : s[j] = s[k]} = {k}
  BY <1>1 DEF Injective
<1>3. Min({k}) = k
  BY DEF Min
<1> QED
  BY <1>2, <1>3 DEF EraseFirst

\* Erasing yields a sequence over the same set.
LEMMA EraseFirstType ==
  ASSUME NEW M, NEW s \in Seq(M), NEW e
  PROVE  EraseFirst(s, e) \in Seq(M)
<1> DEFINE I == {j \in DOMAIN s : s[j] = e}
<1>1. CASE I = {}
  BY <1>1 DEF EraseFirst
<1>2. CASE I # {}
  <2>1. Len(s) \in Nat /\ I \in SUBSET (1 .. Len(s))
    OBVIOUS
  <2>2. EraseFirst(s, e) = Erase(s, Min(I))
    BY <1>2, Zenon DEF EraseFirst
  <2> HIDE DEF I
  <2>3. Min(I) \in 1 .. Len(s)
    BY <1>2, <2>1, MinOf
  <2> QED BY <2>2, <2>3, EraseFacts
<1> QED
  BY <1>1, <1>2

\* After an erase exactly the other elements are left, in the order they had.
LEMMA Removal ==
  ASSUME NEW M, NEW s \in Seq(M), NEW k \in 1 .. Len(s), NEW r, r = Erase(s, k)
  PROVE  /\ r \in Seq(M) /\ Len(r) = Len(s) - 1 /\ DOMAIN r = 1 .. (Len(s) - 1)
         /\ \A j \in DOMAIN r : \E p \in DOMAIN s : p # k /\ r[j] = s[p]
         /\ \A p \in DOMAIN s : p # k => \E j \in DOMAIN r : r[j] = s[p]
         /\ \A j, l \in DOMAIN r : j < l =>
              \E p, q \in DOMAIN s : p # k /\ q # k /\ p < q /\ r[j] = s[p] /\ r[l] = s[q]
<1>1. /\ r \in Seq(M) /\ Len(r) = Len(s) - 1
      /\ \A j \in 1 .. (Len(s) - 1) : r[j] = IF j < k THEN s[j] ELSE s[j + 1]
  BY EraseFacts
<1>2. Len(s) \in Nat /\ DOMAIN s = 1 .. Len(s)
  OBVIOUS
<1>3. DOMAIN r = 1 .. (Len(s) - 1)
  BY <1>1
<1> DEFINE up(j) == IF j < k THEN j ELSE j + 1
<1>4. \A j \in DOMAIN r : up(j) \in DOMAIN s /\ up(j) # k /\ r[j] = s[up(j)]
  BY <1>1, <1>2, <1>3
<1>5. \A j, l \in DOMAIN r : j < l => up(j) < up(l)
  BY <1>2, <1>3
<1>6. ASSUME NEW p \in DOMAIN s, p # k PROVE \E j \in DOMAIN r : up(j) = p
  <2>1. CASE p < k
    <3>1. p \in DOMAIN r /\ up(p) = p
      BY <1>2, <1>3, <2>1
    <3> QED BY <3>1
  <2>2. CASE ~(p < k)
    <3>1. p - 1 \in DOMAIN r /\ up(p - 1) = p
      BY <1>2, <1>3, <1>6, <2>2
    <3> QED BY <3>1
  <2> QED BY <2>1, <2>2
<1> HIDE DEF up
<1>7. \A j \in DOMAIN r : \E p \in DOMAIN s : p # k /\ r[j] = s[p]
  BY <1>4
<1>8. \A p \in DOMAIN s : p # k => \E j \in DOMAIN r : r[j] = s[p]
  BY <1>4, <1>6
<1>9. \A j, l \in DOMAIN r : j < l =>
        \E p, q \in DOMAIN s : p # k /\ q # k /\ p < q /\ r[j] = s[p] /\ r[l] = s[q]
  BY <1>4, <1>5
<1> QED
  BY <1>1, <1>3, <1>7, <1>8, <1>9

\* Two sequences are equal when they have the same length and elements.
LEMMA SameSeq ==
  ASSUME NEW M, NEW s \in Seq(M), NEW t \in Seq(M), Len(s) = Len(t),
         \A j \in 1 .. Len(s) : s[j] = t[j]
  PROVE  s = t
OBVIOUS

\* The prefixes of a sequence: how the part a loop has seen grows by one.
LEMMA Prefix ==
  ASSUME NEW M, NEW s \in Seq(M)
  PROVE  /\ SubSeq(s, 1, 0) = << >>
         /\ SubSeq(s, 1, Len(s)) = s
         /\ \A k \in 0 .. Len(s) :
              /\ SubSeq(s, 1, k) \in Seq(M)
              /\ Len(SubSeq(s, 1, k)) = k
              /\ \A j \in 1 .. k : SubSeq(s, 1, k)[j] = s[j]
         /\ \A k \in 0 .. (Len(s) - 1) : Append(SubSeq(s, 1, k), s[k + 1]) = SubSeq(s, 1, k + 1)
<1>1. \A k \in 0 .. Len(s) : /\ SubSeq(s, 1, k) \in Seq(M)
                             /\ Len(SubSeq(s, 1, k)) = k
                             /\ \A j \in 1 .. k : SubSeq(s, 1, k)[j] = s[j]
  OBVIOUS
<1>2. SubSeq(s, 1, 0) = << >>
  OBVIOUS
<1>3. SubSeq(s, 1, Len(s)) = s
  OBVIOUS
<1>4. ASSUME NEW k \in 0 .. (Len(s) - 1)
      PROVE  Append(SubSeq(s, 1, k), s[k + 1]) = SubSeq(s, 1, k + 1)
  <2> DEFINE p == SubSeq(s, 1, k)
             q == SubSeq(s, 1, k + 1)
  <2>1. k \in 0 .. Len(s) /\ k + 1 \in 0 .. Len(s) /\ k + 1 \in 1 .. Len(s) /\ k \in Nat
    OBVIOUS
  <2>2. p \in Seq(M) /\ Len(p) = k /\ \A j \in 1 .. k : p[j] = s[j]
    BY <1>1, <2>1
  <2>3. q \in Seq(M) /\ Len(q) = k + 1 /\ \A j \in 1 .. (k + 1) : q[j] = s[j]
    BY <1>1, <2>1
  <2>4. s[k + 1] \in M
    BY <2>1
  <2> HIDE DEF p, q
  <2>5. Append(p, s[k + 1]) \in Seq(M) /\ Len(Append(p, s[k + 1])) = k + 1
    BY <2>1, <2>2, <2>4
  <2>6. \A j \in 1 .. (k + 1) : Append(p, s[k + 1])[j] = q[j]
    BY <2>1, <2>2, <2>3, <2>4
  <2>7. Append(p, s[k + 1]) = q
    BY <2>1, <2>3, <2>5, <2>6, SameSeq
  <2> QED BY <2>7 DEF p, q
<1> QED
  BY <1>1, <1>2, <1>3, <1>4

\* The suffixes of a sequence: how the part a loop has still to see shrinks by
\* one.
LEMMA Suffix ==
  ASSUME NEW M, NEW s \in Seq(M)
  PROVE  /\ SubSeq(s, Len(s) + 1, Len(s)) = << >>
         /\ SubSeq(s, 1, Len(s)) = s
         /\ \A k \in 0 .. Len(s) :
              /\ SubSeq(s, k + 1, Len(s)) \in Seq(M)
              /\ Len(SubSeq(s, k + 1, Len(s))) = Len(s) - k
              /\ \A j \in 1 .. (Len(s) - k) : SubSeq(s, k + 1, Len(s))[j] = s[k + j]
         /\ \A k \in 0 .. (Len(s) - 1) :
              Erase(SubSeq(s, k + 1, Len(s)), 1) = SubSeq(s, (k + 1) + 1, Len(s))
<1>1. \A k \in 0 .. Len(s) :
              /\ SubSeq(s, k + 1, Len(s)) \in Seq(M)
              /\ Len(SubSeq(s, k + 1, Len(s))) = Len(s) - k
              /\ \A j \in 1 .. (Len(s) - k) : SubSeq(s, k + 1, Len(s))[j] = s[k + j]
  OBVIOUS
<1>2. SubSeq(s, Len(s) + 1, Len(s)) = << >>
  OBVIOUS
<1>3. SubSeq(s, 1, Len(s)) = s
  OBVIOUS
<1>4. ASSUME NEW k \in 0 .. (Len(s) - 1)
      PROVE  Erase(SubSeq(s, k + 1, Len(s)), 1) = SubSeq(s, (k + 1) + 1, Len(s))
  <2> DEFINE p == SubSeq(s, k + 1, Len(s))
             q == SubSeq(s, (k + 1) + 1, Len(s))
             r == Erase(p, 1)
  <2>1. Len(s) \in Nat /\ k \in 0 .. Len(s) /\ k + 1 \in 0 .. Len(s) /\ k \in Nat
    OBVIOUS
  <2>2. p \in Seq(M) /\ Len(p) = Len(s) - k /\ \A j \in 1 .. (Len(s) - k) : p[j] = s[k + j]
    BY <1>1, <2>1
  <2>3. /\ q \in Seq(M) /\ Len(q) = Len(s) - (k + 1)
        /\ \A j \in 1 .. (Len(s) - (k + 1)) : q[j] = s[(k + 1) + j]
    BY <1>1, <2>1
  <2> HIDE DEF p, q
  <2>4. 1 \in 1 .. Len(p)
    BY <2>1, <2>2
  <2>5. /\ r \in Seq(M) /\ Len(r) = Len(p) - 1
        /\ \A j \in 1 .. (Len(p) - 1) : r[j] = IF j < 1 THEN p[j] ELSE p[j + 1]
    BY <2>2, <2>4, EraseFacts
  <2> HIDE DEF r
  <2>6. ASSUME NEW j \in 1 .. Len(r) PROVE r[j] = q[j]
    <3>1. j \in 1 .. (Len(p) - 1) /\ ~(j < 1) /\ j + 1 \in 1 .. (Len(s) - k)
          /\ j \in 1 .. (Len(s) - (k + 1)) /\ k + (j + 1) = (k + 1) + j
      BY <2>1, <2>2, <2>5
    <3>2. r[j] = p[j + 1]
      BY <3>1, <2>5
    <3>3. p[j + 1] = s[(k + 1) + j]
      BY <3>1, <2>2
    <3> QED BY <3>1, <3>2, <3>3, <2>3
  <2>7. Len(r) = Len(q)
    BY <2>1, <2>2, <2>3, <2>5
  <2>8. r = q
    BY <2>3, <2>5, <2>6, <2>7, SameSeq
  <2> QED BY <2>8 DEF r, p, q
<1> QED
  BY <1>1, <1>2, <1>3, <1>4

\* The elements of a concatenation.
LEMMA ConcatFacts ==
  ASSUME NEW M, NEW s \in Seq(M), NEW t \in Seq(M)
  PROVE  /\ s \o t \in Seq(M)
         /\ Len(s \o t) = Len(s) + Len(t)
         /\ \A j \in 1 .. Len(s) : (s \o t)[j] = s[j]
         /\ \A j \in 1 .. Len(t) : (s \o t)[Len(s) + j] = t[j]
OBVIOUS

\* Appending to a concatenation appends to its second part.
LEMMA ConcatAppend ==
  ASSUME NEW M, NEW s \in Seq(M), NEW t \in Seq(M), NEW e \in M
  PROVE  Append(s \o t, e) = s \o Append(t, e)
OBVIOUS

\* Erasing from the second part of a concatenation.
LEMMA ConcatRemove ==
  ASSUME NEW M, NEW s \in Seq(M), NEW t \in Seq(M), NEW k \in 1 .. Len(t)
  PROVE  Erase(s \o t, Len(s) + k) = s \o Erase(t, k)
<1> DEFINE u == s \o t
           r == Erase(t, k)
           a == Erase(u, Len(s) + k)
           b == s \o r
<1>1. Len(s) \in Nat /\ Len(t) \in Nat /\ Len(s) + k \in 1 .. (Len(s) + Len(t))
  OBVIOUS
<1>2. /\ u \in Seq(M) /\ Len(u) = Len(s) + Len(t)
      /\ \A j \in 1 .. Len(s) : u[j] = s[j]
      /\ \A j \in 1 .. Len(t) : u[Len(s) + j] = t[j]
  BY ConcatFacts
<1>3. /\ r \in Seq(M) /\ Len(r) = Len(t) - 1
      /\ \A j \in 1 .. (Len(t) - 1) : r[j] = IF j < k THEN t[j] ELSE t[j + 1]
  BY EraseFacts
<1> HIDE DEF u, r
<1>4. /\ a \in Seq(M) /\ Len(a) = Len(u) - 1
      /\ \A j \in 1 .. (Len(u) - 1) : a[j] = IF j < Len(s) + k THEN u[j] ELSE u[j + 1]
  <2>1. Len(s) + k \in 1 .. Len(u) /\ u \in Seq(M)
    BY <1>1, <1>2
  <2> QED BY <2>1, EraseFacts
<1>5. /\ b \in Seq(M) /\ Len(b) = Len(s) + Len(r)
      /\ \A j \in 1 .. Len(s) : b[j] = s[j]
      /\ \A j \in 1 .. Len(r) : b[Len(s) + j] = r[j]
  <2>1. r \in Seq(M)
    BY <1>3
  <2> QED BY <2>1, ConcatFacts
<1> HIDE DEF a, b
<1>6. Len(a) = Len(b) /\ Len(a) = Len(s) + Len(t) - 1
  BY <1>1, <1>2, <1>3, <1>4, <1>5
<1>7. ASSUME NEW j \in 1 .. Len(a) PROVE a[j] = b[j]
  <2>1. CASE j <= Len(s)
    <3>1. j \in 1 .. Len(s) /\ j \in 1 .. (Len(u) - 1) /\ j < Len(s) + k
      BY <2>1, <1>1, <1>2, <1>6
    <3> QED BY <3>1, <1>2, <1>4, <1>5
  <2>2. CASE ~(j <= Len(s))
    <3> DEFINE q == j - Len(s)
    <3>1. /\ q \in 1 .. Len(r) /\ q \in 1 .. Len(t) /\ q + 1 \in 1 .. Len(t) /\ j = Len(s) + q
          /\ j \in 1 .. (Len(u) - 1) /\ (j < Len(s) + k <=> q < k) /\ j + 1 = Len(s) + (q + 1)
          /\ q \in 1 .. (Len(t) - 1)
      BY <2>2, <1>1, <1>2, <1>3, <1>6
    <3> HIDE DEF q
    <3>2. b[j] = IF q < k THEN t[q] ELSE t[q + 1]
      BY <3>1, <1>3, <1>5
    <3>3. u[j] = t[q] /\ u[j + 1] = t[q + 1]
      BY <3>1, <1>2
    <3> QED BY <3>1, <3>2, <3>3, <1>4
  <2> QED BY <2>1, <2>2
<1>8. a = b
  BY <1>4, <1>5, <1>6, <1>7, SameSeq
<1> QED
  BY <1>8 DEF a, b, u, r

\* A sequence over a set is one over every larger set.
LEMMA SeqSubset ==
  ASSUME NEW M, NEW N, M \subseteq N, NEW s \in Seq(M)
  PROVE  s \in Seq(N)
<1>1. Len(s) \in Nat /\ s \in [1 .. Len(s) -> M]
  OBVIOUS
<1>2. s \in [1 .. Len(s) -> N]
  BY <1>1
<1> QED
  BY <1>1, <1>2

\* The last element of a sequence, and the rest.
LEMMA FrontLast ==
  ASSUME NEW M, NEW s \in Seq(M), s # << >>
  PROVE  /\ Front(s) \in Seq(M)
         /\ Len(Front(s)) = Len(s) - 1
         /\ DOMAIN Front(s) \subseteq DOMAIN s
         /\ \A j \in DOMAIN Front(s) : Front(s)[j] = s[j]
         /\ Len(s) \in DOMAIN s /\ Last(s) = s[Len(s)] /\ Last(s) \in M
<1>1. Len(s) \in Nat /\ Len(s) >= 1 /\ DOMAIN s = 1 .. Len(s)
  OBVIOUS
<1> DEFINE k == Len(s) - 1
<1>2. k \in 0 .. Len(s)
  BY <1>1
<1>3. Front(s) = SubSeq(s, 1, k)
  BY DEF Front
<1>4. /\ Front(s) \in Seq(M) /\ Len(Front(s)) = k
      /\ \A j \in 1 .. k : Front(s)[j] = s[j]
  <2> HIDE DEF k
  <2>1. /\ SubSeq(s, 1, k) \in Seq(M) /\ Len(SubSeq(s, 1, k)) = k
        /\ \A j \in 1 .. k : SubSeq(s, 1, k)[j] = s[j]
    BY <1>2, Prefix
  <2> QED BY <1>3, <2>1
<1> HIDE DEF k
<1>5. DOMAIN Front(s) = 1 .. k
  BY <1>4
<1>6. 1 .. k \subseteq DOMAIN s /\ Len(s) \in DOMAIN s
  BY <1>1 DEF k
<1>7. Last(s) = s[Len(s)] /\ Last(s) \in M
  BY <1>6 DEF Last
<1> QED
  BY <1>4, <1>5, <1>6, <1>7 DEF k

\* The loop that adds up the numbers of a sequence, unrolled.
LEMMA TotalUnrolls ==
  ASSUME NEW s \in Seq(Nat)
  PROVE  \E g \in [0 .. Len(s) -> Nat] :
           /\ g[0] = 0
           /\ \A k \in 1 .. Len(s) : g[k] = g[k - 1] + s[k]
           /\ g[Len(s)] = Total(s)
<1> DEFINE n == Len(s)
           h == [p \in (1 .. n) \X Nat |-> Plus(p[2], s[p[1]])]
           Step(f) == [t \in SUBSET (1 .. n) |->
                         IF t = {} THEN 0 ELSE Plus(f[t \ {Max(t)}], s[Max(t)])]
           it == CHOOSE f : f = Step(f)
<1>1. n \in Nat /\ DOMAIN s = 1 .. n /\ \A k \in 1 .. n : s[k] \in Nat
  OBVIOUS
<1>2. Total(s) = it[1 .. n]
  <2>1. Total(s) =
          (CHOOSE f : f = [t \in SUBSET DOMAIN s |->
                             IF t = {} THEN 0 ELSE Plus(f[t \ {Max(t)}], s[Max(t)])])[DOMAIN s]
    BY Zenon DEF Total, Fold, MapThenFoldSet
  <2> QED BY <2>1, <1>1
<1>3. h \in [(1 .. n) \X Nat -> Nat]
  BY <1>1 DEF Plus
<1>4. \A k \in 1 .. n, x \in Nat : h[<<k, x>>] = Plus(x, s[k])
  BY <1>1
<1>5. \A t \in SUBSET (1 .. n) : t # {} => Max(t) \in 1 .. n
  BY MaxOf, <1>1, Zenon
<1>6. it = Step(it)
  <2> HIDE DEF h, n
  <2>1. PICK f : FoldsUp(f, n, Nat, 0, h)
    <3>1. 0 \in Nat
      OBVIOUS
    <3> QED BY <1>1, <1>3, <3>1, FoldExists, Zenon
  <2>2. f = Step(f)
    BY <2>1, <1>4, <1>5, Zenon DEF FoldsUp
  <2> HIDE DEF Step
  <2> QED BY <2>2
<1> HIDE DEF it, h, n
<1>7. Stepwise(it, n, Nat, 0, h)
  <2>1. it[{}] = 0 /\ \A t \in SUBSET (1 .. n) : t # {} => it[t] = Plus(it[t \ {Max(t)}], s[Max(t)])
    BY <1>6, Zenon
  <2> QED BY <2>1, <1>4, <1>5, Zenon DEF Stepwise
<1>8. PICK g : Unrolls(g, it, n, Nat, 0, h)
  <2>1. 0 \in Nat
    OBVIOUS
  <2> QED BY <1>1, <1>3, <1>7, <2>1, FoldUnrolls, Zenon
<1>9. \A k \in 1 .. n : g[k] = Plus(g[k - 1], s[k])
  <2>1. \A k \in 1 .. n : k - 1 \in 0 .. n
    BY <1>1
  <2> QED BY <2>1, <1>4, <1>8, Zenon DEF Unrolls
<1> QED
  BY <1>2, <1>8, <1>9 DEF n, Unrolls, Plus

\* Two sequences of the same length whose elements differ in one place, by d:
\* so do their totals.
LEMMA TotalChanges ==
  ASSUME NEW s \in Seq(Nat), NEW t \in Seq(Nat), Len(s) = Len(t), NEW i \in 0 .. Len(s),
         NEW d \in Nat, \A k \in 1 .. Len(s) : t[k] = IF k = i THEN s[k] + d ELSE s[k]
  PROVE  Total(t) = IF i = 0 THEN Total(s) ELSE Total(s) + d
<1>1. PICK g \in [0 .. Len(s) -> Nat] :
        /\ g[0] = 0
        /\ \A k \in 1 .. Len(s) : g[k] = g[k - 1] + s[k]
        /\ g[Len(s)] = Total(s)
  BY TotalUnrolls
<1>2. PICK f \in [0 .. Len(s) -> Nat] :
        /\ f[0] = 0
        /\ \A k \in 1 .. Len(s) : f[k] = f[k - 1] + t[k]
        /\ f[Len(s)] = Total(t)
  BY TotalUnrolls
<1> DEFINE n == Len(s)
           S == {k \in 0 .. n : f[k] = IF i = 0 \/ k < i THEN g[k] ELSE g[k] + d}
<1>3. n \in Nat /\ \A k \in 1 .. n : s[k] \in Nat
  OBVIOUS
<1> HIDE DEF n
<1>4. 0 \in S
  BY <1>1, <1>2, <1>3 DEF n
<1>5. ASSUME NEW k \in 0 .. (n - 1), k \in S PROVE k + 1 \in S
  <2>1. k + 1 \in 1 .. n /\ (k + 1) - 1 = k /\ k \in 0 .. n
    BY <1>3
  <2>2. f[k + 1] = f[k] + t[k + 1] /\ g[k + 1] = g[k] + s[k + 1]
    BY <1>1, <1>2, <2>1 DEF n
  <2>3. t[k + 1] = (IF k + 1 = i THEN s[k + 1] + d ELSE s[k + 1]) /\ s[k + 1] \in Nat
    BY <1>3, <2>1 DEF n
  <2>4. g[k] \in Nat /\ f[k] \in Nat /\ i \in Nat
    <3>1. k \in 0 .. Len(s) /\ Len(s) \in Nat
      BY <1>3, <2>1 DEF n
    <3>2. i \in Nat
      BY <3>1
    <3> QED BY <1>1, <1>2, <3>1, <3>2
  <2>5. f[k] = IF i = 0 \/ k < i THEN g[k] ELSE g[k] + d
    BY <1>5
  <2>6. f[k + 1] = IF i = 0 \/ k + 1 < i THEN g[k + 1] ELSE g[k + 1] + d
    BY <2>2, <2>3, <2>4, <2>5, SMTT(30)
  <2> QED BY <2>1, <2>6
<1>6. 0 .. n \subseteq S
  <2> HIDE DEF S
  <2> QED BY <1>3, <1>4, <1>5, UpToInduction
<1>7. f[n] = IF i = 0 \/ n < i THEN g[n] ELSE g[n] + d
  BY <1>3, <1>6
<1> QED
  BY <1>1, <1>2, <1>3, <1>7 DEF n

\* Appending a number adds it.
LEMMA TotalAppend ==
  ASSUME NEW s \in Seq(Nat), NEW e \in Nat
  PROVE  Total(s) \in Nat /\ Total(Append(s, e)) = Total(s) + e
<1> DEFINE n == Len(s)
           t == Append(s, e)
<1>1. PICK g \in [0 .. n -> Nat] :
        /\ g[0] = 0
        /\ \A k \in 1 .. n : g[k] = g[k - 1] + s[k]
        /\ g[n] = Total(s)
  BY TotalUnrolls
<1>2. n \in Nat /\ t \in Seq(Nat) /\ Len(t) = n + 1 /\ t[n + 1] = e /\ \A k \in 1 .. n : t[k] = s[k]
  OBVIOUS
<1> HIDE DEF t
<1>3. PICK f \in [0 .. (n + 1) -> Nat] :
        /\ f[0] = 0
        /\ \A k \in 1 .. (n + 1) : f[k] = f[k - 1] + t[k]
        /\ f[n + 1] = Total(t)
  <2>1. \E f \in [0 .. Len(t) -> Nat] :
          /\ f[0] = 0
          /\ \A k \in 1 .. Len(t) : f[k] = f[k - 1] + t[k]
          /\ f[Len(t)] = Total(t)
    BY <1>2, TotalUnrolls
  <2> QED BY <1>2, <2>1
<1> DEFINE S == {k \in 0 .. n : f[k] = g[k]}
<1> HIDE DEF n
<1>4. 0 \in S
  BY <1>1, <1>2, <1>3
<1>5. ASSUME NEW k \in 0 .. (n - 1), k \in S PROVE k + 1 \in S
  <2>1. k + 1 \in 1 .. n /\ k + 1 \in 1 .. (n + 1) /\ (k + 1) - 1 = k /\ k + 1 \in 0 .. n
    BY <1>2
  <2>2. f[k + 1] = f[k] + t[k + 1] /\ g[k + 1] = g[k] + s[k + 1] /\ t[k + 1] = s[k + 1]
    BY <1>1, <1>2, <1>3, <2>1
  <2>3. f[k + 1] = g[k + 1]
    BY <1>5, <2>2
  <2> QED BY <2>1, <2>3
<1>6. 0 .. n \subseteq S
  <2> HIDE DEF S
  <2> QED BY <1>2, <1>4, <1>5, UpToInduction
<1>7. f[n] = g[n] /\ g[n] \in Nat
  BY <1>1, <1>2, <1>6
<1>8. f[n + 1] = f[n] + t[n + 1]
  <2>1. n + 1 \in 1 .. (n + 1) /\ (n + 1) - 1 = n
    BY <1>2
  <2> QED BY <1>3, <2>1
<1> QED
  BY <1>1, <1>2, <1>3, <1>7, <1>8 DEF t
=============================================================================
