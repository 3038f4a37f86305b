----------------------------- MODULE MockProofs -----------------------------
(***************************************************************************)
(* Proofs about three parts of mocking that stand by themselves: what the  *)
(* mock of syslog() does with a message (Syslog), the trampoline that an   *)
(* intercepted call goes through (Trampoline), and how a breakpoint is     *)
(* written into the text (TextWrite).  The last two are instances of their *)
(* modules for any values of their constants and variables, declared where *)
(* their parts begin; no theorem is about two of the parts.                *)
(***************************************************************************)
EXTENDS Syslog, DataInduction

-----------------------------------------------------------------------------
(* Messages, for every set of messages, regular expressions and tags and   *)
(* any number of calls.  find_slmatch() is a loop over the list that       *)
(* remembers the best match so far; what it finds is proved by induction   *)
(* over the list (MostFacts).  That every counted message is counted in one *)
(* place is an equation between two sums (CountedOnce).                    *)

\* The fields of the entries of a list of matches.
LEMMA MatchFields ==
  ASSUME NEW list \in Seq(slmatch_t)
  PROVE  \A i \in DOMAIN list : list[i].dis \in {1, 2, 3} /\ list[i].count \in Nat
<1>1. \A i \in DOMAIN list : list[i] \in slmatch_t
  OBVIOUS
<1>2. \A m \in slmatch_t : m.dis \in {1, 2, 3} /\ m.count \in Nat
  BY DEF slmatch_t, SL_IGNORE, SL_COUNT, SL_FAIL
<1> QED
  BY <1>1, <1>2

\* find_slmatch() as a loop: g[k] is the match it has chosen after k entries.
LEMMA MostUnrolls ==
  ASSUME NEW list \in Seq(slmatch_t), NEW msg
  PROVE  \E g \in [0 .. Len(list) -> 0 .. Len(list)] :
           /\ g[0] = 0
           /\ \A k \in 1 .. Len(list) : g[k] = Better(list, msg, g[k - 1], k)
           /\ g[Len(list)] = Most(list, msg)
<1> DEFINE n == Len(list)
           X == 0 .. n
           s == [i \in DOMAIN list |-> i]
           op(m, e) == Better(list, msg, m, e)
           h == [p \in (1 .. n) \X X |-> op(p[2], s[p[1]])]
           Step(f) == [t \in SUBSET (1 .. n) |->
                         IF t = {} THEN 0 ELSE op(f[t \ {Max(t)}], s[Max(t)])]
           it == CHOOSE f : f = Step(f)
<1>1. n \in Nat /\ DOMAIN list = 1 .. n /\ DOMAIN s = 1 .. n /\ \A k \in 1 .. n : s[k] = k
  OBVIOUS
<1>t. \A m \in X, e \in 1 .. n : op(m, e) \in X
  BY <1>1 DEF Better
<1>0. 0 \in X
  BY <1>1
<1>2. Most(list, msg) = it[1 .. n]
  <2>1. Most(list, msg) =
          (CHOOSE f : f = [t \in SUBSET DOMAIN s |->
                             IF t = {} THEN 0 ELSE op(f[t \ {Max(t)}], s[Max(t)])])[DOMAIN s]
    BY Zenon DEF Most, Fold, MapThenFoldSet
  <2> QED BY <2>1, <1>1
<1> HIDE DEF s, op, X
<1>3. h \in [(1 .. n) \X X -> X]
  BY <1>1, <1>t
<1>4. \A k \in 1 .. n, x \in X : h[<<k, x>>] = op(x, s[k])
  BY <1>1
<1>5. \A t \in SUBSET (1 .. n) : t # {} => Max(t) \in 1 .. n
  BY MaxOf, <1>1, Zenon
<1>6. it = Step(it)
  <2> HIDE DEF h, n
  <2>1. PICK f : FoldsUp(f, n, X, 0, h)
    BY <1>0, <1>1, <1>3, FoldExists, Zenon
  <2>2. f = Step(f)
    BY <2>1, <1>4, <1>5, Zenon DEF FoldsUp
  <2> HIDE DEF Step
  <2> QED BY <2>2
<1> HIDE DEF it, h, n
<1>7. Stepwise(it, n, X, 0, h)
  <2>1. it[{}] = 0 /\ \A t \in SUBSET (1 .. n) : t # {} => it[t] = op(it[t \ {Max(t)}], s[Max(t)])
    BY <1>6, Zenon
  <2> QED BY <2>1, <1>4, <1>5, Zenon DEF Stepwise
<1>8. PICK g : Unrolls(g, it, n, X, 0, h)
  BY <1>0, <1>1, <1>3, <1>7, FoldUnrolls, Zenon
<1>9. \A k \in 1 .. n : g[k] = op(g[k - 1], k)
  <2>1. \A k \in 1 .. n : k - 1 \in 0 .. n
    BY <1>1
  <2> QED BY <1>1, <2>1, <1>4, <1>8, Zenon DEF Unrolls
<1> QED
  BY <1>2, <1>8, <1>9 DEF n, X, op, Unrolls

\* The entries whose regular expression matches msg.
Hits(list, msg) == {i \in DOMAIN list : msg \in list[i].re}

\* The match found is one of the strongest disposition; none is found only if
\* none matches (find_slmatch).
LEMMA MostFacts ==
  ASSUME NEW list \in Seq(slmatch_t), NEW msg
  PROVE  /\ Most(list, msg) = 0 => Hits(list, msg) = {}
         /\ Most(list, msg) # 0 =>
              /\ Most(list, msg) \in Hits(list, msg)
              /\ \A i \in Hits(list, msg) : list[i].dis <= list[Most(list, msg)].dis
<1> DEFINE n == Len(list)
           H(i) == msg \in list[i].re
           Ok(k, m) == /\ m = 0 => \A i \in 1 .. k : ~H(i)
                       /\ m # 0 => /\ m \in 1 .. k /\ H(m)
                                   /\ \A i \in 1 .. k : H(i) => list[i].dis <= list[m].dis
<1>1. PICK g \in [0 .. n -> 0 .. n] :
           /\ g[0] = 0
           /\ \A k \in 1 .. n : g[k] = Better(list, msg, g[k - 1], k)
           /\ g[n] = Most(list, msg)
  BY MostUnrolls
<1>2. n \in Nat /\ DOMAIN list = 1 .. n /\ \A k \in 1 .. n : list[k].dis \in {1, 2, 3}
  <2>1. n \in Nat /\ DOMAIN list = 1 .. n
    OBVIOUS
  <2> QED BY <2>1, MatchFields
<1> DEFINE S == {k \in 0 .. n : Ok(k, g[k])}
<1> HIDE DEF n
<1>3. 0 \in S
  BY <1>1, <1>2
<1>4. ASSUME NEW k \in 0 .. (n - 1), k \in S PROVE k + 1 \in S
  <2>1. k + 1 \in 1 .. n /\ (k + 1) - 1 = k /\ k \in 0 .. n /\ k \in Nat
    BY <1>2
  <2>2. g[k + 1] = Better(list, msg, g[k], k + 1) /\ g[k] \in 0 .. n
    BY <1>1, <2>1
  <2>3. list[k + 1].dis \in {1, 2, 3}
    BY <1>2, <2>1
  <2>4. Ok(k, g[k])
    BY <1>4
  <2>5. CASE ~H(k + 1)
    <3>1. g[k + 1] = g[k]
      BY <2>2, <2>5 DEF Better, classify, SL_UNKNOWN
    <3>2. \A i \in 1 .. (k + 1) : H(i) => i \in 1 .. k
      BY <2>1, <2>5
    <3> HIDE DEF H
    <3> QED BY <2>1, <2>4, <3>1, <3>2
  <2>6. CASE H(k + 1) /\ g[k] = 0
    <3>1. g[k + 1] = k + 1
      BY <2>2, <2>3, <2>6 DEF Better, classify, SL_UNKNOWN
    <3>2. \A i \in 1 .. (k + 1) : H(i) => i = k + 1
      BY <2>1, <2>4, <2>6
    <3> HIDE DEF H
    <3> QED BY <2>1, <2>3, <2>6, <3>1, <3>2
  <2>7. CASE H(k + 1) /\ g[k] # 0
    <3>1. g[k] \in 1 .. k /\ g[k] \in 1 .. n
      BY <2>1, <2>4, <2>7
    <3>2. list[g[k]].dis \in {1, 2, 3}
      BY <1>2, <3>1
    <3>3. g[k + 1] = IF list[k + 1].dis > list[g[k]].dis THEN k + 1 ELSE g[k]
      BY <2>2, <2>3, <2>7, <3>2 DEF Better, classify, Beats, SL_UNKNOWN
    <3>4. \A i \in 1 .. (k + 1) : list[i].dis \in {1, 2, 3} /\ (i \in 1 .. k \/ i = k + 1)
      BY <1>2, <2>1
    <3> HIDE DEF H
    <3>5. /\ g[k + 1] # 0 /\ g[k + 1] \in 1 .. (k + 1) /\ H(g[k + 1])
      BY <2>1, <2>4, <2>7, <3>1, <3>3
    <3>6. \A i \in 1 .. k : H(i) => list[i].dis <= list[g[k]].dis
      BY <2>4, <2>7
    <3>7. /\ list[k + 1].dis <= list[g[k + 1]].dis /\ list[g[k]].dis <= list[g[k + 1]].dis
          /\ list[g[k + 1]].dis \in {1, 2, 3}
      BY <2>3, <3>2, <3>3
    <3>8. ASSUME NEW i \in 1 .. (k + 1), H(i) PROVE list[i].dis <= list[g[k + 1]].dis
      <4>1. list[i].dis \in {1, 2, 3} /\ (i \in 1 .. k \/ i = k + 1)
        BY <3>4
      <4>2. CASE i \in 1 .. k
        <5>1. list[i].dis <= list[g[k]].dis
          BY <3>6, <3>8, <4>2
        <5> DEFINE a == list[i].dis
                   b == list[g[k]].dis
                   c == list[g[k + 1]].dis
        <5>2. a \in Int /\ b \in Int /\ c \in Int /\ a <= b /\ b <= c
          <6>1. a \in {1, 2, 3} /\ b \in {1, 2, 3} /\ c \in {1, 2, 3} /\ a <= b /\ b <= c
            BY <3>2, <3>7, <4>1, <5>1, Zenon
          <6> HIDE DEF a, b, c
          <6> QED BY <6>1
        <5> HIDE DEF a, b, c
        <5>3. a <= c
          BY <5>2
        <5> QED BY <5>3 DEF a, c
      <4>3. CASE i = k + 1
        BY <3>7, <4>3
      <4> QED BY <4>1, <4>2, <4>3
    <3> QED BY <2>1, <3>5, <3>8
  <2> QED BY <2>5, <2>6, <2>7
<1>5. 0 .. n \subseteq S
  <2> HIDE DEF S
  <2> QED BY <1>2, <1>3, <1>4, UpToInduction
<1>6. Ok(n, Most(list, msg))
  <2>1. n \in S
    <3> HIDE DEF S
    <3> QED BY <1>2, <1>5
  <2>2. Ok(n, g[n])
    BY <2>1
  <2> HIDE DEF Ok
  <2> QED BY <1>1, <2>2
<1> QED
  BY <1>2, <1>6 DEF Hits

\* The disposition of a message: it fails the test exactly if nothing matches
\* it or some match asks for that, and is counted exactly if some match asks
\* for that and none for failure.
LEMMA Decides ==
  ASSUME NEW list \in Seq(slmatch_t), NEW msg
  PROVE  /\ Disposition(list, msg) \in {SL_IGNORE, SL_COUNT, SL_FAIL}
         /\ Disposition(list, msg) # SL_FAIL <=>
              Hits(list, msg) # {} /\ \A i \in Hits(list, msg) : list[i].dis # SL_FAIL
         /\ Disposition(list, msg) = SL_COUNT <=> Asks(list, msg, SL_COUNT) /\ ~Asks(list, msg, SL_FAIL)
         /\ Disposition(list, msg) = SL_COUNT =>
              Most(list, msg) \in DOMAIN list /\ list[Most(list, msg)].dis = SL_COUNT
<1> DEFINE m == Most(list, msg)
<1>1. /\ m = 0 => Hits(list, msg) = {}
      /\ m # 0 => m \in Hits(list, msg) /\ \A i \in Hits(list, msg) : list[i].dis <= list[m].dis
  BY MostFacts
<1>2. \A i \in DOMAIN list : list[i].dis \in {1, 2, 3}
  BY MatchFields
<1>3. Disposition(list, msg) = IF m = 0 THEN 3 ELSE list[m].dis
  BY DEF Disposition, SL_FAIL
<1>4. 0 \notin DOMAIN list
  OBVIOUS
<1> HIDE DEF m
<1>5. \A d : Asks(list, msg, d) <=> \E i \in Hits(list, msg) : list[i].dis = d
  BY DEF Asks, Hits
<1>6. Hits(list, msg) \subseteq DOMAIN list
  BY DEF Hits
<1> QED
  BY <1>1, <1>2, <1>3, <1>4, <1>5, <1>6 DEF m, SL_IGNORE, SL_COUNT, SL_FAIL

\* The counts of the entries of a list.
Numbers(list) == [i \in DOMAIN list |-> list[i].count]

\* 1 for every message that was counted, 0 for the others.
Flags(log) == [n \in DOMAIN log |-> IF IsCounted(log[n]) THEN 1 ELSE 0]

\* The counts are a sequence of numbers.
LEMMA NumbersType ==
  ASSUME NEW list \in Seq(slmatch_t)
  PROVE  Numbers(list) \in Seq(Nat) /\ Len(Numbers(list)) = Len(list)
<1>1. Len(list) \in Nat /\ DOMAIN list = 1 .. Len(list) /\ \A i \in DOMAIN list : list[i].count \in Nat
  <2>1. Len(list) \in Nat /\ DOMAIN list = 1 .. Len(list)
    OBVIOUS
  <2> QED BY <2>1, MatchFields
<1>2. Numbers(list) \in [1 .. Len(list) -> Nat]
  BY <1>1 DEF Numbers
<1> QED
  BY <1>1, <1>2

\* So are the flags.
LEMMA FlagsType ==
  ASSUME NEW log \in Seq(Logged)
  PROVE  Flags(log) \in Seq(Nat) /\ Len(Flags(log)) = Len(log)
<1>1. Len(log) \in Nat /\ DOMAIN log = 1 .. Len(log)
  OBVIOUS
<1>2. Flags(log) \in [1 .. Len(log) -> Nat]
  BY <1>1 DEF Flags
<1> QED
  BY <1>1, <1>2

\* The elements of a sequence with one appended.
LEMMA SeqAppend ==
  ASSUME NEW M, NEW s \in Seq(M), NEW e \in M
  PROVE  /\ Append(s, e) \in Seq(M) /\ Len(Append(s, e)) = Len(s) + 1
         /\ DOMAIN Append(s, e) = 1 .. (Len(s) + 1) /\ DOMAIN s = 1 .. Len(s) /\ Len(s) \in Nat
         /\ \A i \in 1 .. Len(s) : Append(s, e)[i] = s[i]
         /\ Append(s, e)[Len(s) + 1] = e
OBVIOUS

\* A new entry appends its count.
LEMMA NumbersAppend ==
  ASSUME NEW list \in Seq(slmatch_t), NEW e \in slmatch_t
  PROVE  Numbers(Append(list, e)) = Append(Numbers(list), e.count)
<1> DEFINE t == Append(list, e)
           n == Len(list)
           a == Numbers(t)
           b == Append(Numbers(list), e.count)
<1>1. /\ t \in Seq(slmatch_t) /\ Len(t) = n + 1 /\ n \in Nat
      /\ DOMAIN t = 1 .. (n + 1) /\ DOMAIN list = 1 .. n
      /\ \A i \in 1 .. n : t[i] = list[i]
      /\ t[n + 1] = e
  BY SeqAppend
<1>2. e.count \in Nat
  BY DEF slmatch_t
<1> HIDE DEF t
<1>3. Numbers(list) \in Seq(Nat) /\ Len(Numbers(list)) = n /\ a \in Seq(Nat) /\ Len(a) = n + 1
  BY <1>1, NumbersType
<1>4. /\ b \in Seq(Nat) /\ Len(b) = n + 1
      /\ \A i \in 1 .. n : b[i] = Numbers(list)[i]
      /\ b[n + 1] = e.count
  BY <1>2, <1>3, SeqAppend
<1>5. \A i \in 1 .. n : Numbers(list)[i] = list[i].count
  BY <1>1 DEF Numbers
<1>6. \A i \in 1 .. (n + 1) : a[i] = t[i].count
  BY <1>1 DEF Numbers
<1>7. \A i \in 1 .. (n + 1) : i \in 1 .. n \/ i = n + 1
  BY <1>1
<1> HIDE DEF a, b, n
<1>8. \A i \in 1 .. (n + 1) : a[i] = b[i]
  BY <1>1, <1>4, <1>5, <1>6, <1>7
<1>9. a = b
  BY <1>3, <1>4, <1>8, SameSeq
<1> QED
  BY <1>9 DEF a, b, t

\* A new message appends its flag.
LEMMA FlagsAppend ==
  ASSUME NEW log \in Seq(Logged), NEW e \in Logged
  PROVE  Flags(Append(log, e)) = Append(Flags(log), IF IsCounted(e) THEN 1 ELSE 0)
<1> DEFINE t == Append(log, e)
           n == Len(log)
           v == IF IsCounted(e) THEN 1 ELSE 0
           a == Flags(t)
           b == Append(Flags(log), v)
<1>1. /\ t \in Seq(Logged) /\ Len(t) = n + 1 /\ n \in Nat
      /\ DOMAIN t = 1 .. (n + 1) /\ DOMAIN log = 1 .. n
      /\ \A i \in 1 .. n : t[i] = log[i]
      /\ t[n + 1] = e
  BY SeqAppend
<1>2. v \in Nat
  OBVIOUS
<1> HIDE DEF t
<1>3. Flags(log) \in Seq(Nat) /\ Len(Flags(log)) = n /\ a \in Seq(Nat) /\ Len(a) = n + 1
  BY <1>1, FlagsType
<1> HIDE DEF v
<1>4. /\ b \in Seq(Nat) /\ Len(b) = n + 1
      /\ \A i \in 1 .. n : b[i] = Flags(log)[i]
      /\ b[n + 1] = v
  BY <1>2, <1>3, SeqAppend
<1>5. \A i \in 1 .. n : Flags(log)[i] = IF IsCounted(log[i]) THEN 1 ELSE 0
  BY <1>1 DEF Flags
<1>6. \A i \in 1 .. (n + 1) : a[i] = IF IsCounted(t[i]) THEN 1 ELSE 0
  BY <1>1 DEF Flags
<1>7. \A i \in 1 .. (n + 1) : i \in 1 .. n \/ i = n + 1
  BY <1>1
<1>8. a[n + 1] = v
  BY <1>1, <1>6 DEF v
<1> HIDE DEF a, b, n
<1>9. \A i \in 1 .. (n + 1) : a[i] = b[i]
  BY <1>1, <1>4, <1>5, <1>6, <1>7, <1>8
<1>10. a = b
  BY <1>3, <1>4, <1>9, SameSeq
<1> QED
  BY <1>10 DEF a, b, t, v

\* CountedOnce in terms of the two sequences.
LEMMA CountsEqual == CountedOnce <=> Total(Numbers(slmatches)) = Total(Flags(logged))
BY DEF CountedOnce, Numbers, Flags

\* A test starts with no matches and no messages.
LEMMA SyslogStarts == ASSUME Init PROVE SyslogInv
<1>1. slmatches = << >> /\ logged = << >> /\ thrown = FALSE
  BY DEF Init
<1>2. slmatches \in Seq(slmatch_t) /\ logged \in Seq(Logged) /\ DOMAIN slmatches = {} /\ DOMAIN logged = {}
  BY <1>1
<1>3. Numbers(slmatches) = Flags(logged)
  BY <1>2 DEF Numbers, Flags
<1>4. CountedOnce
  BY <1>3, CountsEqual
<1> QED
  BY <1>1, <1>2, <1>4 DEF SyslogInv, TypeOK

\* A new match starts at 0 and changes no other count (add_slmatch); a bad
\* regular expression fails the test instead.
LEMMA AddKeeps ==
  ASSUME SyslogInv, NEW re \in (SUBSET Messages) \cup {BadRegexp},
         NEW dis \in {SL_IGNORE, SL_COUNT, SL_FAIL}, NEW tag \in Tags \cup {0},
         add_slmatch(re, dis, tag)
  PROVE  SyslogInv'
<1>1. /\ slmatches \in Seq(slmatch_t) /\ thrown = FALSE /\ logged' = logged
      /\ \A i \in DOMAIN slmatches : slmatches[i].count # 0 => slmatches[i].dis = SL_COUNT
  BY DEF SyslogInv, TypeOK, add_slmatch
<1>2. CASE re = BadRegexp
  <2>1. slmatches' = slmatches /\ thrown' = TRUE
    BY <1>2 DEF add_slmatch
  <2>2. CountedOnce'
    BY <1>1, <2>1, CountsEqual DEF SyslogInv, CountedOnce
  <2> QED BY <1>1, <2>1, <2>2 DEF SyslogInv, TypeOK
<1>3. CASE re # BadRegexp
  <2> DEFINE e == [re |-> re, dis |-> dis, tag |-> tag, count |-> 0]
             t == slmatches'
  <2>1. slmatches' = Append(slmatches, e) /\ thrown' = thrown
    BY <1>3 DEF add_slmatch
  <2>2. e \in slmatch_t
    BY <1>3 DEF slmatch_t
  <2>3. e.count = 0
    OBVIOUS
  <2> HIDE DEF e
  <2>4. /\ t \in Seq(slmatch_t) /\ Len(t) = Len(slmatches) + 1
        /\ DOMAIN t = 1 .. (Len(slmatches) + 1) /\ DOMAIN slmatches = 1 .. Len(slmatches)
        /\ Len(slmatches) \in Nat
        /\ \A i \in 1 .. Len(slmatches) : t[i] = slmatches[i]
        /\ t[Len(slmatches) + 1] = e
    BY <1>1, <2>1, <2>2, SeqAppend
  <2>5. Numbers(t) = Append(Numbers(slmatches), 0)
    BY <1>1, <2>1, <2>2, <2>3, NumbersAppend
  <2>6. Total(Numbers(t)) = Total(Numbers(slmatches))
    <3>1. Numbers(slmatches) \in Seq(Nat) /\ 0 \in Nat
      BY <1>1, NumbersType
    <3>2. Total(Numbers(slmatches)) \in Nat /\ Total(Append(Numbers(slmatches), 0)) = Total(Numbers(slmatches)) + 0
      BY <3>1, TotalAppend
    <3> QED BY <2>5, <3>2
  <2>7. CountedOnce'
    <3>1. CountedOnce' <=> Total(Numbers(slmatches')) = Total(Flags(logged'))
      BY DEF CountedOnce, Numbers, Flags
    <3> QED BY <1>1, <2>6, <3>1, CountsEqual DEF SyslogInv
  <2>8. \A i \in DOMAIN t : t[i].count # 0 => t[i].dis = SL_COUNT
    BY <1>1, <2>3, <2>4
  <2> QED BY <1>1, <2>1, <2>4, <2>7, <2>8 DEF SyslogInv, TypeOK
<1> QED
  BY <1>2, <1>3

\* A message is added to one count at most, and that of a match that asks for
\* counting (mock_syslog, mock_vsyslog).
LEMMA LogKeeps ==
  ASSUME SyslogInv, NEW msg \in Messages, mock_syslog(msg)
  PROVE  SyslogInv'
<1> DEFINE d == Disposition(slmatches, msg)
           m == Most(slmatches, msg)
           rec == [msg |-> msg, list |-> slmatches, dis |-> d]
           t == slmatches'
           v == IF IsCounted(rec) THEN 1 ELSE 0
<1>1. /\ slmatches \in Seq(slmatch_t) /\ thrown = FALSE /\ logged \in Seq(Logged)
      /\ t = find_slmatch(slmatches, msg) /\ thrown' = (d = SL_FAIL)
      /\ logged' = Append(logged, rec)
      /\ \A i \in DOMAIN slmatches : slmatches[i].count # 0 => slmatches[i].dis = SL_COUNT
  BY DEF SyslogInv, TypeOK, mock_syslog
<1>2. /\ d \in {SL_IGNORE, SL_COUNT, SL_FAIL}
      /\ d = SL_COUNT <=> Asks(slmatches, msg, SL_COUNT) /\ ~Asks(slmatches, msg, SL_FAIL)
      /\ d = SL_COUNT => m \in DOMAIN slmatches /\ slmatches[m].dis = SL_COUNT
  BY <1>1, Decides
<1>3. rec \in Logged /\ rec.list = slmatches /\ rec.msg = msg /\ rec.dis = d
  BY <1>1, <1>2 DEF Logged
<1>4. IsCounted(rec) <=> d = SL_COUNT
  BY <1>2, <1>3 DEF IsCounted
<1> HIDE DEF d, rec, m, t
<1>5. Len(slmatches) \in Nat /\ DOMAIN slmatches = 1 .. Len(slmatches)
  BY <1>1
<1> DEFINE i0 == IF d = SL_COUNT THEN m ELSE 0
<1>6. i0 \in 0 .. Len(slmatches)
  BY <1>2, <1>5
<1>7. /\ DOMAIN t = DOMAIN slmatches
      /\ \A i \in DOMAIN slmatches :
           t[i] = IF i = i0 THEN [slmatches[i] EXCEPT !.count = @ + 1] ELSE slmatches[i]
  <2>1. Counts(slmatches, msg) = IF d = SL_COUNT THEN {m} ELSE {}
    BY DEF Counts, d, m
  <2>2. \A i \in DOMAIN slmatches : i \in Counts(slmatches, msg) <=> i = i0
    BY <1>5, <2>1
  <2> HIDE DEF i0
  <2> QED BY <1>1, <2>2 DEF find_slmatch
<1>8. ASSUME NEW i \in DOMAIN slmatches
      PROVE  /\ t[i] \in slmatch_t /\ t[i].dis = slmatches[i].dis
             /\ t[i].count = IF i = i0 THEN slmatches[i].count + 1 ELSE slmatches[i].count
  <2>1. slmatches[i] \in slmatch_t
    BY <1>1
  <2>2. t[i] = IF i = i0 THEN [slmatches[i] EXCEPT !.count = @ + 1] ELSE slmatches[i]
    BY <1>7
  <2> HIDE DEF i0
  <2> QED BY <2>1, <2>2 DEF slmatch_t
<1>9. t \in Seq(slmatch_t) /\ Len(t) = Len(slmatches)
  <2>1. t \in [1 .. Len(slmatches) -> slmatch_t]
    <3>1. t = [i \in DOMAIN slmatches |-> t[i]]
      BY <1>1 DEF find_slmatch
    <3> QED BY <1>5, <1>8, <3>1
  <2> QED BY <1>5, <2>1
<1>10. \A i \in DOMAIN t : t[i].count # 0 => t[i].dis = SL_COUNT
  BY <1>1, <1>2, <1>5, <1>7, <1>8
<1>11. Total(Numbers(t)) = Total(Numbers(slmatches)) + v
  <2>1. /\ Numbers(slmatches) \in Seq(Nat) /\ Len(Numbers(slmatches)) = Len(slmatches)
        /\ Numbers(t) \in Seq(Nat) /\ Len(Numbers(t)) = Len(slmatches)
    BY <1>1, <1>9, NumbersType
  <2>2. \A k \in 1 .. Len(slmatches) :
          Numbers(t)[k] = IF k = i0 THEN Numbers(slmatches)[k] + 1 ELSE Numbers(slmatches)[k]
    BY <1>5, <1>7, <1>8 DEF Numbers
  <2>3. Total(Numbers(slmatches)) \in Nat
    BY <2>1, TotalAppend
  <2>4. Total(Numbers(t)) = IF i0 = 0 THEN Total(Numbers(slmatches)) ELSE Total(Numbers(slmatches)) + 1
    <3>1. 1 \in Nat /\ i0 \in 0 .. Len(Numbers(slmatches)) /\ Len(Numbers(slmatches)) = Len(Numbers(t))
      BY <1>6, <2>1
    <3> HIDE DEF i0
    <3> QED BY <2>1, <2>2, <3>1, TotalChanges
  <2>5. i0 = 0 <=> d # SL_COUNT
    BY <1>2, <1>5
  <2> HIDE DEF i0
  <2> QED BY <1>4, <2>3, <2>4, <2>5
<1>12. Total(Flags(logged')) = Total(Flags(logged)) + v
  <2>1. Flags(logged') = Append(Flags(logged), v)
    BY <1>1, <1>3, FlagsAppend
  <2>2. Flags(logged) \in Seq(Nat) /\ v \in Nat
    BY <1>1, FlagsType
  <2> HIDE DEF v
  <2> QED BY <2>1, <2>2, TotalAppend
<1>13. CountedOnce'
  <2>1. CountedOnce' <=> Total(Numbers(slmatches')) = Total(Flags(logged'))
    BY DEF CountedOnce, Numbers, Flags
  <2> HIDE DEF v
  <2> QED BY <1>11, <1>12, <2>1, CountsEqual DEF SyslogInv, t
<1>14. /\ logged' \in Seq(Logged) /\ Len(logged') = Len(logged) + 1 /\ Len(logged) \in Nat
       /\ DOMAIN logged' = 1 .. (Len(logged) + 1) /\ DOMAIN logged = 1 .. Len(logged)
       /\ \A n \in 1 .. Len(logged) : logged'[n] = logged[n]
       /\ logged'[Len(logged) + 1] = rec
  BY <1>1, <1>3, SeqAppend
<1>15. ASSUME NEW n \in DOMAIN logged'
       PROVE  /\ logged'[n].dis = Disposition(logged'[n].list, logged'[n].msg)
              /\ logged'[n].dis = SL_FAIL => thrown' /\ n = Len(logged')
  <2>1. CASE n = Len(logged) + 1
    BY <1>1, <1>3, <1>14, <2>1 DEF d
  <2>2. CASE n \in 1 .. Len(logged)
    BY <1>1, <1>14, <2>2 DEF SyslogInv
  <2> QED BY <1>14, <2>1, <2>2
<1>16. thrown' \in BOOLEAN
  BY <1>1
<1> QED
  BY <1>9, <1>10, <1>13, <1>14, <1>15, <1>16 DEF SyslogInv, TypeOK, t

\* Reading the counts changes none (np_syslog_count).
LEMMA CountKeeps ==
  ASSUME SyslogInv, NEW tag, np_syslog_count(tag)
  PROVE  SyslogInv'
<1>1. slmatches' = slmatches /\ logged' = logged /\ thrown = FALSE /\ thrown' \in BOOLEAN
  BY DEF np_syslog_count, SyslogInv, TypeOK
<1>2. CountedOnce'
  BY <1>1 DEF SyslogInv, CountedOnce
<1> QED
  BY <1>1, <1>2 DEF SyslogInv, TypeOK

\* Every call keeps the invariant.
LEMMA SyslogStep == ASSUME SyslogInv, Next PROVE SyslogInv'
<1>1. ASSUME NEW re \in (SUBSET Messages) \cup {BadRegexp}, np_syslog_fail(re) PROVE SyslogInv'
  BY <1>1, AddKeeps DEF np_syslog_fail
<1>2. ASSUME NEW re \in (SUBSET Messages) \cup {BadRegexp}, np_syslog_ignore(re) PROVE SyslogInv'
  BY <1>2, AddKeeps DEF np_syslog_ignore
<1>3. ASSUME NEW re \in (SUBSET Messages) \cup {BadRegexp}, NEW tag \in Tags, np_syslog_match(re, tag)
      PROVE  SyslogInv'
  BY <1>3, AddKeeps DEF np_syslog_match
<1>4. ASSUME NEW msg \in Messages, mock_syslog(msg) PROVE SyslogInv'
  BY <1>4, LogKeeps
<1>5. ASSUME NEW tag, np_syslog_count(tag) PROVE SyslogInv'
  BY <1>5, CountKeeps
<1> QED
  BY <1>1, <1>2, <1>3, <1>4, <1>5, Zenon DEF Next

\* The invariant shows the property.
LEMMA SyslogShows == ASSUME SyslogInv PROVE MatchesDecide
<1>1. ASSUME NEW n \in DOMAIN logged
      PROVE  LET rec == logged[n]
                 hits == {i \in DOMAIN rec.list : rec.msg \in rec.list[i].re}
                 passes == /\ hits # {}
                           /\ \A i \in hits : rec.list[i].dis # SL_FAIL
             IN IF passes THEN rec.dis # SL_FAIL ELSE thrown /\ n = Len(logged)
  <2> DEFINE rec == logged[n]
  <2>1. rec \in Logged
    BY DEF SyslogInv
  <2>2. rec.list \in Seq(slmatch_t)
    BY <2>1 DEF Logged
  <2>3. rec.dis = Disposition(rec.list, rec.msg) /\ (rec.dis = SL_FAIL => thrown /\ n = Len(logged))
    BY DEF SyslogInv
  <2> HIDE DEF rec
  <2>4. rec.dis # SL_FAIL <=>
          Hits(rec.list, rec.msg) # {} /\ \A i \in Hits(rec.list, rec.msg) : rec.list[i].dis # SL_FAIL
    BY <2>2, <2>3, Decides
  <2> QED BY <2>3, <2>4 DEF Hits, rec
<1>2. OnlyExpectedPass
  BY <1>1 DEF OnlyExpectedPass
<1> QED
  BY <1>2 DEF SyslogInv, MatchesDecide

\* What a test said it expects decides what becomes of each message, whatever
\* the order of the calls and however its regular expressions overlap: an
\* expected one passes, an unexpected one fails the test at once, and a
\* message is counted once however many matches ask for it (find_slmatch,
\* mock_syslog).
THEOREM MatchesDecideAll == Spec => []MatchesDecide
<1>1. Init => SyslogInv
  BY SyslogStarts
<1>2. SyslogInv /\ [Next]_vars => SyslogInv'
  <2>1. ASSUME SyslogInv, UNCHANGED vars PROVE SyslogInv'
    BY <2>1 DEF vars, SyslogInv, TypeOK, CountedOnce
  <2> QED BY <2>1, SyslogStep
<1>3. SyslogInv => MatchesDecide
  BY SyslogShows
<1> QED
  BY <1>1, <1>2, <1>3, PTL DEF Spec

-----------------------------------------------------------------------------
(* The trampoline.                                                         *)

CONSTANTS Archs, CallerSps, ArgCounts, AddressSpace

VARIABLES
  pc, arch, type, nargs, C, wish, changed, rip, rsp, rbp, rax, edx, regs, stack,
  tramp_uc, retval

Tra == INSTANCE Trampoline

\* The sizes of words and frames on each platform; the fake frame is below
\* everything the caller can see.
LEMMA Sizes ==
  ASSUME Tra!CallInv
  PROVE  /\ Tra!Base \in {1, 2} /\ Tra!FrameBase \in Int
         /\ Tra!FrameBase + Tra!Slots * Tra!W <= C - 17 * Tra!W
         /\ \/ /\ arch = "linux_x86" /\ Tra!W = 4 /\ Tra!Slots = 36 /\ Tra!NRegs = 0
            \/ /\ arch # "linux_x86" /\ Tra!W = 8 /\ Tra!Slots = 28 /\ Tra!NRegs = 6
               /\ Tra!Base = 2 /\ Tra!FrameBase % 16 = 0
<1>1. Tra!Base \in {1, 2} BY DEF Tra!Base
<1>2. CASE arch = "linux_x86"
  <2>1. Tra!W = 4 /\ Tra!Slots = 36 /\ Tra!NRegs = 0 /\ Tra!FrameAlign = 4
    BY <1>2 DEF Tra!W, Tra!Slots, Tra!NRegs, Tra!FrameAlign
  <2>2. Tra!FrameBase = (C - 4 - (36 + 16) * 4) - ((C - 4 - (36 + 16) * 4) % 4) /\ C \in Int
    BY <2>1 DEF Tra!FrameBase, Tra!CallInv
  <2> QED BY <1>1, <1>2, <2>1, <2>2
<1>3. CASE arch # "linux_x86"
  <2>1. Tra!W = 8 /\ Tra!Slots = 28 /\ Tra!NRegs = 6 /\ Tra!FrameAlign = 16 /\ Tra!Base = 2
    BY <1>3 DEF Tra!W, Tra!Slots, Tra!NRegs, Tra!FrameAlign, Tra!Base
  <2>2. Tra!FrameBase = (C - 8 - (28 + 16) * 8) - ((C - 8 - (28 + 16) * 8) % 16) /\ C \in Int
    BY <2>1 DEF Tra!FrameBase, Tra!CallInv
  <2> QED BY <1>1, <1>3, <2>1, <2>2
<1> QED BY <1>2, <1>3

\* Memory at a slot of the fake frame is that slot.
LEMMA FrameWord ==
  ASSUME Tra!CallInv, NEW s \in 0 .. Tra!Slots - 1
  PROVE  Tra!Word(Tra!FrameBase + Tra!W * s) = stack[s]
<1> DEFINE a == Tra!FrameBase + Tra!W * s
<1>1. /\ Tra!FrameBase \in Int /\ s \in Int /\ C \in Int
      /\ Tra!FrameBase + Tra!Slots * Tra!W <= C - 17 * Tra!W
      /\ (Tra!W = 4 /\ Tra!Slots = 36) \/ (Tra!W = 8 /\ Tra!Slots = 28)
  BY Sizes DEF Tra!CallInv
<1>2. /\ a - Tra!FrameBase = Tra!W * s /\ a >= Tra!FrameBase
      /\ a < Tra!FrameBase + Tra!Slots * Tra!W
      /\ ~ a > C /\ a # C /\ a # C - Tra!W
      /\ (a - Tra!FrameBase) % Tra!W = 0 /\ (a - Tra!FrameBase) \div Tra!W = s
  <2>1. CASE Tra!W = 4 /\ Tra!Slots = 36
    <3>1. s \in 0 .. 35 /\ a = Tra!FrameBase + 4 * s BY <2>1
    <3>2. a - Tra!FrameBase = 4 * s /\ (4 * s) % 4 = 0 /\ (4 * s) \div 4 = s BY <1>1, <3>1
    <3>3. Tra!FrameBase + 144 <= C - 68 BY <1>1, <2>1
    <3> HIDE DEF a
    <3> QED BY <1>1, <2>1, <3>1, <3>2, <3>3
  <2>2. CASE Tra!W = 8 /\ Tra!Slots = 28
    <3>1. s \in 0 .. 27 /\ a = Tra!FrameBase + 8 * s BY <2>2
    <3>2. a - Tra!FrameBase = 8 * s /\ (8 * s) % 8 = 0 /\ (8 * s) \div 8 = s BY <1>1, <3>1
    <3>3. Tra!FrameBase + 224 <= C - 136 BY <1>1, <2>2
    <3> HIDE DEF a
    <3> QED BY <1>1, <2>2, <3>1, <3>2, <3>3
  <2> QED BY <1>1, <2>1, <2>2
<1>4. Tra!InFrame(a) BY <1>2 DEF Tra!InFrame
<1> HIDE DEF a
<1>3. Tra!Word(a) = stack[s] BY <1>2, <1>4 DEF Tra!Word
<1> QED BY <1>3 DEF a

\* Above the frame are the saved %rbp, the return address and the stack
\* arguments.
LEMMA CallerWords ==
  ASSUME Tra!CallInv
  PROVE  /\ Tra!Word(C) = Tra!Sym("caller") /\ Tra!Word(C - Tra!W) = Tra!Sym("caller_bp")
         /\ \A j \in Nat : j < nargs - Tra!NRegs => Tra!Word(C + Tra!W + Tra!W * j) = Tra!Arg(Tra!NRegs + j)
<1>1. C \in Int /\ nargs \in Nat /\ Tra!W \in {4, 8} /\ Tra!NRegs \in {0, 6} /\ Tra!FrameBase + Tra!Slots * Tra!W <= C - 17 * Tra!W
      /\ Tra!FrameBase + Tra!Slots * Tra!W \in Int
  BY Sizes DEF Tra!CallInv
<1>2. \A a \in Int : a >= C - Tra!W => ~Tra!InFrame(a)
  BY <1>1, Sizes DEF Tra!InFrame
<1>3. ~Tra!InFrame(C) /\ ~Tra!InFrame(C - Tra!W) BY <1>1, <1>2
<1>4. C - Tra!W # C /\ ~ C > C /\ ~ C - Tra!W > C BY <1>1
<1>5. Tra!Word(C) = Tra!Sym("caller") BY <1>3, <1>4 DEF Tra!Word
<1>6. Tra!Word(C - Tra!W) = Tra!Sym("caller_bp") BY <1>3, <1>4 DEF Tra!Word
<1>7. ASSUME NEW j \in Nat, j < nargs - Tra!NRegs
      PROVE  Tra!Word(C + Tra!W + Tra!W * j) = Tra!Arg(Tra!NRegs + j)
  <2> DEFINE a == C + Tra!W + Tra!W * j
  <2>1. /\ a \in Int /\ a > C /\ (a - C) % Tra!W = 0 /\ (a - C) \div Tra!W = j + 1
    <3>1. CASE Tra!W = 4 BY <1>1, <3>1
    <3>2. CASE Tra!W = 8 BY <1>1, <3>2
    <3> QED BY <1>1, <3>1, <3>2
  <2>2. a # C /\ a # C - Tra!W /\ ~Tra!InFrame(a) BY <1>1, <1>2, <2>1
  <2>3. (a - C) \div Tra!W <= nargs - Tra!NRegs /\ Tra!NRegs + (a - C) \div Tra!W - 1 = Tra!NRegs + j
    BY <1>1, <1>7, <2>1
  <2> HIDE DEF a
  <2>4. Tra!Word(a) = Tra!Arg(Tra!NRegs + j) BY <2>1, <2>2, <2>3 DEF Tra!Word
  <2> QED BY <2>4 DEF a
<1> QED BY <1>5, <1>6, <1>7

\* The difference of two pointers in the wrong order wraps round in a size_t.
LEMMA WrapsAround ==
  ASSUME NEW m \in Nat, m >= 1024, NEW d \in {8, 16}
  PROVE  (0 - d) % m = m - d
OBVIOUS

\* The state at the call of an intercepted function.
LEMMA CallStarts == ASSUME Tra!Machine, Tra!Init PROVE Tra!TrampolineInv
<1>1. Tra!CallInv
  <2>1. DOMAIN stack = 0 .. Tra!Slots - 1 BY DEF Tra!Init
  <2>2. C \in Int /\ (arch = "linux_x86" \/ C % 16 = 8) BY DEF Tra!Init, Tra!Machine
  <2> QED BY <2>1, <2>2 DEF Tra!Init, Tra!Machine, Tra!CallInv
<1>2. pc = "called" /\ Tra!CalledInv BY DEF Tra!Init, Tra!CalledInv, Tra!Passed
<1> QED BY <1>1, <1>2 DEF Tra!TrampolineInv, Tra!ReturnsToCaller, Tra!HighHalfReturned

\* The signal handler keeps the context of the call (handle_signal).
LEMMA SignalKeeps == ASSUME Tra!Machine, Tra!TrampolineInv, Tra!handle_signal PROVE Tra!TrampolineInv'
<1>1. /\ pc = "called" /\ pc' = "tramp" /\ rbp' = Tra!Addr(C - Tra!W) /\ Tra!CallInv /\ Tra!CalledInv
      /\ tramp_uc' = [rip |-> rip, rsp |-> rsp, rbp |-> rbp, regs |-> regs]
      /\ arch' = arch /\ type' = type /\ nargs' = nargs /\ C' = C /\ wish' = wish /\ changed' = changed
      /\ stack' = stack
  BY DEF Tra!handle_signal, Tra!TrampolineInv, Tra!call
<1>2. Tra!CallInv' BY <1>1 DEF Tra!CallInv, Tra!Slots
<1>3. tramp_uc' = [rip |-> Tra!Sym("f"), rsp |-> C, rbp |-> Tra!Sym("caller_bp"), regs |-> Tra!Passed]
  BY <1>1 DEF Tra!CalledInv
<1>4. Tra!TrampInv' BY <1>1, <1>3 DEF Tra!TrampInv, Tra!Passed, Tra!NRegs, Tra!W
<1> QED BY <1>1, <1>2, <1>4 DEF Tra!TrampolineInv, Tra!ReturnsToCaller, Tra!HighHalfReturned

\* parent_size wraps round to a huge number, so the whole of the room in
\* stack[] is filled from the caller's frame.
LEMMA AllCopied ==
  ASSUME Tra!Machine, Tra!CallInv, Tra!TrampInv, NEW b \in {1, 2}
  PROVE  Tra!CopyWords(b) = Tra!Slots - b
<1>1. rbp[2] = C - Tra!W /\ tramp_uc.rsp = C /\ C \in Int BY DEF Tra!TrampInv, Tra!Addr, Tra!CallInv
<1>2. AddressSpace \in Nat /\ AddressSpace >= 1024 BY DEF Tra!Machine
<1>3. (Tra!W = 4 /\ Tra!Slots = 36) \/ (Tra!W = 8 /\ Tra!Slots = 28) BY Sizes
<1>4. rbp[2] - (tramp_uc.rsp + Tra!W) = 0 - 2 * Tra!W BY <1>1, <1>3
<1> DEFINE p == (rbp[2] - (tramp_uc.rsp + Tra!W)) % AddressSpace
           room == (Tra!Slots - b) * Tra!W
<1>5. p = AddressSpace - 2 * Tra!W
  <2>1. 2 * Tra!W \in {8, 16} BY <1>3
  <2> QED BY <1>2, <1>4, <2>1, WrapsAround
<1>6. Tra!CopyWords(b) = (IF p < room THEN p ELSE room) \div Tra!W BY DEF Tra!CopyWords
<1>7. ~ p < room /\ room \div Tra!W = Tra!Slots - b BY <1>2, <1>3, <1>5
<1> QED BY <1>6, <1>7

\* Every stack argument there is room for is copied to its slot.
LEMMA FilledFrame ==
  ASSUME Tra!Machine, Tra!CallInv, Tra!TrampInv, NEW b \in {1, 2}, NEW h
  PROVE  /\ DOMAIN Tra!Filled(b, h) = 0 .. Tra!Slots - 1
         /\ \A s \in 0 .. b - 1 : Tra!Filled(b, h)[s] = h[s]
         /\ \A s \in b .. Tra!Slots - 1 :
              s - b < nargs - Tra!NRegs => Tra!Filled(b, h)[s] = Tra!Arg(Tra!NRegs + s - b)
<1>1. Tra!Slots \in {28, 36} /\ Tra!NRegs \in {0, 6} /\ nargs \in Nat BY Sizes DEF Tra!CallInv
<1>2. /\ DOMAIN Tra!Filled(b, h) = 0 .. Tra!Slots - 1
      /\ \A s \in 0 .. Tra!Slots - 1 : Tra!Filled(b, h)[s]
           = IF s < b THEN h[s]
             ELSE IF s < b + Tra!CopyWords(b) THEN Tra!Copied(b, s) ELSE stack[s]
  BY DEF Tra!Filled
<1>3. \A s \in 0 .. b - 1 : s \in 0 .. Tra!Slots - 1 /\ s < b BY <1>1
<1>4. ASSUME NEW s \in b .. Tra!Slots - 1, s - b < nargs - Tra!NRegs
      PROVE  Tra!Filled(b, h)[s] = Tra!Arg(Tra!NRegs + s - b)
  <2>1. s \in 0 .. Tra!Slots - 1 /\ ~ s < b /\ s < b + (Tra!Slots - b) /\ s - b \in Nat
    BY <1>1
  <2>2. Tra!Filled(b, h)[s] = Tra!Copied(b, s) BY <1>2, <2>1, AllCopied
  <2>3. Tra!Copied(b, s) = Tra!Word(C + Tra!W + Tra!W * (s - b)) BY DEF Tra!Copied, Tra!TrampInv
  <2>4. Tra!Word(C + Tra!W + Tra!W * (s - b)) = Tra!Arg(Tra!NRegs + (s - b))
    BY <1>4, <2>1, CallerWords
  <2>5. Tra!NRegs + (s - b) = Tra!NRegs + s - b BY <1>1, <2>1
  <2> QED BY <2>2, <2>3, <2>4, <2>5
<1> QED BY <1>2, <1>3, <1>4

\* Each platform's frame has the return address, the saved %rbp and the
\* arguments where the function expects them.
LEMMA FakeFrame ==
  ASSUME Tra!Machine, Tra!CallInv, Tra!TrampInv
  PROVE  /\ DOMAIN Tra!fake_frame.stack = 0 .. Tra!Slots - 1
         /\ Tra!fake_frame.stack[Tra!Base - 1] = Tra!Ret
         /\ type = "PUSHBP" => Tra!fake_frame.stack[0] = Tra!Addr(C - Tra!W)
         /\ \A s \in Tra!ArgSlots : Tra!fake_frame.stack[s] = Tra!Arg(Tra!NRegs + s - Tra!Base)
         /\ Tra!fake_frame.rsp = Tra!FrameBase + Tra!W * (Tra!Base - 1) - (IF type = "PUSHBP" THEN Tra!W ELSE 0)
         /\ Tra!fake_frame.rip = Tra!Entry /\ Tra!fake_frame.args = Tra!Base
<1> DEFINE f == Tra!fake_frame
<1>1. /\ rbp = Tra!Addr(C - Tra!W) /\ Tra!Base \in {1, 2} /\ Tra!FrameBase \in Int
      /\ Tra!Slots \in {28, 36} /\ Tra!W \in {4, 8}
  BY Sizes DEF Tra!TrampInv
<1>2. SUFFICES \E h : /\ f.stack = Tra!Filled(Tra!Base, h) /\ h[Tra!Base - 1] = Tra!Ret
                      /\ type = "PUSHBP" => h[0] = rbp
                      /\ f.rsp = Tra!FrameBase + Tra!W * (Tra!Base - 1) - (IF type = "PUSHBP" THEN Tra!W ELSE 0)
                      /\ f.rip = Tra!Entry /\ f.args = Tra!Base
  <2>1. PICK h : /\ f.stack = Tra!Filled(Tra!Base, h) /\ h[Tra!Base - 1] = Tra!Ret
                 /\ type = "PUSHBP" => h[0] = rbp
                 /\ f.rsp = Tra!FrameBase + Tra!W * (Tra!Base - 1) - (IF type = "PUSHBP" THEN Tra!W ELSE 0)
                 /\ f.rip = Tra!Entry /\ f.args = Tra!Base
    BY <1>2
  <2> HIDE DEF f
  <2>2. Tra!Base - 1 \in 0 .. Tra!Base - 1 /\ 0 \in 0 .. Tra!Base - 1 BY <1>1
  <2>3. \A s \in Tra!ArgSlots : s \in Tra!Base .. Tra!Slots - 1 /\ s - Tra!Base < nargs - Tra!NRegs
    BY DEF Tra!ArgSlots
  <2>4. /\ DOMAIN f.stack = 0 .. Tra!Slots - 1 /\ f.stack[Tra!Base - 1] = Tra!Ret
        /\ type = "PUSHBP" => f.stack[0] = Tra!Addr(C - Tra!W)
        /\ \A s \in Tra!ArgSlots : f.stack[s] = Tra!Arg(Tra!NRegs + s - Tra!Base)
    BY <1>1, <2>1, <2>2, <2>3, FilledFrame
  <2> QED BY <2>1, <2>4 DEF f
<1>3. CASE arch = "linux_x86_64"
  <2> DEFINE h == [s \in 0 .. 1 |-> IF s = 1 THEN Tra!Sym("after") ELSE IF type = "PUSHBP" THEN rbp ELSE Tra!Junk]
  <2>1. f = Tra!linux_x86_64_frame BY <1>3 DEF Tra!fake_frame
  <2>2. Tra!Base = 2 /\ Tra!W = 8 /\ Tra!Ret = Tra!Sym("after") BY <1>3 DEF Tra!Base, Tra!W, Tra!Ret
  <2>3. h[1] = Tra!Ret /\ (type = "PUSHBP" => h[0] = rbp) /\ Tra!Base - 1 = 1 BY <2>2
  <2>4. f.stack = Tra!Filled(Tra!Base, h) /\ f.rip = Tra!Entry /\ f.args = Tra!Base
        /\ f.rsp = Tra!FrameBase + (IF type = "PUSHBP" THEN 0 ELSE 8)
    BY <2>1, <2>2 DEF Tra!linux_x86_64_frame
  <2>5. f.rsp = Tra!FrameBase + Tra!W * (Tra!Base - 1) - (IF type = "PUSHBP" THEN Tra!W ELSE 0)
    BY <1>1, <2>2, <2>4
  <2> HIDE DEF h, f
  <2> QED BY <2>3, <2>4, <2>5
<1>4. CASE arch = "linux_x86"
  <2> DEFINE n == IF type = "PUSHBP" THEN 2 ELSE 1
             h == [s \in 0 .. n - 1 |-> IF s = n - 1 THEN Tra!Sym("after") ELSE rbp]
  <2>1. f = Tra!linux_x86_frame BY <1>4 DEF Tra!fake_frame
  <2>2. Tra!Base = n /\ Tra!W = 4 /\ Tra!Ret = Tra!Sym("after") BY <1>4 DEF Tra!Base, Tra!W, Tra!Ret
  <2>3. h[n - 1] = Tra!Ret /\ (type = "PUSHBP" => h[0] = rbp) BY <2>2
  <2>4. f.stack = Tra!Filled(n, h) /\ f.rip = Tra!Entry /\ f.args = n /\ f.rsp = Tra!FrameBase
    BY <2>1 DEF Tra!linux_x86_frame
  <2>5. f.rsp = Tra!FrameBase + Tra!W * (Tra!Base - 1) - (IF type = "PUSHBP" THEN Tra!W ELSE 0)
    BY <1>1, <2>2, <2>4
  <2> HIDE DEF h, f, n
  <2> QED BY <2>2, <2>3, <2>4, <2>5
<1>5. CASE arch = "darwin_x86_64"
  <2> DEFINE h == [s \in 0 .. 1 |-> IF s = 1 THEN IF type = "PUSHBP" THEN Tra!Sym("tramp1") ELSE Tra!Sym("tramp0")
                                    ELSE IF type = "PUSHBP" THEN rbp ELSE Tra!Junk]
  <2>1. f = Tra!darwin_x86_64_frame BY <1>5 DEF Tra!fake_frame
  <2>2. Tra!Base = 2 /\ Tra!W = 8 /\ Tra!Ret = (IF type = "PUSHBP" THEN Tra!Sym("tramp1") ELSE Tra!Sym("tramp0"))
    BY <1>5 DEF Tra!Base, Tra!W, Tra!Ret
  <2>3. h[1] = Tra!Ret /\ (type = "PUSHBP" => h[0] = rbp) /\ Tra!Base - 1 = 1 BY <2>2
  <2>4. f.stack = Tra!Filled(Tra!Base, h) /\ f.rip = Tra!Entry /\ f.args = Tra!Base
        /\ f.rsp = Tra!FrameBase + (IF type = "PUSHBP" THEN 0 ELSE 8)
    BY <2>1, <2>2 DEF Tra!darwin_x86_64_frame
  <2>5. f.rsp = Tra!FrameBase + Tra!W * (Tra!Base - 1) - (IF type = "PUSHBP" THEN Tra!W ELSE 0)
    BY <1>1, <2>2, <2>4
  <2> HIDE DEF h, f
  <2> QED BY <2>3, <2>4, <2>5
<1> QED BY <1>3, <1>4, <1>5 DEF Tra!CallInv, Tra!Platforms

\* The step leaves the call that is being made alone.
Same == /\ arch' = arch /\ type' = type /\ nargs' = nargs /\ C' = C /\ wish' = wish /\ changed' = changed

\* Then what depends only on the call is unchanged.
LEMMA CallSame ==
  ASSUME Same
  PROVE  /\ Tra!W' = Tra!W /\ Tra!Slots' = Tra!Slots /\ Tra!NRegs' = Tra!NRegs /\ Tra!FrameBase' = Tra!FrameBase
         /\ Tra!Base' = Tra!Base /\ Tra!Ret' = Tra!Ret /\ Tra!Passed' = Tra!Passed /\ Tra!ArgSlots' = Tra!ArgSlots
         /\ Tra!Entry' = Tra!Entry
         /\ Tra!CallInv /\ DOMAIN stack' = 0 .. Tra!Slots - 1 => Tra!CallInv'
<1>1. Tra!W' = Tra!W /\ Tra!Slots' = Tra!Slots /\ Tra!NRegs' = Tra!NRegs /\ Tra!FrameAlign' = Tra!FrameAlign
  BY DEF Same, Tra!W, Tra!Slots, Tra!NRegs, Tra!FrameAlign
<1>2. Tra!FrameBase' = Tra!FrameBase BY <1>1 DEF Same, Tra!FrameBase
<1>3. Tra!Base' = Tra!Base /\ Tra!Ret' = Tra!Ret /\ Tra!Entry' = Tra!Entry BY DEF Same, Tra!Base, Tra!Ret, Tra!Entry
<1>4. Tra!Passed' = Tra!Passed BY <1>1 DEF Same, Tra!Passed
<1>5. Tra!ArgSlots' = Tra!ArgSlots BY <1>1, <1>3 DEF Same, Tra!ArgSlots
<1>6. ASSUME Tra!CallInv, DOMAIN stack' = 0 .. Tra!Slots - 1 PROVE Tra!CallInv'
  BY <1>1, <1>6 DEF Same, Tra!CallInv
<1> QED BY <1>1, <1>2, <1>3, <1>4, <1>5, <1>6

\* intercept_tramp builds the frame.
LEMMA TrampKeeps == ASSUME Tra!Machine, Tra!TrampolineInv, Tra!intercept_tramp PROVE Tra!TrampolineInv'
<1> DEFINE f == Tra!fake_frame
<1>1. /\ pc = "tramp" /\ pc' = "before" /\ stack' = f.stack /\ Tra!CallInv /\ Tra!TrampInv
      /\ rbp' = rbp /\ Same /\ tramp_uc' = [tramp_uc EXCEPT !.rsp = f.rsp, !.rip = f.rip, !.rbp = rbp]
  BY DEF Tra!intercept_tramp, Tra!TrampolineInv, Tra!call, Same
<1>2. tramp_uc = [rip |-> Tra!Sym("f"), rsp |-> C, rbp |-> Tra!Sym("caller_bp"), regs |-> Tra!Passed]
  BY <1>1 DEF Tra!TrampInv
<1>3. /\ DOMAIN f.stack = 0 .. Tra!Slots - 1
      /\ f.stack[Tra!Base - 1] = Tra!Ret
      /\ type = "PUSHBP" => f.stack[0] = Tra!Addr(C - Tra!W)
      /\ \A s \in Tra!ArgSlots : f.stack[s] = Tra!Arg(Tra!NRegs + s - Tra!Base)
      /\ f.rsp = Tra!FrameBase + Tra!W * (Tra!Base - 1) - (IF type = "PUSHBP" THEN Tra!W ELSE 0)
      /\ f.rip = Tra!Entry
  BY <1>1, FakeFrame
<1> HIDE DEF f
<1>4. tramp_uc' = [rip |-> f.rip, rsp |-> f.rsp, rbp |-> rbp, regs |-> Tra!Passed]
  BY <1>1, <1>2
<1>5. Tra!CallInv' BY <1>1, <1>3, CallSame
<1>6. Tra!BeforeInv'
  <2>1. rbp' = Tra!Addr(C' - Tra!W') BY <1>1, CallSame DEF Tra!TrampInv, Same
  <2>2. Tra!FrameHead' BY <1>1, <1>3, CallSame DEF Tra!FrameHead, Same
  <2>3. \A s \in Tra!ArgSlots' : stack'[s] = Tra!Arg(Tra!NRegs' + s - Tra!Base') BY <1>1, <1>3, CallSame
  <2>4. tramp_uc' = [rip |-> Tra!Entry', rbp |-> rbp', regs |-> Tra!Passed',
                     rsp |-> Tra!FrameBase' + Tra!W' * (Tra!Base' - 1) - (IF type' = "PUSHBP" THEN Tra!W' ELSE 0)]
    BY <1>1, <1>3, <1>4, CallSame DEF Same
  <2> QED BY <2>1, <2>2, <2>3, <2>4 DEF Tra!BeforeInv
<1> QED BY <1>1, <1>5, <1>6 DEF Tra!TrampolineInv, Tra!ReturnsToCaller, Tra!HighHalfReturned

\* leave and ret at the end of the trampoline lead back to the caller.
LEMMA EpilogueReturns ==
  ASSUME Tra!CallInv, Same, rbp = Tra!Addr(C - Tra!W), NEW v, Tra!Epilogue(v)
  PROVE  rip' = Tra!Sym("caller") /\ rsp' = C' + Tra!W' /\ rbp' = Tra!Sym("caller_bp") /\ rax' = v
<1>1. rbp[2] = C - Tra!W BY DEF Tra!Addr
<1>2. C \in Int /\ Tra!W \in {4, 8} BY Sizes DEF Tra!CallInv
<1>3. C - Tra!W + 2 * Tra!W = C + Tra!W /\ C - Tra!W + Tra!W = C BY <1>2
<1> QED BY <1>1, <1>3, CallerWords, CallSame DEF Tra!Epilogue, Same

\* A call skipped by before() returns at once.
LEMMA SkipKeeps == ASSUME Tra!Machine, Tra!TrampolineInv, Tra!before_skips PROVE Tra!TrampolineInv'
<1>1. /\ pc = "before" /\ pc' = "returned" /\ wish = "skip" /\ retval' = Tra!Sym("skip_rv")
      /\ Tra!Epilogue(Tra!Sym("skip_rv")) /\ Same /\ stack' = stack /\ Tra!CallInv /\ rbp = Tra!Addr(C - Tra!W)
  BY DEF Tra!before_skips, Tra!TrampolineInv, Tra!BeforeInv, Tra!call, Same
<1>2. Tra!CallInv' BY <1>1, CallSame DEF Tra!CallInv
<1>3. Tra!ReturnsToCaller' BY <1>1, EpilogueReturns DEF Tra!ReturnsToCaller
<1>4. Tra!HighHalfReturned' BY <1>1 DEF Tra!HighHalfReturned, Same
<1> QED BY <1>1, <1>2, <1>3, <1>4 DEF Tra!TrampolineInv

\* The function returns into the trampoline, with the trampoline's own %rbp.
LEMMA ReturnKeeps ==
  ASSUME Tra!Machine, Tra!TrampolineInv, Tra!function_returns
  PROVE  Tra!TrampolineInv'
<1>1. /\ pc = "entered" /\ pc' = "after" /\ rip' = Tra!Word(Tra!EntrySp) /\ rsp' = Tra!EntrySp + Tra!W
      /\ rbp' = (IF rip = Tra!Sym("f+1") THEN Tra!Word(rsp) ELSE rbp) /\ rax' = retval'
      /\ edx' = Tra!Sym("rv_high") /\ Same /\ stack' = stack /\ Tra!CallInv /\ Tra!EnteredInv
  BY DEF Tra!function_returns, Tra!TrampolineInv, Tra!call, Same
<1>2. Tra!CallInv' BY <1>1, CallSame DEF Tra!CallInv
<1>3. /\ Tra!Base \in {1, 2} /\ Tra!W \in {4, 8} /\ Tra!Slots \in {28, 36} /\ Tra!FrameBase \in Int
      /\ Tra!Base - 1 \in 0 .. Tra!Slots - 1 /\ 0 \in 0 .. Tra!Slots - 1
  BY <1>1, Sizes
<1>4. /\ rbp = Tra!Addr(C - Tra!W) /\ Tra!EntrySp = Tra!FrameBase + Tra!W * (Tra!Base - 1)
      /\ rip = Tra!Sym("f+1") => type = "PUSHBP" /\ rsp = Tra!FrameBase
      /\ stack[Tra!Base - 1] = Tra!Ret /\ (type = "PUSHBP" => stack[0] = Tra!Addr(C - Tra!W))
  BY <1>1 DEF Tra!EnteredInv, Tra!FrameHead
<1>5. rip' = Tra!Ret
  <2>1. Tra!Word(Tra!FrameBase + Tra!W * (Tra!Base - 1)) = stack[Tra!Base - 1] BY <1>1, <1>3, FrameWord
  <2> QED BY <1>1, <1>4, <2>1
<1>6. Tra!Word(Tra!FrameBase) = stack[0]
  <2>1. Tra!FrameBase + Tra!W * 0 = Tra!FrameBase BY <1>3
  <2> QED BY <1>1, <1>3, <2>1, FrameWord
<1>7. rbp' = Tra!Addr(C - Tra!W) BY <1>1, <1>4, <1>6 DEF Tra!EnteredInv, Tra!FrameHead
<1>8. rsp' = Tra!FrameBase + Tra!W * Tra!Base BY <1>1, <1>3, <1>4
<1>9. Tra!AfterInv' BY <1>1, <1>5, <1>7, <1>8, CallSame DEF Tra!AfterInv, Same
<1> QED BY <1>1, <1>2, <1>9 DEF Tra!TrampolineInv, Tra!ReturnsToCaller, Tra!HighHalfReturned

\* The code at the after label, or __np_intercept_after on Darwin, finds its
\* frame and returns to the caller with the value chosen.
LEMMA AfterKeeps ==
  ASSUME Tra!Machine, Tra!TrampolineInv, Tra!linux_x86_64_after \/ Tra!linux_x86_after \/ Tra!__np_intercept_after
  PROVE  Tra!TrampolineInv'
<1>1. /\ pc = "after" /\ pc' = "returned" /\ Same /\ stack' = stack /\ Tra!CallInv /\ Tra!AfterInv
  BY DEF Tra!linux_x86_64_after, Tra!linux_x86_after, Tra!__np_intercept_after, Tra!TrampolineInv, Tra!call, Same
<1>2. Tra!CallInv' BY <1>1, CallSame DEF Tra!CallInv
<1>3. rbp = Tra!Addr(C - Tra!W) /\ rip = Tra!Ret /\ rsp = Tra!FrameBase + Tra!W * Tra!Base /\ edx = Tra!Sym("rv_high")
  BY <1>1 DEF Tra!AfterInv
<1>4. Tra!__np_intercept_after => Tra!frame_found /\ arch = "darwin_x86_64"
  <2> SUFFICES ASSUME Tra!__np_intercept_after PROVE Tra!frame_found /\ arch = "darwin_x86_64" OBVIOUS
  <2>1. rip \in {Tra!Sym("tramp0"), Tra!Sym("tramp1")} BY DEF Tra!__np_intercept_after
  <2>2. arch = "darwin_x86_64" BY <1>3, <2>1 DEF Tra!Ret, Tra!Sym
  <2>3. Tra!W = 8 /\ Tra!Base = 2 /\ Tra!FrameBase \in Int /\ Tra!FrameBase % 16 = 0 BY <1>1, <2>2, Sizes
  <2>4. Tra!frame_arg = Tra!FrameBase BY <1>3, <2>3 DEF Tra!frame_arg
  <2> QED BY <2>2, <2>3, <2>4 DEF Tra!frame_found
<1>5. \E v : retval' = v /\ Tra!Epilogue(v)
  BY <1>4 DEF Tra!linux_x86_64_after, Tra!linux_x86_after, Tra!__np_intercept_after
<1>6. Tra!ReturnsToCaller' BY <1>1, <1>3, <1>5, EpilogueReturns DEF Tra!ReturnsToCaller
<1>7. Tra!HighHalfReturned'
  BY <1>1, <1>3, <1>4 DEF Tra!HighHalfReturned, Tra!linux_x86_64_after, Tra!linux_x86_after, Tra!returned_edx_, Same
<1> QED BY <1>1, <1>2, <1>6, <1>7 DEF Tra!TrampolineInv

\* set_arg() changes one place and no other.
LEMMA SetChanges ==
  ASSUME NEW kind, NEW f, NEW p, NEW k
  PROVE  /\ DOMAIN Tra!Set(kind, f, p, k) = DOMAIN f
         /\ \A x \in DOMAIN f : Tra!Set(kind, f, p, k)[x]
              = IF p[1] = kind /\ p[2] = x THEN Tra!New(k) ELSE f[x]
BY DEF Tra!Set

\* The place of an argument, and that no two arguments share one.
LEMMA ArgPlace ==
  ASSUME Tra!CallInv, NEW c \in Nat
  PROVE  Tra!argp(Tra!Base, c)
           = IF c < Tra!NRegs THEN <<"reg", c>> ELSE <<"stack", Tra!Base + c - Tra!NRegs>>
<1>1. CASE arch = "linux_x86"
  <2>1. Tra!NRegs = 0 /\ Tra!Base \in {1, 2} BY <1>1, Sizes
  <2>2. ~ c < Tra!NRegs /\ Tra!Base + c - Tra!NRegs = Tra!Base + c BY <2>1
  <2> QED BY <1>1, <2>2 DEF Tra!argp, Tra!x86_argp
<1>2. CASE arch # "linux_x86"
  <2>1. Tra!NRegs = 6 /\ Tra!Base = 2 BY <1>2, Sizes
  <2> QED BY <1>2, <2>1 DEF Tra!argp, Tra!x86_64_argp
<1> QED BY <1>1, <1>2

\* The stack arguments are those from NRegs on.
LEMMA FrameArgs ==
  ASSUME Tra!CallInv PROVE Tra!fake_frame.args = Tra!Base
BY DEF Tra!CallInv, Tra!Platforms, Tra!fake_frame, Tra!linux_x86_64_frame, Tra!linux_x86_frame,
       Tra!darwin_x86_64_frame, Tra!Base

\* before() may change an argument or redirect the call; the function that is
\* entered finds the frame as its caller would have left it.
LEMMA BeforeKeeps == ASSUME Tra!Machine, Tra!TrampolineInv, Tra!before PROVE Tra!TrampolineInv'
<1> DEFINE uc == IF wish = "redirect" THEN Tra!Redirected(tramp_uc) ELSE tramp_uc
           p == IF changed = Tra!NoArg THEN <<"none", 0>> ELSE Tra!argp(Tra!Base, changed)
           low == Tra!FrameBase + Tra!W * (Tra!Base - 1) - (IF type = "PUSHBP" THEN Tra!W ELSE 0)
<1>1. /\ pc = "before" /\ wish # "skip" /\ pc' = "entered" /\ Same /\ Tra!CallInv /\ Tra!BeforeInv
      /\ stack' = Tra!Set("stack", stack, p, changed) /\ regs' = Tra!Set("reg", uc.regs, p, changed)
      /\ rip' = uc.rip /\ rsp' = uc.rsp /\ rbp' = uc.rbp
  BY FrameArgs DEF Tra!before, Tra!TrampolineInv, Tra!call, Same
<1>2. tramp_uc = [rip |-> Tra!Entry, rbp |-> rbp, regs |-> Tra!Passed, rsp |-> low]
  BY <1>1 DEF Tra!BeforeInv
<1>3. /\ uc.rbp = rbp /\ uc.regs = Tra!Passed
      /\ wish = "redirect" => uc.rip = Tra!Sym("mock") /\ uc.rsp = (IF type = "PUSHBP" THEN low + Tra!W ELSE low)
      /\ wish # "redirect" => uc.rip = Tra!Entry /\ uc.rsp = low
  <2> HIDE DEF low
  <2>1. CASE wish = "redirect" BY <1>2, <2>1 DEF Tra!Redirected
  <2>2. CASE wish # "redirect" BY <1>2, <2>2
  <2> QED BY <2>1, <2>2
<1> HIDE DEF uc
<1>4. /\ Tra!Base \in {1, 2} /\ Tra!W \in {4, 8} /\ Tra!Slots \in {28, 36} /\ Tra!FrameBase \in Int
      /\ Tra!NRegs \in {0, 6} /\ nargs \in Nat /\ changed \in (0 .. nargs - 1) \cup {-1}
      /\ type = "PUSHBP" => Tra!Base = 2
  BY <1>1, Sizes DEF Tra!CallInv, Tra!NoArg, Tra!Base
<1>5. /\ changed = -1 => p = <<"none", 0>>
      /\ changed # -1 => /\ changed \in Nat
                         /\ changed < Tra!NRegs => p = <<"reg", changed>>
                         /\ ~ changed < Tra!NRegs => p = <<"stack", Tra!Base + changed - Tra!NRegs>>
  BY <1>1, <1>4, ArgPlace DEF Tra!NoArg
<1> HIDE DEF p
<1>6. /\ DOMAIN stack = 0 .. Tra!Slots - 1 /\ DOMAIN stack' = DOMAIN stack
      /\ \A s \in 0 .. Tra!Slots - 1 : stack'[s]
           = IF p[1] = "stack" /\ p[2] = s THEN Tra!New(changed) ELSE stack[s]
  <2>1. DOMAIN stack = 0 .. Tra!Slots - 1 BY <1>1 DEF Tra!CallInv
  <2>2. /\ DOMAIN Tra!Set("stack", stack, p, changed) = DOMAIN stack
        /\ \A x \in DOMAIN stack : Tra!Set("stack", stack, p, changed)[x]
             = IF p[1] = "stack" /\ p[2] = x THEN Tra!New(changed) ELSE stack[x]
    BY SetChanges
  <2>3. DOMAIN stack' = DOMAIN Tra!Set("stack", stack, p, changed) BY <1>1
  <2> QED BY <1>1, <2>1, <2>2, <2>3
<1>7. \A k \in 0 .. 5 : regs'[k] = IF p[1] = "reg" /\ p[2] = k THEN Tra!New(changed) ELSE Tra!Passed[k]
  <2>1. DOMAIN Tra!Passed = 0 .. 5 BY DEF Tra!Passed
  <2> QED BY <1>1, <1>3, <2>1, SetChanges
<1>8. Tra!CallInv' BY <1>1, <1>6, CallSame
<1>9. Tra!FrameHead'
  <2>1. \A s \in 0 .. Tra!Base - 1 : s \in 0 .. Tra!Slots - 1 /\ ~(p[1] = "stack" /\ p[2] = s)
    <3> SUFFICES ASSUME NEW s \in 0 .. Tra!Base - 1, p[1] = "stack", p[2] = s PROVE FALSE
      BY <1>4
    <3>1. changed \in Nat /\ ~ changed < Tra!NRegs /\ p = <<"stack", Tra!Base + changed - Tra!NRegs>>
      BY <1>5
    <3>2. Tra!Base + changed - Tra!NRegs >= Tra!Base BY <1>4, <3>1
    <3> QED BY <1>4, <3>1, <3>2
  <2>2. Tra!Base - 1 \in 0 .. Tra!Base - 1 /\ 0 \in 0 .. Tra!Base - 1 BY <1>4
  <2>3. stack'[Tra!Base - 1] = stack[Tra!Base - 1] /\ stack'[0] = stack[0] BY <1>6, <2>1, <2>2
  <2> QED BY <1>1, <2>3, CallSame DEF Tra!BeforeInv, Tra!FrameHead, Same
<1>10. \A s \in Tra!ArgSlots : stack'[s] = Tra!Meant(Tra!NRegs + s - Tra!Base)
  <2> SUFFICES ASSUME NEW s \in Tra!ArgSlots PROVE stack'[s] = Tra!Meant(Tra!NRegs + s - Tra!Base)
    OBVIOUS
  <2> DEFINE k == Tra!NRegs + s - Tra!Base
  <2>1. s \in Tra!Base .. Tra!Slots - 1 /\ stack[s] = Tra!Arg(k) BY <1>1 DEF Tra!BeforeInv, Tra!ArgSlots
  <2>2. s \in 0 .. Tra!Slots - 1 /\ k \in Nat /\ ~ k < Tra!NRegs BY <1>4, <2>1
  <2>3. (p[1] = "stack" /\ p[2] = s) <=> k = changed
    <3>1. CASE changed = -1 BY <1>5, <2>2, <3>1
    <3>2. CASE changed # -1 /\ changed < Tra!NRegs BY <1>5, <2>2, <3>2
    <3>3. CASE changed # -1 /\ ~ changed < Tra!NRegs
      <4>1. p[1] = "stack" /\ p[2] = Tra!Base + changed - Tra!NRegs /\ changed \in Nat BY <1>5, <3>3
      <4> QED BY <1>4, <2>1, <4>1
    <3> QED BY <3>1, <3>2, <3>3
  <2> HIDE DEF k
  <2>4. stack'[s] = Tra!Meant(k) BY <1>6, <2>1, <2>2, <2>3 DEF Tra!Meant
  <2> QED BY <2>4 DEF k
<1>11. \A k \in 0 .. nargs - 1 : k < Tra!NRegs => regs'[k] = Tra!Meant(k)
  <2> SUFFICES ASSUME NEW k \in 0 .. nargs - 1, k < Tra!NRegs PROVE regs'[k] = Tra!Meant(k)
    OBVIOUS
  <2>1. k \in 0 .. 5 /\ k \in Nat /\ k < nargs BY <1>4
  <2>2. Tra!Passed[k] = Tra!Arg(k) BY <2>1 DEF Tra!Passed
  <2>3. (p[1] = "reg" /\ p[2] = k) <=> k = changed
    <3>1. CASE changed = -1 BY <1>5, <2>1, <3>1
    <3>2. CASE changed # -1 /\ changed < Tra!NRegs BY <1>5, <2>1, <3>2
    <3>3. CASE changed # -1 /\ ~ changed < Tra!NRegs BY <1>5, <2>1, <3>3
    <3> QED BY <3>1, <3>2, <3>3
  <2> QED BY <1>7, <2>1, <2>2, <2>3 DEF Tra!Meant
<1>12. Tra!Sym("mock") # Tra!Sym("f+1") /\ Tra!Sym("f") # Tra!Sym("f+1") BY DEF Tra!Sym
<1>13. low \in Int /\ (type = "PUSHBP" => low = Tra!FrameBase /\ low + Tra!W = Tra!FrameBase + Tra!W * (Tra!Base - 1))
       /\ (type # "PUSHBP" => low = Tra!FrameBase + Tra!W * (Tra!Base - 1))
  BY <1>4
<1> HIDE DEF low
<1>14. /\ rip' = Tra!Sym("f+1") => type = "PUSHBP" /\ rsp' = Tra!FrameBase
       /\ Tra!EntrySp' = Tra!FrameBase + Tra!W * (Tra!Base - 1)
  <2>1. Tra!EntrySp' = IF rip' = Tra!Sym("f+1") THEN rsp' + Tra!W ELSE rsp'
    BY <1>1, CallSame DEF Tra!EntrySp
  <2>2. CASE wish = "redirect" BY <1>1, <1>3, <1>12, <1>13, <2>1, <2>2
  <2>3. CASE wish # "redirect" /\ type = "PUSHBP" BY <1>1, <1>3, <1>13, <2>1, <2>3 DEF Tra!Entry
  <2>4. CASE wish # "redirect" /\ type # "PUSHBP" BY <1>1, <1>3, <1>12, <1>13, <2>1, <2>4 DEF Tra!Entry
  <2> QED BY <2>2, <2>3, <2>4
<1>15. Tra!EnteredInv'
  <2>1. \A k : Tra!Meant(k)' = Tra!Meant(k) BY <1>1 DEF Same, Tra!Meant
  <2>2. rbp' = Tra!Addr(C' - Tra!W') BY <1>1, <1>3, CallSame DEF Same, Tra!BeforeInv
  <2>4. \A k \in 0 .. nargs' - 1 : k < Tra!NRegs' => regs'[k] = Tra!Meant(k)'
    BY <1>1, <1>11, <2>1, CallSame DEF Same
  <2>5. /\ rip' = Tra!Sym("f+1") => type' = "PUSHBP" /\ rsp' = Tra!FrameBase'
        /\ Tra!EntrySp' = Tra!FrameBase' + Tra!W' * (Tra!Base' - 1) /\ wish' # "skip"
    BY <1>1, <1>14, CallSame DEF Same
  <2>6. \A s \in Tra!ArgSlots' : stack'[s] = Tra!Meant(Tra!NRegs + s - Tra!Base)'
    BY <1>1, <1>10, <2>1, CallSame
  <2> QED BY <1>9, <2>2, <2>4, <2>5, <2>6 DEF Tra!EnteredInv
<1> QED BY <1>1, <1>8, <1>15 DEF Tra!TrampolineInv, Tra!ReturnsToCaller, Tra!HighHalfReturned

\* Every step keeps the invariant of the call.
LEMMA CallStep == ASSUME Tra!Machine, Tra!TrampolineInv, [Tra!Next]_Tra!vars PROVE Tra!TrampolineInv'
<1>1. ASSUME UNCHANGED Tra!vars PROVE Tra!TrampolineInv'
  <2>1. /\ Same /\ pc' = pc /\ rip' = rip /\ rsp' = rsp /\ rbp' = rbp /\ rax' = rax /\ edx' = edx
        /\ regs' = regs /\ stack' = stack /\ tramp_uc' = tramp_uc /\ retval' = retval
    BY <1>1 DEF Tra!vars, Same
  <2>2. Tra!CallInv' BY <2>1, CallSame DEF Tra!TrampolineInv, Tra!CallInv
  <2>3. Tra!FrameHead' = Tra!FrameHead /\ Tra!EntrySp' = Tra!EntrySp /\ \A k : Tra!Meant(k)' = Tra!Meant(k)
    BY <2>1, CallSame DEF Tra!FrameHead, Tra!EntrySp, Tra!Meant, Same
  <2>4. pc = "called" => Tra!CalledInv' BY <2>1, CallSame DEF Tra!TrampolineInv, Tra!CalledInv, Same
  <2>5. pc = "tramp" => Tra!TrampInv' BY <2>1, CallSame DEF Tra!TrampolineInv, Tra!TrampInv, Same
  <2>6. pc = "before" => Tra!BeforeInv' BY <2>1, <2>3, CallSame DEF Tra!TrampolineInv, Tra!BeforeInv, Same
  <2>7. pc = "entered" => Tra!EnteredInv' BY <2>1, <2>3, CallSame DEF Tra!TrampolineInv, Tra!EnteredInv, Same
  <2>8. pc = "after" => Tra!AfterInv' BY <2>1, CallSame DEF Tra!TrampolineInv, Tra!AfterInv, Same
  <2>9. Tra!ReturnsToCaller' /\ Tra!HighHalfReturned'
    BY <2>1, CallSame DEF Tra!TrampolineInv, Tra!ReturnsToCaller, Tra!HighHalfReturned, Same
  <2>10. pc' \in {"called", "tramp", "before", "entered", "after", "returned"} BY <2>1 DEF Tra!TrampolineInv
  <2> QED BY <2>1, <2>2, <2>4, <2>5, <2>6, <2>7, <2>8, <2>9, <2>10 DEF Tra!TrampolineInv
<1> QED BY <1>1, SignalKeeps, TrampKeeps, SkipKeeps, BeforeKeeps, ReturnKeeps, AfterKeeps DEF Tra!Next

\* The invariant of the step a call is at shows what the property says of it.
LEMMA TrampolineShows == ASSUME Tra!TrampolineInv PROVE Tra!TrampolineUnseen
<1>1. Tra!CallInv /\ Tra!ReturnsToCaller /\ Tra!HighHalfReturned BY DEF Tra!TrampolineInv
<1>2. /\ Tra!Base \in {1, 2} /\ Tra!W \in {4, 8} /\ Tra!Slots \in {28, 36} /\ Tra!FrameBase \in Int
      /\ Tra!NRegs \in {0, 6} /\ nargs \in Nat /\ Tra!Base - 1 \in 0 .. Tra!Slots - 1 /\ 0 \in 0 .. Tra!Slots - 1
  BY <1>1, Sizes DEF Tra!CallInv
<1>3. ASSUME pc = "entered"
      PROVE  /\ Tra!EntrySp = Tra!FrameBase + Tra!W * (Tra!Base - 1) /\ Tra!EnteredInv /\ Tra!FrameHead
  BY <1>3 DEF Tra!TrampolineInv, Tra!EnteredInv
<1>4. Tra!CalleeSeesCall
  <2> SUFFICES ASSUME pc = "entered"
               PROVE  /\ Tra!Word(Tra!EntrySp) \in {Tra!Sym("after"), Tra!Sym("tramp0"), Tra!Sym("tramp1")}
                      /\ rip = Tra!Sym("f+1") => Tra!Word(rsp) = Tra!Addr(C - Tra!W)
                      /\ \A k \in 0 .. nargs - 1 : k - Tra!NRegs < Tra!Room => Tra!Seen(k) = Tra!Meant(k)
    BY DEF Tra!CalleeSeesCall
  <2>1. Tra!Word(Tra!EntrySp) = stack[Tra!Base - 1] BY <1>1, <1>2, <1>3, FrameWord
  <2>2. Tra!Word(Tra!EntrySp) \in {Tra!Sym("after"), Tra!Sym("tramp0"), Tra!Sym("tramp1")}
    BY <1>3, <2>1 DEF Tra!FrameHead, Tra!Ret
  <2>3. Tra!FrameBase + Tra!W * 0 = Tra!FrameBase BY <1>2
  <2>4. Tra!Word(Tra!FrameBase) = stack[0] BY <1>1, <1>2, <2>3, FrameWord
  <2>5. rip = Tra!Sym("f+1") => Tra!Word(rsp) = Tra!Addr(C - Tra!W)
    BY <1>3, <2>4 DEF Tra!EnteredInv, Tra!FrameHead
  <2>6. ASSUME NEW k \in 0 .. nargs - 1, k - Tra!NRegs < Tra!Room PROVE Tra!Seen(k) = Tra!Meant(k)
    <3>1. CASE k < Tra!NRegs BY <1>3, <3>1 DEF Tra!Seen, Tra!EnteredInv
    <3>2. CASE ~ k < Tra!NRegs
      <4> DEFINE s == Tra!Base + k - Tra!NRegs
      <4>1. s \in Int /\ s \in Tra!Base .. Tra!Slots - 1 /\ s \in 0 .. Tra!Slots - 1 /\ Tra!NRegs + s - Tra!Base = k
            /\ s - Tra!Base < nargs - Tra!NRegs
        BY <1>2, <2>6, <3>2 DEF Tra!Room
      <4>2. s \in Tra!ArgSlots BY <4>1 DEF Tra!ArgSlots
      <4>3. stack[s] = Tra!Meant(k) BY <1>3, <4>1, <4>2 DEF Tra!EnteredInv
      <4>4. Tra!EntrySp + Tra!W + Tra!W * (k - Tra!NRegs) = Tra!FrameBase + Tra!W * s
        <5>1. CASE Tra!W = 4 BY <1>2, <1>3, <5>1
        <5>2. CASE Tra!W = 8 BY <1>2, <1>3, <5>2
        <5> QED BY <1>2, <5>1, <5>2
      <4> HIDE DEF s
      <4>5. Tra!Word(Tra!FrameBase + Tra!W * s) = stack[s] BY <1>1, <4>1, FrameWord
      <4> QED BY <3>2, <4>3, <4>4, <4>5 DEF Tra!Seen
    <3> QED BY <3>1, <3>2
  <2> QED BY <2>2, <2>5, <2>6
<1>5. Tra!CalleeAligned
  <2> SUFFICES ASSUME pc = "entered", arch # "linux_x86" PROVE (Tra!EntrySp + Tra!W) % 16 = 0
    BY DEF Tra!CalleeAligned
  <2>1. Tra!W = 8 /\ Tra!Base = 2 /\ Tra!FrameBase % 16 = 0 BY <1>1, Sizes
  <2>2. Tra!EntrySp + Tra!W = Tra!FrameBase + 16 BY <1>2, <1>3, <2>1
  <2> QED BY <1>2, <2>1, <2>2
<1> QED BY <1>1, <1>4, <1>5 DEF Tra!TrampolineUnseen

\* An intercepted call looks to the function (or its replacement) and to the
\* caller like an ordinary call: for all three platforms, any number of
\* arguments, any aligned stack pointer, whether the function starts with push
\* %rbp or not, and whatever before() and after() do (handle_signal,
\* intercept_tramp).
THEOREM CallsAreTransparent == ASSUME Tra!Machine PROVE Tra!Spec => []Tra!TrampolineUnseen
<1>1. Tra!Init => Tra!TrampolineInv BY CallStarts
<1>2. Tra!TrampolineInv /\ [Tra!Next]_Tra!vars => Tra!TrampolineInv' BY CallStep
<1>3. Tra!TrampolineInv => Tra!TrampolineUnseen BY TrampolineShows
<1> QED BY <1>1, <1>2, <1>3, PTL DEF Tra!Spec

-----------------------------------------------------------------------------
(* Writing to the text, for pages of any size, any number of them and      *)
(* bytes anywhere in the text, across a page boundary or not.              *)

CONSTANTS
  PageSize, NPages, MaxLen, CodePages, StubPage, LibPages, Platforms,
  RestoreMayFail

VARIABLES platform, code, lib, prot, text, to, len, copied, ret, runs

Wri == INSTANCE TextWrite WITH i <- copied, r <- ret

\* An address is on its page.
LEMMA DivBounds ==
  ASSUME NEW d \in Nat \ {0}, NEW x \in Nat
  PROVE  /\ x \div d \in Nat
         /\ (x \div d) * d <= x
         /\ x < (x \div d) * d + d
OBVIOUS

\* Pages are ordered as their first addresses.
LEMMA TimesMonotone ==
  ASSUME NEW d \in Nat \ {0}, NEW p \in Nat, NEW q \in Nat, p * d < q * d
  PROVE  p < q
OBVIOUS

\* ... and the next page begins where a page ends.
LEMMA TimesSucc ==
  ASSUME NEW d \in Nat, NEW q \in Nat
  PROVE  (q + 1) * d = q * d + d /\ q * d \in Nat
OBVIOUS

\* ... and pages that are not later do not begin later.
LEMMA TimesLeq ==
  ASSUME NEW d \in Nat \ {0}, NEW p \in Nat, NEW q \in Nat, p <= q
  PROVE  p * d <= q * d
OBVIOUS

\* An address is a number below the end of the text.
LEMMA AddressNat ==
  ASSUME Wri!Placed, NEW a \in Wri!Addresses
  PROVE  a \in Nat /\ a < NPages * PageSize
BY TimesSucc DEF Wri!Placed, Wri!Addresses

\* The page of an address is one of the pages.
LEMMA PageOfType ==
  ASSUME Wri!Placed, NEW a \in Wri!Addresses
  PROVE  Wri!PageOf(a) \in Wri!Pages
<1>1. a \in Nat /\ a < NPages * PageSize
  BY AddressNat
<1>2. Wri!PageOf(a) \in Nat /\ Wri!PageOf(a) * PageSize <= a
  BY <1>1, DivBounds DEF Wri!Placed, Wri!PageOf
<1>3. Wri!PageOf(a) * PageSize < NPages * PageSize
  BY <1>1, <1>2, TimesSucc DEF Wri!Placed
<1>4. Wri!PageOf(a) < NPages
  BY <1>2, <1>3, TimesMonotone DEF Wri!Placed
<1>5. QED
  BY <1>2, <1>4 DEF Wri!Pages, Wri!Placed

\* The pages that text_map_writable() makes writable have all the bytes on them.
LEMMA SpanHasBytes ==
  ASSUME Wri!Placed, NEW a \in Wri!Addresses, NEW n \in Nat \ {0}, NEW k \in 0 .. n - 1,
         a + k \in Wri!Addresses
  PROVE  Wri!PageOf(a + k) \in Wri!Span(a, n)
<1> DEFINE d == PageSize
           p == Wri!PageOf(a + k)
           s == a \div d
           u == (a + n + d - 1) \div d
<1>0. d \in Nat \ {0} /\ a \in Nat /\ a + k \in Nat /\ a + n + d - 1 \in Nat
  BY AddressNat DEF Wri!Placed
<1>1. p \in Nat /\ p * d <= a + k /\ a + k < p * d + d
  BY <1>0, DivBounds DEF Wri!PageOf
<1>2. s \in Nat /\ s * d <= a /\ u \in Nat /\ a + n + d - 1 < u * d + d
  BY <1>0, DivBounds
<1> HIDE DEF d, p, s, u
<1>3. p * d \in Nat /\ u * d \in Nat /\ s * d \in Nat /\ (p + 1) * d = p * d + d
  BY <1>0, <1>1, <1>2, TimesSucc
<1>4. s * d < (p + 1) * d
  BY <1>0, <1>1, <1>2, <1>3
<1>5. s < p + 1
  BY <1>0, <1>1, <1>2, <1>4, TimesMonotone
<1>6. s * d <= p * d
  BY <1>0, <1>1, <1>2, <1>5, TimesLeq
<1>7. p * d < u * d
  BY <1>0, <1>1, <1>2, <1>3
<1>8. p \in Wri!Pages
  BY PageOfType DEF p
<1>9. QED
  BY <1>6, <1>7, <1>8 DEF Wri!Span, Wri!page_round_down, Wri!page_round_up, d, p, s, u

\* ... and no others: the bytes are on their first page and on their last.
LEMMA SpanIsEnds ==
  ASSUME Wri!Placed, NEW a \in Wri!Addresses, NEW n \in Nat \ {0}, n <= PageSize,
         a + n - 1 \in Wri!Addresses, NEW p \in Wri!Span(a, n)
  PROVE  p = Wri!PageOf(a) \/ p = Wri!PageOf(a + n - 1)
<1> DEFINE d == PageSize
           s == a \div d
           e == (a + n - 1) \div d
           u == (a + n + d - 1) \div d
<1>0. d \in Nat \ {0} /\ a \in Nat /\ a + n - 1 \in Nat /\ a + n + d - 1 \in Nat /\ n <= d
  BY AddressNat DEF Wri!Placed
<1>1. p \in Nat /\ p * d >= s * d /\ p * d < u * d
  BY DEF Wri!Span, Wri!page_round_down, Wri!page_round_up, Wri!Pages
<1>2. /\ s \in Nat /\ a < s * d + d
      /\ e \in Nat /\ e * d <= a + n - 1 /\ a + n - 1 < e * d + d
      /\ u \in Nat /\ u * d <= a + n + d - 1
  BY <1>0, DivBounds
<1> HIDE DEF d, s, e, u
<1>3. /\ p * d \in Nat /\ s * d \in Nat /\ e * d \in Nat /\ u * d \in Nat
      /\ (p + 1) * d = p * d + d
      /\ (s + 1) * d = s * d + d /\ ((s + 1) + 1) * d = (s + 1) * d + d
      /\ (e + 1) * d = e * d + d /\ ((e + 1) + 1) * d = (e + 1) * d + d
  BY <1>0, <1>1, <1>2, TimesSucc
<1>4. s < p + 1
  <2>1. s * d < (p + 1) * d
    BY <1>0, <1>1, <1>3
  <2>2. QED
    BY <1>0, <1>1, <1>2, <2>1, TimesMonotone
<1>5. p < u
  BY <1>0, <1>1, <1>2, TimesMonotone
<1>6. u < (e + 1) + 1
  <2>1. u * d < ((e + 1) + 1) * d
    BY <1>0, <1>2, <1>3
  <2>2. QED
    BY <1>0, <1>2, <2>1, TimesMonotone
<1>7. e < (s + 1) + 1
  <2>1. e * d < ((s + 1) + 1) * d
    BY <1>0, <1>2, <1>3
  <2>2. QED
    BY <1>0, <1>2, <2>1, TimesMonotone
<1>8. p = s \/ p = e
  BY <1>1, <1>2, <1>4, <1>5, <1>6, <1>7
<1>9. QED
  BY <1>8 DEF Wri!PageOf, d, s, e

-----------------------------------------------------------------------------
(* text_write().                                                           *)

\* A page that is executable is not writable, and the other way round.
LEMMA RxRw == "EXEC" \in Wri!RX /\ "WRITE" \notin Wri!RX /\ "WRITE" \in Wri!RW /\ "EXEC" \notin Wri!RW
BY DEF Wri!RX, Wri!RW

\* The code that runs while bytes are copied is not on their pages.
LEMMA CriticalCode ==
  ASSUME Wri!Placed, Wri!WriteInv, pc \in {"writable", "copy", "return"}
  PROVE  code \notin Wri!Span(to, len) /\ StubPage \notin Wri!Span(to, len)
<1>1. /\ len \in Nat \ {0} /\ len <= PageSize
      /\ to \in Wri!Addresses /\ to + len - 1 \in Wri!Addresses
      /\ {Wri!PageOf(to), Wri!PageOf(to + len - 1)} \cap {code, StubPage} = {}
  <2>1. /\ len \in 1 .. MaxLen /\ to \in Wri!Addresses /\ to + len - 1 \in Wri!Addresses
        /\ {Wri!PageOf(to), Wri!PageOf(to + len - 1)} \cap {code, StubPage} = {}
    BY Zenon DEF Wri!WriteInv, Wri!ArgsInv
  <2>2. MaxLen \in Nat /\ PageSize \in Nat /\ MaxLen <= PageSize
    BY DEF Wri!Placed
  <2>3. len \in Nat \ {0} /\ len <= PageSize
    BY <2>1, <2>2
  <2> QED BY <2>1, <2>3, Zenon
<1>2. QED
  BY <1>1, SpanIsEnds

\* Before the first call of text_write() the text is as it was and executable.
LEMMA WriteInit ==
  ASSUME Wri!Placed, Wri!Init
  PROVE  Wri!WriteInv
BY DEF Wri!Init, Wri!WriteInv, Wri!ArgsInv, Wri!ProtInv, Wri!TextInv, Wri!AllOrNothing

\* What the two system calls do, and what a failed one does not.
LEMMA ProtectStep ==
  ASSUME Wri!Placed, Wri!WriteInv, NEW p \in {Wri!RW, Wri!RX}, NEW next, Wri!protect(p, next)
  PROVE  \/ /\ prot' = [q \in Wri!Pages |-> IF q \in Wri!Span(to, len) THEN p ELSE prot[q]]
            /\ runs' = StubPage /\ pc' = next /\ ret' = ret
         \/ /\ p = Wri!RW /\ runs' = lib /\ ret' = -1 /\ pc' = "return" /\ prot' = prot
<1>1. p = Wri!RW \/ (p = Wri!RX /\ ~RestoreMayFail)
  BY DEF Wri!Placed
<1>2. QED
  BY <1>1 DEF Wri!protect, Wri!Placed

\* Every step of text_write() keeps the invariant.
LEMMA WriteStep ==
  ASSUME Wri!Placed, Wri!WriteInv, [Wri!Next]_Wri!vars
  PROVE  Wri!WriteInv'
<1> USE DEF Wri!where, Wri!args
<1>1. CASE Wri!call
  <2>1. PICK a \in Wri!Addresses, n \in 1 .. MaxLen :
          /\ a + n - 1 \in Wri!Addresses
          /\ {Wri!PageOf(a), Wri!PageOf(a + n - 1)} \cap {code, StubPage} = {}
          /\ to' = a /\ len' = n
    BY <1>1 DEF Wri!call
  <2>2. /\ pc = "idle" /\ pc' = "writable" /\ runs' = code
        /\ UNCHANGED <<platform, code, lib, prot, text, copied, ret>>
    BY <1>1 DEF Wri!call
  <2>3. Wri!ArgsInv'
    BY <2>1, <2>2 DEF Wri!ArgsInv
  <2>4. Wri!ProtInv'
    BY <2>2 DEF Wri!WriteInv, Wri!ProtInv
  <2>5. Wri!TextInv' /\ Wri!AllOrNothing'
    BY <2>2 DEF Wri!WriteInv, Wri!TextInv, Wri!AllOrNothing
  <2>6. QED
    BY <2>2, <2>3, <2>4, <2>5 DEF Wri!WriteInv
<1>2. CASE Wri!linux_text_map_writable \/ Wri!darwin_text_map_writable
  <2>1. /\ pc = "writable" /\ Wri!protect(Wri!RW, "copy") /\ copied' = 0
        /\ UNCHANGED <<platform, code, lib, text, to, len>>
    BY <1>2 DEF Wri!linux_text_map_writable, Wri!darwin_text_map_writable
  <2>2. prot = [q \in Wri!Pages |-> Wri!RX] /\ ret = 0
    BY <2>1 DEF Wri!WriteInv, Wri!ProtInv
  <2>3. /\ len \in Nat \ {0} /\ Wri!ArgsInv /\ text \in [Wri!Addresses -> {"old", "new"}]
        /\ \A k \in 0 .. len - 1 : to + k \in Wri!Addresses /\ text[to + k] = "old"
    <3>1. /\ len \in Nat \ {0} /\ to \in Wri!Addresses /\ to + len - 1 \in Wri!Addresses
          /\ Wri!ArgsInv /\ Wri!TextInv /\ \A a \in Wri!Addresses : text[a] = "old"
      BY <2>1 DEF Wri!WriteInv, Wri!ArgsInv, Wri!TextInv, Wri!Placed
    <3>2. \A k \in 0 .. len - 1 : to + k \in Wri!Addresses
      BY <3>1, TimesSucc DEF Wri!Addresses, Wri!Placed
    <3>3. QED
      BY <3>1, <3>2 DEF Wri!TextInv
  <2>4. CASE /\ prot' = [q \in Wri!Pages |-> IF q \in Wri!Span(to, len) THEN Wri!RW ELSE prot[q]]
             /\ runs' = StubPage /\ pc' = "copy" /\ ret' = ret
    <3>1. Wri!ArgsInv'
      BY <2>1, <2>3, <2>4 DEF Wri!ArgsInv
    <3>2. Wri!ProtInv'
      BY <2>1, <2>2, <2>4 DEF Wri!ProtInv, Wri!Span
    <3>3. Wri!TextInv' /\ Wri!AllOrNothing'
      BY <2>1, <2>2, <2>3, <2>4 DEF Wri!TextInv, Wri!AllOrNothing
    <3>4. QED
      BY <2>1, <2>4, <3>1, <3>2, <3>3 DEF Wri!WriteInv
  <2>5. CASE runs' = lib /\ ret' = -1 /\ pc' = "return" /\ prot' = prot
    <3>1. Wri!ArgsInv'
      BY <2>1, <2>3, <2>5 DEF Wri!ArgsInv
    <3>2. Wri!ProtInv'
      BY <2>1, <2>2, <2>5 DEF Wri!ProtInv
    <3>3. Wri!TextInv' /\ Wri!AllOrNothing'
      BY <2>1, <2>3, <2>5 DEF Wri!TextInv, Wri!AllOrNothing
    <3>4. QED
      BY <2>1, <2>5, <3>1, <3>2, <3>3 DEF Wri!WriteInv
  <2>6. QED
    BY <2>1, <2>4, <2>5, ProtectStep
<1>3. CASE Wri!copy
  <2>1. /\ pc = "copy" /\ copied # len /\ runs' = code
        /\ UNCHANGED <<platform, code, lib, prot, to, len, ret>>
    BY <1>3 DEF Wri!copy, Wri!Copied
  <2>2. /\ len \in Nat \ {0} /\ copied \in 0 .. len - 1 /\ ret = 0
        /\ to \in Wri!Addresses /\ to + len - 1 \in Wri!Addresses
        /\ text \in [Wri!Addresses -> {"old", "new"}]
        /\ \A k \in 0 .. len - 1 : text[to + k] = IF k < copied THEN "new" ELSE "old"
    BY <2>1, SMTT(30) DEF Wri!WriteInv, Wri!ArgsInv, Wri!TextInv, Wri!Placed
  <2>3. \A k \in 0 .. len - 1 : to + k \in Wri!Addresses
    BY <2>2, TimesSucc DEF Wri!Addresses, Wri!Placed
  <2>4. "WRITE" \in prot[Wri!PageOf(to + copied)]
    <3>1. Wri!PageOf(to + copied) \in Wri!Span(to, len) /\ Wri!PageOf(to + copied) \in Wri!Pages
      BY <2>2, <2>3, SpanHasBytes, PageOfType
    <3>2. QED
      BY <2>1, <3>1, RxRw DEF Wri!WriteInv, Wri!ProtInv
  <2>5. /\ text' = [text EXCEPT ![to + copied] = IF @ = "old" THEN "new" ELSE "old"]
        /\ copied' = copied + 1 /\ pc' = pc
    BY <1>3, <2>4 DEF Wri!copy
  <2>6. /\ text'[to + copied] = "new"
        /\ \A a \in Wri!Addresses : a # to + copied => text'[a] = text[a]
        /\ text' \in [Wri!Addresses -> {"old", "new"}]
    BY <2>2, <2>3, <2>5
  <2>7. \A k \in 0 .. len - 1 : text'[to + k] = IF k < copied + 1 THEN "new" ELSE "old"
    BY <2>2, <2>3, <2>6, AddressNat
  <2>8. Wri!TextInv' /\ Wri!AllOrNothing'
    <3>1. pc' = "copy" /\ copied' \in 0 .. len /\ ret' = 0 /\ copied' = copied + 1
      BY <2>1, <2>2, <2>5
    <3>2. UNCHANGED <<to, len>> /\ Wri!Addresses' = Wri!Addresses
      BY <2>1 DEF Wri!Addresses
    <3>3. \A k \in 0 .. len' - 1 : text'[to' + k] = IF k < copied' THEN "new" ELSE "old"
      BY <2>7, <3>1, <3>2
    <3> QED BY <2>6, <3>1, <3>2, <3>3 DEF Wri!TextInv, Wri!AllOrNothing
  <2>9. Wri!ArgsInv' /\ Wri!ProtInv'
    BY <2>1, <2>5 DEF Wri!WriteInv, Wri!ArgsInv, Wri!ProtInv, Wri!Span
  <2>10. QED
    BY <2>1, <2>5, <2>8, <2>9 DEF Wri!WriteInv
<1>4. CASE Wri!linux_text_restore \/ Wri!darwin_text_restore
  <2>1. /\ pc = "copy" /\ copied = len /\ Wri!protect(Wri!RX, "return")
        /\ UNCHANGED <<platform, code, lib, text, to, len, copied>>
    BY <1>4 DEF Wri!linux_text_restore, Wri!darwin_text_restore, Wri!Copied
  <2>2. /\ prot' = [q \in Wri!Pages |-> IF q \in Wri!Span(to, len) THEN Wri!RX ELSE prot[q]]
        /\ runs' = StubPage /\ pc' = "return" /\ ret' = ret
    BY <2>1, ProtectStep, RxRw
  <2>3. Wri!ArgsInv'
    BY <2>1, <2>2 DEF Wri!WriteInv, Wri!ArgsInv
  <2>4. Wri!ProtInv'
    BY <2>1, <2>2 DEF Wri!WriteInv, Wri!ProtInv
  <2>5. /\ ret = 0 /\ text \in [Wri!Addresses -> {"old", "new"}] /\ len \in Nat
        /\ \A k \in 0 .. len - 1 : text[to + k] = "new"
    BY <2>1 DEF Wri!WriteInv, Wri!TextInv, Wri!ArgsInv, Wri!Placed
  <2>6. Wri!TextInv' /\ Wri!AllOrNothing'
    BY <2>1, <2>2, <2>5 DEF Wri!TextInv, Wri!AllOrNothing
  <2>7. QED
    BY <2>1, <2>2, <2>3, <2>4, <2>6 DEF Wri!WriteInv
<1>5. CASE Wri!return
  <2>1. /\ pc = "return" /\ pc' = "idle" /\ runs' = code /\ ret' = 0
        /\ text' = [a \in Wri!Addresses |-> "old"]
        /\ UNCHANGED <<platform, code, lib, prot>>
    BY <1>5 DEF Wri!return
  <2>2. QED
    BY <2>1 DEF Wri!WriteInv, Wri!ArgsInv, Wri!ProtInv, Wri!TextInv, Wri!AllOrNothing
<1>6. CASE UNCHANGED Wri!vars
  BY <1>6 DEF Wri!vars, Wri!WriteInv, Wri!ArgsInv, Wri!ProtInv, Wri!TextInv, Wri!AllOrNothing, Wri!Span
<1>7. QED
  BY <1>1, <1>2, <1>3, <1>4, <1>5, <1>6 DEF Wri!Next

-----------------------------------------------------------------------------

\* The invariant of text_write() holds for any pages and any bytes, if the
\* second system call does not fail.
THEOREM WriteInvariant == ASSUME Wri!Placed PROVE Wri!Spec => []Wri!WriteInv
BY WriteInit, WriteStep, PTL DEF Wri!Spec

\* Every store of text_write() finds its byte writable, across a page boundary
\* too, and a call writes all of its bytes or none.
THEOREM StoresAreWhole == ASSUME Wri!Placed PROVE Wri!Spec => [](Wri!StoresLand /\ Wri!AllOrNothing)
<1>1. Wri!WriteInv => Wri!StoresLand /\ Wri!AllOrNothing
  BY DEF Wri!WriteInv, Wri!StoresLand
<1>2. QED
  BY <1>1, WriteInvariant, PTL

\* No page is writable and executable at once, none stays writable, and all
\* that text_write() runs meanwhile is executable.
THEOREM TextStaysProtected ==
  ASSUME Wri!Placed PROVE Wri!Spec => [](Wri!TextProtected /\ Wri!RunsExecutable)
<1>1. ASSUME Wri!WriteInv PROVE Wri!TextProtected
  BY <1>1, RxRw DEF Wri!WriteInv, Wri!ProtInv, Wri!TextProtected
<1>2. ASSUME Wri!WriteInv PROVE Wri!RunsExecutable
  <2>1. runs \in Wri!Pages
    BY <1>2 DEF Wri!WriteInv, Wri!Placed
  <2>2. CASE pc = "copy"
    <3>1. runs \notin Wri!Span(to, len)
      BY <1>2, <2>2, CriticalCode DEF Wri!WriteInv
    <3>2. QED
      BY <1>2, <2>1, <3>1, RxRw DEF Wri!WriteInv, Wri!ProtInv, Wri!RunsExecutable
  <2>3. CASE pc # "copy"
    BY <1>2, <2>1, <2>3, RxRw DEF Wri!WriteInv, Wri!ProtInv, Wri!RunsExecutable
  <2>4. QED
    BY <2>2, <2>3
<1>3. QED
  BY <1>1, <1>2, WriteInvariant, PTL

\* All of it: what a call of text_write() leaves in the text, and how it leaves
\* the pages protected.
THEOREM TextIsWritten == ASSUME Wri!Placed PROVE Wri!Spec => []Wri!TextWritten
BY StoresAreWhole, TextStaysProtected, PTL DEF Wri!TextWritten
=============================================================================
