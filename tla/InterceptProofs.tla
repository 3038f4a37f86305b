-------------------------- MODULE InterceptProofs ---------------------------
(***************************************************************************)
(* Proofs about Intercept, for every number of functions, mocks and calls. *)
(*                                                                         *)
(* The first part is about one call: what install and uninstall do to the  *)
(* text and the table (an "image" of the process), and what a loop of them *)
(* does (pre_run installs every mock of a node, post_run uninstalls all).  *)
(* The second part shows that the invariants of Intercept are inductive:   *)
(* TableInv for every test, MocksInv when no mock throws and none is       *)
(* removed by a function it is being called for, HandlerInv when no        *)
(* foreign signal arrives either.  The run-checked properties follow.      *)
(***************************************************************************)
EXTENDS Intercept, DataInduction

\* The tables installed_ can be: addrstates for some of the functions.
Tables == UNION {[D -> AddrStates] : D \in SUBSET Funcs}

\* Text and table of a process.
Images == [text : [Funcs -> Insns \cup {NULL}], installed_ : Tables]

\* A table gives an addrstate to each function in its domain.
LEMMA Tabled ==
  ASSUME NEW t \in Tables
  PROVE  DOMAIN t \subseteq Funcs /\ t \in [DOMAIN t -> AddrStates]
BY DEF Tables

-----------------------------------------------------------------------------
(* One install, one uninstall.                                             *)

\* An image with its table replaced.
LEMMA TableReplaced ==
  ASSUME NEW m \in Images, NEW t
  PROVE  [m EXCEPT !.installed_ = t] = [text |-> m.text, installed_ |-> t]
BY DEF Images

\* put_addrstate adds or replaces one row of the table and no other.
LEMMA PutTable ==
  ASSUME NEW m \in Images, NEW f \in Funcs, NEW as \in AddrStates
  PROVE  /\ put_addrstate(m, f, as) \in Images
         /\ put_addrstate(m, f, as).text = m.text
         /\ DOMAIN put_addrstate(m, f, as).installed_ = DOMAIN m.installed_ \cup {f}
         /\ put_addrstate(m, f, as).installed_[f] = as
         /\ \A g \in DOMAIN m.installed_ \ {f} :
              put_addrstate(m, f, as).installed_[g] = m.installed_[g]
<1> DEFINE D == DOMAIN m.installed_ \cup {f}
           t == [g \in D |-> IF g = f THEN as ELSE m.installed_[g]]
<1>1. m.installed_ \in Tables /\ m.text \in [Funcs -> Insns \cup {NULL}]
  BY DEF Images
<1>2. put_addrstate(m, f, as) = [text |-> m.text, installed_ |-> t]
  BY TableReplaced, Zenon DEF put_addrstate
<1>3. D \in SUBSET Funcs /\ t \in [D -> AddrStates]
  BY <1>1, Tabled, Zenon
<1>4. t \in Tables
  BY <1>3, Zenon DEF Tables
<1> QED
  BY <1>1, <1>2, <1>4 DEF Images

\* remove_addrstate drops one row of the table and no other.
LEMMA RemoveTable ==
  ASSUME NEW m \in Images, NEW f \in Funcs
  PROVE  /\ remove_addrstate(m, f) \in Images
         /\ remove_addrstate(m, f).text = m.text
         /\ DOMAIN remove_addrstate(m, f).installed_ = DOMAIN m.installed_ \ {f}
         /\ \A g \in DOMAIN m.installed_ \ {f} :
              remove_addrstate(m, f).installed_[g] = m.installed_[g]
<1> DEFINE D == DOMAIN m.installed_ \ {f}
           t == [g \in D |-> m.installed_[g]]
<1>1. m.installed_ \in Tables /\ m.text \in [Funcs -> Insns \cup {NULL}]
  BY DEF Images
<1>2. remove_addrstate(m, f) = [text |-> m.text, installed_ |-> t]
  BY TableReplaced DEF remove_addrstate
<1>3. D \in SUBSET Funcs /\ t \in [D -> AddrStates]
  BY <1>1, Tabled
<1>4. t \in Tables
  BY <1>3, Zenon DEF Tables
<1> QED
  BY <1>1, <1>2, <1>4 DEF Images

\* text_write changes the one instruction it is given, and nothing when the
\* page cannot be made writable.
LEMMA WriteText ==
  ASSUME NEW m \in Images, NEW f \in Funcs, NEW insn \in Insns \cup {NULL}
  PROVE  /\ text_write(m, f, insn) \in Images
         /\ text_write(m, f, insn).installed_ = m.installed_
         /\ \A g \in Funcs : text_write(m, f, insn).text[g] =
              IF g = f /\ f \notin Unwritable THEN insn ELSE m.text[g]
BY DEF text_write, Images

\* get_addrstate finds the row of a function, or a fresh one with no
\* intercepts.
LEMMA GetState ==
  ASSUME NEW m \in Images, NEW f \in Funcs
  PROVE  /\ get_addrstate(m, f) \in AddrStates
         /\ f \in DOMAIN m.installed_ => get_addrstate(m, f) = m.installed_[f]
         /\ f \notin DOMAIN m.installed_ => get_addrstate(m, f).intercepts_ = << >>
BY Tabled DEF get_addrstate, Images, AddrStates

\* What install does: the intercept goes last on its function's list, and the
\* first one on the list saves the instruction and plants the breakpoint.
LEMMA InstallImage ==
  ASSUME NEW m \in Images, NEW i \in Mocks
  PROVE  LET f == i.addr_
             n == install(m, i)
             s == get_addrstate(m, f).intercepts_
         IN /\ n \in Images
            /\ DOMAIN n.installed_ = DOMAIN m.installed_ \cup {f}
            /\ n.installed_[f].intercepts_ = Append(s, i)
            /\ \A g \in DOMAIN m.installed_ \ {f} : n.installed_[g] = m.installed_[g]
            /\ \A g \in Funcs \ {f} : n.text[g] = m.text[g]
            /\ n.text[f] = IF s = << >> /\ f \notin Unwritable THEN Trap ELSE m.text[f]
            /\ s = << >> => /\ n.installed_[f].orig_ = m.text[f]
                            /\ n.installed_[f].type_ = type_(m.text[f])
            /\ s # << >> => /\ n.installed_[f].orig_ = m.installed_[f].orig_
                            /\ n.installed_[f].type_ = m.installed_[f].type_
<1> DEFINE f == i.addr_
           as == get_addrstate(m, f)
           ls == [as EXCEPT !.intercepts_ = Append(@, i)]
           listed == put_addrstate(m, f, ls)
           bs == [listed.installed_[f] EXCEPT !.type_ = type_(listed.text[f]),
                                              !.orig_ = listed.text[f]]
           trapped == put_addrstate(listed, f, bs)
<1>1. f \in Funcs /\ i \in Mocks
  BY DEF Mocks
<1>2. as \in AddrStates
  BY <1>1, GetState
<1>3. ls \in AddrStates /\ ls.intercepts_ = Append(as.intercepts_, i) /\ ls.orig_ = as.orig_
      /\ ls.type_ = as.type_
  BY <1>1, <1>2 DEF AddrStates
<1>4. /\ listed \in Images /\ listed.text = m.text
      /\ DOMAIN listed.installed_ = DOMAIN m.installed_ \cup {f}
      /\ listed.installed_[f] = ls
      /\ \A g \in DOMAIN m.installed_ \ {f} : listed.installed_[g] = m.installed_[g]
  <2> HIDE DEF as, ls, f
  <2> QED BY <1>1, <1>3, PutTable
<1>5. as.intercepts_ # << >> => install(m, i) = listed /\ as = m.installed_[f]
  BY <1>1, GetState DEF install
<1>6. as.intercepts_ = << >> => install(m, i) = text_write(trapped, f, Trap)
  BY Zenon DEF install, install_intercept
<1>7. CASE as.intercepts_ # << >>
  <2> HIDE DEF as, ls, listed
  <2> QED BY <1>3, <1>4, <1>5, <1>7 DEF as, f
<1>8. CASE as.intercepts_ = << >>
  <2>1. type_(m.text[f]) \in {"UNKNOWN", "PUSHBP", "OTHER"} /\ m.text[f] \in Insns \cup {NULL}
    BY <1>1 DEF type_, Images
  <2>2. bs \in AddrStates /\ bs.intercepts_ = Append(as.intercepts_, i)
        /\ bs.orig_ = m.text[f] /\ bs.type_ = type_(m.text[f])
    <3> HIDE DEF ls, as, listed
    <3> QED BY <1>3, <1>4, <2>1, Zenon DEF AddrStates
  <2>3. /\ trapped \in Images /\ trapped.text = listed.text
        /\ DOMAIN trapped.installed_ = DOMAIN listed.installed_ \cup {f}
        /\ trapped.installed_[f] = bs
        /\ \A g \in DOMAIN listed.installed_ \ {f} : trapped.installed_[g] = listed.installed_[g]
    <3> HIDE DEF bs, listed
    <3> QED BY <1>1, <1>4, <2>2, PutTable
  <2>4. /\ text_write(trapped, f, Trap) \in Images
        /\ text_write(trapped, f, Trap).installed_ = trapped.installed_
        /\ \A g \in Funcs : text_write(trapped, f, Trap).text[g] =
              IF g = f /\ f \notin Unwritable THEN Trap ELSE trapped.text[g]
    <3>1. Trap \in Insns \cup {NULL}
      BY DEF Insns
    <3> HIDE DEF trapped
    <3> QED BY <1>1, <2>3, <3>1, WriteText
  <2> HIDE DEF trapped, bs, listed, ls, as
  <2> QED BY <1>1, <1>4, <1>6, <1>8, <2>2, <2>3, <2>4 DEF as, f
<1> QED
  BY <1>7, <1>8, Zenon

\* What uninstall does: the intercept leaves its function's list, and the last
\* one to leave puts the saved instruction back and drops the row.
LEMMA UninstallImage ==
  ASSUME NEW m \in Images, NEW i \in Mocks
  PROVE  LET f == i.addr_
             n == uninstall(m, i)
             as == get_addrstate(m, f)
             r == EraseFirst(as.intercepts_, i)
         IN /\ n \in Images
            /\ DOMAIN n.installed_ = IF r = << >> THEN DOMAIN m.installed_ \ {f}
                                     ELSE DOMAIN m.installed_ \cup {f}
            /\ \A g \in DOMAIN m.installed_ \ {f} : n.installed_[g] = m.installed_[g]
            /\ \A g \in Funcs \ {f} : n.text[g] = m.text[g]
            /\ n.text[f] = IF r = << >> /\ m.text[f] = Trap /\ f \notin Unwritable
                           THEN as.orig_ ELSE m.text[f]
            /\ r # << >> => /\ n.installed_[f].intercepts_ = r
                            /\ n.installed_[f].orig_ = as.orig_
                            /\ n.installed_[f].type_ = as.type_
<1> DEFINE f == i.addr_
           as == get_addrstate(m, f)
           r == EraseFirst(as.intercepts_, i)
           rs == [as EXCEPT !.intercepts_ = r]
           u == uninstall_intercept(m, f, as)
<1>1. f \in Funcs
  BY DEF Mocks
<1>2. as \in AddrStates
  BY <1>1, GetState
<1>3. r \in Seq(Mocks)
  BY <1>2, EraseFirstType DEF AddrStates
<1>4. rs \in AddrStates /\ rs.intercepts_ = r /\ rs.orig_ = as.orig_ /\ rs.type_ = as.type_
  <2> HIDE DEF as, r
  <2> QED BY <1>2, <1>3, Zenon DEF AddrStates
<1>5. CASE r # << >>
  <2>1. uninstall(m, i) = put_addrstate(m, f, rs)
    BY <1>5, Zenon DEF uninstall
  <2> HIDE DEF as, r, rs
  <2>2. /\ put_addrstate(m, f, rs) \in Images
        /\ put_addrstate(m, f, rs).text = m.text
        /\ DOMAIN put_addrstate(m, f, rs).installed_ = DOMAIN m.installed_ \cup {f}
        /\ put_addrstate(m, f, rs).installed_[f] = rs
        /\ \A g \in DOMAIN m.installed_ \ {f} :
              put_addrstate(m, f, rs).installed_[g] = m.installed_[g]
    <3> HIDE DEF f
    <3> QED BY <1>1, <1>4, PutTable
  <2> QED BY <1>4, <1>5, <2>1, <2>2 DEF r, as, f
<1>6. CASE r = << >>
  <2>1. uninstall(m, i) = remove_addrstate(u, f)
    BY <1>6, Zenon DEF uninstall
  <2> HIDE DEF as, r
  <2>2. as.orig_ \in Insns \cup {NULL}
    BY <1>2, Zenon DEF AddrStates
  <2>3. /\ u \in Images /\ u.installed_ = m.installed_
        /\ \A g \in Funcs : u.text[g] = IF g = f /\ m.text[f] = Trap /\ f \notin Unwritable
                                         THEN as.orig_ ELSE m.text[g]
    <3> HIDE DEF f
    <3>1. /\ text_write(m, f, as.orig_) \in Images
          /\ text_write(m, f, as.orig_).installed_ = m.installed_
          /\ \A g \in Funcs : text_write(m, f, as.orig_).text[g] =
              IF g = f /\ f \notin Unwritable THEN as.orig_ ELSE m.text[g]
      BY <1>1, <2>2, WriteText, Zenon
    <3> QED BY <1>1, <3>1, Zenon DEF uninstall_intercept
  <2> HIDE DEF u
  <2>4. /\ remove_addrstate(u, f) \in Images
        /\ remove_addrstate(u, f).text = u.text
        /\ DOMAIN remove_addrstate(u, f).installed_ = DOMAIN u.installed_ \ {f}
        /\ \A g \in DOMAIN u.installed_ \ {f} :
              remove_addrstate(u, f).installed_[g] = u.installed_[g]
    <3> HIDE DEF f
    <3> QED BY <1>1, <2>3, RemoveTable
  <2> QED BY <1>1, <1>6, <2>1, <2>3, <2>4 DEF r, as, f
<1> QED
  BY <1>5, <1>6

\* Mocks that are told apart by address and identity occur once.
LEMMA DistinctInjective ==
  ASSUME NEW L, Distinct(L) PROVE Injective(L)
BY DEF Distinct, Injective

\* After install the table lists one mock more, last in order.
LEMMA InstallLists ==
  ASSUME NEW m \in Images, NEW L \in Seq(Mocks), NEW i \in Mocks,
         Distinct(Append(L, i)), Lists(m.installed_, L)
  PROVE  Lists(install(m, i).installed_, Append(L, i))
<1> DEFINE f == i.addr_
           n == install(m, i)
           s == get_addrstate(m, f).intercepts_
           K == Append(L, i)
<1>1. f \in Funcs
  BY DEF Mocks
<1>2. /\ n \in Images
      /\ DOMAIN n.installed_ = DOMAIN m.installed_ \cup {f}
      /\ n.installed_[f].intercepts_ = Append(s, i)
      /\ \A g \in DOMAIN m.installed_ \ {f} : n.installed_[g] = m.installed_[g]
  BY InstallImage
<1>3. s \in Seq(Mocks) /\ (f \in DOMAIN m.installed_ => s = m.installed_[f].intercepts_)
      /\ (f \notin DOMAIN m.installed_ => s = << >>)
  BY <1>1, GetState DEF AddrStates
<1>4. /\ DOMAIN K = DOMAIN L \cup {Len(L) + 1} /\ Len(L) + 1 \notin DOMAIN L
      /\ K[Len(L) + 1] = i /\ \A k \in DOMAIN L : K[k] = L[k] /\ k < Len(L) + 1
  OBVIOUS
<1>5. Injective(K)
  BY DistinctInjective
<1> HIDE DEF n, s, K
<1>6. DOMAIN n.installed_ = {K[k].addr_ : k \in DOMAIN K}
  <2>1. DOMAIN m.installed_ = {L[k].addr_ : k \in DOMAIN L}
    BY DEF Lists
  <2> QED BY <1>2, <1>4, <2>1
<1>7. ASSUME NEW g \in DOMAIN n.installed_, g # f
      PROVE  InOrder(n.installed_[g].intercepts_, K, g)
  <2> DEFINE t == m.installed_[g].intercepts_
  <2>1. g \in DOMAIN m.installed_ /\ n.installed_[g].intercepts_ = t
    BY <1>2, <1>7
  <2>2. InOrder(t, L, g)
    BY <2>1 DEF Lists
  <2> HIDE DEF t
  <2>3. \A a \in DOMAIN K : K[a].addr_ = g => a \in DOMAIN L /\ K[a] = L[a]
    BY <1>4, <1>7
  <2>4. \A k \in DOMAIN K : K[k].addr_ = g => \E j \in DOMAIN t : t[j] = K[k]
    BY <2>2, <2>3 DEF InOrder
  <2>5. \A j \in DOMAIN t : t[j].addr_ = g /\ \E k \in DOMAIN K : t[j] = K[k]
    BY <2>2, <1>4 DEF InOrder
  <2>6. \A j, l \in DOMAIN t : j < l =>
             \A a, b \in DOMAIN K : K[a] = t[j] /\ K[b] = t[l] => a < b
    BY <2>2, <2>3 DEF InOrder
  <2> QED BY <2>1, <2>4, <2>5, <2>6 DEF InOrder
<1>8. InOrder(n.installed_[f].intercepts_, K, f)
  <2> DEFINE t == Append(s, i)
  <2>1. InOrder(s, L, f)
    <3>1. CASE f \in DOMAIN m.installed_
      BY <3>1, <1>3 DEF Lists
    <3>2. CASE f \notin DOMAIN m.installed_
      <4>1. DOMAIN s = {}
        BY <3>2, <1>3
      <4>2. \A k \in DOMAIN L : L[k].addr_ # f
        BY <3>2 DEF Lists
      <4> QED BY <4>1, <4>2 DEF InOrder
    <3> QED BY <3>1, <3>2
  <2>2. /\ DOMAIN t = DOMAIN s \cup {Len(s) + 1} /\ Len(s) + 1 \notin DOMAIN s
        /\ t[Len(s) + 1] = i /\ \A k \in DOMAIN s : t[k] = s[k] /\ k < Len(s) + 1 /\ k \in Nat
        /\ Len(s) + 1 \in Nat
    BY <1>3
  <2> HIDE DEF t
  <2>3. \A k \in DOMAIN K : K[k].addr_ = f => \E j \in DOMAIN t : t[j] = K[k]
    BY <2>1, <2>2, <1>4 DEF InOrder
  <2>4. \A j \in DOMAIN t : t[j].addr_ = f /\ \E k \in DOMAIN K : t[j] = K[k]
    BY <2>1, <2>2, <1>4 DEF InOrder
  <2>5. ASSUME NEW j \in DOMAIN t, NEW l \in DOMAIN t, j < l,
               NEW a \in DOMAIN K, NEW b \in DOMAIN K, K[a] = t[j], K[b] = t[l]
        PROVE  a < b
    <3>0. \A q \in DOMAIN s, c \in DOMAIN K : K[c] = s[q] => c \in DOMAIN L /\ L[c] = s[q]
      BY <2>1, <1>4, <1>5 DEF Injective, InOrder
    <3>1. j \in DOMAIN s /\ t[j] = s[j]
      BY <2>2, <2>5
    <3>2. a \in DOMAIN L /\ L[a] = s[j]
      BY <3>0, <3>1, <2>5
    <3>3. CASE l \in DOMAIN s
      <4>1. b \in DOMAIN L /\ L[b] = s[l]
        BY <3>0, <3>3, <2>2, <2>5
      <4> QED BY <4>1, <3>1, <3>2, <3>3, <2>1, <2>5 DEF InOrder
    <3>4. CASE l = Len(s) + 1
      <4>1. b = Len(L) + 1
        BY <3>4, <2>2, <2>5, <1>4, <1>5 DEF Injective
      <4> QED BY <4>1, <3>2, <1>4
    <3> QED BY <3>3, <3>4, <2>2
  <2>6. InOrder(t, K, f)
    BY <2>3, <2>4, <2>5 DEF InOrder
  <2> QED BY <1>2, <2>6 DEF t
<1>9. Lists(n.installed_, K)
  BY <1>6, <1>7, <1>8 DEF Lists
<1> QED
  BY <1>9 DEF n, K

\* A function's list in the table holds no intercept twice.
LEMMA InOrderInjective ==
  ASSUME NEW s, NEW L, NEW f, InOrder(s, L, f),
         NEW M, s \in Seq(M), NEW N, L \in Seq(N)
  PROVE  Injective(s)
<1> SUFFICES ASSUME NEW j \in DOMAIN s, NEW k \in DOMAIN s, s[j] = s[k], j # k PROVE FALSE
  BY DEF Injective
<1>1. PICK a \in DOMAIN L : s[j] = L[a]
  BY DEF InOrder
<1>2. a \in Nat /\ j \in Nat /\ k \in Nat
  OBVIOUS
<1>3. j < k \/ k < j
  BY <1>2
<1>o. \A p, q \in DOMAIN s : p < q => \A x, y \in DOMAIN L : L[x] = s[p] /\ L[y] = s[q] => x < y
  BY DEF InOrder
<1>4. a < a
  <2>1. CASE j < k
    BY <1>1, <1>o, <2>1, Zenon
  <2>2. CASE k < j
    BY <1>1, <1>o, <2>2, Zenon
  <2> QED BY <1>3, <2>1, <2>2
<1> QED
  BY <1>2, <1>4

\* After uninstall of a listed mock the table lists all the others, in the
\* order they had.
LEMMA UninstallLists ==
  ASSUME NEW m \in Images, NEW L \in Seq(Mocks), Distinct(L), Lists(m.installed_, L),
         NEW k \in DOMAIN L
  PROVE  /\ Lists(uninstall(m, L[k]).installed_, Erase(L, k))
         /\ L[k].addr_ \in DOMAIN m.installed_
<1> DEFINE i == L[k]
           f == i.addr_
           n == uninstall(m, i)
           as == get_addrstate(m, f)
           s == m.installed_[f].intercepts_
           r == EraseFirst(s, i)
           K == Erase(L, k)
<1>1. i \in Mocks /\ f \in Funcs
  <2>1. i \in Mocks
    OBVIOUS
  <2> QED BY <2>1 DEF Mocks
<1>2. f \in DOMAIN m.installed_ /\ as = m.installed_[f]
  BY <1>1, GetState DEF Lists
<1>3. /\ DOMAIN n.installed_ = IF r = << >> THEN DOMAIN m.installed_ \ {f}
                               ELSE DOMAIN m.installed_ \cup {f}
      /\ \A g \in DOMAIN m.installed_ \ {f} : n.installed_[g] = m.installed_[g]
      /\ r # << >> => n.installed_[f].intercepts_ = r
  <2> DEFINE q == EraseFirst(as.intercepts_, i)
  <2>1. /\ DOMAIN n.installed_ = IF q = << >> THEN DOMAIN m.installed_ \ {f}
                                 ELSE DOMAIN m.installed_ \cup {f}
        /\ \A g \in DOMAIN m.installed_ \ {f} : n.installed_[g] = m.installed_[g]
        /\ q # << >> => n.installed_[f].intercepts_ = q
    <3> HIDE DEF i
    <3> QED BY <1>1, UninstallImage, Zenon
  <2>2. q = r
    BY <1>2
  <2> QED BY <2>1, <2>2, Zenon
<1>4. InOrder(s, L, f) /\ s \in Seq(Mocks)
  BY <1>1, <1>2, GetState DEF Lists, AddrStates
<1>5. Injective(s) /\ Injective(L)
  BY <1>4, InOrderInjective, DistinctInjective
<1>6. PICK j0 \in DOMAIN s : s[j0] = i
  BY <1>4 DEF InOrder
<1>7. r = Erase(s, j0) /\ j0 \in 1 .. Len(s) /\ k \in 1 .. Len(L)
  BY <1>4, <1>5, <1>6, EraseFirstFacts
<1>8. /\ r \in Seq(Mocks) /\ Len(r) = Len(s) - 1 /\ DOMAIN r = 1 .. (Len(s) - 1)
      /\ \A j \in DOMAIN r : \E p \in DOMAIN s : p # j0 /\ r[j] = s[p]
      /\ \A p \in DOMAIN s : p # j0 => \E j \in DOMAIN r : r[j] = s[p]
      /\ \A j, l \in DOMAIN r : j < l =>
           \E p, q \in DOMAIN s : p # j0 /\ q # j0 /\ p < q /\ r[j] = s[p] /\ r[l] = s[q]
  <2> HIDE DEF s, r
  <2> QED BY <1>4, <1>7, Removal, SMTT(30)
<1>9. /\ K \in Seq(Mocks) /\ DOMAIN K = 1 .. (Len(L) - 1)
      /\ \A j \in DOMAIN K : \E p \in DOMAIN L : p # k /\ K[j] = L[p]
      /\ \A p \in DOMAIN L : p # k => \E j \in DOMAIN K : K[j] = L[p]
      /\ \A j, l \in DOMAIN K : j < l =>
           \E p, q \in DOMAIN L : p # k /\ q # k /\ p < q /\ K[j] = L[p] /\ K[l] = L[q]
  <2> HIDE DEF K
  <2> QED BY <1>7, Removal DEF K
<1>n. (\A p \in DOMAIN L : p \in Nat) /\ (\A p \in DOMAIN K : p \in Nat)
  <2>1. Len(L) \in Nat /\ DOMAIN L = 1 .. Len(L)
    OBVIOUS
  <2> HIDE DEF K
  <2> QED BY <1>9, <2>1
<1>10. DOMAIN m.installed_ = {L[p].addr_ : p \in DOMAIN L}
  BY DEF Lists
<1>11. k \in DOMAIN L /\ L[k] = i
  OBVIOUS
<1> HIDE DEF n, as, s, r, K, i
<1>12. {K[j].addr_ : j \in DOMAIN K} = {L[p].addr_ : p \in DOMAIN L \ {k}}
  BY <1>9
<1>13. ASSUME NEW g \in DOMAIN m.installed_, g # f
       PROVE  g \in {K[j].addr_ : j \in DOMAIN K} /\ InOrder(n.installed_[g].intercepts_, K, g)
  <2> DEFINE t == m.installed_[g].intercepts_
  <2>1. g \in {K[j].addr_ : j \in DOMAIN K}
    BY <1>10, <1>11, <1>12, <1>13, Zenon
  <2>2. n.installed_[g].intercepts_ = t /\ InOrder(t, L, g)
    BY <1>3, <1>13 DEF Lists
  <2> HIDE DEF t
  <2>3. \A j \in DOMAIN K : K[j].addr_ = g => \E l \in DOMAIN t : t[l] = K[j]
    BY <1>9, <2>2 DEF InOrder
  <2>4. \A j \in DOMAIN t : t[j].addr_ = g /\ \E l \in DOMAIN K : t[j] = K[l]
    BY <1>9, <1>11, <1>13, <2>2 DEF InOrder
  <2>5. ASSUME NEW j \in DOMAIN t, NEW l \in DOMAIN t, j < l,
               NEW a \in DOMAIN K, NEW b \in DOMAIN K, K[a] = t[j], K[b] = t[l]
        PROVE  a < b
    <3>1. \A p, q \in DOMAIN L : L[p] = t[j] /\ L[q] = t[l] => p < q
      BY <2>2, <2>5 DEF InOrder
    <3>2. a \in Nat /\ b \in Nat /\ \A p \in DOMAIN L : p \in Nat
      BY <1>n
    <3>3. ASSUME b < a PROVE FALSE
      <4>1. PICK p, q \in DOMAIN L : p < q /\ K[b] = L[p] /\ K[a] = L[q]
        BY <3>3, <1>9
      <4>2. q < p
        BY <4>1, <3>1, <2>5, Zenon
      <4> QED BY <4>1, <4>2, <3>2
    <3>4. a # b
      BY <3>1, <3>2, <2>5, <1>9
    <3> QED BY <3>2, <3>3, <3>4
  <2>6. InOrder(t, K, g)
    BY <2>3, <2>4, <2>5 DEF InOrder
  <2> QED BY <2>1, <2>2, <2>6
<1>14. CASE r = << >>
  <2>1. DOMAIN s = {j0}
    BY <1>4, <1>6, <1>8, <1>14
  <2>2. \A p \in DOMAIN L : L[p].addr_ = f => p = k
    BY <2>1, <1>4, <1>5, <1>6, <1>11 DEF InOrder, Injective
  <2>3. f \notin {K[j].addr_ : j \in DOMAIN K}
    BY <2>2, <1>12, Zenon
  <2>4. DOMAIN n.installed_ = DOMAIN m.installed_ \ {f}
    BY <1>3, <1>14
  <2>5. {K[j].addr_ : j \in DOMAIN K} \subseteq DOMAIN m.installed_
    BY <1>10, <1>12, Zenon
  <2>6. DOMAIN n.installed_ = {K[j].addr_ : j \in DOMAIN K}
    BY <2>3, <2>4, <2>5, <1>13
  <2>7. Lists(n.installed_, K)
    BY <2>4, <2>6, <1>13, Zenon DEF Lists
  <2> QED BY <2>7, <1>2 DEF n, K, i
<1>15. CASE r # << >>
  <2>1. DOMAIN n.installed_ = DOMAIN m.installed_ /\ n.installed_[f].intercepts_ = r
    BY <1>2, <1>3, <1>15
  <2>2. \A j \in DOMAIN K : K[j].addr_ = f => \E l \in DOMAIN r : r[l] = K[j]
    <3> SUFFICES ASSUME NEW j \in DOMAIN K, K[j].addr_ = f PROVE \E l \in DOMAIN r : r[l] = K[j]
      OBVIOUS
    <3>1. PICK p \in DOMAIN L : p # k /\ K[j] = L[p]
      BY <1>9
    <3>2. PICK q \in DOMAIN s : s[q] = L[p]
      BY <3>1, <1>4 DEF InOrder
    <3>3. q # j0
      BY <3>1, <3>2, <1>5, <1>6, <1>11 DEF Injective
    <3> QED BY <3>1, <3>2, <3>3, <1>8
  <2>3. \A j \in DOMAIN r : r[j].addr_ = f /\ \E l \in DOMAIN K : r[j] = K[l]
    <3> SUFFICES ASSUME NEW j \in DOMAIN r PROVE r[j].addr_ = f /\ \E l \in DOMAIN K : r[j] = K[l]
      OBVIOUS
    <3>1. PICK p \in DOMAIN s : p # j0 /\ r[j] = s[p]
      BY <1>8
    <3>2. PICK q \in DOMAIN L : s[p] = L[q]
      BY <1>4 DEF InOrder
    <3>3. q # k
      BY <3>1, <3>2, <1>5, <1>6, <1>11 DEF Injective
    <3>4. s[p].addr_ = f
      BY <1>4, <3>1 DEF InOrder
    <3>5. PICK l \in DOMAIN K : K[l] = L[q]
      BY <1>9, <3>2, <3>3, Zenon
    <3> QED BY <3>1, <3>2, <3>4, <3>5, Zenon
  <2>4. ASSUME NEW j \in DOMAIN r, NEW l \in DOMAIN r, j < l,
               NEW a \in DOMAIN K, NEW b \in DOMAIN K, K[a] = r[j], K[b] = r[l]
        PROVE  a < b
    <3>1. \A p, q \in DOMAIN L : L[p] = r[j] /\ L[q] = r[l] => p < q
      <4>1. PICK p, q \in DOMAIN s : p < q /\ r[j] = s[p] /\ r[l] = s[q]
        BY <1>8, <2>4
      <4> QED BY <4>1, <1>4 DEF InOrder
    <3>2. a \in Nat /\ b \in Nat /\ \A p \in DOMAIN L : p \in Nat
      BY <1>n
    <3>3. ASSUME b < a PROVE FALSE
      <4>1. PICK p, q \in DOMAIN L : p < q /\ K[b] = L[p] /\ K[a] = L[q]
        BY <3>3, <1>9
      <4>2. q < p
        BY <4>1, <3>1, <2>4, Zenon
      <4> QED BY <4>1, <4>2, <3>2
    <3>4. a # b
      BY <3>1, <3>2, <2>4, <1>9
    <3> QED BY <3>2, <3>3, <3>4
  <2>5. InOrder(r, K, f)
    BY <2>2, <2>3, <2>4 DEF InOrder
  <2>6. f \in {K[j].addr_ : j \in DOMAIN K}
    <3>1. 1 \in DOMAIN r
      BY <1>4, <1>8, <1>15
    <3>2. PICK l \in DOMAIN K : r[1] = K[l] /\ r[1].addr_ = f
      BY <2>3, <3>1
    <3> QED BY <3>2
  <2>7. {K[j].addr_ : j \in DOMAIN K} \subseteq DOMAIN m.installed_
    BY <1>10, <1>12, Zenon
  <2>8. DOMAIN n.installed_ = {K[j].addr_ : j \in DOMAIN K}
    BY <2>1, <2>6, <2>7, <1>13
  <2>9. Lists(n.installed_, K)
    BY <2>1, <2>5, <2>8, <1>13, Zenon DEF Lists
  <2> QED BY <2>9, <1>2 DEF n, K, i
<1> QED
  BY <1>14, <1>15

\* install keeps every instruction a function's own or a breakpoint, and keeps
\* breakpoints exactly where the table has a row.
LEMMA InstallMarks ==
  ASSUME Constants, NEW m \in Images, NEW L \in Seq(Mocks), NEW i \in Mocks,
         Lists(m.installed_, L)
  PROVE  /\ Own(m) => Own(install(m, i))
         /\ Marked(m) => Marked(install(m, i))
<1> DEFINE f == i.addr_
           n == install(m, i)
           s == get_addrstate(m, f).intercepts_
<1>1. f \in Funcs
  BY DEF Mocks
<1>2. /\ DOMAIN n.installed_ = DOMAIN m.installed_ \cup {f}
      /\ \A g \in DOMAIN m.installed_ \ {f} : n.installed_[g] = m.installed_[g]
      /\ \A g \in Funcs \ {f} : n.text[g] = m.text[g]
      /\ n.text[f] = IF s = << >> /\ f \notin Unwritable THEN Trap ELSE m.text[f]
      /\ s = << >> => /\ n.installed_[f].orig_ = m.text[f]
                      /\ n.installed_[f].type_ = type_(m.text[f])
      /\ s # << >> => /\ n.installed_[f].orig_ = m.installed_[f].orig_
                      /\ n.installed_[f].type_ = m.installed_[f].type_
  BY InstallImage, Zenon
<1>3. s = << >> <=> f \notin DOMAIN m.installed_
  <2>1. CASE f \notin DOMAIN m.installed_
    BY <1>1, <2>1, GetState
  <2>2. CASE f \in DOMAIN m.installed_
    <3>1. PICK k \in DOMAIN L : L[k].addr_ = f
      BY <2>2 DEF Lists
    <3>2. s = m.installed_[f].intercepts_ /\ InOrder(s, L, f)
      BY <1>1, <2>2, GetState DEF Lists
    <3>3. \E j \in DOMAIN s : s[j] = L[k]
      BY <3>1, <3>2 DEF InOrder
    <3>4. DOMAIN << >> = {}
      OBVIOUS
    <3> QED BY <2>2, <3>3, <3>4
  <2> QED BY <2>1, <2>2
<1> HIDE DEF n, s
<1>4. ASSUME Own(m) PROVE Own(n)
  <2>1. \A g \in Funcs : n.text[g] \in {FirstInsn[g], Trap}
    BY <1>1, <1>2, <1>4 DEF Own
  <2>2. \A g \in DOMAIN n.installed_ : n.installed_[g].orig_ \in {FirstInsn[g], Trap}
    BY <1>1, <1>2, <1>3, <1>4 DEF Own
  <2> QED BY <2>1, <2>2 DEF Own
<1>5. ASSUME Marked(m) PROVE Marked(n)
  <2>1. \A g \in Funcs :
          n.text[g] = IF g \in DOMAIN n.installed_ \ Unwritable THEN Trap ELSE FirstInsn[g]
    BY <1>1, <1>2, <1>3, <1>5 DEF Marked
  <2>2. \A g \in DOMAIN n.installed_ :
          n.installed_[g].orig_ = FirstInsn[g] /\ n.installed_[g].type_ = type_(FirstInsn[g])
    BY <1>1, <1>2, <1>3, <1>5 DEF Marked
  <2> QED BY <2>1, <2>2 DEF Marked
<1> QED
  BY <1>4, <1>5 DEF n

\* uninstall of a listed mock keeps both too.
LEMMA UninstallMarks ==
  ASSUME Constants, NEW m \in Images, NEW i \in Mocks, i.addr_ \in DOMAIN m.installed_
  PROVE  /\ Own(m) => Own(uninstall(m, i))
         /\ Marked(m) => Marked(uninstall(m, i))
<1> DEFINE f == i.addr_
           n == uninstall(m, i)
           as == get_addrstate(m, f)
           r == EraseFirst(as.intercepts_, i)
<1>1. f \in Funcs
  BY DEF Mocks
<1>2. as = m.installed_[f]
  BY <1>1, GetState
<1>3. /\ DOMAIN n.installed_ = IF r = << >> THEN DOMAIN m.installed_ \ {f}
                               ELSE DOMAIN m.installed_ \cup {f}
      /\ \A g \in DOMAIN m.installed_ \ {f} : n.installed_[g] = m.installed_[g]
      /\ \A g \in Funcs \ {f} : n.text[g] = m.text[g]
      /\ n.text[f] = IF r = << >> /\ m.text[f] = Trap /\ f \notin Unwritable
                     THEN as.orig_ ELSE m.text[f]
      /\ r # << >> => /\ n.installed_[f].orig_ = as.orig_
                      /\ n.installed_[f].type_ = as.type_
  BY UninstallImage, Zenon
<1> HIDE DEF n, r, as
<1>4. ASSUME Own(m) PROVE Own(n)
  <2>1. \A g \in Funcs : n.text[g] \in {FirstInsn[g], Trap}
    BY <1>1, <1>2, <1>3, <1>4 DEF Own
  <2>2. \A g \in DOMAIN n.installed_ : n.installed_[g].orig_ \in {FirstInsn[g], Trap}
    BY <1>1, <1>2, <1>3, <1>4 DEF Own
  <2> QED BY <2>1, <2>2 DEF Own
<1>5. ASSUME Marked(m) PROVE Marked(n)
  <2>1. \A g \in Funcs :
          n.text[g] = IF g \in DOMAIN n.installed_ \ Unwritable THEN Trap ELSE FirstInsn[g]
    BY <1>1, <1>2, <1>3, <1>5 DEF Marked
  <2>2. \A g \in DOMAIN n.installed_ :
          n.installed_[g].orig_ = FirstInsn[g] /\ n.installed_[g].type_ = type_(FirstInsn[g])
    BY <1>1, <1>2, <1>3, <1>5 DEF Marked
  <2> QED BY <2>1, <2>2 DEF Marked
<1> QED
  BY <1>4, <1>5 DEF n

-----------------------------------------------------------------------------
(* The loops of pre_run and post_run.                                      *)

\* The loop of pre_run, unrolled: the image after each install.
LEMMA FoldInstall ==
  ASSUME NEW m \in Images, NEW s \in Seq(Mocks)
  PROVE  \E g \in [0 .. Len(s) -> Images] :
           /\ g[0] = m
           /\ \A k \in 1 .. Len(s) : g[k] = install(g[k - 1], s[k])
           /\ g[Len(s)] = Fold(install, m, s)
<1> DEFINE n == Len(s)
           h == [p \in (1 .. n) \X Images |-> install(p[2], s[p[1]])]
           Step(f) == [t \in SUBSET (1 .. n) |->
                         IF t = {} THEN m ELSE install(f[t \ {Max(t)}], s[Max(t)])]
           it == CHOOSE f : f = Step(f)
<1>1. n \in Nat /\ DOMAIN s = 1 .. n /\ \A k \in 1 .. n : s[k] \in Mocks
  OBVIOUS
<1>2. Fold(install, m, s) = it[1 .. n]
  <2>1. Fold(install, m, s) =
          (CHOOSE f : f = [t \in SUBSET DOMAIN s |->
                             IF t = {} THEN m ELSE install(f[t \ {Max(t)}], s[Max(t)])])[DOMAIN s]
    BY Zenon DEF Fold, MapThenFoldSet
  <2> QED BY <2>1, <1>1
<1>3. h \in [(1 .. n) \X Images -> Images]
  BY <1>1, InstallImage
<1>4. \A k \in 1 .. n, x \in Images : h[<<k, x>>] = install(x, s[k])
  BY <1>1
<1>5. \A t \in SUBSET (1 .. n) : t # {} => Max(t) \in 1 .. n
  BY MaxOf, <1>1, Zenon
<1>6. it = Step(it)
  <2> HIDE DEF h, n
  <2>1. PICK f : FoldsUp(f, n, Images, m, h)
    BY <1>1, <1>3, FoldExists, Zenon
  <2>2. f = Step(f)
    BY <2>1, <1>4, <1>5, Zenon DEF FoldsUp
  <2> HIDE DEF Step
  <2> QED BY <2>2
<1> HIDE DEF it, h, n
<1>7. Stepwise(it, n, Images, m, h)
  <2>1. it[{}] = m /\ \A t \in SUBSET (1 .. n) : t # {} => it[t] = install(it[t \ {Max(t)}], s[Max(t)])
    BY <1>6, Zenon
  <2> QED BY <2>1, <1>4, <1>5, Zenon DEF Stepwise
<1>8. PICK g : Unrolls(g, it, n, Images, m, h)
  BY <1>1, <1>3, <1>7, FoldUnrolls, Zenon
<1>9. \A k \in 1 .. n : g[k] = install(g[k - 1], s[k])
  <2>1. \A k \in 1 .. n : k - 1 \in 0 .. n
    BY <1>1
  <2> QED BY <2>1, <1>4, <1>8, Zenon DEF Unrolls
<1> QED
  BY <1>2, <1>8, <1>9 DEF n, Unrolls

\* The loop of post_run, unrolled: the image after each uninstall.
LEMMA FoldUninstall ==
  ASSUME NEW m \in Images, NEW s \in Seq(Mocks)
  PROVE  \E g \in [0 .. Len(s) -> Images] :
           /\ g[0] = m
           /\ \A k \in 1 .. Len(s) : g[k] = uninstall(g[k - 1], s[k])
           /\ g[Len(s)] = Fold(uninstall, m, s)
<1> DEFINE n == Len(s)
           h == [p \in (1 .. n) \X Images |-> uninstall(p[2], s[p[1]])]
           Step(f) == [t \in SUBSET (1 .. n) |->
                         IF t = {} THEN m ELSE uninstall(f[t \ {Max(t)}], s[Max(t)])]
           it == CHOOSE f : f = Step(f)
<1>1. n \in Nat /\ DOMAIN s = 1 .. n /\ \A k \in 1 .. n : s[k] \in Mocks
  OBVIOUS
<1>2. Fold(uninstall, m, s) = it[1 .. n]
  <2>1. Fold(uninstall, m, s) =
          (CHOOSE f : f = [t \in SUBSET DOMAIN s |->
                             IF t = {} THEN m ELSE uninstall(f[t \ {Max(t)}], s[Max(t)])])[DOMAIN s]
    BY Zenon DEF Fold, MapThenFoldSet
  <2> QED BY <2>1, <1>1
<1>3. h \in [(1 .. n) \X Images -> Images]
  BY <1>1, UninstallImage, Zenon
<1>4. \A k \in 1 .. n, x \in Images : h[<<k, x>>] = uninstall(x, s[k])
  BY <1>1
<1>5. \A t \in SUBSET (1 .. n) : t # {} => Max(t) \in 1 .. n
  BY MaxOf, <1>1, Zenon
<1>6. it = Step(it)
  <2> HIDE DEF h, n
  <2>1. PICK f : FoldsUp(f, n, Images, m, h)
    BY <1>1, <1>3, FoldExists, Zenon
  <2>2. f = Step(f)
    BY <2>1, <1>4, <1>5, Zenon DEF FoldsUp
  <2> HIDE DEF Step
  <2> QED BY <2>2
<1> HIDE DEF it, h, n
<1>7. Stepwise(it, n, Images, m, h)
  <2>1. it[{}] = m /\ \A t \in SUBSET (1 .. n) : t # {} => it[t] = uninstall(it[t \ {Max(t)}], s[Max(t)])
    BY <1>6, Zenon
  <2> QED BY <2>1, <1>4, <1>5, Zenon DEF Stepwise
<1>8. PICK g : Unrolls(g, it, n, Images, m, h)
  BY <1>1, <1>3, <1>7, FoldUnrolls, Zenon
<1>9. \A k \in 1 .. n : g[k] = uninstall(g[k - 1], s[k])
  <2>1. \A k \in 1 .. n : k - 1 \in 0 .. n
    BY <1>1
  <2> QED BY <2>1, <1>4, <1>8, Zenon DEF Unrolls
<1> QED
  BY <1>2, <1>8, <1>9 DEF n, Unrolls

\* After the loop of pre_run the table lists the node's mocks, all of them and
\* in order.
LEMMA PreRunImage ==
  ASSUME Constants, NEW m \in Images, Lists(m.installed_, << >>), Own(m)
  PROVE  LET n == Fold(install, m, NodeMocks) IN
         /\ n \in Images
         /\ Lists(n.installed_, NodeMocks)
         /\ Own(n)
         /\ Marked(m) => Marked(n)
<1> DEFINE L == NodeMocks
           P(k) == SubSeq(L, 1, k)
<1>1. L \in Seq(Mocks) /\ Len(L) \in Nat /\ Distinct(L)
  BY DEF Constants
<1> HIDE DEF L
<1>2. PICK g \in [0 .. Len(L) -> Images] :
           /\ g[0] = m
           /\ \A k \in 1 .. Len(L) : g[k] = install(g[k - 1], L[k])
           /\ g[Len(L)] = Fold(install, m, L)
  BY <1>1, FoldInstall, Zenon
<1> DEFINE S == {k \in 0 .. Len(L) : /\ Lists(g[k].installed_, P(k))
                                     /\ Own(g[k])
                                     /\ Marked(m) => Marked(g[k])}
<1>3. 0 \in S
  <2>1. P(0) = << >>
    BY <1>1, Prefix
  <2>2. 0 \in 0 .. Len(L)
    BY <1>1
  <2>3. Lists(g[0].installed_, P(0)) /\ Own(g[0]) /\ (Marked(m) => Marked(g[0]))
    BY <1>2, <2>1, Zenon
  <2> HIDE DEF P
  <2> QED BY <2>2, <2>3
<1>4. ASSUME NEW k \in 0 .. (Len(L) - 1), k \in S PROVE k + 1 \in S
  <2>1. k + 1 \in 1 .. Len(L) /\ (k + 1) - 1 = k /\ k \in 0 .. Len(L) /\ k + 1 \in 0 .. Len(L)
    BY <1>1
  <2>2. g[k + 1] = install(g[k], L[k + 1]) /\ g[k] \in Images /\ L[k + 1] \in Mocks
    BY <2>1, <1>1, <1>2
  <2>3. P(k) \in Seq(Mocks) /\ Append(P(k), L[k + 1]) = P(k + 1)
    BY <2>1, <1>1, Prefix
  <2>4. Distinct(P(k + 1))
    <3>1. /\ P(k + 1) \in Seq(Mocks) /\ Len(P(k + 1)) = k + 1
          /\ \A j \in 1 .. (k + 1) : P(k + 1)[j] = L[j]
      BY <2>1, <1>1, Prefix
    <3>2. DOMAIN P(k + 1) = 1 .. (k + 1) /\ 1 .. (k + 1) \subseteq DOMAIN L
      BY <2>1, <3>1, <1>1
    <3> HIDE DEF P
    <3> QED BY <3>1, <3>2, <1>1 DEF Distinct
  <2>5. Lists(g[k].installed_, P(k)) /\ Own(g[k]) /\ (Marked(m) => Marked(g[k]))
    BY <1>4
  <2> HIDE DEF P
  <2>6. Lists(g[k + 1].installed_, P(k + 1))
    BY <2>2, <2>3, <2>4, <2>5, InstallLists, Zenon
  <2>7. Own(g[k + 1]) /\ (Marked(m) => Marked(g[k + 1]))
    BY <2>2, <2>3, <2>5, InstallMarks
  <2> QED BY <2>1, <2>6, <2>7
<1>5. 0 .. Len(L) \subseteq S
  <2> HIDE DEF S
  <2> QED BY <1>1, <1>3, <1>4, UpToInduction, Zenon
<1>6. Len(L) \in S /\ P(Len(L)) = L
  BY <1>1, <1>5, Prefix
<1> QED
  BY <1>1, <1>2, <1>6 DEF L

\* After the loop of post_run the table is empty.
LEMMA PostRunImage ==
  ASSUME Constants, NEW m \in Images, NEW L \in Seq(Mocks), Distinct(L),
         Lists(m.installed_, L), Own(m)
  PROVE  LET n == Fold(uninstall, m, L) IN
         /\ n \in Images
         /\ Lists(n.installed_, << >>)
         /\ Own(n)
         /\ Marked(m) => Marked(n)
<1> DEFINE P(k) == SubSeq(L, k + 1, Len(L))
<1>1. Len(L) \in Nat
  OBVIOUS
<1>2. PICK g \in [0 .. Len(L) -> Images] :
           /\ g[0] = m
           /\ \A k \in 1 .. Len(L) : g[k] = uninstall(g[k - 1], L[k])
           /\ g[Len(L)] = Fold(uninstall, m, L)
  BY FoldUninstall, Zenon
<1> DEFINE S == {k \in 0 .. Len(L) : /\ Lists(g[k].installed_, P(k))
                                     /\ Own(g[k])
                                     /\ Marked(m) => Marked(g[k])}
<1>3. 0 \in S
  <2>1. P(0) = L
    BY Suffix
  <2>2. 0 \in 0 .. Len(L)
    BY <1>1
  <2>3. Lists(g[0].installed_, P(0)) /\ Own(g[0]) /\ (Marked(m) => Marked(g[0]))
    BY <1>2, <2>1, Zenon
  <2> HIDE DEF P
  <2> QED BY <2>2, <2>3
<1>4. ASSUME NEW k \in 0 .. (Len(L) - 1), k \in S PROVE k + 1 \in S
  <2>1. k + 1 \in 1 .. Len(L) /\ (k + 1) - 1 = k /\ k \in 0 .. Len(L) /\ k + 1 \in 0 .. Len(L)
    BY <1>1
  <2>2. g[k + 1] = uninstall(g[k], L[k + 1]) /\ g[k] \in Images /\ L[k + 1] \in Mocks
    BY <2>1, <1>1, <1>2
  <2>3. Erase(P(k), 1) = P(k + 1)
    BY Suffix
  <2>4. /\ P(k) \in Seq(Mocks) /\ Len(P(k)) = Len(L) - k
        /\ \A j \in 1 .. (Len(L) - k) : P(k)[j] = L[k + j]
    BY <2>1, Suffix
  <2>5. DOMAIN P(k) = 1 .. (Len(L) - k) /\ 1 \in DOMAIN P(k)
    BY <2>1, <2>4, <1>1
  <2>6. P(k)[1] = L[k + 1]
    BY <2>4, <2>5
  <2>7. Distinct(P(k))
    <3>1. \A j \in 1 .. (Len(L) - k) : k + j \in DOMAIN L /\ j \in Nat
      BY <2>1, <1>1
    <3>2. \A j, l \in 1 .. (Len(L) - k) : k + j = k + l => j = l
      BY <2>1, <1>1
    <3> HIDE DEF P
    <3> SUFFICES ASSUME NEW j \in 1 .. (Len(L) - k), NEW l \in 1 .. (Len(L) - k),
                        P(k)[j].id = P(k)[l].id
                 PROVE  j = l
      BY <2>5 DEF Distinct
    <3>3. L[k + j].id = L[k + l].id
      BY <2>4
    <3>4. k + j = k + l
      BY <3>1, <3>3 DEF Distinct
    <3> QED BY <3>2, <3>4
  <2>8. Lists(g[k].installed_, P(k)) /\ Own(g[k]) /\ (Marked(m) => Marked(g[k]))
    BY <1>4
  <2> HIDE DEF P
  <2>9. /\ Lists(g[k + 1].installed_, P(k + 1))
        /\ L[k + 1].addr_ \in DOMAIN g[k].installed_
    BY <2>2, <2>3, <2>4, <2>5, <2>6, <2>7, <2>8, UninstallLists, Zenon
  <2>10. Own(g[k + 1]) /\ (Marked(m) => Marked(g[k + 1]))
    BY <2>2, <2>8, <2>9, UninstallMarks
  <2> QED BY <2>1, <2>9, <2>10
<1>5. 0 .. Len(L) \subseteq S
  <2> HIDE DEF S
  <2> QED BY <1>1, <1>3, <1>4, UpToInduction, Zenon
<1>6. Len(L) \in S /\ P(Len(L)) = << >>
  BY <1>1, <1>5, Suffix
<1> QED
  BY <1>1, <1>2, <1>6, Zenon

\* The node's mocks followed by the test's own are distinct mocks.
LEMMA AllMocks ==
  ASSUME Constants, NEW d \in Seq(DynamicMocks), Distinct(d)
  PROVE  /\ NodeMocks \in Seq(Mocks) /\ d \in Seq(Mocks)
         /\ NodeMocks \o d \in Seq(Mocks)
         /\ Distinct(NodeMocks \o d)
<1>1. NodeMocks \in Seq(Mocks) /\ Distinct(NodeMocks)
  BY DEF Constants
<1>2. d \in Seq(Mocks)
  <2>1. DynamicMocks \subseteq Mocks
    BY DEF DynamicMocks, Mocks, Ids
  <2> QED BY <2>1, SeqSubset
<1> DEFINE L == NodeMocks \o d
           n == Len(NodeMocks)
<1>3. /\ L \in Seq(Mocks) /\ Len(L) = n + Len(d)
      /\ \A j \in 1 .. n : L[j] = NodeMocks[j]
      /\ \A j \in 1 .. Len(d) : L[n + j] = d[j]
  BY <1>1, <1>2, ConcatFacts
<1>4. n \in Nat /\ DOMAIN NodeMocks = 1 .. n /\ Len(d) \in Nat /\ DOMAIN d = 1 .. Len(d)
  BY <1>1
<1>5. DOMAIN L = 1 .. (n + Len(d))
  BY <1>3
<1> HIDE DEF L, n
<1>6. \A j \in DOMAIN L : IF j <= n THEN j \in DOMAIN NodeMocks /\ L[j] = NodeMocks[j]
                          ELSE j - n \in DOMAIN d /\ L[j] = d[j - n]
  <2> SUFFICES ASSUME NEW j \in DOMAIN L
               PROVE  IF j <= n THEN j \in DOMAIN NodeMocks /\ L[j] = NodeMocks[j]
                      ELSE j - n \in DOMAIN d /\ L[j] = d[j - n]
    OBVIOUS
  <2>1. CASE j <= n
    BY <2>1, <1>3, <1>4, <1>5
  <2>2. CASE ~(j <= n)
    <3>1. j - n \in 1 .. Len(d) /\ n + (j - n) = j
      BY <2>2, <1>4, <1>5
    <3>2. L[j] = d[j - n]
      BY <3>1, <1>3
    <3> QED BY <2>2, <3>1, <3>2, <1>4
  <2> QED BY <2>1, <2>2
<1>7. \A j \in DOMAIN d : d[j].id \in DOMAIN Dynamic
  <2>1. \A j \in DOMAIN d : d[j] \in DynamicMocks
    OBVIOUS
  <2> QED BY <2>1 DEF DynamicMocks
<1>8. \A j \in DOMAIN NodeMocks : NodeMocks[j].id \notin DOMAIN Dynamic
  BY DEF Constants
<1>9. Distinct(L)
  <2> SUFFICES ASSUME NEW j \in DOMAIN L, NEW k \in DOMAIN L, L[j].id = L[k].id PROVE j = k
    BY DEF Distinct
  <2>1. j \in Nat /\ k \in Nat
    BY <1>4, <1>5
  <2>2. CASE j <= n /\ k <= n
    BY <2>2, <1>1, <1>6 DEF Distinct
  <2>3. CASE ~(j <= n) /\ ~(k <= n)
    <3>1. j - n = k - n
      BY <2>3, <1>6 DEF Distinct
    <3> QED BY <3>1, <2>1, <1>4
  <2>4. ~(j <= n /\ ~(k <= n)) /\ ~(~(j <= n) /\ k <= n)
    BY <1>6, <1>7, <1>8
  <2> QED BY <2>2, <2>3, <2>4
<1> QED
  BY <1>1, <1>2, <1>3, <1>9 DEF L

-----------------------------------------------------------------------------
(* The invariant of the table.                                             *)

\* The state of the process is an image.
LEMMA ImageTyped ==
  ASSUME Constants, TableInv
  PROVE  image \in Images /\ image.text = text /\ image.installed_ = installed_
<1>1. text \in [Funcs -> Insns \cup {NULL}]
  BY DEF TableInv
<1>2. installed_ \in Tables
  BY DEF TableInv, Tables
<1> QED
  BY <1>1, <1>2 DEF image, Images

\* A step that installs or uninstalls leaves a state of the right type.
LEMMA BecomesTyped ==
  ASSUME Constants, TableInv, NEW m \in Images, Own(m), Becomes(m)
  PROVE  /\ text' = m.text /\ installed_' = m.installed_
         /\ text' \in [Funcs -> Insns]
         /\ DOMAIN installed_' \subseteq Funcs /\ installed_' \in [DOMAIN installed_' -> AddrStates]
         /\ tramp_intstate' \in Funcs \cup {NULL, Dangling}
<1>1. text' = m.text /\ installed_' = m.installed_
  BY DEF Becomes
<1>2. m.text \in [Funcs -> Insns \cup {NULL}] /\ m.installed_ \in Tables
  BY DEF Images
<1>3. \A f \in Funcs : m.text[f] \in Insns
  BY DEF Own, Constants, Insns
<1>4. DOMAIN m.installed_ \subseteq Funcs /\ m.installed_ \in [DOMAIN m.installed_ -> AddrStates]
  BY <1>2, Tabled
<1>5. tramp_intstate' \in Funcs \cup {NULL, Dangling}
  BY DEF Becomes, TableInv
<1> QED
  BY <1>1, <1>2, <1>3, <1>4, <1>5

\* What a call is redirected to is a mock or the function itself.
LEMMA RedirectTyped ==
  ASSUME TableInv, NEW f \in Funcs
  PROVE  redirect_(f) \in Ids \cup {Original}
<1>1. CASE Redirects(f) = {}
  BY <1>1 DEF redirect_
<1>2. CASE Redirects(f) # {}
  <2> DEFINE s == installed_[f].intercepts_
  <2>1. f \in DOMAIN installed_
    BY <1>2 DEF Redirects
  <2>2. installed_[f] \in AddrStates
    BY <2>1 DEF TableInv
  <2>3. s \in Seq(Mocks)
    BY <2>2 DEF AddrStates
  <2>4. Len(s) \in Nat /\ Redirects(f) \in SUBSET (1 .. Len(s))
    BY <2>1, <2>3 DEF Redirects
  <2>5. Max(Redirects(f)) \in 1 .. Len(s)
    BY <1>2, <2>4, MaxOf, Zenon
  <2>6. s[Max(Redirects(f))] \in Mocks
    BY <2>3, <2>5
  <2>7. s[Max(Redirects(f))].id \in Ids
    BY <2>6 DEF Mocks
  <2> QED BY <1>2, <2>7 DEF redirect_
<1> QED
  BY <1>1, <1>2

\* A new call is a call.
LEMMA FrameTyped ==
  ASSUME TableInv, NEW f \in Funcs, NEW b \in BOOLEAN, NEW r \in Ids \cup {Original}
  PROVE  Append(frames, Frame(f, r, b)) \in Seq(Calls)
<1>1. Frame(f, r, b) \in Calls
  BY RedirectTyped DEF Frame, Calls
<1> QED
  BY <1>1 DEF TableInv

\* Every instruction of the text t is its function's own or a breakpoint.
OwnText(t) == t \in [Funcs -> Insns] /\ \A f \in Funcs : t[f] \in {FirstInsn[f], Trap}

\* Writing a function's own instruction or a breakpoint keeps it so.
LEMMA WriteOwn ==
  ASSUME Constants, TableInv, NEW f \in Funcs, NEW insn \in {FirstInsn[f], Trap}
  PROVE  OwnText(text_write(image, f, insn).text)
<1> DEFINE t == text_write(image, f, insn).text
<1>1. insn \in Insns
  BY DEF Constants, Insns
<1>2. t = IF f \in Unwritable THEN text ELSE [text EXCEPT ![f] = insn]
  BY DEF text_write, image
<1>3. text \in [Funcs -> Insns] /\ \A g \in Funcs : text[g] \in {FirstInsn[g], Trap}
  BY DEF TableInv, Own, image
<1> HIDE DEF t
<1>4. t \in [Funcs -> Insns]
  BY <1>1, <1>2, <1>3
<1>5. \A g \in Funcs : t[g] \in {FirstInsn[g], Trap}
  BY <1>2, <1>3
<1> QED
  BY <1>4, <1>5 DEF OwnText, t

\* The invariant says so of the text.
LEMMA OwnNow ==
  ASSUME Constants, TableInv PROVE OwnText(text)
BY DEF TableInv, Own, image, OwnText

\* A step of a test that leaves the table alone and writes only own
\* instructions or breakpoints preserves the invariant.
LEMMA InTestStep ==
  ASSUME Constants, TableInv, Running, OwnText(text'), frames' \in Seq(Calls),
         tramp_intstate' \in Funcs \cup {NULL, Dangling},
         handler' \in {"none", "handle_signal", "SIG_DFL"},
         UNCHANGED <<arch, installed_, dynamic_intercepts, phase>>
  PROVE  TableInv'
<1>1. phase = "test" /\ phase' = "test" /\ installed_' = installed_
      /\ dynamic_intercepts' = dynamic_intercepts /\ arch' = arch
  BY DEF Running
<1>2. Own(image)'
  BY <1>1 DEF TableInv, Own, OwnText, image
<1>3. Lists(installed_', NodeMocks \o dynamic_intercepts')
  BY <1>1 DEF TableInv
<1>4. /\ text' \in [Funcs -> Insns]
      /\ DOMAIN installed_' \subseteq Funcs /\ installed_' \in [DOMAIN installed_' -> AddrStates]
      /\ dynamic_intercepts' \in Seq(DynamicMocks)
      /\ Distinct(dynamic_intercepts')
      /\ arch' \in Archs
  BY <1>1 DEF TableInv, OwnText
<1> QED
  BY <1>1, <1>2, <1>3, <1>4 DEF TableInv

\* A breakpoint that the handler takes for the framework's own is one of a
\* function in the table.
LEMMA ListedHere ==
  ASSUME Constants, TableInv, NEW f \in Funcs, Trapped(f)
  PROVE  f \in DOMAIN installed_
<1>1. arch \in {"linux_x86_64", "linux_x86", "darwin_x86_64"}
  BY DEF TableInv, Constants
<1>2. verdict(Hit(f)) = "tramp"
  BY DEF Trapped
<1> DEFINE s == Hit(f)
<1>3. s.listed <=> f \in DOMAIN installed_
  BY Zenon DEF Hit
<1> HIDE DEF s
<1>4. linux_x86_64_verdict(s) = "tramp" => s.listed
  BY DEF linux_x86_64_verdict
<1>5. linux_x86_verdict(s) = "tramp" => s.listed
  BY DEF linux_x86_verdict
<1>6. darwin_x86_64_verdict(s) = "tramp" => s.listed
  BY DEF darwin_x86_64_verdict
<1>7. s.listed
  BY <1>1, <1>2, <1>4, <1>5, <1>6 DEF verdict, s
<1> QED
  BY <1>3, <1>7

\* A step that installs or uninstalls preserves the invariant when the new
\* table lists the mocks there are afterwards.
LEMMA InstallStep ==
  ASSUME Constants, TableInv, NEW L \in Seq(Mocks), NEW m \in Images, Own(m),
         Lists(m.installed_, L), Becomes(m),
         arch' = arch, phase' = "test", L = NodeMocks \o dynamic_intercepts',
         dynamic_intercepts' \in Seq(DynamicMocks), Distinct(dynamic_intercepts'),
         handler' \in {"none", "handle_signal", "SIG_DFL"}, frames' \in Seq(Calls)
  PROVE  TableInv'
<1>1. /\ text' = m.text /\ installed_' = m.installed_
      /\ text' \in [Funcs -> Insns]
      /\ DOMAIN installed_' \subseteq Funcs /\ installed_' \in [DOMAIN installed_' -> AddrStates]
      /\ tramp_intstate' \in Funcs \cup {NULL, Dangling}
  BY BecomesTyped
<1>2. Own(image)'
  BY <1>1 DEF Own, image
<1>3. Lists(installed_', NodeMocks \o dynamic_intercepts')
  BY <1>1
<1>4. arch' \in Archs
  BY DEF TableInv
<1> QED
  BY <1>1, <1>2, <1>3, <1>4 DEF TableInv

\* pre_run preserves the invariant of the table.
LEMMA PreRunTable ==
  ASSUME Constants, TableInv, pre_run PROVE TableInv'
<1> DEFINE m == Fold(install, image, NodeMocks)
<1>1. phase = "pre_run" /\ Lists(installed_, << >>) /\ Own(image) /\ dynamic_intercepts = << >>
  BY DEF pre_run, TableInv
<1>2. image \in Images /\ image.installed_ = installed_
  BY ImageTyped
<1>3. m \in Images /\ Lists(m.installed_, NodeMocks) /\ Own(m)
  BY <1>1, <1>2, PreRunImage
<1>4. /\ Becomes(m) /\ Handled(m) /\ phase' = "test" /\ arch' = arch /\ frames' = frames
      /\ dynamic_intercepts' = dynamic_intercepts
  BY DEF pre_run
<1> HIDE DEF m
<1>5. NodeMocks \in Seq(Mocks) /\ NodeMocks = NodeMocks \o dynamic_intercepts'
  BY <1>1, <1>4 DEF Constants
<1>6. handler' \in {"none", "handle_signal", "SIG_DFL"}
  BY <1>4 DEF Handled, TableInv
<1>7. /\ dynamic_intercepts' \in Seq(DynamicMocks) /\ Distinct(dynamic_intercepts')
      /\ frames' \in Seq(Calls)
  BY <1>4 DEF TableInv
<1> QED
  BY <1>3, <1>4, <1>5, <1>6, <1>7, InstallStep

\* post_run preserves the invariant of the table.
LEMMA PostRunTable ==
  ASSUME Constants, TableInv, post_run PROVE TableInv'
<1> DEFINE m == Fold(uninstall, image, Leftover)
<1>1. phase = "test" /\ Lists(installed_, Leftover) /\ Own(image) /\ frames = << >>
  BY DEF post_run, TableInv, Leftover
<1>2. image \in Images /\ image.installed_ = installed_
  BY ImageTyped
<1>3. Leftover \in Seq(Mocks) /\ Distinct(Leftover)
  BY AllMocks DEF TableInv, Leftover
<1>4. m \in Images /\ Lists(m.installed_, << >>) /\ Own(m)
  BY <1>1, <1>2, <1>3, PostRunImage
<1>5. /\ Becomes(m) /\ phase' = "finished" /\ arch' = arch /\ frames' = frames
      /\ dynamic_intercepts' = << >> /\ handler' = handler
  BY DEF post_run
<1> HIDE DEF m
<1>6. /\ text' = m.text /\ installed_' = m.installed_
      /\ text' \in [Funcs -> Insns]
      /\ DOMAIN installed_' \subseteq Funcs /\ installed_' \in [DOMAIN installed_' -> AddrStates]
      /\ tramp_intstate' \in Funcs \cup {NULL, Dangling}
  BY <1>4, <1>5, BecomesTyped
<1>7. Own(image)'
  BY <1>4, <1>6 DEF Own, image
<1>8. dynamic_intercepts' \in Seq(DynamicMocks) /\ Distinct(dynamic_intercepts')
  BY <1>5 DEF Distinct
<1>9. arch' \in Archs /\ handler' \in {"none", "handle_signal", "SIG_DFL"} /\ frames' \in Seq(Calls)
  BY <1>5 DEF TableInv
<1> QED
  BY <1>1, <1>4, <1>5, <1>6, <1>7, <1>8, <1>9 DEF TableInv

\* np_mock preserves the invariant of the table.
LEMMA MockTable ==
  ASSUME Constants, TableInv, NEW a \in Funcs \cup Stubs, NEW id \in DOMAIN Dynamic,
         np_mock(a, id)
  PROVE  TableInv'
<1> DEFINE i == [addr_ |-> instrumentable_address(a), id |-> id]
           m == install(image, i)
           d == Append(dynamic_intercepts, i)
           L == NodeMocks \o d
<1>1. i \in Mocks /\ i \in DynamicMocks
  BY DEF instrumentable_address, Constants, Mocks, DynamicMocks, Ids
<1>2. image \in Images /\ image.installed_ = installed_
  BY ImageTyped
<1>3. dynamic_intercepts \in Seq(DynamicMocks) /\ Distinct(dynamic_intercepts)
  BY DEF TableInv
<1>4. d \in Seq(DynamicMocks)
  BY <1>1, <1>3
<1>5. Distinct(d)
  <2>1. \A k \in DOMAIN dynamic_intercepts : dynamic_intercepts[k].id # i.id
    BY DEF np_mock
  <2>2. /\ DOMAIN d = DOMAIN dynamic_intercepts \cup {Len(dynamic_intercepts) + 1}
        /\ d[Len(dynamic_intercepts) + 1] = i
        /\ \A k \in DOMAIN dynamic_intercepts : d[k] = dynamic_intercepts[k]
    BY <1>1, <1>3
  <2> HIDE DEF d, i
  <2> QED BY <2>1, <2>2, <1>3 DEF Distinct
<1>6. phase = "test" /\ Own(image) /\ Lists(installed_, NodeMocks \o dynamic_intercepts)
  BY DEF np_mock, Running, TableInv
<1>7. /\ NodeMocks \in Seq(Mocks) /\ dynamic_intercepts \in Seq(Mocks)
      /\ NodeMocks \o dynamic_intercepts \in Seq(Mocks)
  BY <1>3, AllMocks
<1>8. L = Append(NodeMocks \o dynamic_intercepts, i)
  BY <1>1, <1>7, ConcatAppend
<1>9. L \in Seq(Mocks) /\ Distinct(L)
  BY <1>4, <1>5, AllMocks, Zenon
<1> HIDE DEF i
<1>10. m \in Images /\ Own(m)
  BY <1>1, <1>2, <1>6, <1>7, InstallImage, InstallMarks, Zenon
<1>11. Lists(m.installed_, L)
  BY <1>1, <1>2, <1>6, <1>7, <1>8, <1>9, InstallLists, Zenon
<1>12. /\ Becomes(m) /\ Handled(m) /\ arch' = arch /\ phase' = phase /\ frames' = frames
       /\ dynamic_intercepts' = d
  BY DEF np_mock, i
<1> HIDE DEF m, d
<1>13. handler' \in {"none", "handle_signal", "SIG_DFL"} /\ frames' \in Seq(Calls)
  BY <1>12 DEF Handled, TableInv
<1> QED
  BY <1>4, <1>5, <1>6, <1>9, <1>10, <1>11, <1>12, <1>13, InstallStep, Zenon

\* Mocks stay distinct when one is removed.
LEMMA DistinctRemoved ==
  ASSUME NEW M, NEW d \in Seq(M), Distinct(d), NEW k \in 1 .. Len(d)
  PROVE  Distinct(Erase(d, k))
<1> DEFINE r == Erase(d, k)
<1>1. /\ r \in Seq(M) /\ Len(r) = Len(d) - 1 /\ DOMAIN r = 1 .. (Len(d) - 1)
      /\ \A j, l \in DOMAIN r : j < l =>
           \E p, q \in DOMAIN d : p # k /\ q # k /\ p < q /\ r[j] = d[p] /\ r[l] = d[q]
  <2> HIDE DEF r
  <2> QED BY Removal DEF r
<1>2. Len(d) \in Nat /\ DOMAIN d = 1 .. Len(d)
  OBVIOUS
<1> HIDE DEF r
<1>3. \A j, l \in DOMAIN r : j < l => r[j].id # r[l].id
  <2> SUFFICES ASSUME NEW j \in DOMAIN r, NEW l \in DOMAIN r, j < l PROVE r[j].id # r[l].id
    OBVIOUS
  <2>1. PICK p \in DOMAIN d, q \in DOMAIN d : p < q /\ r[j] = d[p] /\ r[l] = d[q]
    BY <1>1
  <2>2. p # q
    BY <2>1, <1>2
  <2> QED BY <2>1, <2>2 DEF Distinct
<1>4. \A j, l \in DOMAIN r : j = l \/ j < l \/ l < j
  BY <1>1, <1>2
<1>5. Distinct(r)
  BY <1>3, <1>4 DEF Distinct
<1> QED
  BY <1>5 DEF r

\* The dynamic mock that np_unmock finds first.
FirstMatch(a) == CHOOSE j \in Matching(a) : \A l \in Matching(a) : j <= l

\* It is one of the dynamic mocks.
LEMMA FirstMatchFacts ==
  ASSUME TableInv, NEW a, Matching(a) # {}
  PROVE  FirstMatch(a) \in 1 .. Len(dynamic_intercepts)
<1>1. /\ Len(dynamic_intercepts) \in Nat
      /\ Matching(a) \in SUBSET (1 .. Len(dynamic_intercepts))
  BY DEF Matching, TableInv
<1>2. FirstMatch(a) = Min(Matching(a))
  BY Zenon DEF FirstMatch, Min
<1> QED
  BY <1>1, <1>2, MinOf, Zenon

\* np_unmock preserves the invariant of the table.
LEMMA UnmockTable ==
  ASSUME Constants, TableInv, NEW a \in Funcs \cup Stubs, np_unmock(a)
  PROVE  TableInv'
<1>0. phase = "test" /\ Own(image) /\ Lists(installed_, NodeMocks \o dynamic_intercepts)
  BY DEF np_unmock, Running, TableInv
<1>1. CASE Matching(a) = {}
  <2>1. UNCHANGED <<text, installed_, dynamic_intercepts, tramp_intstate, arch, handler, phase, frames>>
    BY <1>1 DEF np_unmock
  <2>2. OwnText(text') /\ frames' \in Seq(Calls) /\ tramp_intstate' \in Funcs \cup {NULL, Dangling}
        /\ handler' \in {"none", "handle_signal", "SIG_DFL"}
    BY <2>1, OwnNow DEF TableInv
  <2>3. Running
    BY DEF np_unmock
  <2> QED BY <2>1, <2>2, <2>3, InTestStep
<1>2. CASE Matching(a) # {}
  <2> DEFINE k == FirstMatch(a)
             d == Erase(dynamic_intercepts, k)
             D == NodeMocks \o dynamic_intercepts
             L == NodeMocks \o d
             i == dynamic_intercepts[k]
             m == uninstall(image, i)
  <2>1. k \in 1 .. Len(dynamic_intercepts)
    BY <1>2, FirstMatchFacts
  <2>2. /\ dynamic_intercepts' = d /\ Becomes(m)
        /\ arch' = arch /\ handler' = handler /\ phase' = phase /\ frames' = frames
    BY <1>2 DEF np_unmock, FirstMatch
  <2>3. dynamic_intercepts \in Seq(DynamicMocks) /\ Distinct(dynamic_intercepts)
    BY DEF TableInv
  <2> HIDE DEF k
  <2>4. d \in Seq(DynamicMocks) /\ Distinct(d)
    BY <2>1, <2>3, EraseFacts, DistinctRemoved
  <2>5. /\ NodeMocks \in Seq(Mocks) /\ dynamic_intercepts \in Seq(Mocks)
        /\ D \in Seq(Mocks) /\ Distinct(D)
    BY <2>3, AllMocks
  <2>6. L \in Seq(Mocks)
    BY <2>4, AllMocks
  <2> DEFINE q == Len(NodeMocks) + k
  <2>7. L = Erase(D, q)
    BY <2>1, <2>5, ConcatRemove
  <2>8. q \in DOMAIN D /\ D[q] = i
    <3>1. /\ Len(D) = Len(NodeMocks) + Len(dynamic_intercepts)
          /\ \A j \in 1 .. Len(dynamic_intercepts) : D[Len(NodeMocks) + j] = dynamic_intercepts[j]
      BY <2>5, ConcatFacts
    <3>2. Len(NodeMocks) \in Nat /\ Len(dynamic_intercepts) \in Nat /\ DOMAIN D = 1 .. Len(D)
      BY <2>5
    <3> HIDE DEF D
    <3> QED BY <2>1, <3>1, <3>2
  <2>9. image \in Images /\ image.installed_ = installed_
    BY ImageTyped
  <2>10. i \in Mocks
    BY <2>1, <2>5
  <2> HIDE DEF D, L, q, i, d
  <2>11. Lists(m.installed_, L) /\ i.addr_ \in DOMAIN image.installed_
    <3>1. Lists(image.installed_, D)
      BY <1>0, <2>9 DEF D
    <3>2. Lists(uninstall(image, D[q]).installed_, Erase(D, q))
          /\ D[q].addr_ \in DOMAIN image.installed_
      BY <2>5, <2>8, <2>9, <3>1, UninstallLists
    <3> QED BY <2>7, <2>8, <3>2
  <2>12. m \in Images
    BY <2>9, <2>10, UninstallImage, Zenon
  <2>13. Own(m)
    BY <1>0, <2>9, <2>10, <2>11, UninstallMarks
  <2> HIDE DEF m
  <2>14. handler' \in {"none", "handle_signal", "SIG_DFL"} /\ frames' \in Seq(Calls)
         /\ L = NodeMocks \o dynamic_intercepts' /\ phase' = "test"
    BY <1>0, <2>2 DEF TableInv, L
  <2>15. dynamic_intercepts' \in Seq(DynamicMocks) /\ Distinct(dynamic_intercepts')
    BY <2>2, <2>4
  <2> QED BY <2>2, <2>6, <2>11, <2>12, <2>13, <2>14, <2>15, InstallStep, Zenon
<1> QED
  BY <1>1, <1>2

\* A call, whatever the trampoline does with it, preserves the invariant of
\* the table.
LEMMA CallTable ==
  ASSUME Constants, TableInv, NEW f \in Funcs,
         calls_untrapped(f) \/ trap_kills(f) \/ intercept_tramp(f) \/ tramp_skips(f)
           \/ before_throws(f)
  PROVE  TableInv'
<1>0. frames \in Seq(Calls) /\ tramp_intstate \in Funcs \cup {NULL, Dangling}
      /\ handler \in {"none", "handle_signal", "SIG_DFL"} /\ OwnText(text)
  BY OwnNow DEF TableInv
<1>1. CASE calls_untrapped(f)
  <2>1. frames' \in Seq(Calls)
    BY <1>1, FrameTyped, Zenon DEF calls_untrapped
  <2>2. Running /\ UNCHANGED <<arch, text, installed_, dynamic_intercepts, tramp_intstate, handler, phase>>
    BY <1>1 DEF calls_untrapped, CanCall
  <2> QED BY <1>0, <2>1, <2>2, InTestStep
<1>2. CASE trap_kills(f)
  <2>1. Running /\ UNCHANGED <<arch, text, installed_, dynamic_intercepts, tramp_intstate, handler, phase,
                               frames>>
    BY <1>2 DEF trap_kills, CanCall
  <2> QED BY <1>0, <2>1, InTestStep
<1>u. ASSUME Trapped(f) PROVE OwnText(Untrapped(f)) /\ Running
  <2>1. f \in DOMAIN installed_
    BY <1>u, ListedHere
  <2>2. installed_[f].orig_ \in {FirstInsn[f], Trap}
    BY <2>1 DEF TableInv, Own, image
  <2>3. OwnText(text_write(image, f, installed_[f].orig_).text)
    BY <2>2, WriteOwn, Zenon
  <2> QED BY <1>0, <1>u, <2>3, Zenon DEF Untrapped, Trapped, CanCall
<1>3. CASE intercept_tramp(f)
  <2>1. OwnText(text') /\ Running
    BY <1>0, <1>3, <1>u DEF intercept_tramp, tramp_text
  <2>2. frames' \in Seq(Calls)
    BY <1>3, FrameTyped, RedirectTyped, Zenon DEF intercept_tramp
  <2>3. tramp_intstate' \in Funcs \cup {NULL, Dangling}
        /\ UNCHANGED <<arch, installed_, dynamic_intercepts, handler, phase>>
    BY <1>3 DEF intercept_tramp
  <2> QED BY <1>0, <2>1, <2>2, <2>3, InTestStep
<1>4. CASE tramp_skips(f)
  <2>1. Running /\ tramp_intstate' \in Funcs \cup {NULL, Dangling}
        /\ UNCHANGED <<arch, text, installed_, dynamic_intercepts, handler, phase, frames>>
    BY <1>4 DEF tramp_skips, Trapped, CanCall
  <2> QED BY <1>0, <2>1, InTestStep
<1>5. CASE before_throws(f)
  <2>1. OwnText(text') /\ Running
    BY <1>5, <1>u DEF before_throws
  <2>2. frames' \in Seq(Calls) /\ tramp_intstate' \in Funcs \cup {NULL, Dangling}
        /\ UNCHANGED <<arch, installed_, dynamic_intercepts, handler, phase>>
    BY <1>5 DEF before_throws
  <2> QED BY <1>0, <2>1, <2>2, InTestStep
<1> QED
  BY <1>1, <1>2, <1>3, <1>4, <1>5

\* A return, a throw and a foreign signal preserve the invariant of the table.
LEMMA ReturnTable ==
  ASSUME Constants, TableInv, returns \/ np_throw \/ stray_signal
  PROVE  TableInv'
<1>0. frames \in Seq(Calls) /\ tramp_intstate \in Funcs \cup {NULL, Dangling}
      /\ handler \in {"none", "handle_signal", "SIG_DFL"} /\ OwnText(text)
  BY OwnNow DEF TableInv
<1>1. CASE returns
  <2>1. Running /\ UNCHANGED <<arch, installed_, dynamic_intercepts, tramp_intstate, handler, phase>>
        /\ frames # << >> /\ frames' = Front(frames)
    BY <1>1 DEF returns
  <2>2. frames' \in Seq(Calls) /\ Last(frames) \in Calls
    BY <1>0, <2>1, FrontLast
  <2>3. Last(frames).addr \in Funcs
    BY <2>2 DEF Calls
  <2>4. OwnText(text_write(image, Last(frames).addr, Trap).text)
    BY <2>3, WriteOwn
  <2>5. \A type : OwnText(after_text(Last(frames).addr, type))
    BY <1>0, <2>4 DEF after_text
  <2>6. OwnText(text')
    BY <1>0, <1>1, <2>5 DEF returns
  <2> QED BY <1>0, <2>1, <2>2, <2>6, InTestStep
<1>2. CASE np_throw
  <2>1. Running /\ UNCHANGED <<arch, text, installed_, dynamic_intercepts, tramp_intstate, handler, phase>>
        /\ frames' \in Seq(Calls)
    BY <1>2 DEF np_throw
  <2> QED BY <1>0, <2>1, InTestStep
<1>3. CASE stray_signal
  <2>1. Running /\ UNCHANGED <<arch, text, installed_, dynamic_intercepts, tramp_intstate, phase, frames>>
        /\ handler' \in {"none", "handle_signal", "SIG_DFL"}
    BY <1>0, <1>3 DEF stray_signal
  <2> QED BY <1>0, <2>1, InTestStep
<1> QED
  BY <1>1, <1>2, <1>3

\* Every step preserves the invariant of the table.
LEMMA TableStep ==
  ASSUME Constants, TableInv, [Next]_vars
  PROVE  TableInv'
<1>1. CASE UNCHANGED vars
  BY <1>1 DEF vars, TableInv, Own, image
<1>2. CASE Next
  BY <1>2, PreRunTable, PostRunTable, MockTable, UnmockTable, CallTable, ReturnTable, Zenon DEF Next
<1> QED
  BY <1>1, <1>2

\* A process starts with an empty table and its own text.
LEMMA InitTable ==
  ASSUME Constants, Init PROVE TableInv
<1>1. DOMAIN << >> = {}
  OBVIOUS
<1>2. Lists(<< >>, << >>)
  BY <1>1 DEF Lists
<1>3. text = FirstInsn /\ installed_ = << >> /\ dynamic_intercepts = << >> /\ frames = << >>
  BY DEF Init
<1>4. text \in [Funcs -> Insns]
  BY <1>3 DEF Constants, Insns
<1>5. DOMAIN installed_ \subseteq Funcs /\ installed_ \in [DOMAIN installed_ -> AddrStates]
  BY <1>3
<1>6. Own(image)
  BY <1>1, <1>3 DEF Own, image
<1>7. Distinct(dynamic_intercepts)
  BY <1>1, <1>3 DEF Distinct
<1> QED
  BY <1>2, <1>3, <1>4, <1>5, <1>6, <1>7 DEF Init, TableInv

\* Whatever the mocks do, throw or unmock, the table lists the mocks that were
\* installed and not removed since, in order, and a function's first
\* instruction and the one saved for it are its own or a breakpoint (install,
\* uninstall, pre_run, post_run of intercept.cxx and testnode.cxx).
THEOREM TableInvariant ==
  ASSUME Constants PROVE Spec => []TableInv
<1>1. Init => TableInv
  BY InitTable
<1>2. TableInv /\ [Next]_vars => TableInv'
  BY TableStep
<1> QED
  BY <1>1, <1>2, PTL DEF Spec

-----------------------------------------------------------------------------
(* Text, table and calls.                                                  *)

\* A state that shows a marked image is marked.
LEMMA MarkedOf ==
  ASSUME NEW m \in Images, Marked(m), text' = m.text, installed_' = m.installed_
  PROVE  Marked(image)'
BY DEF Marked, image

\* With no active call there is nothing to redirect.
LEMMA NoCalls ==
  ASSUME frames' = << >> PROVE
  /\ MockTakesEffect'
  /\ \A k \in DOMAIN frames' : frames'[k].tramp => frames'[k].addr \in DOMAIN installed_' \ Unwritable
<1>1. DOMAIN frames' = {}
  OBVIOUS
<1> QED
  BY <1>1 DEF MockTakesEffect

\* Active calls stay redirected while no row of the table is dropped.
LEMMA SameCalls ==
  ASSUME MocksInv, frames' = frames, DOMAIN installed_ \subseteq DOMAIN installed_' PROVE
  /\ MockTakesEffect'
  /\ \A k \in DOMAIN frames' : frames'[k].tramp => frames'[k].addr \in DOMAIN installed_' \ Unwritable
BY DEF MockTakesEffect, MocksInv

\* Breakpoints stay where the table has rows when neither changes.
LEMMA SameTextAndTable ==
  ASSUME MocksInv, text' = text, installed_' = installed_ PROVE Marked(image)'
BY DEF MocksInv, Marked, image

\* A function with a breakpoint is in the table.
LEMMA TrapMeansListed ==
  ASSUME Constants, MocksInv, NEW f \in Funcs, text[f] = Trap
  PROVE  f \in DOMAIN installed_ \ Unwritable
<1>1. text[f] = IF f \in DOMAIN installed_ \ Unwritable THEN Trap ELSE FirstInsn[f]
  BY DEF MocksInv, Marked, image
<1>2. FirstInsn[f] # Trap
  BY DEF Constants, Trap
<1> QED
  BY <1>1, <1>2

\* A function in the table of an ordinary test has a mock that redirects or
\* skips its calls.
LEMMA ListedRedirects ==
  ASSUME Constants, Ordinary, TableInv, NEW f \in DOMAIN installed_, Running
  PROVE  ~Some(f, "throw") /\ (Some(f, "skip") \/ Some(f, "redirect"))
<1> DEFINE s == installed_[f].intercepts_
<1>1. s \in Seq(Mocks)
  BY DEF TableInv, AddrStates
<1>2. \A j \in DOMAIN s : s[j].id \in Ids
  <2>1. \A j \in DOMAIN s : s[j] \in Mocks
    BY <1>1
  <2> QED BY <2>1 DEF Mocks
<1>3. \A j \in DOMAIN s : Before(s[j].id) \in {"redirect", "skip"}
  BY <1>2 DEF Before, Ordinary
<1>4. \E j \in DOMAIN s : TRUE
  <2> DEFINE L == NodeMocks \o dynamic_intercepts
  <2>1. Lists(installed_, L)
    BY DEF TableInv, Running
  <2> HIDE DEF L
  <2>2. PICK k \in DOMAIN L : L[k].addr_ = f
    BY <2>1 DEF Lists
  <2>3. InOrder(s, L, f)
    BY <2>1 DEF Lists
  <2> QED BY <2>2, <2>3 DEF InOrder
<1>5. ~Some(f, "throw")
  BY <1>3 DEF Some
<1>6. Some(f, "skip") \/ Some(f, "redirect")
  BY <1>3, <1>4 DEF Some
<1> QED
  BY <1>5, <1>6

\* A call that runs what the table meant it to run keeps the calls redirected.
LEMMA AppendedCall ==
  ASSUME TableInv, MocksInv, NEW c \in Calls, frames' = Append(frames, c), installed_' = installed_,
         c.addr \notin Unwritable => c.runs = c.meant,
         c.tramp => c.addr \in DOMAIN installed_ \ Unwritable
  PROVE
  /\ MockTakesEffect'
  /\ \A k \in DOMAIN frames' : frames'[k].tramp => frames'[k].addr \in DOMAIN installed_' \ Unwritable
<1>1. frames \in Seq(Calls)
  BY DEF TableInv
<1>2. \A k \in DOMAIN frames' : (k \in DOMAIN frames /\ frames'[k] = frames[k]) \/ frames'[k] = c
  BY <1>1
<1> QED
  BY <1>2 DEF MockTakesEffect, MocksInv

\* pre_run keeps text, table and calls in agreement.
LEMMA PreRunMocks ==
  ASSUME Constants, TableInv, MocksInv, pre_run PROVE MocksInv'
<1> DEFINE m == Fold(install, image, NodeMocks)
<1>1. Lists(installed_, << >>) /\ Own(image) /\ frames = << >>
  BY DEF pre_run, TableInv
<1>2. image \in Images /\ image.installed_ = installed_
  BY ImageTyped
<1>3. m \in Images /\ Marked(m)
  BY <1>1, <1>2, PreRunImage DEF MocksInv
<1>4. text' = m.text /\ installed_' = m.installed_ /\ frames' = << >>
  BY <1>1, Zenon DEF pre_run, Becomes
<1> HIDE DEF m
<1>5. Marked(image)'
  BY <1>3, <1>4, MarkedOf
<1> QED
  BY <1>4, <1>5, NoCalls DEF MocksInv

\* post_run keeps text, table and calls in agreement.
LEMMA PostRunMocks ==
  ASSUME Constants, TableInv, MocksInv, post_run PROVE MocksInv'
<1> DEFINE m == Fold(uninstall, image, Leftover)
<1>1. Lists(installed_, Leftover) /\ Own(image) /\ frames = << >>
  BY DEF post_run, TableInv, Leftover
<1>2. image \in Images /\ image.installed_ = installed_
  BY ImageTyped
<1>3. Leftover \in Seq(Mocks) /\ Distinct(Leftover)
  BY AllMocks DEF TableInv, Leftover
<1>4. m \in Images /\ Marked(m)
  BY <1>1, <1>2, <1>3, PostRunImage DEF MocksInv
<1>5. text' = m.text /\ installed_' = m.installed_ /\ frames' = << >>
  BY <1>1, Zenon DEF post_run, Becomes
<1> HIDE DEF m
<1>6. Marked(image)'
  BY <1>4, <1>5, MarkedOf
<1> QED
  BY <1>5, <1>6, NoCalls, Zenon DEF MocksInv

\* np_mock keeps text, table and calls in agreement.
LEMMA MockMocks ==
  ASSUME Constants, TableInv, MocksInv, NEW a \in Funcs \cup Stubs, NEW id \in DOMAIN Dynamic,
         np_mock(a, id)
  PROVE  MocksInv'
<1> DEFINE i == [addr_ |-> instrumentable_address(a), id |-> id]
           m == install(image, i)
           L == NodeMocks \o dynamic_intercepts
<1>1. i \in Mocks
  BY Zenon DEF instrumentable_address, Constants, Mocks, Ids
<1>2. image \in Images /\ image.installed_ = installed_
  BY ImageTyped
<1>3. L \in Seq(Mocks) /\ Lists(installed_, L)
  BY AllMocks DEF TableInv, np_mock, Running
<1>4. text' = m.text /\ installed_' = m.installed_ /\ frames' = frames
  BY Zenon DEF np_mock, Becomes
<1> HIDE DEF i, L
<1>5. m \in Images /\ Marked(m)
  BY <1>1, <1>2, <1>3, InstallImage, InstallMarks, Zenon DEF MocksInv
<1>6. DOMAIN installed_ \subseteq DOMAIN m.installed_
  BY <1>1, <1>2, InstallImage, Zenon
<1> HIDE DEF m
<1>7. Marked(image)'
  BY <1>4, <1>5, MarkedOf
<1> QED
  BY <1>4, <1>6, <1>7, SameCalls, Zenon DEF MocksInv

\* The mock that np_unmock removes is in the table, and the new state is what
\* uninstall makes of the old one.
LEMMA Unmocked ==
  ASSUME Constants, TableInv, NEW a \in Funcs \cup Stubs, np_unmock(a), Matching(a) # {}
  PROVE  LET i == dynamic_intercepts[FirstMatch(a)]
             m == uninstall(image, i)
         IN /\ i \in Mocks /\ i.addr_ \in DOMAIN installed_
            /\ m \in Images /\ text' = m.text /\ installed_' = m.installed_
<1> DEFINE k == FirstMatch(a)
           D == NodeMocks \o dynamic_intercepts
           i == dynamic_intercepts[k]
           m == uninstall(image, i)
<1>1. k \in 1 .. Len(dynamic_intercepts)
  BY FirstMatchFacts
<1>2. text' = m.text /\ installed_' = m.installed_
  BY DEF np_unmock, FirstMatch, Becomes
<1>3. NodeMocks \in Seq(Mocks) /\ dynamic_intercepts \in Seq(Mocks) /\ Lists(installed_, D)
  BY AllMocks DEF TableInv, np_unmock, Running
<1>4. i \in Mocks
  BY <1>1, <1>3
<1>5. image \in Images
  BY ImageTyped
<1>6. i.addr_ \in DOMAIN installed_
  <2>1. /\ D \in Seq(Mocks) /\ Len(D) = Len(NodeMocks) + Len(dynamic_intercepts)
        /\ \A j \in 1 .. Len(dynamic_intercepts) : D[Len(NodeMocks) + j] = dynamic_intercepts[j]
    BY <1>3, ConcatFacts
  <2>2. Len(NodeMocks) \in Nat /\ Len(dynamic_intercepts) \in Nat
    BY <1>3
  <2> HIDE DEF D, k
  <2>3. Len(NodeMocks) + k \in DOMAIN D /\ D[Len(NodeMocks) + k] = i
    BY <1>1, <2>1, <2>2
  <2> HIDE DEF i
  <2> QED BY <1>3, <2>3 DEF Lists
<1> HIDE DEF i, k
<1>7. m \in Images
  BY <1>4, <1>5, UninstallImage, Zenon
<1> QED
  BY <1>2, <1>4, <1>6, <1>7, Zenon DEF i, k

\* np_unmock keeps text, table and calls in agreement in a test that does not
\* unmock a function from inside a call of it.
LEMMA UnmockMocks ==
  ASSUME Constants, Ordinary, TableInv, MocksInv, NEW a \in Funcs \cup Stubs, np_unmock(a)
  PROVE  MocksInv'
<1>1. CASE Matching(a) = {}
  <2>1. text' = text /\ installed_' = installed_ /\ frames' = frames
    BY <1>1 DEF np_unmock
  <2> QED BY <2>1, SameTextAndTable, SameCalls, Zenon DEF MocksInv
<1>2. CASE Matching(a) # {}
  <2> DEFINE i == dynamic_intercepts[FirstMatch(a)]
             m == uninstall(image, i)
  <2>1. /\ i \in Mocks /\ i.addr_ \in DOMAIN installed_
        /\ m \in Images /\ text' = m.text /\ installed_' = m.installed_
    BY <1>2, Unmocked, Zenon
  <2>2. frames' = << >>
    BY DEF np_unmock, Ordinary
  <2>3. image \in Images /\ image.installed_ = installed_
    BY ImageTyped
  <2> HIDE DEF i
  <2>4. Marked(m)
    BY <2>1, <2>3, UninstallMarks, Zenon DEF MocksInv
  <2> HIDE DEF m
  <2>5. Marked(image)'
    BY <2>1, <2>4, MarkedOf, Zenon
  <2> QED BY <2>2, <2>5, NoCalls DEF MocksInv
<1> QED
  BY <1>1, <1>2

\* A call keeps text, table and calls in agreement: the trampoline puts the
\* original instruction back while it runs the call and the breakpoint
\* afterwards.
LEMMA CallMocks ==
  ASSUME Constants, Ordinary, TableInv, MocksInv, NEW f \in Funcs,
         calls_untrapped(f) \/ trap_kills(f) \/ intercept_tramp(f) \/ tramp_skips(f)
           \/ before_throws(f)
  PROVE  MocksInv'
<1>1. CASE calls_untrapped(f)
  <2> DEFINE c == Frame(f, Original, FALSE)
  <2>1. c \in Calls /\ c.addr = f /\ c.tramp = FALSE /\ c.runs = Original /\ c.meant = redirect_(f)
    BY RedirectTyped DEF Frame, Calls
  <2>2. UNCHANGED <<text, installed_>> /\ frames' = Append(frames, c) /\ text[f] # Trap
    BY <1>1 DEF calls_untrapped
  <2> HIDE DEF c
  <2>3. f \notin Unwritable => f \notin DOMAIN installed_
    BY <2>2, Zenon DEF MocksInv, Marked, image
  <2>4. f \notin Unwritable => redirect_(f) = Original
    BY <2>3 DEF redirect_, Redirects
  <2> QED BY <2>1, <2>2, <2>4, SameTextAndTable, AppendedCall, Zenon DEF MocksInv
<1>2. CASE trap_kills(f)
  <2>1. UNCHANGED <<text, installed_, frames>>
    BY <1>2 DEF trap_kills
  <2> QED BY <2>1, SameTextAndTable, SameCalls DEF MocksInv
<1>3. CASE intercept_tramp(f)
  <2> DEFINE c == Frame(f, redirect_(f), TRUE)
  <2>1. Trapped(f) /\ ~Some(f, "skip") /\ text[f] = Trap /\ Running
    BY <1>3, Zenon DEF intercept_tramp, Trapped, CanCall
  <2>2. f \in DOMAIN installed_ \ Unwritable
    BY <2>1, TrapMeansListed, Zenon
  <2>3. Some(f, "redirect")
    BY <2>1, <2>2, ListedRedirects
  <2>4. text' = text /\ installed_' = installed_ /\ frames' = Append(frames, c)
    BY <1>3, <2>3 DEF intercept_tramp, tramp_text
  <2>5. c \in Calls /\ c.addr = f /\ c.runs = c.meant
    BY RedirectTyped DEF Frame, Calls
  <2> HIDE DEF c
  <2> QED BY <2>2, <2>4, <2>5, SameTextAndTable, AppendedCall, Zenon DEF MocksInv
<1>4. CASE tramp_skips(f)
  <2>1. UNCHANGED <<text, installed_, frames>>
    BY <1>4 DEF tramp_skips
  <2> QED BY <2>1, SameTextAndTable, SameCalls, Zenon DEF MocksInv
<1>5. CASE before_throws(f)
  <2>1. text[f] = Trap /\ Running /\ Some(f, "throw")
    BY <1>5 DEF before_throws, Trapped, CanCall
  <2> QED BY <2>1, TrapMeansListed, ListedRedirects
<1> QED
  BY <1>1, <1>2, <1>3, <1>4, <1>5

\* A return, a throw and a foreign signal keep text, table and calls in
\* agreement.
LEMMA ReturnMocks ==
  ASSUME Constants, TableInv, MocksInv, returns \/ np_throw \/ stray_signal
  PROVE  MocksInv'
<1>1. CASE returns
  <2>1. installed_' = installed_ /\ frames # << >> /\ frames' = Front(frames)
    BY <1>1 DEF returns
  <2>2. /\ DOMAIN Front(frames) \subseteq DOMAIN frames
        /\ \A j \in DOMAIN Front(frames) : Front(frames)[j] = frames[j]
        /\ Len(frames) \in DOMAIN frames /\ Last(frames) = frames[Len(frames)]
    <3>1. frames \in Seq(Calls)
      BY DEF TableInv
    <3> QED BY <2>1, <3>1, FrontLast
  <2>3. ASSUME Last(frames).tramp, NEW type PROVE after_text(Last(frames).addr, type) = text
    <3> DEFINE f == Last(frames).addr
    <3>1. f \in DOMAIN installed_ \ Unwritable
      BY <2>2, <2>3 DEF MocksInv
    <3>2. f \in Funcs /\ text \in [Funcs -> Insns]
      BY <3>1 DEF TableInv
    <3>3. text[f] = Trap
      BY <3>1, <3>2 DEF MocksInv, Marked, image
    <3>4. text_write(image, f, Trap).text = [text EXCEPT ![f] = Trap]
      BY <3>1 DEF text_write, image
    <3>5. [text EXCEPT ![f] = Trap] = text
      BY <3>2, <3>3
    <3> QED BY <3>4, <3>5 DEF after_text
  <2>4. text' = text
    BY <1>1, <2>3 DEF returns
  <2>5. MockTakesEffect' /\ \A k \in DOMAIN frames' :
           frames'[k].tramp => frames'[k].addr \in DOMAIN installed_' \ Unwritable
    BY <2>1, <2>2 DEF MockTakesEffect, MocksInv
  <2> QED BY <2>1, <2>4, <2>5, SameTextAndTable DEF MocksInv
<1>2. CASE np_throw
  <2>1. UNCHANGED <<text, installed_>> /\ frames' = << >>
    BY <1>2 DEF np_throw
  <2> QED BY <2>1, SameTextAndTable, NoCalls DEF MocksInv
<1>3. CASE stray_signal
  <2>1. UNCHANGED <<text, installed_, frames>>
    BY <1>3 DEF stray_signal
  <2> QED BY <2>1, SameTextAndTable, SameCalls DEF MocksInv
<1> QED
  BY <1>1, <1>2, <1>3

\* Every step of an ordinary test keeps text, table and calls in agreement.
LEMMA MocksStep ==
  ASSUME Constants, Ordinary, TableInv, MocksInv, [Next]_vars
  PROVE  MocksInv'
<1>1. CASE UNCHANGED vars
  <2>1. UNCHANGED <<text, installed_, frames>>
    BY <1>1 DEF vars
  <2> QED BY <2>1, SameTextAndTable, SameCalls DEF MocksInv
<1>2. CASE Next
  BY <1>2, PreRunMocks, PostRunMocks, MockMocks, UnmockMocks, CallMocks, ReturnMocks, Zenon DEF Next
<1> QED
  BY <1>1, <1>2

\* They agree at first.
LEMMA InitMocks ==
  ASSUME Constants, Init PROVE MocksInv
<1>1. DOMAIN << >> = {}
  OBVIOUS
<1>2. text = FirstInsn /\ installed_ = << >> /\ frames = << >>
  BY DEF Init
<1>3. Marked(image)
  BY <1>1, <1>2 DEF Marked, image
<1>4. MockTakesEffect
  BY <1>1, <1>2 DEF MockTakesEffect
<1> QED
  BY <1>1, <1>2, <1>3, <1>4 DEF MocksInv

-----------------------------------------------------------------------------
(* The signal handler.                                                     *)

\* The instruction of a function that is no breakpoint is of a known type
\* (install_intercept).
LEMMA TypeKnown ==
  ASSUME NEW insn \in {"push", "other"} PROVE type_(insn) # "UNKNOWN"
BY DEF type_, Trap

\* The handler of each platform takes a breakpoint of the framework for what
\* it is.
LEMMA HitIsTramp ==
  ASSUME Constants, TableInv, NEW f \in DOMAIN installed_
  PROVE  verdict(Hit(f)) = "tramp"
<1>1. arch \in {"linux_x86_64", "linux_x86", "darwin_x86_64"}
  BY DEF TableInv, Constants
<1> DEFINE s == Hit(f)
<1>2. s.sig = TrapSignal /\ s.code \in TrapCodes /\ s.insn = TrapInsn /\ s.pid = 0 /\ s.listed
  BY Zenon DEF Hit, TrapCodes
<1> HIDE DEF s
<1>3. linux_x86_64_verdict(s) = "tramp"
  BY <1>2 DEF linux_x86_64_verdict
<1>4. linux_x86_verdict(s) = "tramp"
  BY <1>2 DEF linux_x86_verdict
<1>5. darwin_x86_64_verdict(s) = "tramp"
  BY <1>2 DEF darwin_x86_64_verdict
<1> QED
  BY <1>1, <1>3, <1>4, <1>5 DEF verdict, s

\* Every step of a test without foreign signals leaves the process alive, and
\* the handler installed while the table has rows.
LEMMA HandlerStep ==
  ASSUME Constants, ~StraySignals, TableInv, MocksInv, HandlerInv, [Next]_vars, TableInv'
  PROVE  HandlerInv'
<1>0. alive /\ handler \in {"none", "handle_signal"} /\ (DOMAIN installed_ # {} => handler = "handle_signal")
  BY DEF HandlerInv, TableInv
<1>1. CASE pre_run
  <2> DEFINE m == Fold(install, image, NodeMocks)
  <2>1. installed_' = m.installed_ /\ Handled(m) /\ alive' = alive
    BY <1>1, Zenon DEF pre_run, Becomes
  <2> HIDE DEF m
  <2> QED BY <1>0, <2>1 DEF Handled, HandlerInv
<1>2. CASE post_run
  <2>1. phase' = "finished" /\ alive' = alive /\ handler' = handler
    BY <1>2 DEF post_run
  <2>2. Lists(installed_', << >>)
    BY <2>1 DEF TableInv
  <2>3. DOMAIN installed_' = {}
    BY <2>2 DEF Lists
  <2> QED BY <1>0, <2>1, <2>3 DEF HandlerInv
<1>3. ASSUME NEW a \in Funcs \cup Stubs, NEW id \in DOMAIN Dynamic, np_mock(a, id) PROVE HandlerInv'
  <2> DEFINE m == install(image, [addr_ |-> instrumentable_address(a), id |-> id])
  <2>1. installed_' = m.installed_ /\ Handled(m) /\ alive' = alive
    BY <1>3, Zenon DEF np_mock, Becomes
  <2> HIDE DEF m
  <2> QED BY <1>0, <2>1 DEF Handled, HandlerInv
<1>4. ASSUME NEW a \in Funcs \cup Stubs, np_unmock(a) PROVE HandlerInv'
  <2>1. alive' = alive /\ handler' = handler
    BY <1>4 DEF np_unmock
  <2>2. DOMAIN installed_' \subseteq DOMAIN installed_
    <3>1. CASE Matching(a) = {}
      BY <1>4, <3>1 DEF np_unmock
    <3>2. CASE Matching(a) # {}
      <4> DEFINE i == dynamic_intercepts[FirstMatch(a)]
                 m == uninstall(image, i)
      <4>1. i \in Mocks /\ i.addr_ \in DOMAIN installed_ /\ installed_' = m.installed_
        BY <1>4, <3>2, Unmocked, Zenon
      <4>2. image \in Images /\ image.installed_ = installed_
        BY ImageTyped
      <4> HIDE DEF i
      <4>3. \/ DOMAIN m.installed_ = DOMAIN image.installed_ \ {i.addr_}
            \/ DOMAIN m.installed_ = DOMAIN image.installed_ \cup {i.addr_}
        BY <4>1, <4>2, UninstallImage, Zenon
      <4> HIDE DEF m
      <4> QED BY <4>1, <4>2, <4>3
    <3> QED BY <3>1, <3>2
  <2> QED BY <1>0, <2>1, <2>2 DEF HandlerInv
<1>5. ASSUME NEW f \in Funcs, trap_kills(f) PROVE FALSE
  <2>1. text[f] = Trap
    BY <1>5 DEF trap_kills
  <2>2. f \in DOMAIN installed_
    BY <2>1, TrapMeansListed
  <2>3. installed_[f].type_ = type_(FirstInsn[f])
    BY <2>2, Zenon DEF MocksInv, Marked, image
  <2>4. installed_[f].type_ # "UNKNOWN"
    BY <1>5, <2>3, TypeKnown, Zenon DEF Constants
  <2>5. verdict(Hit(f)) = "tramp"
    BY <2>2, HitIsTramp
  <2>6. handler # "SIG_DFL"
    BY DEF HandlerInv
  <2> QED BY <1>5, <2>4, <2>5, <2>6 DEF trap_kills
<1>6. ASSUME NEW f \in Funcs,
             calls_untrapped(f) \/ intercept_tramp(f) \/ tramp_skips(f) \/ before_throws(f)
      PROVE  UNCHANGED <<alive, handler, installed_>>
  BY <1>6, Zenon DEF calls_untrapped, intercept_tramp, tramp_skips, before_throws
<1>7. ASSUME returns \/ np_throw PROVE UNCHANGED <<alive, handler, installed_>>
  BY <1>7 DEF returns, np_throw
<1>8. ~stray_signal
  BY DEF stray_signal
<1>9. CASE UNCHANGED <<alive, handler, installed_>>
  BY <1>9 DEF HandlerInv
<1>10. CASE UNCHANGED vars
  BY <1>9, <1>10 DEF vars
<1>11. CASE Next
  BY <1>1, <1>2, <1>3, <1>4, <1>5, <1>6, <1>7, <1>8, <1>9, <1>11, Zenon DEF Next
<1> QED
  BY <1>10, <1>11

-----------------------------------------------------------------------------
(* The theorems.                                                           *)

\* In a test whose mocks neither throw nor unmock a function from inside a
\* call of it, a breakpoint stands exactly where the table has a row, the row
\* saves the instruction the function began with, and every active call runs
\* what the table said (install, uninstall, intercept_tramp).
THEOREM MocksInvariant ==
  ASSUME Constants, Ordinary PROVE Spec => []MocksInv
<1>1. Init => MocksInv
  BY InitMocks
<1>2. TableInv /\ MocksInv /\ [Next]_vars => MocksInv'
  BY MocksStep
<1> QED
  BY <1>1, <1>2, TableInvariant, PTL DEF Spec

\* In such a test, with no SIGTRAP or SIGSEGV of foreign origin, the signal
\* handler is in place whenever a breakpoint is, so that no breakpoint kills
\* the process (handle_signal and install_intercept of the platform code).
THEOREM HandlerInvariant ==
  ASSUME Constants, Ordinary, ~StraySignals PROVE Spec => []HandlerInv
<1>1. Init => HandlerInv
  BY DEF Init, HandlerInv
<1>2. TableInv /\ MocksInv /\ HandlerInv /\ [Next]_vars /\ TableInv' => HandlerInv'
  BY HandlerStep
<1> QED
  BY <1>1, <1>2, TableInvariant, MocksInvariant, PTL DEF Spec

\* In such a test a call of a mocked function runs the mock installed last,
\* and a call of any other function runs that function, however many mocks and
\* nested calls there are (intercept_tramp, redirect).
THEOREM MocksTakeEffect ==
  ASSUME Constants, Ordinary PROVE Spec => []MockTakesEffect
<1>1. MocksInv => MockTakesEffect
  BY DEF MocksInv
<1> QED
  BY <1>1, MocksInvariant, PTL

\* In every test, one with mocks that throw or unmock from inside a call
\* included, the table lists the mocks installed and not removed since, and no
\* function ever holds another one's instruction.
THEOREM TableIsKept ==
  ASSUME Constants PROVE Spec => []TableKept
<1>1. TableInv => TableKept
  BY DEF TableInv, TableKept, TableIsMocks, OwnInstruction, Own, image
<1> QED
  BY <1>1, TableInvariant, PTL

\* The invariant of the table implies the type invariant.
LEMMA TypedTable ==
  ASSUME Constants, TableInv PROVE TypeOK
<1> DEFINE L == IF phase = "test" THEN NodeMocks \o dynamic_intercepts ELSE << >>
<1>1. Lists(installed_, L)
  BY DEF TableInv
<1> HIDE DEF L
<1>2. ASSUME NEW f \in DOMAIN installed_
      PROVE  /\ installed_[f].intercepts_ # << >>
             /\ \A k \in DOMAIN installed_[f].intercepts_ : installed_[f].intercepts_[k].addr_ = f
  <2> DEFINE s == installed_[f].intercepts_
  <2>1. InOrder(s, L, f)
    BY <1>1, Zenon DEF Lists
  <2>2. PICK k \in DOMAIN L : L[k].addr_ = f
    BY <1>1, Zenon DEF Lists
  <2> HIDE DEF s
  <2>3. \E j \in DOMAIN s : s[j] = L[k]
    BY <2>1, <2>2, Zenon DEF InOrder
  <2>4. DOMAIN << >> = {}
    OBVIOUS
  <2>5. s # << >>
    BY <2>3, <2>4
  <2>6. \A j \in DOMAIN s : s[j].addr_ = f
    BY <2>1 DEF InOrder
  <2> QED BY <2>5, <2>6, Zenon DEF s
<1>3. \A k \in DOMAIN dynamic_intercepts : dynamic_intercepts[k].addr_ \in Funcs
  <2>1. dynamic_intercepts \in Seq(DynamicMocks)
    BY DEF TableInv
  <2>2. \A k \in DOMAIN dynamic_intercepts : dynamic_intercepts[k] \in DynamicMocks
    BY <2>1
  <2> QED BY <2>2 DEF DynamicMocks
<1>4. \A k \in DOMAIN frames : frames[k].addr \in Funcs
  <2>1. frames \in Seq(Calls)
    BY DEF TableInv
  <2>2. \A k \in DOMAIN frames : frames[k] \in Calls
    BY <2>1
  <2> QED BY <2>2 DEF Calls
<1>5. text \in [Funcs -> {"push", "other", Trap}]
  BY DEF TableInv, Insns
<1> QED
  BY <1>2, <1>3, <1>4, <1>5 DEF TypeOK, TableInv

\* After post_run the text is as it was and the table is empty.
LEMMA RestoredTable ==
  ASSUME Constants, TableInv, MocksInv PROVE AllRestored
<1> SUFFICES ASSUME phase = "finished"
             PROVE  text = FirstInsn /\ installed_ = << >> /\ dynamic_intercepts = << >>
  BY DEF AllRestored
<1>1. Lists(installed_, << >>) /\ dynamic_intercepts = << >>
  BY DEF TableInv
<1>2. DOMAIN installed_ = {}
  BY <1>1 DEF Lists
<1>3. installed_ = << >>
  BY <1>2 DEF TableInv
<1>4. text \in [Funcs -> Insns] /\ FirstInsn \in [Funcs -> {"push", "other"}]
  BY DEF TableInv, Constants
<1>5. \A f \in Funcs : text[f] = FirstInsn[f]
  BY <1>2 DEF MocksInv, Marked, image
<1> QED
  BY <1>1, <1>3, <1>4, <1>5

\* In an ordinary test the breakpoints follow the table at every moment, all
\* is restored at the end, and no breakpoint kills the process (install,
\* uninstall, handle_signal, post_run).
THEOREM TextFollows ==
  ASSUME Constants, Ordinary, ~StraySignals PROVE Spec => []TextFollowsTable
<1>1. TableInv /\ MocksInv /\ HandlerInv => TextFollowsTable
  <2> SUFFICES ASSUME TableInv, MocksInv, HandlerInv PROVE TextFollowsTable
    OBVIOUS
  <2>1. TypeOK /\ AllRestored
    BY TypedTable, RestoredTable
  <2>2. TrapIffListed
    <3> SUFFICES ASSUME NEW f \in Funcs \ Unwritable
                 PROVE  text[f] = Trap <=> f \in DOMAIN installed_
      BY DEF TrapIffListed
    <3>1. text[f] = IF f \in DOMAIN installed_ \ Unwritable THEN Trap ELSE FirstInsn[f]
      BY DEF MocksInv, Marked, image
    <3>2. FirstInsn[f] # Trap
      BY DEF Constants, Trap
    <3> QED BY <3>1, <3>2
  <2>3. TrapsAreHandled
    BY DEF HandlerInv, TrapsAreHandled
  <2> QED BY <2>1, <2>2, <2>3 DEF TextFollowsTable
<1> QED
  BY <1>1, TableInvariant, MocksInvariant, HandlerInvariant, PTL
=============================================================================
