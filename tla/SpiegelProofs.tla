--------------------------- MODULE SpiegelProofs ----------------------------
(***************************************************************************)
(* Proofs about three parts of np/spiegel: the attributes of an entry of   *)
(* the debugging information, read or skipped (Forms), the lookup of a     *)
(* source line (LineProgram), and the stack trace of a failing test        *)
(* (StackTrace).  The last two are instances of their modules for any      *)
(* values of their constants and variables, declared where their parts     *)
(* begin; no theorem is about two of the parts.                            *)
(***************************************************************************)
EXTENDS Forms, DataInduction

-----------------------------------------------------------------------------
(* Attributes.                                                             *)

\* The value of a LEB128 number is a number: a sum of the groups, reduced to
\* the width of the result.
LEMMA GroupsNumber ==
  ASSUME Widths, buf \in Seq(Bytes), Len(buf) <= MaxBytes, NEW p \in 0..Len(buf), NEW q \in p..Len(buf)
  PROVE  groups(p, q) \in Nat
<1> DEFINE n == q - p
           s == [i \in 1..n |-> Group(buf[p + i]) * 2^(GroupBits * (i - 1))]
<1>1. n \in Nat /\ n <= MaxBytes /\ p \in Nat /\ Len(buf) \in Nat /\ MaxBytes \in Nat BY DEF Widths
<1>2. ASSUME NEW i \in 1..n PROVE s[i] \in Nat
  <2>1. i - 1 \in 0..MaxBytes /\ p + i \in 1..Len(buf) BY <1>1
  <2>2. 2^(GroupBits * (i - 1)) \in Nat BY <2>1 DEF Widths
  <2>3. buf[p + i] \in Nat
    <3>1. buf[p + i] \in Bytes BY <2>1
    <3> QED BY <3>1 DEF Widths
  <2>4. Group(buf[p + i]) \in Nat BY <2>3 DEF Group, Widths
  <2>5. \A a, b \in Nat : a * b \in Nat OBVIOUS
  <2> QED BY <2>2, <2>4, <2>5
<1>3. s \in [1..n -> Nat] BY <1>2
<1> HIDE DEF s
<1>4. s \in Seq(Nat) BY <1>1, <1>3
<1>5. Total(s) \in Nat BY <1>4, TotalAppend
<1>6. groups(p, q) = Total(s) % 2^Width BY DEF groups, s
<1> QED BY <1>5, <1>6 DEF Widths

\* The first of the places where something may end is one of them.
LEMMA Ends ==
  ASSUME buf \in Seq(Bytes), NEW p \in 0..Len(buf), NEW S \in SUBSET ((p + 1)..Len(buf)), S # {}
  PROVE  (CHOOSE q \in S : \A x \in S : q <= x) \in (p + 1)..Len(buf)
<1>1. Len(buf) \in Nat /\ S \in SUBSET (1..Len(buf)) OBVIOUS
<1>2. Min(S) \in S BY <1>1, MinOf
<1> QED BY <1>2 DEF Min

\* A LEB128 number ends behind where it starts and within the buffer, or
\* nowhere.
LEMMA LebEnds ==
  ASSUME buf \in Seq(Bytes), NEW p \in 0..Len(buf)
  PROVE  LebEnd(p) = 0 \/ LebEnd(p) \in (p + 1)..Len(buf)
<1> DEFINE S == {q \in (p + 1)..Len(buf) : ~Continues(buf[q])}
<1>1. CASE S = {} BY <1>1 DEF LebEnd
<1>2. CASE S # {}
  <2>1. LebEnd(p) = CHOOSE q \in S : \A x \in S : q <= x BY <1>2 DEF LebEnd
  <2>2. S \in SUBSET ((p + 1)..Len(buf)) OBVIOUS
  <2> HIDE DEF S
  <2> QED BY <1>2, <2>1, <2>2, Ends
<1> QED BY <1>1, <1>2

\* So does a string.
LEMMA StringEnds ==
  ASSUME buf \in Seq(Bytes), NEW p \in 0..Len(buf)
  PROVE  StringEnd(p) = 0 \/ StringEnd(p) \in (p + 1)..Len(buf)
<1> DEFINE S == {q \in (p + 1)..Len(buf) : buf[q] = 0}
<1>1. CASE S = {} BY <1>1 DEF StringEnd
<1>2. CASE S # {}
  <2>1. StringEnd(p) = CHOOSE q \in S : \A x \in S : q <= x BY <1>2 DEF StringEnd
  <2>2. S \in SUBSET ((p + 1)..Len(buf)) OBVIOUS
  <2> HIDE DEF S
  <2> QED BY <1>2, <2>1, <2>2, Ends
<1> QED BY <1>1, <1>2

\* The reader is left within the buffer.
In(r) == r.p \in 0..Len(buf) /\ r.ok \in BOOLEAN

\* What can be read can be skipped, and leaves the reader at the same offset.
Agree(read, skipped) ==
  /\ In(read) /\ In(skipped)
  /\ read.ok => skipped.ok /\ skipped.p = read.p

\* Numbers of a fixed size (read_u8 to read_u64, skip).
LEMMA FixedAgree ==
  ASSUME Widths, buf \in Seq(Bytes), NEW p \in 0..Len(buf), NEW n \in {1, 2}
  PROVE  /\ Agree(read_fixed(p, n), skip(p, n))
         /\ read_fixed(p, n).ok /\ n = 1 => read_fixed(p, n).v \in Nat
<1>1. Len(buf) \in Nat /\ p \in Nat /\ n \in Nat OBVIOUS
<1>2. CASE p + n > Len(buf)
  BY <1>1, <1>2 DEF read_fixed, skip, Agree, In, Fails
<1>3. CASE ~(p + n > Len(buf))
  <2>1. p + n \in 0..Len(buf) BY <1>1, <1>3
  <2>2. buf[p + 1] \in Nat
    <3>1. p + 1 \in 1..Len(buf) BY <1>1, <1>3
    <3>2. buf[p + 1] \in Bytes BY <3>1
    <3> QED BY <3>2 DEF Widths
  <2>3. read_fixed(p, n).p = p + n /\ read_fixed(p, n).ok = TRUE /\ (n = 1 => read_fixed(p, n).v = buf[p + 1])
    BY <1>3 DEF read_fixed, Gives
  <2>4. skip(p, n).p = p + n /\ skip(p, n).ok = TRUE BY <1>3 DEF skip, Gives
  <2> QED BY <2>1, <2>2, <2>3, <2>4 DEF Agree, In
<1> QED BY <1>2, <1>3

\* LEB128 numbers (read_uleb128, read_sleb128, skip_uleb128, skip_sleb128).
LEMMA LebAgree ==
  ASSUME Widths, buf \in Seq(Bytes), Len(buf) <= MaxBytes, NEW p \in 0..Len(buf)
  PROVE  /\ Agree(read_uleb128(p), skip_leb128(p)) /\ Agree(skip_leb128(p), skip_leb128(p))
         /\ read_uleb128(p).ok => read_uleb128(p).v \in Nat
<1>1. Len(buf) \in Nat /\ p \in Nat OBVIOUS
<1>2. CASE LebEnd(p) = 0
  BY <1>1, <1>2 DEF read_uleb128, skip_leb128, Agree, In, Fails
<1>3. CASE LebEnd(p) # 0
  <2>1. LebEnd(p) \in p..Len(buf) /\ LebEnd(p) \in 0..Len(buf) BY <1>1, <1>3, LebEnds
  <2>2. groups(p, LebEnd(p)) \in Nat BY <2>1, GroupsNumber
  <2> QED BY <1>3, <2>1, <2>2 DEF read_uleb128, skip_leb128, Agree, In, Gives
<1> QED BY <1>2, <1>3

\* Strings (read_string, skip_string).
LEMMA StringAgree ==
  ASSUME buf \in Seq(Bytes), NEW p \in 0..Len(buf)
  PROVE  Agree(read_string(p), skip_string(p))
<1>1. Len(buf) \in Nat /\ p \in Nat OBVIOUS
<1>2. CASE StringEnd(p) = 0
  BY <1>1, <1>2 DEF read_string, skip_string, Agree, In, Fails
<1>3. CASE StringEnd(p) # 0
  <2>1. StringEnd(p) \in 0..Len(buf) BY <1>1, <1>3, StringEnds
  <2> QED BY <1>3, <2>1 DEF read_string, skip_string, Agree, In, Gives
<1> QED BY <1>2, <1>3

\* Blocks: read_bytes refuses one that reaches the end of the buffer, skip
\* does not, so reading is the stricter.
LEMMA BlockAgree ==
  ASSUME buf \in Seq(Bytes), NEW len, In(len), len.ok => len.v \in Nat
  PROVE  Agree(Block(len, read_bytes(len.p, len.v)), Block(len, skip(len.p, len.v)))
<1> DEFINE p == len.p
           n == len.v
<1>1. Len(buf) \in Nat /\ p \in 0..Len(buf) /\ p \in Nat BY DEF In
<1>2. CASE ~len.ok BY <1>2 DEF Block, Agree
<1>3. CASE len.ok
  <2>1. n \in Nat BY <1>3
  <2>2. Block(len, read_bytes(p, n)) = IF p + n >= Len(buf) THEN Fails(p) ELSE Gives(p + n, 0)
    BY <1>3 DEF Block, read_bytes, Fails, Gives
  <2>3. Block(len, skip(p, n)) = IF p + n > Len(buf) THEN Fails(p) ELSE Gives(p + n, 0)
    BY <1>3 DEF Block, skip, Fails, Gives
  <2>4. p + n <= Len(buf) => p + n \in 0..Len(buf) BY <1>1, <2>1
  <2> HIDE DEF p, n
  <2>5. Agree(Block(len, read_bytes(p, n)), Block(len, skip(p, n)))
    <3>1. CASE p + n > Len(buf)
      <4>1. p + n >= Len(buf) BY <1>1, <2>1, <3>1
      <4> QED BY <1>1, <2>2, <2>3, <3>1, <4>1 DEF Agree, In, Fails
    <3>2. CASE p + n = Len(buf)
      <4>1. p + n >= Len(buf) /\ ~(p + n > Len(buf)) BY <1>1, <3>2
      <4> QED BY <1>1, <2>1, <2>2, <2>3, <2>4, <4>1 DEF Agree, In, Fails, Gives
    <3>3. CASE p + n < Len(buf)
      <4>1. ~(p + n >= Len(buf)) /\ ~(p + n > Len(buf)) BY <1>1, <2>1, <3>3
      <4> QED BY <1>1, <2>1, <2>2, <2>3, <2>4, <4>1 DEF Agree, In, Gives
    <3> QED BY <1>1, <2>1, <3>1, <3>2, <3>3
  <2> QED BY <2>5 DEF p, n
<1> QED BY <1>2, <1>3 DEF In

\* Every form of attribute, at every offset (read_attributes,
\* skip_attributes).
LEMMA AttributesAgree ==
  ASSUME Widths, buf \in Seq(Bytes), Len(buf) <= MaxBytes, NEW p \in 0..Len(buf), NEW f \in Forms
  PROVE  Agree(read_attribute(f, p), skip_attribute(f, p))
<1>1. CASE f = "data1" BY <1>1, FixedAgree DEF read_attribute, skip_attribute
<1>2. CASE f = "data2" BY <1>2, FixedAgree DEF read_attribute, skip_attribute
<1>3. CASE f = "udata" BY <1>3, LebAgree DEF read_attribute, skip_attribute
<1>4. CASE f = "sdata" BY <1>4, LebAgree DEF read_attribute, skip_attribute
<1>5. CASE f = "string" BY <1>5, StringAgree DEF read_attribute, skip_attribute
<1>6. CASE f = "strp"
  <2> DEFINE off == read_fixed(p, 1)
             r == IF off.ok /\ ~offset_as_string(off.v) THEN Fails(off.p) ELSE off
  <2>1. read_attribute(f, p) = r /\ skip_attribute(f, p) = skip(p, 1)
    BY <1>6 DEF read_attribute, skip_attribute
  <2>2. Agree(off, skip(p, 1)) BY FixedAgree
  <2> HIDE DEF off
  <2>3. Agree(r, skip(p, 1)) BY <2>2 DEF Agree, In, Fails
  <2> QED BY <2>1, <2>3
<1>7. CASE f = "block1"
  <2> DEFINE len == read_fixed(p, 1)
  <2>1. /\ read_attribute(f, p) = Block(len, read_bytes(len.p, len.v))
        /\ skip_attribute(f, p) = Block(len, skip(len.p, len.v))
    BY <1>7 DEF read_attribute, skip_attribute
  <2>2. In(len) /\ (len.ok => len.v \in Nat) BY FixedAgree DEF Agree
  <2> HIDE DEF len
  <2> QED BY <2>1, <2>2, BlockAgree
<1>8. CASE f = "block"
  <2> DEFINE len == read_uleb128(p)
  <2>1. /\ read_attribute(f, p) = Block(len, read_bytes(len.p, len.v))
        /\ skip_attribute(f, p) = Block(len, skip(len.p, len.v))
    BY <1>8 DEF read_attribute, skip_attribute
  <2>2. In(len) /\ (len.ok => len.v \in Nat) BY LebAgree DEF Agree
  <2> HIDE DEF len
  <2> QED BY <2>1, <2>2, BlockAgree
<1>9. CASE f = "sec_offset"
  <2>1. read_attribute(f, p) = read_fixed(p, 2) /\ skip_attribute(f, p) = Gives(skip(p, 2).p, 0)
    BY <1>9 DEF read_attribute, skip_attribute
  <2>2. Agree(read_fixed(p, 2), skip(p, 2)) BY FixedAgree
  <2> QED BY <2>1, <2>2 DEF Agree, In, Gives
<1>10. CASE f = "flag_present"
  BY <1>10 DEF read_attribute, skip_attribute, Gives, Agree, In
<1> QED BY <1>1, <1>2, <1>3, <1>4, <1>5, <1>6, <1>7, <1>8, <1>9, <1>10 DEF Forms

\* Before the first attribute both loops are at the start.
LEMMA ReadersStart == ASSUME Widths, InitAttributes, InitReaders PROVE AttributesInv
<1>1. PICK n \in 0..MaxBytes : buf \in [1..n -> Bytes] BY DEF InitAttributes
<1>2. buf \in Seq(Bytes) /\ Len(buf) \in Nat /\ Len(buf) <= MaxBytes BY <1>1 DEF Widths
<1>3. forms \in Seq(Forms) /\ Len(forms) \in Nat
  <2>1. PICK k \in 1..MaxForms : forms \in [1..k -> Forms] BY DEF InitAttributes
  <2> QED BY <2>1
<1>4. /\ reading.p = 0 /\ reading.ok = TRUE /\ reading.done = 0
      /\ skipping.p = 0 /\ skipping.ok = TRUE /\ skipping.done = 0
  BY DEF InitReaders
<1>5. TypeOK
  <2>1. 0 \in 0..Len(buf) /\ 0 \in 0..Len(forms) BY <1>2, <1>3
  <2>2. reading.ok \in BOOLEAN /\ skipping.ok \in BOOLEAN BY <1>4
  <2> QED BY <1>4, <2>1, <2>2, Zenon DEF TypeOK
<1> DEFINE at == [k \in 0..0 |-> 0]
<1>6. at \in [0..0 -> 0..Len(buf)] /\ at[0] = 0 BY <1>2
<1>7. 1..0 = {} OBVIOUS
<1> HIDE DEF at
<1>8. OnPath(at, 0) BY <1>4, <1>6, <1>7 DEF OnPath, Path
<1>9. 0 \in 0..Len(forms) BY <1>3
<1> QED BY <1>2, <1>3, <1>5, <1>6, <1>8, <1>9 DEF AttributesInv

\* A path is continued by the next attribute that can be skipped.
LEMMA PathGrows ==
  ASSUME buf \in Seq(Bytes), forms \in Seq(Forms), NEW n \in 0..Len(forms), n < Len(forms),
         NEW at \in [0..n -> 0..Len(buf)], Path(at, n), NEW q \in 0..Len(buf),
         skip_attribute(forms[n + 1], at[n]).ok, skip_attribute(forms[n + 1], at[n]).p = q
  PROVE  \E to \in [0..(n + 1) -> 0..Len(buf)] :
           /\ Path(to, n + 1) /\ to[n + 1] = q /\ \A k \in 0..n : to[k] = at[k]
<1> DEFINE to == [k \in 0..(n + 1) |-> IF k <= n THEN at[k] ELSE q]
<1>1. n \in Nat /\ Len(forms) \in Nat OBVIOUS
<1>2. to \in [0..(n + 1) -> 0..Len(buf)] BY <1>1
<1>3. to[n + 1] = q /\ \A k \in 0..n : to[k] = at[k] BY <1>1
<1> HIDE DEF to
<1>4. to[0] = 0 BY <1>1, <1>3 DEF Path
<1>5. ASSUME NEW k \in 1..(n + 1)
      PROVE  skip_attribute(forms[k], to[k - 1]).ok /\ skip_attribute(forms[k], to[k - 1]).p = to[k]
  <2>1. CASE k = n + 1
    <3>1. k - 1 = n /\ n \in 0..n BY <1>1, <2>1
    <3> QED BY <1>3, <2>1, <3>1
  <2>2. CASE k \in 1..n
    <3>1. k - 1 \in 0..n /\ k \in 0..n BY <1>1, <2>2
    <3> QED BY <1>3, <2>2, <3>1 DEF Path
  <2> QED BY <1>1, <2>1, <2>2
<1>6. Path(to, n + 1) BY <1>2, <1>4, <1>5 DEF Path
<1> QED BY <1>2, <1>3, <1>6

\* A step of either loop changes neither the bytes nor the forms.
LEMMA PathSame ==
  ASSUME buf' = buf, forms' = forms
  PROVE  /\ \A f, p : skip_attribute(f, p)' = skip_attribute(f, p)
         /\ \A at, n : Path(at, n)' <=> Path(at, n)
<1>1. \A f, p : skip_attribute(f, p)' = skip_attribute(f, p)
  BY DEF skip_attribute, skip, skip_leb128, skip_string, read_fixed, read_uleb128, groups, LebEnd, StringEnd,
         Block, Fails, Gives
<1> QED BY <1>1 DEF Path

\* Reading an attribute stays on the path, or extends it.
LEMMA ReadKeeps == ASSUME Widths, AttributesInv, read_step PROVE AttributesInv'
<1> DEFINE d == reading.done
           f == forms[d + 1]
           r == read_attribute(f, reading.p)
           z == skip_attribute(f, reading.p)
<1>1. /\ buf \in Seq(Bytes) /\ Len(buf) <= MaxBytes /\ forms \in Seq(Forms) /\ TypeOK
      /\ Len(buf) \in Nat /\ Len(forms) \in Nat
  BY DEF AttributesInv
<1>2. /\ reading.ok /\ d \in 0..Len(forms) /\ d < Len(forms) /\ reading.p \in 0..Len(buf)
      /\ buf' = buf /\ forms' = forms /\ skipping' = skipping
  BY <1>1 DEF read_step, TypeOK
<1>3. PICK v : reading' = [p |-> r.p, ok |-> r.ok, v |-> v, done |-> IF r.ok THEN d + 1 ELSE d]
  BY DEF read_step
<1>4. f \in Forms BY <1>1, <1>2
<1>5. Agree(r, z) BY <1>1, <1>2, <1>4, AttributesAgree
<1>p. PICK n \in 0..Len(forms) : \E at \in [0..n -> 0..Len(buf)] : OnPath(at, n) BY DEF AttributesInv
<1>6. PICK at \in [0..n -> 0..Len(buf)] : OnPath(at, n) BY <1>p
<1>7. /\ Path(at, n) /\ d <= n /\ skipping.done <= n /\ reading.p = at[d]
      /\ skipping.ok => skipping.p = at[skipping.done]
      /\ ~skipping.ok => /\ n = skipping.done /\ n < Len(forms)
                         /\ ~skip_attribute(forms[n + 1], at[n]).ok
  BY <1>2, <1>6 DEF OnPath
<1>8. reading'.p = r.p /\ reading'.ok = r.ok /\ reading'.done = (IF r.ok THEN d + 1 ELSE d)
  BY <1>3
<1>9. r.p \in 0..Len(buf) /\ r.ok \in BOOLEAN /\ z.p \in 0..Len(buf) /\ (r.ok => z.ok /\ z.p = r.p)
  BY <1>5 DEF Agree, In
<1> HIDE DEF r, z, f
<1>10. TypeOK'
  <2>1. d + 1 \in 0..Len(forms) BY <1>1, <1>2
  <2>2. reading'.done \in 0..Len(forms) BY <1>2, <1>8, <2>1
  <2> QED BY <1>1, <1>2, <1>8, <1>9, <2>2, Zenon DEF TypeOK
<1>11. \E m \in 0..Len(forms) : \E to \in [0..m -> 0..Len(buf)] : OnPath(to, m)'
  <2>1. CASE ~r.ok
    <3>1. OnPath(at, n)' BY <1>2, <1>7, <1>8, <2>1, PathSame DEF OnPath
    <3> QED BY <3>1
  <2>2. CASE r.ok /\ d < n
    <3>1. d + 1 \in 1..n /\ (d + 1) - 1 = d BY <1>2, <2>2
    <3>2. skip_attribute(forms[d + 1], at[d]).p = at[d + 1] BY <1>7, <3>1 DEF Path
    <3>3. reading'.p = at[d + 1] BY <1>7, <1>8, <1>9, <2>2, <3>2 DEF z, f
    <3>4. d + 1 <= n BY <3>1
    <3>5. OnPath(at, n)' BY <1>2, <1>7, <1>8, <2>2, <3>3, <3>4, PathSame DEF OnPath
    <3> QED BY <3>5
  <2>3. CASE r.ok /\ d = n
    <3>1. skip_attribute(forms[n + 1], at[n]).ok /\ skip_attribute(forms[n + 1], at[n]).p = r.p
      BY <1>7, <1>9, <2>3 DEF z, f
    <3>2. skipping.ok BY <1>7, <3>1
    <3>3. PICK to \in [0..(n + 1) -> 0..Len(buf)] :
             /\ Path(to, n + 1) /\ to[n + 1] = r.p /\ \A k \in 0..n : to[k] = at[k]
      <4>1. n < Len(forms) BY <1>2, <2>3
      <4>2. Path(at, n) BY <1>7
      <4> QED BY <1>1, <1>9, <3>1, <4>1, <4>2, PathGrows
    <3>4. skipping.done \in 0..n BY <1>1, <1>7 DEF TypeOK
    <3>5. reading'.done = n + 1 /\ n + 1 \in 0..Len(forms) /\ skipping.done <= n + 1
      BY <1>1, <1>2, <1>7, <1>8, <2>3, <3>4
    <3>6. n + 1 <= n + 1 OBVIOUS
    <3>7. OnPath(to, n + 1)'
      BY <1>2, <1>7, <1>8, <3>2, <3>3, <3>4, <3>5, <3>6, PathSame DEF OnPath
    <3> QED BY <3>5, <3>7
  <2>4. d < n \/ d = n BY <1>1, <1>2, <1>7
  <2> QED BY <2>1, <2>2, <2>3, <2>4, Zenon
<1> QED BY <1>1, <1>2, <1>10, <1>11 DEF AttributesInv

\* So does skipping one; where it fails, the path ends.
LEMMA SkipKeeps == ASSUME Widths, AttributesInv, skip_step PROVE AttributesInv'
<1> DEFINE d == skipping.done
           f == forms[d + 1]
           z == skip_attribute(f, skipping.p)
<1>1. /\ buf \in Seq(Bytes) /\ Len(buf) <= MaxBytes /\ forms \in Seq(Forms) /\ TypeOK
      /\ Len(buf) \in Nat /\ Len(forms) \in Nat
  BY DEF AttributesInv
<1>2. /\ skipping.ok /\ d \in 0..Len(forms) /\ d < Len(forms) /\ skipping.p \in 0..Len(buf)
      /\ buf' = buf /\ forms' = forms /\ reading' = reading
  BY <1>1 DEF skip_step, TypeOK
<1>3. skipping' = [p |-> z.p, ok |-> z.ok, done |-> IF z.ok THEN d + 1 ELSE d]
  BY DEF skip_step
<1>4. f \in Forms BY <1>1, <1>2
<1>5. Agree(read_attribute(f, skipping.p), z) BY <1>1, <1>2, <1>4, AttributesAgree
<1>p. PICK n \in 0..Len(forms) : \E at \in [0..n -> 0..Len(buf)] : OnPath(at, n) BY DEF AttributesInv
<1>6. PICK at \in [0..n -> 0..Len(buf)] : OnPath(at, n) BY <1>p
<1>7. /\ Path(at, n) /\ d <= n /\ reading.done <= n /\ skipping.p = at[d]
      /\ reading.ok => reading.p = at[reading.done]
  BY <1>2, <1>6 DEF OnPath
<1>8. skipping'.p = z.p /\ skipping'.ok = z.ok /\ skipping'.done = (IF z.ok THEN d + 1 ELSE d)
  BY <1>3
<1>9. z.p \in 0..Len(buf) /\ z.ok \in BOOLEAN BY <1>5 DEF Agree, In
<1> HIDE DEF z, f
<1>10. TypeOK'
  <2>1. d + 1 \in 0..Len(forms) BY <1>1, <1>2
  <2>2. skipping'.done \in 0..Len(forms) BY <1>2, <1>8, <2>1
  <2> QED BY <1>1, <1>2, <1>8, <1>9, <2>2, Zenon DEF TypeOK
<1>11. \E m \in 0..Len(forms) : \E to \in [0..m -> 0..Len(buf)] : OnPath(to, m)'
  <2>1. CASE d < n
    <3>1. d + 1 \in 1..n /\ (d + 1) - 1 = d /\ d + 1 <= n BY <1>2, <2>1, SMTT(30)
    <3>2. skip_attribute(forms[d + 1], at[d]).ok /\ skip_attribute(forms[d + 1], at[d]).p = at[d + 1]
      BY <1>7, <3>1 DEF Path
    <3>3. z.ok /\ skipping'.p = at[d + 1] /\ skipping'.done = d + 1 BY <1>7, <1>8, <3>2 DEF z, f
    <3>4. OnPath(at, n)' BY <1>2, <1>7, <1>8, <3>1, <3>3, PathSame DEF OnPath
    <3> QED BY <3>4
  <2>2. CASE d = n /\ ~z.ok
    <3>1. ~skip_attribute(forms[n + 1], at[n]).ok BY <1>7, <2>2 DEF z, f
    <3>2. OnPath(at, n)' BY <1>2, <1>7, <1>8, <2>2, <3>1, PathSame DEF OnPath
    <3> QED BY <3>2
  <2>3. CASE d = n /\ z.ok
    <3>1. skip_attribute(forms[n + 1], at[n]).ok /\ skip_attribute(forms[n + 1], at[n]).p = z.p
      BY <1>7, <2>3 DEF z, f
    <3>2. PICK to \in [0..(n + 1) -> 0..Len(buf)] :
             /\ Path(to, n + 1) /\ to[n + 1] = z.p /\ \A k \in 0..n : to[k] = at[k]
      <4>1. n < Len(forms) BY <1>2, <2>3
      <4>2. Path(at, n) BY <1>7
      <4> QED BY <1>1, <1>9, <3>1, <4>1, <4>2, PathGrows
    <3>3. reading.done \in 0..n BY <1>1, <1>7 DEF TypeOK
    <3>4. skipping'.done = n + 1 /\ n + 1 \in 0..Len(forms) /\ reading.done <= n + 1
      BY <1>1, <1>2, <1>7, <1>8, <2>3, <3>3
    <3>5. n + 1 <= n + 1 OBVIOUS
    <3>6. OnPath(to, n + 1)'
      BY <1>2, <1>7, <1>8, <2>3, <3>2, <3>3, <3>4, <3>5, PathSame DEF OnPath
    <3> QED BY <3>4, <3>6
  <2>4. d < n \/ d = n BY <1>1, <1>2, <1>7
  <2> QED BY <2>1, <2>2, <2>3, <2>4, Zenon
<1> QED BY <1>1, <1>2, <1>10, <1>11 DEF AttributesInv

\* Every step of the two loops keeps the invariant.
LEMMA ReadersStep == ASSUME Widths, AttributesInv, [Next]_vars PROVE AttributesInv'
<1>1. ASSUME UNCHANGED vars PROVE AttributesInv'
  <2>1. buf' = buf /\ forms' = forms /\ reading' = reading /\ skipping' = skipping BY <1>1 DEF vars
  <2>2. TypeOK' BY <2>1 DEF AttributesInv, TypeOK
  <2>3. \A at, n : OnPath(at, n)' <=> OnPath(at, n) BY <2>1, PathSame DEF OnPath
  <2> QED BY <2>1, <2>2, <2>3 DEF AttributesInv
<1> QED BY <1>1, ReadKeeps, SkipKeeps DEF Next, ended

\* Two readers on one path are at the same offset after as many attributes.
LEMMA ReadersShow == ASSUME AttributesInv PROVE AttributesRead
<1>1. TypeOK BY DEF AttributesInv
<1>p. PICK n \in 0..Len(forms) : \E at \in [0..n -> 0..Len(buf)] : OnPath(at, n) BY DEF AttributesInv
<1>2. PICK at \in [0..n -> 0..Len(buf)] : OnPath(at, n) BY <1>p
<1>3. SkipMatchesRead BY <1>2 DEF OnPath, SkipMatchesRead
<1> QED BY <1>1, <1>3 DEF AttributesRead

\* However many attributes of whatever forms an entry has, and whatever bytes
\* are in the buffer, cut short or not: neither loop leaves the buffer, an
\* entry that can be read can be skipped, and both end at the same offset, so
\* that a filtered walk finds the entries an unfiltered one finds
\* (read_attributes, skip_attributes).
THEOREM AttributesAreRead == ASSUME Widths PROVE AttributesSpec => []AttributesRead
<1>1. InitAttributes /\ InitReaders => AttributesInv BY ReadersStart
<1>2. AttributesInv /\ [Next]_vars => AttributesInv' BY ReadersStep
<1>3. AttributesInv => AttributesRead BY ReadersShow
<1> QED BY <1>1, <1>2, <1>3, PTL DEF AttributesSpec

-----------------------------------------------------------------------------
(* The lookup of a source line.                                            *)

CONSTANTS
  Advances, LineAdvances, Addresses, LineModulus, LineBase, LineRange,
  OpcodeBase, LastOpcode, MinInstructionLength, MaxOperations, NFiles, MaxSteps

VARIABLES
  seeking_, registers_, start_, have_start_, additional_files_, running_,
  status, found, steps, rows

Lin == INSTANCE LineProgram

\* advance_pc keeps the registers well formed, and the end_sequence flag.
LEMMA AdvancedPc ==
  ASSUME Lin!Header, NEW r \in Lin!Rows, NEW n \in Int
  PROVE  Lin!advance_pc(r, n) \in Lin!Rows /\ Lin!advance_pc(r, n).end_sequence = r.end_sequence
<1>1. r.op_index = 0 /\ r.address \in Int BY DEF Lin!Rows, Lin!Header
<1>2. (r.op_index + n) % MaxOperations = 0 /\ (r.op_index + n) \div MaxOperations = n
  BY <1>1 DEF Lin!Header
<1>3. n * MinInstructionLength \in Int BY DEF Lin!Header
<1>4. Lin!advance_pc(r, n) =
        [r EXCEPT !.address = r.address + n * MinInstructionLength, !.op_index = 0]
  BY <1>1, <1>2 DEF Lin!advance_pc, Lin!Rows
<1>5. r.address + n * MinInstructionLength \in Int BY <1>1, <1>3
<1>6. 0 \in 0 .. (MaxOperations - 1) BY DEF Lin!Header
<1> QED BY <1>4, <1>5, <1>6 DEF Lin!Rows

\* So does advance_line: the line wraps round as an unsigned int does.
LEMMA AdvancedLine ==
  ASSUME Lin!Header, NEW r \in Lin!Rows, NEW n \in Int
  PROVE  Lin!advance_line(r, n) \in Lin!Rows /\ Lin!advance_line(r, n).end_sequence = r.end_sequence
<1>1. r.line + n \in Int BY DEF Lin!Rows, Lin!Header
<1>2. (r.line + n) % LineModulus \in 0 .. (LineModulus - 1) BY <1>1 DEF Lin!Header
<1> QED BY <1>1, <1>2 DEF Lin!advance_line, Lin!Rows

\* A special opcode stands for an advance of the line and one of the
\* operation, both numbers.
LEMMA SpecialAdvances ==
  ASSUME Lin!Header, NEW op \in Int
  PROVE  Lin!special_opcode_line_advance(op) \in Int /\ Lin!special_opcode_operation_advance(op) \in Int
<1>1. op - OpcodeBase \in Int BY DEF Lin!Header
<1>2. (op - OpcodeBase) % LineRange \in Int /\ (op - OpcodeBase) \div LineRange \in Int
  BY <1>1 DEF Lin!Header
<1> QED BY <1>2 DEF Lin!special_opcode_line_advance, Lin!special_opcode_operation_advance, Lin!Header

\* The lookup of an address starts with no row seen and none covering it
\* (get_source_line).
LEMMA LookupStarts == ASSUME Lin!Header, Lin!Init PROVE Lin!LookupInv
<1>1. Lin!reset_registers \in Lin!Rows BY DEF Lin!reset_registers, Lin!Rows, Lin!Header
<1>2. rows = <<>> /\ rows \in Seq(Lin!Rows) /\ Len(rows) = 0 BY DEF Lin!Init
<1>3. Lin!Covering = {} BY <1>2 DEF Lin!Covering
<1>4. /\ seeking_ \in Int /\ registers_ \in Lin!Rows /\ start_ \in Lin!Rows
      /\ ~registers_.end_sequence /\ ~start_.end_sequence
  BY <1>1 DEF Lin!Init, Lin!reset_registers, Lin!Header
<1>5. have_start_ = FALSE /\ running_ = TRUE /\ additional_files_ = 0 /\ found = Lin!NoLocation
      /\ status = "none"
  BY DEF Lin!Init
<1> QED BY <1>2, <1>3, <1>4, <1>5 DEF Lin!LookupInv

\* An opcode that only sets registers changes neither the rows nor the answer.
LEMMA SetsKeep ==
  ASSUME Lin!LookupInv, NEW r \in Lin!Rows, ~r.end_sequence, Lin!Sets(r)
  PROVE  Lin!LookupInv'
BY DEF Lin!Sets, Lin!Fetch, Lin!LookupInv, Lin!Covering, Lin!Located, Lin!Before

\* A new row of the matrix adds the pair it makes with the row before it to
\* those that cover the address, and changes no earlier pair.
LEMMA CoveringGrows ==
  ASSUME rows \in Seq(Lin!Rows), NEW r \in Lin!Rows, rows' = Append(rows, r), seeking_' = seeking_
  PROVE  /\ Len(rows') = Len(rows) + 1 /\ rows'[Len(rows')] = r
         /\ \A i \in 1 .. Len(rows) : rows'[i] = rows[i]
         /\ Lin!Covering' = Lin!Covering \cup
              (IF /\ rows # <<>> /\ ~rows[Len(rows)].end_sequence
                  /\ Lin!Before(rows[Len(rows)], seeking_) /\ ~Lin!Before(r, seeking_)
               THEN {Len(rows)} ELSE {})
<1> DEFINE n == Len(rows)
           hit == /\ rows # <<>> /\ ~rows[n].end_sequence
                  /\ Lin!Before(rows[n], seeking_) /\ ~Lin!Before(r, seeking_)
           Pair(s, i, a) == ~s[i].end_sequence /\ Lin!Before(s[i], a) /\ ~Lin!Before(s[i + 1], a)
<1>1. n \in Nat /\ Len(rows') = n + 1 /\ rows'[n + 1] = r /\ \A i \in 1 .. n : rows'[i] = rows[i]
  OBVIOUS
<1>2. rows # <<>> <=> n > 0 OBVIOUS
<1>3. Lin!Covering = {i \in 1 .. (n - 1) : Pair(rows, i, seeking_)} BY DEF Lin!Covering
<1>4. Lin!Covering' = {i \in 1 .. n : Pair(rows', i, seeking_)} BY <1>1 DEF Lin!Covering, Lin!Before
<1>5. \A i \in 1 .. (n - 1) : Pair(rows', i, seeking_) <=> Pair(rows, i, seeking_) BY <1>1
<1>6. n > 0 => (Pair(rows', n, seeking_) <=> hit) BY <1>1, <1>2
<1> HIDE DEF Pair, hit
<1>7. Lin!Covering' = Lin!Covering \cup (IF hit THEN {n} ELSE {})
  <2>1. ASSUME NEW i PROVE i \in Lin!Covering' <=> i \in Lin!Covering \cup (IF hit THEN {n} ELSE {})
    <3>1. CASE i \in 1 .. (n - 1) BY <1>1, <1>3, <1>4, <1>5, <3>1
    <3>2. CASE i = n /\ n > 0 BY <1>1, <1>3, <1>4, <1>6, <3>2
    <3>3. CASE i = n /\ ~(n > 0) BY <1>1, <1>2, <1>3, <1>4, <3>3 DEF hit
    <3>4. CASE i \notin 1 .. (n - 1) /\ i # n BY <1>1, <1>3, <1>4, <3>4
    <3> QED BY <3>1, <3>2, <3>3, <3>4
  <2> QED BY <2>1
<1> QED BY <1>1, <1>7 DEF hit

\* Appending a row (line_delegate_t::copy) halts the run exactly when that row
\* and the one before it are the first pair around the address; it then
\* reports the earlier row.
LEMMA CopiesKeep ==
  ASSUME Lin!Header, Lin!LookupInv, NEW r \in Lin!Rows, NEW next \in Lin!Rows, ~next.end_sequence,
         Lin!Copies(r, next)
  PROVE  Lin!LookupInv'
<1> DEFINE n == Len(rows)
           hit == have_start_ /\ Lin!contains(seeking_, r)
<1>1. /\ rows \in Seq(Lin!Rows) /\ rows' = Append(rows, r) /\ seeking_' = seeking_ /\ running_ = TRUE
      /\ n \in Nat /\ status = "none" /\ status' = status /\ additional_files_' = additional_files_
      /\ registers_' = next /\ running_' = ~hit /\ rows' \in Seq(Lin!Rows)
  BY DEF Lin!LookupInv, Lin!Copies, Lin!copy, Lin!Fetch
<1>2. /\ Lin!Covering = {} /\ found = Lin!NoLocation
      /\ have_start_ <=> rows # <<>> /\ ~rows[n].end_sequence
      /\ have_start_ => start_ = rows[n]
  BY <1>1 DEF Lin!LookupInv
<1>3. rows # <<>> <=> n > 0 BY <1>1
<1>4. hit <=> /\ rows # <<>> /\ ~rows[n].end_sequence
              /\ Lin!Before(rows[n], seeking_) /\ ~Lin!Before(r, seeking_)
  <2>1. CASE rows = <<>> BY <1>2, <2>1
  <2>2. CASE rows # <<>>
    <3>1. rows[n] \in Lin!Rows BY <1>1, <1>3, <2>2
    <3>2. \A q \in Lin!Rows : q.op_index = 0 /\ q.address \in Int BY DEF Lin!Rows, Lin!Header
    <3>3. rows[n].op_index = 0 /\ r.op_index = 0 /\ rows[n].address \in Int /\ r.address \in Int
      BY <3>1, <3>2
    <3>4. seeking_ \in Int BY DEF Lin!LookupInv
    <3> QED BY <1>2, <2>2, <3>3, <3>4 DEF Lin!contains, Lin!Before
  <2> QED BY <2>1, <2>2
<1>5. /\ Len(rows') = n + 1 /\ rows'[n + 1] = r
      /\ \A i \in 1 .. n : rows'[i] = rows[i]
      /\ Lin!Covering' = IF hit THEN {n} ELSE {}
  BY <1>1, <1>2, <1>4, CoveringGrows
<1>6. CASE hit
  <2>1. /\ found' = [file |-> start_.file, line |-> start_.line, known |-> Lin!get_file_entry(start_.file)]
        /\ have_start_' = have_start_ /\ start_' = start_
    BY <1>6 DEF Lin!Copies, Lin!copy
  <2>2. n > 0 /\ start_ = rows[n] /\ start_ \in Lin!Rows /\ start_.line >= 0
    BY <1>2, <1>3, <1>6 DEF Lin!LookupInv, Lin!Rows
  <2>3. Lin!Located(Len(rows) - 1)'
    <3>1. found'.file = rows'[n].file /\ found'.line = rows'[n].line BY <1>1, <1>5, <2>1, <2>2
    <3>2. start_.file \in Int /\ additional_files_ \in Nat /\ NFiles \in Nat
      BY <2>2 DEF Lin!Rows, Lin!LookupInv, Lin!Header
    <3>3. found'.known <=> found'.file \in 1 .. (NFiles + additional_files_')
      <4>1. found'.known = Lin!get_file_entry(start_.file) /\ found'.file = start_.file BY <2>1
      <4>2. Lin!get_file_entry(start_.file) <=> start_.file \in 1 .. (NFiles + additional_files_)
        BY <3>2 DEF Lin!get_file_entry
      <4> QED BY <1>1, <4>1, <4>2, Zenon
    <3>4. Len(rows') - 1 = n BY <1>1, <1>5
    <3> QED BY <3>1, <3>3, <3>4 DEF Lin!Located
  <2>4. Len(rows') - 1 = n BY <1>1, <1>5
  <2>5. found'.line >= 0 BY <2>1, <2>2
  <2>6. /\ Len(rows') > 1 /\ Lin!Covering' = {Len(rows') - 1} /\ ~running_'
        /\ start_' \in Lin!Rows /\ ~start_'.end_sequence /\ have_start_' \in BOOLEAN
        /\ seeking_' \in Int /\ additional_files_' \in Nat
    <3>1. Len(rows') > 1 BY <1>1, <1>5, <2>2
    <3>2. Lin!Covering' = {Len(rows') - 1} BY <1>5, <1>6, <2>4
    <3>3. ~running_' BY <1>1, <1>6
    <3>4. /\ start_' \in Lin!Rows /\ ~start_'.end_sequence /\ have_start_' \in BOOLEAN
          /\ seeking_' \in Int /\ additional_files_' \in Nat
      BY <1>1, <2>1, <2>2 DEF Lin!LookupInv
    <3> QED BY <3>1, <3>2, <3>3, <3>4
  <2> QED BY <1>1, <2>3, <2>5, <2>6 DEF Lin!LookupInv
<1>7. CASE ~hit
  <2>1. /\ found' = found /\ have_start_' = ~r.end_sequence
        /\ start_' = IF r.end_sequence THEN Lin!reset_registers ELSE r
    BY <1>7 DEF Lin!Copies, Lin!copy, Lin!have_start_after
  <2>2. Lin!reset_registers \in Lin!Rows BY DEF Lin!reset_registers, Lin!Rows, Lin!Header
  <2>3. r.end_sequence \in BOOLEAN BY DEF Lin!Rows
  <2>4. start_' \in Lin!Rows /\ ~start_'.end_sequence BY <2>1, <2>2, <2>3 DEF Lin!reset_registers
  <2>5. rows' # <<>> BY <1>1
  <2> QED BY <1>1, <1>2, <1>5, <1>7, <2>1, <2>3, <2>4, <2>5 DEF Lin!LookupInv
<1> QED BY <1>6, <1>7

\* Returning from run() leaves the answer alone; the status says whether the
\* delegate halted it.
LEMMA ReturnsKeep ==
  ASSUME Lin!LookupInv, NEW s, Lin!Returns(s),
         s = "ERR_HALTED_BY_DELEGATE" <=> ~running_
  PROVE  Lin!LookupInv'
BY DEF Lin!Returns, Lin!LookupInv, Lin!Covering, Lin!Located, Lin!Before

\* Every opcode of the line number program keeps the invariant.
LEMMA LookupStep == ASSUME Lin!Header, Lin!LookupInv, Lin!Next PROVE Lin!LookupInv'
<1>0. registers_ \in Lin!Rows /\ ~registers_.end_sequence BY DEF Lin!LookupInv
<1>1. CASE Lin!DW_LNE_end_sequence
  <2>1. [registers_ EXCEPT !.end_sequence = TRUE] \in Lin!Rows BY <1>0 DEF Lin!Rows
  <2>2. Lin!reset_registers \in Lin!Rows /\ ~Lin!reset_registers.end_sequence
    BY DEF Lin!reset_registers, Lin!Rows, Lin!Header
  <2> QED BY <1>1, <2>1, <2>2, CopiesKeep DEF Lin!DW_LNE_end_sequence
<1>2. CASE Lin!DW_LNE_set_address
  <2>1. PICK a \in Addresses : Lin!Sets([registers_ EXCEPT !.address = a, !.op_index = 0])
    BY <1>2 DEF Lin!DW_LNE_set_address
  <2>0. a \in Int /\ 0 \in 0 .. (MaxOperations - 1) BY DEF Lin!Header
  <2>2. [registers_ EXCEPT !.address = a, !.op_index = 0] \in Lin!Rows BY <1>0, <2>0 DEF Lin!Rows
  <2>3. ~[registers_ EXCEPT !.address = a, !.op_index = 0].end_sequence BY <1>0 DEF Lin!Rows
  <2> QED BY <2>1, <2>2, <2>3, SetsKeep
<1>3. CASE Lin!DW_LNE_define_file
  <2>1. /\ running_ /\ additional_files_' = additional_files_ + 1
        /\ UNCHANGED <<seeking_, registers_, start_, have_start_, running_, status, found, rows>>
    BY <1>3 DEF Lin!DW_LNE_define_file, Lin!Fetch
  <2>2. Lin!Covering' = Lin!Covering
    BY <2>1 DEF Lin!Covering, Lin!Before
  <2>3. additional_files_' \in Nat
    BY <2>1 DEF Lin!LookupInv
  <2> QED BY <2>1, <2>2, <2>3 DEF Lin!LookupInv
<1>4. CASE Lin!DW_LNS_copy BY <1>0, <1>4, CopiesKeep DEF Lin!DW_LNS_copy
<1>5. CASE Lin!DW_LNS_advance_pc
  BY <1>0, <1>5, AdvancedPc, SetsKeep DEF Lin!DW_LNS_advance_pc, Lin!Header
<1>6. CASE Lin!DW_LNS_advance_line
  BY <1>0, <1>6, AdvancedLine, SetsKeep DEF Lin!DW_LNS_advance_line, Lin!Header
<1>7. CASE Lin!DW_LNS_set_file
  <2>1. PICK f \in 0..(NFiles + 1) : Lin!Sets([registers_ EXCEPT !.file = f])
    BY <1>7 DEF Lin!DW_LNS_set_file
  <2>2. [registers_ EXCEPT !.file = f] \in Lin!Rows /\ ~[registers_ EXCEPT !.file = f].end_sequence
    BY <1>0 DEF Lin!Rows, Lin!Header
  <2> QED BY <2>1, <2>2, SetsKeep
<1>8. CASE Lin!DW_LNS_const_add_pc
  <2>1. Lin!special_opcode_operation_advance(LastOpcode) \in Int BY SpecialAdvances DEF Lin!Header
  <2> QED BY <1>0, <1>8, <2>1, AdvancedPc, SetsKeep DEF Lin!DW_LNS_const_add_pc
<1>9. CASE Lin!DW_LNS_fixed_advance_pc
  <2>1. PICK n \in Advances : Lin!Sets([registers_ EXCEPT !.address = @ + n])
    BY <1>9 DEF Lin!DW_LNS_fixed_advance_pc
  <2>2. /\ [registers_ EXCEPT !.address = @ + n] \in Lin!Rows
        /\ ~[registers_ EXCEPT !.address = @ + n].end_sequence
    BY <1>0 DEF Lin!Rows, Lin!Header
  <2> QED BY <2>1, <2>2, SetsKeep
<1>10. CASE Lin!other_standard BY <1>0, <1>10, SetsKeep DEF Lin!other_standard
<1>11. CASE Lin!special_opcode
  <2>1. PICK op \in OpcodeBase..LastOpcode :
          LET r == Lin!advance_pc(Lin!advance_line(registers_, Lin!special_opcode_line_advance(op)),
                                  Lin!special_opcode_operation_advance(op))
          IN  Lin!Copies(r, r)
    BY <1>11 DEF Lin!special_opcode
  <2>2. op \in Int BY DEF Lin!Header
  <2> DEFINE l == Lin!advance_line(registers_, Lin!special_opcode_line_advance(op))
             r == Lin!advance_pc(l, Lin!special_opcode_operation_advance(op))
  <2>3. l \in Lin!Rows /\ l.end_sequence = registers_.end_sequence
    BY <1>0, <2>2, SpecialAdvances, AdvancedLine
  <2>4. r \in Lin!Rows /\ r.end_sequence = l.end_sequence
    BY <2>2, <2>3, SpecialAdvances, AdvancedPc
  <2>5. Lin!Copies(r, r) BY <2>1
  <2> HIDE DEF l, r
  <2> QED BY <1>0, <2>3, <2>4, <2>5, CopiesKeep
<1>12. CASE Lin!unknown_extended BY <1>12, ReturnsKeep DEF Lin!unknown_extended
<1>13. CASE Lin!operand_missing BY <1>13, ReturnsKeep DEF Lin!operand_missing
<1>14. CASE Lin!run_ends BY <1>14, ReturnsKeep DEF Lin!run_ends
<1>15. CASE Lin!ended
  BY <1>15 DEF Lin!ended, Lin!vars, Lin!LookupInv, Lin!Covering, Lin!Located, Lin!Before
<1> QED
  BY <1>1, <1>2, <1>3, <1>4, <1>5, <1>6, <1>7, <1>8, <1>9, <1>10, <1>11, <1>12, <1>13, <1>14, <1>15 DEF Lin!Next

\* What the invariant says of the rows so far is what the lookup promises.
LEMMA LookupInvShows == ASSUME Lin!Header, Lin!LookupInv PROVE Lin!LinesFound
<1>1. Lin!TypeOK BY DEF Lin!TypeOK, Lin!LookupInv, Lin!Rows
<1>2. Lin!LookupMatchesTable
  <2>1. CASE running_
    BY <2>1 DEF Lin!LookupMatchesTable, Lin!LookupInv, Lin!get_source_line
  <2>2. CASE ~running_
    <3>1. Len(rows) - 1 \in Int BY DEF Lin!LookupInv
    <3>2. found # Lin!NoLocation BY <2>2 DEF Lin!LookupInv, Lin!NoLocation
    <3>3. Lin!Covering = {Len(rows) - 1} /\ Lin!Located(Len(rows) - 1)
          /\ status \in {"none", "ERR_HALTED_BY_DELEGATE"}
      BY <2>2 DEF Lin!LookupInv
    <3> QED BY <2>2, <3>1, <3>2, <3>3 DEF Lin!LookupMatchesTable, Lin!get_source_line
  <2> QED BY <2>1, <2>2
<1> QED BY <1>1, <1>2 DEF Lin!LinesFound

\* Whatever opcodes a line number program consists of, in whatever order, the
\* lookup answers with the row that covers the address, and does not answer
\* when no row does: for every header with one operation per instruction
\* (get_source_line, run).
THEOREM LinesAreFound == ASSUME Lin!Header PROVE Lin!Spec => []Lin!LinesFound
<1>1. Lin!Init => Lin!LookupInv BY LookupStarts
<1>2. Lin!LookupInv /\ [Lin!Next]_Lin!vars => Lin!LookupInv'
  <2>1. ASSUME Lin!LookupInv, UNCHANGED Lin!vars PROVE Lin!LookupInv'
    BY <2>1 DEF Lin!vars, Lin!LookupInv, Lin!Covering, Lin!Located, Lin!Before
  <2> QED BY <2>1, LookupStep
<1>3. Lin!LookupInv => Lin!LinesFound BY LookupInvShows
<1> QED BY <1>1, <1>2, <1>3, PTL DEF Lin!Spec

-----------------------------------------------------------------------------
(* The stack trace.                                                        *)

CONSTANTS Calls, Before, Gaps, Outer, Near, MaxFrames

VARIABLES frames, outer, pc, bp, stack, lines

Sta == INSTANCE StackTrace

\* The frames of a stack that the model builds, and their addresses.
LEMMA FrameFields ==
  ASSUME frames \in Seq(Sta!FrameSet)
  PROVE  /\ Len(frames) \in Nat /\ Sta!N = Len(frames) /\ DOMAIN frames = 1 .. Len(frames)
         /\ \A i \in 1 .. Len(frames) : /\ frames[i] \in Sta!FrameSet /\ frames[i].at \in Int
                                        /\ Sta!FrameAt(i) = frames[i].at
         /\ \A i \in Nat : i > Len(frames) => Sta!FrameAt(i) = 65536
         /\ \A i \in 1 .. (Len(frames) + 1) : Sta!FrameAt(i) \in Int
<1>1. Len(frames) \in Nat /\ Sta!N = Len(frames) /\ DOMAIN frames = 1 .. Len(frames)
  BY DEF Sta!N
<1>2. \A i \in 1 .. Len(frames) : frames[i] \in Sta!FrameSet
  OBVIOUS
<1>3. \A f \in Sta!FrameSet : f.at \in Int BY DEF Sta!FrameSet
<1>4. \A i \in 1 .. Len(frames) : Sta!FrameAt(i) = frames[i].at /\ frames[i].at \in Int
  BY <1>1, <1>2, <1>3 DEF Sta!FrameAt
<1>5. \A i \in Nat : i > Len(frames) => Sta!FrameAt(i) = 65536
  BY <1>1 DEF Sta!FrameAt, Sta!Top
<1>6. \A i \in 1 .. (Len(frames) + 1) : i \in 1 .. Len(frames) \/ (i \in Nat /\ i > Len(frames))
  BY <1>1
<1> QED BY <1>1, <1>2, <1>4, <1>5, <1>6

\* Before the first call the trace is empty.
LEMMA TraceStarts == ASSUME Sta!Recognised, Sta!Init PROVE Sta!TraceInv
<1>1. frames = <<>> /\ frames \in Seq(Sta!FrameSet) /\ Sta!N = 0 /\ stack = <<>> /\ pc = "calling"
  BY DEF Sta!Init, Sta!N
<1>2. Sta!Stacked BY <1>1 DEF Sta!Stacked, Sta!Frames, Sta!Recognised
<1> QED BY <1>1, <1>2 DEF Sta!TraceInv, Sta!Walked

\* The elements of a sequence with one put before it.
LEMMA Pushed ==
  ASSUME NEW S, NEW s \in Seq(S), NEW e \in S
  PROVE  /\ <<e>> \o s \in Seq(S) /\ Len(<<e>> \o s) = Len(s) + 1
         /\ (<<e>> \o s)[1] = e
         /\ \A i \in 1 .. Len(s) : (<<e>> \o s)[i + 1] = s[i]
OBVIOUS

\* A call puts a frame below the others, near enough, with a call instruction
\* that is recognised.
LEMMA CallKeeps ==
  ASSUME Sta!Recognised, Sta!TraceInv, NEW b \in Before, NEW c \in Calls, NEW g \in Gaps,
         NEW l \in BOOLEAN, Sta!call(b, c, g, l)
  PROVE  Sta!TraceInv'
<1> DEFINE e == [code |-> b \o c, call |-> c, at |-> Sta!FrameAt(1) - g, last |-> l]
           n == Len(frames)
<1>1. /\ frames \in Seq(Sta!FrameSet) /\ n \in Nat /\ n < MaxFrames /\ MaxFrames \in Nat
      /\ frames' = <<e>> \o frames /\ Sta!FrameAt(1) - g > Sta!Low /\ g \in 1 .. Near
      /\ pc = "calling" /\ pc' = pc /\ stack' = stack
  BY DEF Sta!TraceInv, Sta!Stacked, Sta!call, Sta!Recognised, Sta!N
<1>2. /\ Sta!N = n
      /\ \A i \in 1 .. n : Sta!FrameAt(i) = frames[i].at /\ frames[i].at \in Int
      /\ \A i \in Nat : i > n => Sta!FrameAt(i) = 65536
      /\ \A i \in 1 .. (n + 1) : Sta!FrameAt(i) \in Int
  <2>1. frames \in Seq(Sta!FrameSet)
    BY <1>1
  <2> QED BY <2>1, FrameFields
<1>3. 1 \in 1 .. (n + 1) /\ Sta!FrameAt(1) \in Int /\ g \in Int
  BY <1>1, <1>2 DEF Sta!Recognised
<1>4. e \in Sta!FrameSet
  <2>1. b \in Seq(Sta!Byte) /\ c \in Seq(Sta!Byte) \ {<<>>} BY DEF Sta!Recognised
  <2>2. b \o c \in Seq(Sta!Byte) BY <2>1
  <2>3. Sta!FrameAt(1) - g \in Int BY <1>3
  <2> QED BY <2>1, <2>2, <2>3 DEF Sta!FrameSet
<1>5. /\ e.at = Sta!FrameAt(1) - g /\ Sta!call_instruction_length(e.code) = Len(e.call)
  BY DEF Sta!Recognised
<1> HIDE DEF e
<1>6. /\ frames' \in Seq(Sta!FrameSet) /\ Len(frames') = n + 1 /\ frames'[1] = e
      /\ \A i \in 1 .. n : frames'[i + 1] = frames[i]
  BY <1>1, <1>4, Pushed
<1>7. Sta!N' = n + 1 BY <1>6 DEF Sta!N
<1> DEFINE At(i) == IF i > n + 1 THEN 65536 ELSE frames'[i].at
<1>8. \A i : Sta!FrameAt(i)' = At(i) BY <1>7 DEF Sta!FrameAt, Sta!Top
<1>9. /\ At(1) = Sta!FrameAt(1) - g
      /\ \A i \in 1 .. (n + 1) : At(i + 1) = Sta!FrameAt(i)
  <2>1. At(1) = Sta!FrameAt(1) - g BY <1>1, <1>5, <1>6
  <2>2. ASSUME NEW i \in 1 .. (n + 1) PROVE At(i + 1) = Sta!FrameAt(i)
    <3>1. CASE i = n + 1 BY <1>1, <1>2, <3>1
    <3>2. CASE i \in 1 .. n BY <1>1, <1>2, <1>6, <3>2
    <3> QED BY <1>1, <3>1, <3>2
  <2> QED BY <2>1, <2>2
<1> HIDE DEF At
<1>10. \A i \in 1 .. (n + 2) : i = 1 \/ (\E j \in 1 .. (n + 1) : i = j + 1)
  <2>1. ASSUME NEW i \in 1 .. (n + 2), i # 1 PROVE i - 1 \in 1 .. (n + 1) /\ i = (i - 1) + 1
    BY <1>1, <2>1
  <2> QED BY <2>1
<1>11. /\ \A i \in 1 .. n : /\ Sta!call_instruction_length(frames[i].code) = Len(frames[i].call)
                            /\ Sta!FrameAt(i) > Sta!Low /\ Sta!FrameAt(i + 1) - Sta!FrameAt(i) \in 1 .. Near
       /\ \A i, j \in 1 .. (n + 1) : i < j => Sta!FrameAt(i) < Sta!FrameAt(j)
  BY <1>2 DEF Sta!TraceInv, Sta!Stacked, Sta!Frames
<1>12. \A i \in 1 .. (n + 1) : /\ Sta!call_instruction_length(frames'[i].code) = Len(frames'[i].call)
                               /\ At(i) > Sta!Low /\ At(i + 1) - At(i) \in 1 .. Near
  <2>1. ASSUME NEW i \in 1 .. (n + 1), i = 1
        PROVE  /\ Sta!call_instruction_length(frames'[i].code) = Len(frames'[i].call)
               /\ At(i) > Sta!Low /\ At(i + 1) - At(i) \in 1 .. Near
    <3>1. At(i + 1) - At(i) = g BY <1>3, <1>9, <2>1
    <3> QED BY <1>1, <1>5, <1>6, <1>9, <2>1, <3>1
  <2>2. ASSUME NEW j \in 1 .. n
        PROVE  /\ Sta!call_instruction_length(frames'[j + 1].code) = Len(frames'[j + 1].call)
               /\ At(j + 1) > Sta!Low /\ At((j + 1) + 1) - At(j + 1) \in 1 .. Near
    <3>1. j \in 1 .. (n + 1) /\ j + 1 \in 1 .. (n + 1) BY <1>1
    <3> QED BY <1>6, <1>9, <1>11, <3>1
  <2>3. \A i \in 1 .. (n + 1) : i = 1 \/ (\E j \in 1 .. n : i = j + 1)
    <3>1. ASSUME NEW i \in 1 .. (n + 1), i # 1 PROVE i - 1 \in 1 .. n /\ i = (i - 1) + 1
      BY <1>1, <3>1
    <3> QED BY <3>1
  <2> QED BY <2>1, <2>2, <2>3
<1>13. \A i, j \in 1 .. (n + 2) : i < j => At(i) < At(j)
  <2> SUFFICES ASSUME NEW i \in 1 .. (n + 2), NEW j \in 1 .. (n + 2), i < j PROVE At(i) < At(j)
    OBVIOUS
  <2>1. j # 1 BY <1>1
  <2>2. PICK q \in 1 .. (n + 1) : j = q + 1 BY <1>10, <2>1
  <2>3. At(j) = Sta!FrameAt(q) /\ Sta!FrameAt(q) \in Int BY <1>2, <1>9, <2>2
  <2>4. CASE i = 1
    <3>1. Sta!FrameAt(1) <= Sta!FrameAt(q)
      BY <1>1, <1>3, <1>11, <2>3
    <3>2. g > 0 BY <1>1, <1>3
    <3> QED BY <1>3, <1>9, <2>3, <2>4, <3>1, <3>2
  <2>5. CASE i # 1
    <3>1. PICK p \in 1 .. (n + 1) : i = p + 1 BY <1>10, <2>5
    <3>2. p < q BY <1>1, <2>2, <3>1
    <3> QED BY <1>9, <1>11, <2>3, <3>1, <3>2
  <2> QED BY <2>4, <2>5
<1>14. Sta!Stacked'
  <2>1. n + 1 <= MaxFrames BY <1>1
  <2>2. (n + 1) + 1 = n + 2 BY <1>1
  <2>3. Sta!Frames' = 1 .. (n + 2) BY <1>7, <2>2 DEF Sta!Frames
  <2>4. \A i \in 1 .. Sta!N' : /\ Sta!call_instruction_length(frames'[i].code) = Len(frames'[i].call)
                               /\ Sta!FrameAt(i)' > Sta!Low /\ Sta!FrameAt(i + 1)' - Sta!FrameAt(i)' \in 1 .. Near
    BY <1>7, <1>8, <1>12
  <2>5. \A i, j \in Sta!Frames' : i < j => Sta!FrameAt(i)' < Sta!FrameAt(j)'
    BY <1>8, <1>13, <2>3
  <2> QED BY <1>6, <1>7, <2>1, <2>4, <2>5 DEF Sta!Stacked
<1> QED BY <1>1, <1>14 DEF Sta!TraceInv, Sta!Walked

\* The walk starts at the innermost frame (get_stacktrace).
LEMMA RaiseKeeps == ASSUME Sta!Recognised, Sta!TraceInv, Sta!raise PROVE Sta!TraceInv'
<1>1. /\ pc = "calling" /\ Sta!N > 0 /\ pc' = "walking" /\ bp' = Sta!FrameAt(1)
      /\ frames' = frames /\ stack' = stack
  BY DEF Sta!raise
<1>2. Sta!N' = Sta!N /\ \A i : Sta!FrameAt(i)' = Sta!FrameAt(i) /\ Sta!Calling(i)' = Sta!Calling(i)
  BY <1>1 DEF Sta!N, Sta!FrameAt, Sta!Calling
<1>3. Sta!Stacked' BY <1>1, <1>2 DEF Sta!TraceInv, Sta!Stacked, Sta!Frames
<1>4. Sta!N \in Nat BY DEF Sta!N, Sta!TraceInv, Sta!Stacked
<1>5. 0 \in 0 .. Sta!N' /\ Len(stack') = 0 /\ (\A k \in 1 .. 0 : stack'[k] = Sta!Calling(k)') /\ bp' = Sta!FrameAt(0 + 1)'
  BY <1>1, <1>2, <1>4 DEF Sta!TraceInv, Sta!Walked
<1>6. \E n \in 0 .. Sta!N' : /\ Len(stack') = n /\ \A k \in 1 .. n : stack'[k] = Sta!Calling(k)'
                             /\ bp' = Sta!FrameAt(n + 1)'
  BY <1>5
<1> QED BY <1>1, <1>2, <1>3, <1>6 DEF Sta!TraceInv, Sta!Walked

\* The address of a frame leads to that frame and to no other, and the word
\* saved there is the address of the next.
LEMMA FrameFound ==
  ASSUME Sta!TraceInv, NEW m \in 1 .. (Sta!N + 1)
  PROVE  /\ Sta!FrameAt(m) \in Sta!Mapped /\ Sta!FrameAt(m) \in Int /\ Sta!FrameAt(m) # Sta!Low
         /\ Sta!FrameOf(Sta!FrameAt(m)) = m
         /\ m <= Sta!N => Sta!Saved(Sta!FrameAt(m)) = Sta!FrameAt(m + 1)
<1>1. /\ Sta!Stacked /\ frames \in Seq(Sta!FrameSet) BY DEF Sta!TraceInv, Sta!Stacked
<1>2. /\ Sta!N \in Nat /\ Sta!Frames = 1 .. (Sta!N + 1)
      /\ \A i \in Nat : i > Sta!N => Sta!FrameAt(i) = 65536
      /\ \A i \in 1 .. (Sta!N + 1) : Sta!FrameAt(i) \in Int
  BY <1>1, FrameFields DEF Sta!Frames
<1>3. \A i \in 1 .. (Sta!N + 1) : Sta!FrameAt(i) > Sta!Low
  <2>1. \A i \in 1 .. (Sta!N + 1) : i \in 1 .. Sta!N \/ i = Sta!N + 1 BY <1>2
  <2>2. Sta!FrameAt(Sta!N + 1) > Sta!Low BY <1>2 DEF Sta!Low, Sta!Top
  <2> QED BY <1>1, <2>1, <2>2 DEF Sta!Stacked
<1>4. Sta!Low \in Int BY DEF Sta!Low, Sta!Top
<1>5. \A i, j \in 1 .. (Sta!N + 1) : Sta!FrameAt(i) = Sta!FrameAt(j) => i = j
  <2> SUFFICES ASSUME NEW i \in 1 .. (Sta!N + 1), NEW j \in 1 .. (Sta!N + 1),
                      Sta!FrameAt(i) = Sta!FrameAt(j), i # j
               PROVE  FALSE
    OBVIOUS
  <2>1. i < j \/ j < i BY <1>2
  <2> QED BY <1>1, <1>2, <2>1 DEF Sta!Stacked
<1>6. Sta!FrameAt(m) \in Sta!Mapped BY <1>2 DEF Sta!Mapped
<1>7. Sta!FrameAt(m) # Sta!Low BY <1>2, <1>3, <1>4
<1>8. m = CHOOSE i \in Sta!Frames : Sta!FrameAt(i) = Sta!FrameAt(m)
  <2> DEFINE q == CHOOSE i \in Sta!Frames : Sta!FrameAt(i) = Sta!FrameAt(m)
  <2>1. m \in Sta!Frames BY <1>2
  <2>2. q \in Sta!Frames /\ Sta!FrameAt(q) = Sta!FrameAt(m) BY <2>1, Zenon
  <2> HIDE DEF q
  <2>3. q = m BY <1>2, <1>5, <2>2
  <2> QED BY <2>3 DEF q
<1>9. m <= Sta!N => Sta!FrameAt(m) # 65536
  <2>1. ASSUME m <= Sta!N PROVE m < Sta!N + 1 /\ Sta!N + 1 \in 1 .. (Sta!N + 1) /\ Sta!FrameAt(Sta!N + 1) = 65536
    BY <1>2, <2>1
  <2> QED BY <1>1, <1>2, <2>1 DEF Sta!Stacked
<1>10. Sta!FrameOf(Sta!FrameAt(m)) = m BY <1>7, <1>8 DEF Sta!FrameOf
<1>11. m <= Sta!N => Sta!Saved(Sta!FrameAt(m)) = Sta!FrameAt(1 + m)
  <2> SUFFICES ASSUME m <= Sta!N PROVE Sta!Saved(Sta!FrameAt(m)) = Sta!FrameAt(1 + m)
    OBVIOUS
  <2>1. Sta!FrameAt(m) # Sta!Top BY <1>9 DEF Sta!Top
  <2>2. Sta!Saved(Sta!FrameAt(m))
          = Sta!FrameAt(1 + CHOOSE i \in Sta!Frames : Sta!FrameAt(i) = Sta!FrameAt(m))
    BY <1>7, <2>1, Zenon DEF Sta!Saved
  <2> QED BY <1>8, <2>2, Zenon
<1> QED BY <1>2, <1>6, <1>7, <1>10, <1>11

\* One turn of the loop of get_stacktrace goes out by one frame, or stops at
\* the outermost: never before it, never after it.
LEMMA GetKeeps == ASSUME Sta!Recognised, Sta!TraceInv, Sta!get_stacktrace PROVE Sta!TraceInv'
<1> DEFINE next == Sta!Saved(bp)
           stop == next = 0 \/ Sta!wrong_direction(next) \/ Sta!too_far(next)
<1>1. /\ pc = "walking" /\ stack' = Sta!push_back(Sta!FrameOf(bp)) /\ frames' = frames
      /\ IF stop THEN pc' = "describing" ELSE bp' = next /\ pc' = pc
  BY DEF Sta!get_stacktrace
<1>2. Sta!N' = Sta!N /\ \A i : Sta!FrameAt(i)' = Sta!FrameAt(i) /\ Sta!Calling(i)' = Sta!Calling(i)
  BY <1>1 DEF Sta!N, Sta!FrameAt, Sta!Calling
<1>3. Sta!Stacked' BY <1>1, <1>2 DEF Sta!TraceInv, Sta!Stacked, Sta!Frames
<1>4. /\ Sta!N \in Nat /\ Sta!N > 0 /\ Sta!N <= MaxFrames /\ MaxFrames \in Nat /\ Near \in Nat
      /\ \A i \in Nat : i > Sta!N => Sta!FrameAt(i) = 65536
      /\ \A i \in 1 .. (Sta!N + 1) : Sta!FrameAt(i) \in Int
  BY <1>1, FrameFields DEF Sta!TraceInv, Sta!Stacked, Sta!Recognised
<1>5. PICK n \in 0 .. Sta!N : Sta!Walked(n) /\ bp = Sta!FrameAt(n + 1)
  BY <1>1 DEF Sta!TraceInv
<1>6. n + 1 \in 1 .. (Sta!N + 1) /\ n \in Nat BY <1>4
<1>7. /\ bp \in Int /\ Sta!FrameOf(bp) = n + 1
      /\ n + 1 <= Sta!N => next = Sta!FrameAt((n + 1) + 1)
  BY <1>5, <1>6, FrameFound
<1>8. Sta!Calling(n + 1) \in [frame : Nat, back : Nat]
  <2>1. \A i \in 1 .. Sta!N : Sta!call_instruction_length(frames[i].code) \in Nat
    <3>1. \A f \in Sta!FrameSet : Len(f.call) \in Nat BY DEF Sta!FrameSet
    <3>2. \A i \in 1 .. Sta!N : frames[i] \in Sta!FrameSet
      BY FrameFields DEF Sta!TraceInv, Sta!Stacked
    <3> QED BY <3>1, <3>2 DEF Sta!TraceInv, Sta!Stacked
  <2>2. n + 1 > Sta!N \/ n + 1 \in 1 .. Sta!N BY <1>4, <1>6
  <2> QED BY <1>4, <1>6, <2>1, <2>2 DEF Sta!Calling
<1>9. stack' = Append(stack, Sta!Calling(n + 1))
  BY <1>1, <1>4, <1>5, <1>7 DEF Sta!push_back, Sta!Walked
<1>10. /\ stack' \in Seq([frame : Nat, back : Nat]) /\ Len(stack') = n + 1
       /\ \A k \in 1 .. (n + 1) : stack'[k] = Sta!Calling(k)
  <2>1. stack \in Seq([frame : Nat, back : Nat]) /\ Len(stack) = n /\ \A k \in 1 .. n : stack[k] = Sta!Calling(k)
    BY <1>5 DEF Sta!TraceInv, Sta!Walked
  <2> QED BY <1>6, <1>8, <1>9, <2>1
<1>11. CASE n + 1 <= Sta!N
  <2>1. n + 1 \in 1 .. Sta!N /\ (n + 1) + 1 \in 1 .. (Sta!N + 1) BY <1>4, <1>6, <1>11
  <2>2. bp > 25536 /\ next - bp \in 1 .. Near /\ next \in Int
    BY <1>4, <1>5, <1>7, <2>1 DEF Sta!TraceInv, Sta!Stacked, Sta!Low, Sta!Top
  <2>3. next # 0 /\ ~ next < bp /\ ~ next - bp > Near BY <1>4, <1>7, <2>2
  <2>4. ~stop BY <2>3 DEF Sta!wrong_direction, Sta!too_far
  <2>5. pc' = "walking" /\ bp' = Sta!FrameAt((n + 1) + 1) BY <1>1, <1>7, <1>11, <2>4
  <2>6. n + 1 \in 0 .. Sta!N BY <1>4, <2>1
  <2>7. \E p \in 0 .. Sta!N' : /\ Len(stack') = p /\ \A k \in 1 .. p : stack'[k] = Sta!Calling(k)'
                               /\ bp' = Sta!FrameAt(p + 1)'
    BY <1>2, <1>10, <2>5, <2>6
  <2> QED BY <1>2, <1>3, <1>4, <1>10, <2>5, <2>7 DEF Sta!TraceInv, Sta!Walked
<1>12. CASE n + 1 > Sta!N
  <2>1. n = Sta!N /\ bp = 65536 BY <1>4, <1>5, <1>6, <1>12
  <2>2. next = (CASE outer = "zero" -> 0 [] outer = "low" -> 25536 [] OTHER -> 65536 + Near + 1)
    BY <2>1 DEF Sta!Saved, Sta!Low, Sta!Top
  <2>3. next = 0 \/ next = 25536 \/ next = 65536 + Near + 1 BY <2>2
  <2>4. next = 0 \/ next < bp \/ next - bp > Near BY <1>4, <2>1, <2>3
  <2>5. stop BY <2>4 DEF Sta!wrong_direction, Sta!too_far
  <2>6. pc' = "describing" BY <1>1, <2>5
  <2> QED BY <1>2, <1>3, <1>4, <1>10, <2>1, <2>6 DEF Sta!TraceInv, Sta!Walked
<1> QED BY <1>4, <1>6, <1>11, <1>12

\* describe_stacktrace prints every frame up to and including that of main.
LEMMA DescribeKeeps == ASSUME Sta!Recognised, Sta!TraceInv, Sta!describe_stacktrace PROVE Sta!TraceInv'
<1> DEFINE names == [k \in DOMAIN stack |-> Sta!described(stack[k])]
           main == {k \in DOMAIN names : names[k] = Sta!N}
<1>1. /\ pc = "describing" /\ pc' = "done" /\ frames' = frames /\ stack' = stack
      /\ lines' = IF main = {} THEN names ELSE SubSeq(names, 1, Sta!Min(main))
  BY DEF Sta!describe_stacktrace
<1>2. Sta!N' = Sta!N /\ \A i : Sta!FrameAt(i)' = Sta!FrameAt(i) /\ Sta!Calling(i)' = Sta!Calling(i)
  BY <1>1 DEF Sta!N, Sta!FrameAt, Sta!Calling
<1>3. Sta!Stacked' BY <1>1, <1>2 DEF Sta!TraceInv, Sta!Stacked, Sta!Frames
<1>4. /\ Sta!N \in Nat /\ Sta!N > 0 /\ stack \in Seq([frame : Nat, back : Nat])
      /\ Len(stack) = Sta!N + 1 /\ \A k \in 1 .. (Sta!N + 1) : stack[k] = Sta!Calling(k)
  <2>1. Sta!N \in Nat BY FrameFields DEF Sta!TraceInv, Sta!Stacked
  <2>2. Sta!N > 0 /\ Sta!Walked(Sta!N + 1) /\ stack \in Seq([frame : Nat, back : Nat])
    BY <1>1 DEF Sta!TraceInv
  <2> QED BY <2>1, <2>2 DEF Sta!Walked
<1>5. DOMAIN stack = 1 .. (Sta!N + 1) BY <1>4
<1>6. \A k \in 1 .. (Sta!N + 1) : names[k] = IF k > Sta!N THEN 0 ELSE k
  <2> SUFFICES ASSUME NEW k \in 1 .. (Sta!N + 1)
               PROVE  Sta!described(Sta!Calling(k)) = IF k > Sta!N THEN 0 ELSE k
    BY <1>4, <1>5
  <2>1. CASE k > Sta!N BY <2>1 DEF Sta!described, Sta!Calling, Sta!Unknown
  <2>2. CASE k \in 1 .. Sta!N
    <3>1. frames[k] \in Sta!FrameSet BY <2>2, FrameFields DEF Sta!TraceInv, Sta!Stacked
    <3>2. \A f \in Sta!FrameSet : Len(f.call) # 0 BY DEF Sta!FrameSet
    <3>3. Sta!call_instruction_length(frames[k].code) # 0
      BY <2>2, <3>1, <3>2 DEF Sta!TraceInv, Sta!Stacked
    <3>4. ~ k > Sta!N BY <1>4, <2>2
    <3>5. Sta!Calling(k).frame = k /\ Sta!Calling(k).back # 0 BY <3>3, <3>4 DEF Sta!Calling
    <3> QED BY <3>4, <3>5 DEF Sta!described
  <2> QED BY <1>4, <2>1, <2>2
<1>7. DOMAIN names = 1 .. (Sta!N + 1) BY <1>5
<1> HIDE DEF names
<1>8. main = {Sta!N}
  <2>1. \A k \in 1 .. (Sta!N + 1) : names[k] = Sta!N <=> k = Sta!N BY <1>4, <1>6
  <2>2. Sta!N \in 1 .. (Sta!N + 1) BY <1>4
  <2> QED BY <1>7, <2>1, <2>2
<1> HIDE DEF main
<1>9. Sta!Min(main) = Sta!N BY <1>4, <1>8 DEF Sta!Min
<1>10. lines' = SubSeq(names, 1, Sta!N) BY <1>1, <1>8, <1>9
<1>11. SubSeq(names, 1, Sta!N) = [k \in 1 .. Sta!N |-> k]
  <2>1. SubSeq(names, 1, Sta!N) = [k \in 1 .. (Sta!N - 1 + 1) |-> names[k + 1 - 1]]
    BY <1>4
  <2>2. Sta!N - 1 + 1 = Sta!N /\ \A k \in 1 .. Sta!N : names[k + 1 - 1] = k BY <1>4, <1>6
  <2> QED BY <2>1, <2>2
<1> QED BY <1>1, <1>2, <1>3, <1>4, <1>10, <1>11 DEF Sta!TraceInv, Sta!Walked

\* Every step keeps the invariant of the walk.
LEMMA TraceStep == ASSUME Sta!Recognised, Sta!TraceInv, [Sta!Next]_Sta!vars PROVE Sta!TraceInv'
<1>1. ASSUME UNCHANGED Sta!vars PROVE Sta!TraceInv'
  <2>1. frames' = frames /\ pc' = pc /\ bp' = bp /\ stack' = stack /\ lines' = lines
    BY <1>1 DEF Sta!vars
  <2>2. Sta!N' = Sta!N /\ \A i : Sta!FrameAt(i)' = Sta!FrameAt(i) /\ Sta!Calling(i)' = Sta!Calling(i)
    BY <2>1 DEF Sta!N, Sta!FrameAt, Sta!Calling
  <2>3. Sta!Stacked' BY <2>1, <2>2 DEF Sta!TraceInv, Sta!Stacked, Sta!Frames
  <2> QED BY <2>1, <2>2, <2>3 DEF Sta!TraceInv, Sta!Walked
<1> QED BY <1>1, CallKeeps, RaiseKeeps, GetKeeps, DescribeKeeps DEF Sta!Next, Sta!done

\* The invariant shows the three parts of the property.
LEMMA TraceShows == ASSUME Sta!Recognised, Sta!TraceInv PROVE Sta!TraceIsCallChain
<1>1. Sta!NamesCallChain BY DEF Sta!NamesCallChain, Sta!TraceInv
<1>2. Sta!CallingAddresses
  <2>1. PICK n \in Nat : Sta!Walked(n)
    <3>1. Sta!N \in Nat
      BY FrameFields DEF Sta!TraceInv, Sta!Stacked
    <3>2. CASE pc = "calling"
      BY <3>2 DEF Sta!TraceInv
    <3>3. CASE pc = "walking"
      <4>1. PICK k \in 0 .. Sta!N : Sta!Walked(k)
        BY <3>3 DEF Sta!TraceInv
      <4> QED BY <3>1, <4>1
    <3>4. CASE pc \in {"describing", "done"}
      <4>1. Sta!Walked(Sta!N + 1)
        BY <3>4 DEF Sta!TraceInv
      <4>2. Sta!N + 1 \in Nat
        BY <3>1
      <4> QED BY <4>1, <4>2, Zenon
    <3> QED BY <3>2, <3>3, <3>4 DEF Sta!TraceInv
  <2>2. stack \in Seq([frame : Nat, back : Nat]) BY DEF Sta!TraceInv
  <2>3. DOMAIN stack = 1 .. n /\ \A k \in 1 .. n : stack[k] = Sta!Calling(k)
    BY <2>1, <2>2 DEF Sta!Walked
  <2> SUFFICES ASSUME NEW k \in 1 .. n, stack[k].frame <= Sta!N
               PROVE  stack[k].back = Len(frames[stack[k].frame].call)
    BY <2>3 DEF Sta!CallingAddresses
  <2>4. stack[k].frame = k BY <2>3 DEF Sta!Calling
  <2>5. Sta!N \in Nat BY FrameFields DEF Sta!TraceInv, Sta!Stacked
  <2>6. k \in 1 .. Sta!N /\ ~ k > Sta!N BY <2>4, <2>5
  <2>7. stack[k].back = Sta!call_instruction_length(frames[k].code) BY <2>3, <2>6 DEF Sta!Calling
  <2> QED BY <2>4, <2>6, <2>7 DEF Sta!TraceInv, Sta!Stacked
<1>3. Sta!WalksTheStack
  <2> SUFFICES ASSUME pc = "walking" PROVE bp \in Sta!Mapped BY DEF Sta!WalksTheStack
  <2>1. PICK n \in 0 .. Sta!N : bp = Sta!FrameAt(n + 1) BY DEF Sta!TraceInv
  <2>2. Sta!N \in Nat BY FrameFields DEF Sta!TraceInv, Sta!Stacked
  <2>3. n + 1 \in 1 .. (Sta!N + 1) BY <2>2
  <2> QED BY <2>1, <2>3, FrameFound
<1> QED BY <1>1, <1>2, <1>3 DEF Sta!TraceIsCallChain

\* The trace of a failing test names its callers, innermost first, up to main,
\* with the address of each call, and the walk reads no address that is not
\* mapped: for every depth of calls, every distance between frames that the
\* walk accepts, every recognised call instruction and every outermost frame
\* (get_stacktrace, describe_stacktrace, calling_address).
THEOREM TraceIsTheCallChain == ASSUME Sta!Recognised PROVE Sta!Spec => []Sta!TraceIsCallChain
<1>1. Sta!Init => Sta!TraceInv BY TraceStarts
<1>2. Sta!TraceInv /\ [Sta!Next]_Sta!vars => Sta!TraceInv' BY TraceStep
<1>3. Sta!TraceInv => Sta!TraceIsCallChain BY TraceShows
<1> QED BY <1>1, <1>2, <1>3, PTL DEF Sta!Spec

\* The elements of the second of two joined sequences.
LEMMA Joined ==
  ASSUME NEW S, NEW s \in Seq(S), NEW t \in Seq(S)
  PROVE  /\ Len(s) \in Nat /\ Len(t) \in Nat /\ Len(s \o t) = Len(s) + Len(t)
         /\ \A i \in 1 .. Len(t) : (s \o t)[Len(s) + i] = t[i] /\ t[i] \in S
OBVIOUS

\* The most common call instruction: E8 and a 32-bit displacement.
RelativeCalls == {c \in Seq(Sta!Byte) : Len(c) = 5 /\ c[1] = 232}

\* That instruction is recognised whatever bytes precede it and whatever its
\* displacement, so the hypothesis Recognised holds of it (calling_address
\* tries its form first).
LEMMA RelativeCall ==
  ASSUME NEW b \in Seq(Sta!Byte), NEW c \in RelativeCalls
  PROVE  Sta!call_instruction_length(b \o c) = Len(c)
<1> DEFINE form == Sta!insn_forms[1]
<1>1. 1 \in DOMAIN Sta!insn_forms /\ DOMAIN Sta!insn_forms = 1 .. 17 BY SMTT(30) DEF Sta!insn_forms
<1>2. form = <<{232}, Sta!Byte, Sta!Byte, Sta!Byte, Sta!Byte>>
  BY DEF Sta!insn_forms, Sta!EXACT, Sta!ANY
<1> HIDE DEF form
<1>3. /\ Len(b) \in Nat /\ Len(c) = 5 /\ Len(b \o c) = Len(b) + Len(c)
      /\ \A i \in 1 .. Len(c) : (b \o c)[Len(b) + i] = c[i] /\ c[i] \in Sta!Byte
  <2>1. c \in Seq(Sta!Byte) /\ Len(c) = 5 BY DEF RelativeCalls
  <2> QED BY <2>1, Joined
<1>4. Len(form) = 5 /\ DOMAIN form = 1 .. 5 BY <1>2
<1>5. \A i \in 1 .. 5 : (b \o c)[Len(b) + i] = c[i] /\ c[i] \in Sta!Byte BY <1>3
<1>6. \A i \in 1 .. 5 : Len(b \o c) - Len(form) + i = Len(b) + i BY <1>3, <1>4
<1>7. \A i \in 1 .. 5 : c[i] \in form[i]
  <2>1. form[1] = {232} /\ form[2] = Sta!Byte /\ form[3] = Sta!Byte /\ form[4] = Sta!Byte /\ form[5] = Sta!Byte
    BY <1>2
  <2>2. \A i \in 1 .. 5 : i = 1 \/ i = 2 \/ i = 3 \/ i = 4 \/ i = 5 OBVIOUS
  <2>3. c[1] = 232 BY DEF RelativeCalls
  <2> QED BY <1>5, <2>1, <2>2, <2>3
<1>8. Sta!matches(b \o c, form) BY <1>3, <1>4, <1>5, <1>6, <1>7 DEF Sta!matches
<1> DEFINE hits == {i \in DOMAIN Sta!insn_forms : Sta!matches(b \o c, Sta!insn_forms[i])}
<1>9. 1 \in hits /\ hits \subseteq 1 .. 17 BY <1>1, <1>8 DEF form
<1>10. Sta!call_instruction_length(b \o c) = Len(Sta!insn_forms[Sta!Min(hits)])
  BY <1>9 DEF Sta!call_instruction_length
<1> HIDE DEF hits
<1>11. Sta!Min(hits) = 1
  <2> DEFINE q == CHOOSE x \in hits : \A y \in hits : x <= y
  <2>1. \A y \in hits : 1 <= y BY <1>9
  <2>2. q \in hits /\ \A y \in hits : q <= y BY <1>9, <2>1, Zenon
  <2> HIDE DEF q
  <2>3. q = 1 BY <1>9, <2>2
  <2> QED BY <2>3 DEF q, Sta!Min
<1> QED BY <1>3, <1>4, <1>10, <1>11 DEF form
=============================================================================
