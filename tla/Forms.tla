-------------------------------- MODULE Forms --------------------------------
(***************************************************************************)
(* The byte reader (np/spiegel/dwarf/reader.hxx) and the two ways the      *)
(* walker goes over the attributes of an entry: read_attributes() decodes  *)
(* them, skip_attributes() passes over an entry that is filtered out.      *)
(*                                                                         *)
(* Widths are scaled: a byte of a LEB128 number carries GroupBits bits and *)
(* a continuation bit (7 and 1 in the code), the result has Width bits (32 *)
(* in the code) and the fixed-size forms take one or two bytes instead of  *)
(* one to eight.  As in the code Width is not a multiple of GroupBits.     *)
(***************************************************************************)
EXTENDS Integers, Sequences, SeqOps

CONSTANTS
    GroupBits, Width,
    Bytes,          \* the byte values the buffers are made of
    MaxBytes,       \* bound: bytes in a buffer
    MaxForms,       \* bound: attributes of an abbreviation
    StrSize         \* size of the string section, all of it terminated

VARIABLES
    buf,        \* the bytes between base_ and end_
    forms,      \* the forms of the attributes of the entry's abbreviation
    number,     \* the number the buffer encodes, where that is what it holds
    reading,    \* read_attributes(): its reader and how many attributes it has done
    skipping    \* skip_attributes(): the same

vars == <<buf, forms, number, reading, skipping>>

-----------------------------------------------------------------------------
(* The reader.  A reader is its offset p; a result has the offset after    *)
(* the call, whether the call succeeded (a failing call leaves p alone),   *)
(* and the value.                                                          *)

Fails(p) == [p |-> p, ok |-> FALSE, v |-> 0]
Gives(p, v) == [p |-> p, ok |-> TRUE, v |-> v]

skip(p, n) == IF p + n > Len(buf) THEN Fails(p) ELSE Gives(p + n, 0)

\* read_u8 ... read_u64: little-endian, n bytes.
read_fixed(p, n) ==
    IF p + n > Len(buf) THEN Fails(p)
    ELSE Gives(p + n, IF n = 1 THEN buf[p + 1] ELSE buf[p + 1] + buf[p + 2] * 2^(GroupBits + 1))

Continues(b) == b >= 2^GroupBits
Group(b) == b % 2^GroupBits
SignBit(b) == Group(b) >= 2^(GroupBits - 1)

\* The last byte of the LEB128 number that starts after p, or 0: it runs past the end.
LebEnd(p) ==
    LET ends == {q \in (p + 1)..Len(buf) : ~Continues(buf[q])}
    IN  IF ends = {} THEN 0 ELSE CHOOSE q \in ends : \A x \in ends : q <= x

\* vv: the groups, each shifted by GroupBits more, in an unsigned int of Width bits.
groups(p, q) ==
    Total([i \in 1..(q - p) |-> Group(buf[p + i]) * 2^(GroupBits * (i - 1))]) % 2^Width

skip_leb128(p) == IF LebEnd(p) = 0 THEN Fails(p) ELSE Gives(LebEnd(p), 0)

read_uleb128(p) ==
    IF LebEnd(p) = 0 THEN Fails(p) ELSE Gives(LebEnd(p), groups(p, LebEnd(p)))

ToSigned(v) == IF v >= 2^(Width - 1) THEN v - 2^Width ELSE v

\* vv | (~0U << shift).  Shifting by Width or more is undefined: the build's
\* shift instruction takes the count modulo Width, a compiler may also give 0.
SignExtensions(vv, shift) ==
    LET ones(s) == (vv % 2^s) + 2^Width - 2^s
    IN  IF shift < Width THEN {ones(shift)} ELSE {ones(shift % Width), vv}

\* The values read_sleb128() may give.
sleb128_values(p) ==
    LET vv == groups(p, LebEnd(p))
        shift == GroupBits * (LebEnd(p) - p)
    IN  {ToSigned(v) : v \in IF SignBit(buf[LebEnd(p)]) THEN SignExtensions(vv, shift) ELSE {vv}}

\* memchr(): the first zero byte after p.
StringEnd(p) ==
    LET ends == {q \in (p + 1)..Len(buf) : buf[q] = 0}
    IN  IF ends = {} THEN 0 ELSE CHOOSE q \in ends : \A x \in ends : q <= x
read_string(p) == IF StringEnd(p) = 0 THEN Fails(p) ELSE Gives(StringEnd(p), 0)
skip_string_Short(p) == IF StringEnd(p) = 0 THEN Fails(p) ELSE Gives(StringEnd(p) - 1, 0)
skip_string(p) == IF StringEnd(p) = 0 THEN Fails(p) ELSE Gives(StringEnd(p), 0)

\* e >= end_: a block may not reach the end of the buffer.
read_bytes(p, n) == IF p + n >= Len(buf) THEN Fails(p) ELSE Gives(p + n, 0)

\* section_t::offset_as_string()
offset_as_string(off) == off < StrSize

-----------------------------------------------------------------------------
(* The forms, and one step of each of the walker's two loops.  A block is  *)
(* a length and that many bytes; both loops leave the reader behind the    *)
(* length when the bytes are missing.                                      *)

Forms == {"data1", "data2", "udata", "sdata", "string", "strp", "block1", "block",
          "sec_offset", "flag_present"}

Block(len, body) == IF len.ok THEN IF body.ok THEN body ELSE Fails(len.p) ELSE len

read_attribute(f, p) ==
    CASE f = "data1" -> read_fixed(p, 1)
      [] f = "data2" -> read_fixed(p, 2)
      [] f = "udata" -> read_uleb128(p)
      [] f = "sdata" -> skip_leb128(p)
      [] f = "string" -> read_string(p)
      [] f = "strp" -> LET off == read_fixed(p, 1)
                       IN  IF off.ok /\ ~offset_as_string(off.v) THEN Fails(off.p) ELSE off
      [] f = "block1" -> LET len == read_fixed(p, 1) IN Block(len, read_bytes(len.p, len.v))
      [] f = "block" -> LET len == read_uleb128(p) IN Block(len, read_bytes(len.p, len.v))
      [] f = "sec_offset" -> read_fixed(p, 2)
      [] f = "flag_present" -> Gives(p, 1)

skip_attribute(f, p) ==
    CASE f = "data1" -> skip(p, 1)
      [] f = "data2" -> skip(p, 2)
      [] f \in {"udata", "sdata"} -> skip_leb128(p)
      [] f = "string" -> skip_string(p)
      [] f = "strp" -> skip(p, 1)
      [] f = "block1" -> LET len == read_fixed(p, 1) IN Block(len, skip(len.p, len.v))
      [] f = "block" -> LET len == read_uleb128(p) IN Block(len, skip(len.p, len.v))
      [] f = "sec_offset" -> Gives(skip(p, 2).p, 0)
      [] f = "flag_present" -> Gives(p, 0)

\* The shortest encoding of a number, as a compiler writes it.
Encodings(n) ==
    {s \in UNION {[1..k -> 0..(2^(GroupBits + 1) - 1)] : k \in 1..MaxBytes} :
        /\ \A i \in 1..(Len(s) - 1) : Continues(s[i])
        /\ ~Continues(s[Len(s)])
        /\ LET bits == GroupBits * Len(s)
               value[i \in 1..(Len(s) + 1)] ==
                   IF i > Len(s) THEN 0 ELSE Group(s[i]) + 2^GroupBits * value[i + 1]
           IN  n = IF SignBit(s[Len(s)]) THEN value[1] - 2^bits ELSE value[1]}
Shortest(S) == CHOOSE s \in S : \A t \in S : Len(s) <= Len(t)

Numbers == (-(2^(Width - 1)))..(2^(Width - 1) - 1)
NoNumber == 2^Width

InitAttributes ==
    /\ buf \in UNION {[1..n -> Bytes] : n \in 0..MaxBytes}
    /\ forms \in UNION {[1..n -> Forms] : n \in 1..MaxForms}
    /\ number = NoNumber

InitNumber ==
    /\ number \in Numbers
    /\ buf = Shortest(Encodings(number))
    /\ forms = <<"sdata">>

InitReaders ==
    /\ reading = [p |-> 0, ok |-> TRUE, done |-> 0, v |-> NoNumber]
    /\ skipping = [p |-> 0, ok |-> TRUE, done |-> 0]

read_step ==
    /\ reading.ok /\ reading.done < Len(forms)
    /\ LET f == forms[reading.done + 1]
           r == read_attribute(f, reading.p)
       IN  \E v \in IF r.ok /\ f = "sdata" THEN sleb128_values(reading.p) ELSE {r.v} :
             reading' = [p |-> r.p, ok |-> r.ok, v |-> v,
                         done |-> IF r.ok THEN reading.done + 1 ELSE reading.done]
    /\ UNCHANGED <<buf, forms, number, skipping>>

skip_step ==
    /\ skipping.ok /\ skipping.done < Len(forms)
    /\ LET r == skip_attribute(forms[skipping.done + 1], skipping.p)
       IN  skipping' = [p |-> r.p, ok |-> r.ok,
                        done |-> IF r.ok THEN skipping.done + 1 ELSE skipping.done]
    /\ UNCHANGED <<buf, forms, number, reading>>

Finished(x) == ~x.ok \/ x.done = Len(forms)
ended == Finished(reading) /\ Finished(skipping) /\ UNCHANGED vars

Next == read_step \/ skip_step \/ ended

AttributesSpec == (InitAttributes /\ InitReaders) /\ [][Next]_vars
NumbersSpec == (InitNumber /\ InitReaders) /\ [][Next]_vars

-----------------------------------------------------------------------------
(* Properties.                                                             *)

\* Neither loop ever leaves the buffer.
TypeOK ==
    /\ reading.p \in 0..Len(buf) /\ reading.done \in 0..Len(forms) /\ reading.ok \in BOOLEAN
    /\ skipping.p \in 0..Len(buf) /\ skipping.done \in 0..Len(forms) /\ skipping.ok \in BOOLEAN

\* An entry that can be read can be skipped, and the next entry is found at the
\* same offset either way: a filtered walk sees the entries an unfiltered one sees.
SkipMatchesRead ==
    /\ reading.ok /\ skipping.ok /\ reading.done = skipping.done => reading.p = skipping.p
    /\ ~skipping.ok => reading.done <= skipping.done

\* What the walker needs of the reader: the cursor is at the next attribute whether
\* the last one was read or skipped (read_attributes, skip_attributes).
AttributesRead == TypeOK /\ SkipMatchesRead

\* A signed number that takes no more bits than an int has is decoded to itself.
\* Each number is in its shortest encoding.
ShortSlebDecoded ==
    number # NoNumber /\ reading.done = 1 /\ GroupBits * Len(buf) < Width => reading.v = number

\* "sign extend the result, from the last encoded bit": whatever int a compiler
\* encodes with DW_FORM_sdata, read_sleb128() gives it back.
\* The code does not keep this, and no run checks it.
SlebDecoded ==
    number # NoNumber /\ reading.done = 1 => reading.v = number

-----------------------------------------------------------------------------
(* The invariant AttributesRead follows from.                              *)

\* Where skip_attributes() is after each of the first n attributes.
Path(at, n) ==
    /\ at \in [0..n -> 0..Len(buf)]
    /\ at[0] = 0
    /\ \A k \in 1..n : LET r == skip_attribute(forms[k], at[k - 1]) IN r.ok /\ r.p = at[k]

\* Both loops are on one path, as far as the further of them has come; if
\* skipping has failed, reading is not beyond that.
OnPath(at, n) ==
    /\ Path(at, n) /\ reading.done <= n /\ skipping.done <= n
    /\ reading.ok => reading.p = at[reading.done]
    /\ skipping.ok => skipping.p = at[skipping.done]
    /\ ~skipping.ok => /\ n = skipping.done /\ n < Len(forms)
                       /\ ~skip_attribute(forms[n + 1], at[n]).ok

AttributesInv ==
    /\ buf \in Seq(Bytes) /\ Len(buf) <= MaxBytes /\ forms \in Seq(Forms)
    /\ TypeOK
    /\ \E n \in 0..Len(forms) : \E at \in [0..n -> 0..Len(buf)] : OnPath(at, n)

\* The widths are sizes.  (The provers know nothing of powers, TLC does.)
Widths ==
    /\ GroupBits \in Nat /\ Width \in Nat /\ MaxBytes \in Nat /\ Bytes \subseteq Nat
    /\ 2^Width \in Nat \ {0} /\ 2^GroupBits \in Nat \ {0}
    /\ \A n \in 0..MaxBytes : 2^(GroupBits * n) \in Nat
=============================================================================
