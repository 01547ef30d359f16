---------------------------- MODULE SayMessage_proofs ----------------------------
(***************************************************************************)
(* Theorems about SayMessage, for every number that a player may say and   *)
(* every set of messages that its behaviours add:                          *)
(*                                                                         *)
(*   FieldsSurvive        a builder's field and its parser's keep a number *)
(*   MessagesUnderstood   builder and parser of a type agree on where its  *)
(*                        message ends and on all that it says             *)
(*   SayTypeOK            Spec => []TypeOK                                 *)
(*   NoMessageIsCrowdedOut   Spec => []NothingIsCrowdedOut                 *)
(*   WhatIsHeardWasSaid   Spec => []HeardIsSaid                            *)
(*                                                                         *)
(* The last three rest on the invariant SayInv: the lengths of the         *)
(* messages add up to no more than the say command has room for, and the   *)
(* string is, message by message, what has not been heard of it yet.  The  *)
(* recursions of LengthOf, FieldsOf, ToStr, Read, SayLength, Sent and      *)
(* MakeSayCommand are instances of Recursion in NatTheorems.               *)
(***************************************************************************)
EXTENDS SayMessage, AudioCodec_proofs, SequenceTheorems

-----------------------------------------------------------------------------
(* The recursions over the chunks of a message, which has two at most. *)

\* Rows of one chunk and of two.
One(a) == <<a>>
Two(a, b) == <<a, b>>

\* A row of one chunk or none: its characters and the header,
LEMMA LengthOfRow ==
    ASSUME NEW chunks, Len(chunks) \in 0..2, \A k \in 1..Len(chunks) : chunks[k].len \in Nat
    PROVE  /\ Len(chunks) = 0 => LengthOf(chunks) = 1
           /\ Len(chunks) = 1 => LengthOf(chunks) = 1 + chunks[1].len
           /\ Len(chunks) = 2 => LengthOf(chunks) = 1 + chunks[1].len + chunks[2].len
<1> DEFINE len[k \in 0..Len(chunks)] == IF k = 0 THEN 1 ELSE len[k - 1] + chunks[k].len
           n == Len(chunks)
           f == [k \in 0..Len(chunks) |-> IF k = 0 THEN 1 ELSE IF k = 1 THEN 1 + chunks[1].len
                                          ELSE 1 + chunks[1].len + chunks[2].len]
<1>1. LengthOf(chunks) = len[Len(chunks)]
  BY Zenon DEF LengthOf
<1>2. f = [k \in 0..Len(chunks) |-> IF k = 0 THEN 1 ELSE f[k - 1] + chunks[k].len]
  <2>1. /\ f = [k \in 0..Len(chunks) |-> f[k]] /\ f[0] = 1
        /\ n >= 1 => f[1] = 1 + chunks[1].len
        /\ n = 2 => f[2] = 1 + chunks[1].len + chunks[2].len
    OBVIOUS
  <2> HIDE DEF f, len
  <2>2. \A k \in 0..Len(chunks) : f[k] = IF k = 0 THEN 1 ELSE f[k - 1] + chunks[k].len
    <3> SUFFICES ASSUME NEW k \in 0..n PROVE f[k] = IF k = 0 THEN 1 ELSE f[k - 1] + chunks[k].len
      OBVIOUS
    <3>1. k = 0 \/ (k = 1 /\ n >= 1) \/ (k = 2 /\ n = 2)
      OBVIOUS
    <3>2. 1 - 1 = 0 /\ 2 - 1 = 1 /\ 1 # 0 /\ 2 # 0 /\ (n = 2 => n >= 1)
      OBVIOUS
    <3> QED BY <2>1, <3>1, <3>2, Zenon
  <2> QED BY <2>1, <2>2, Zenon
<1>3. len = [k \in 0..Len(chunks) |-> IF k = 0 THEN 1 ELSE len[k - 1] + chunks[k].len]
  BY <1>2, Zenon
<1> HIDE DEF len
<1>4. /\ len[0] = 1
      /\ n >= 1 => len[1] = 1 + chunks[1].len
      /\ n = 2 => len[2] = 1 + chunks[1].len + chunks[2].len
  BY <1>3
<1> QED BY <1>1, <1>4

\* and of two.
LEMMA LengthOfChunks ==
    ASSUME NEW a, NEW b, a.len \in Nat, b.len \in Nat
    PROVE  LengthOf(<<>>) = 1 /\ LengthOf(One(a)) = 1 + a.len /\ LengthOf(Two(a, b)) = 1 + a.len + b.len
<1> USE DEF One, Two
<1>1. LengthOf(<<>>) = 1
  <2>1. Len(<<>>) = 0 /\ \A k \in 1..0 : <<>>[k].len \in Nat
    OBVIOUS
  <2> QED BY <2>1, LengthOfRow
<1>2. LengthOf(One(a)) = 1 + a.len
  <2> DEFINE c == One(a)
  <2>1. Len(c) = 1 /\ c[1] = a
    OBVIOUS
  <2> HIDE DEF c
  <2> QED BY <2>1, LengthOfRow DEF c
<1>3. LengthOf(Two(a, b)) = 1 + a.len + b.len
  <2> DEFINE c == Two(a, b)
  <2>1. Len(c) = 2 /\ c[1] = a /\ c[2] = b
    OBVIOUS
  <2> HIDE DEF c
  <2>2. LengthOf(c) = 1 + c[1].len + c[2].len
    <3>1. \A k \in 1..2 : c[k].len \in Nat
      <4>1. \A k \in 1..2 : k = 1 \/ k = 2
        OBVIOUS
      <4> QED BY <2>1, <4>1, Zenon
    <3> QED BY <2>1, <3>1, LengthOfRow, SMTT(30)
  <2>3. LengthOf(c) = 1 + a.len + b.len
    BY <2>1, <2>2
  <2> QED BY <2>3 DEF c
<1> QED BY <1>1, <1>2, <1>3

\* The fields of one chunk or none,
LEMMA FieldsOfRow ==
    ASSUME NEW chunks, Len(chunks) \in 0..2
    PROVE  /\ Len(chunks) = 0 => FieldsOf(chunks) = <<>>
           /\ Len(chunks) = 1 => FieldsOf(chunks) = <<>> \o chunks[1].fields
           /\ Len(chunks) = 2 => FieldsOf(chunks) = (<<>> \o chunks[1].fields) \o chunks[2].fields
<1> DEFINE fields[k \in 0..Len(chunks)] == IF k = 0 THEN <<>> ELSE fields[k - 1] \o chunks[k].fields
           n == Len(chunks)
           f == [k \in 0..Len(chunks) |-> IF k = 0 THEN <<>> ELSE IF k = 1 THEN <<>> \o chunks[1].fields
                                          ELSE (<<>> \o chunks[1].fields) \o chunks[2].fields]
<1>1. FieldsOf(chunks) = fields[Len(chunks)]
  BY Zenon DEF FieldsOf
<1>2. f = [k \in 0..Len(chunks) |-> IF k = 0 THEN <<>> ELSE f[k - 1] \o chunks[k].fields]
  <2>1. /\ f = [k \in 0..Len(chunks) |-> f[k]] /\ f[0] = <<>>
        /\ n >= 1 => f[1] = <<>> \o chunks[1].fields
        /\ n = 2 => f[2] = (<<>> \o chunks[1].fields) \o chunks[2].fields
    OBVIOUS
  <2> HIDE DEF f, fields
  <2>2. \A k \in 0..Len(chunks) : f[k] = IF k = 0 THEN <<>> ELSE f[k - 1] \o chunks[k].fields
    <3> SUFFICES ASSUME NEW k \in 0..n PROVE f[k] = IF k = 0 THEN <<>> ELSE f[k - 1] \o chunks[k].fields
      OBVIOUS
    <3>1. k = 0 \/ (k = 1 /\ n >= 1) \/ (k = 2 /\ n = 2)
      BY SMTT(30)
    <3>2. 1 - 1 = 0 /\ 2 - 1 = 1 /\ 1 # 0 /\ 2 # 0 /\ (n = 2 => n >= 1)
      OBVIOUS
    <3> QED BY <2>1, <3>1, <3>2, Zenon
  <2> QED BY <2>1, <2>2, Zenon
<1>3. fields = [k \in 0..Len(chunks) |-> IF k = 0 THEN <<>> ELSE fields[k - 1] \o chunks[k].fields]
  BY <1>2, Zenon
<1> HIDE DEF fields
<1>4. /\ fields[0] = <<>>
      /\ n >= 1 => fields[1] = <<>> \o chunks[1].fields
      /\ n = 2 => fields[2] = (<<>> \o chunks[1].fields) \o chunks[2].fields
  BY <1>3
<1>5. n = 1 => n >= 1
  OBVIOUS
<1> QED BY <1>1, <1>4, <1>5, Zenon

\* and of two.
LEMMA FieldsOfChunks ==
    ASSUME NEW a, NEW b, IsSeq(a.fields), IsSeq(b.fields)
    PROVE  /\ FieldsOf(<<>>) = <<>>
           /\ FieldsOf(One(a)) = a.fields
           /\ FieldsOf(Two(a, b)) = a.fields \o b.fields
<1> USE DEF One, Two
<1>1. <<>> \o a.fields = a.fields
  BY DEF IsSeq
<1>2. FieldsOf(<<>>) = <<>>
  <2>1. Len(<<>>) = 0 /\ 0 \in 0..2
    OBVIOUS
  <2> QED BY <2>1, FieldsOfRow, Zenon
<1>3. FieldsOf(One(a)) = a.fields
  <2> DEFINE c == One(a)
  <2>1. Len(c) = 1 /\ c[1] = a /\ 1 \in 0..2
    OBVIOUS
  <2> HIDE DEF c
  <2>2. FieldsOf(c) = a.fields
    BY <1>1, <2>1, FieldsOfRow, Zenon
  <2> QED BY <2>2 DEF c
<1>4. FieldsOf(Two(a, b)) = a.fields \o b.fields
  <2> DEFINE c == Two(a, b)
  <2>1. Len(c) = 2 /\ c[1] = a /\ c[2] = b /\ 2 \in 0..2
    OBVIOUS
  <2> HIDE DEF c
  <2>2. FieldsOf(c) = a.fields \o b.fields
    BY <1>1, <2>1, FieldsOfRow, Zenon
  <2> QED BY <2>2 DEF c
<1> QED BY <1>2, <1>3, <1>4, Zenon

\* What lies before a chunk.
LEMMA FirstChunks ==
    ASSUME NEW a, NEW b
    PROVE  /\ SubSeq(One(a), 1, 1 - 1) = <<>> /\ SubSeq(Two(a, b), 1, 1 - 1) = <<>>
           /\ SubSeq(Two(a, b), 1, 2 - 1) = One(a)
           /\ One(a)[1] = a /\ Two(a, b)[1] = a /\ Two(a, b)[2] = b
<1> USE DEF One, Two
<1>1. SubSeq(One(a), 1, 1 - 1) = <<>> /\ SubSeq(Two(a, b), 1, 1 - 1) = <<>>
  BY SubSeqEmpty
<1>2. SubSeq(Two(a, b), 1, 2 - 1) = One(a)
  <2> DEFINE s == SubSeq(Two(a, b), 1, 1)
  <2>1. \A i \in 1..1 : Two(a, b)[i] \in {a}
    OBVIOUS
  <2>2. s \in Seq({a}) /\ Len(s) = 1
    BY <2>1, SubSeqProperties
  <2>3. One(a) \in Seq({a}) /\ Len(One(a)) = 1
    OBVIOUS
  <2> HIDE DEF s
  <2>4. \A i \in 1..1 : s[i] = One(a)[i]
    BY <2>2
  <2>5. s = One(a)
    BY <2>2, <2>3, <2>4, SeqEqual
  <2> QED BY <2>5 DEF s
<1> QED BY <1>1, <1>2

\* The parts of the values that belong to the chunks.
LEMMA PartsOfChunks ==
    ASSUME NEW a, NEW b, IsSeq(a.fields), IsSeq(b.fields), NEW values
    PROVE  /\ Part(One(a), 1, values) = SubSeq(values, 1, Len(a.fields))
           /\ Part(Two(a, b), 1, values) = SubSeq(values, 1, Len(a.fields))
           /\ Part(Two(a, b), 2, values)
                = SubSeq(values, Len(a.fields) + 1, Len(a.fields) + Len(b.fields))
<1>1. Len(FieldsOf(<<>>)) = 0 /\ Len(FieldsOf(One(a))) = Len(a.fields)
  <2>1. FieldsOf(<<>>) = <<>> /\ FieldsOf(One(a)) = a.fields
    BY FieldsOfChunks, Zenon
  <2>2. Len(<<>>) = 0
    OBVIOUS
  <2> QED BY <2>1, <2>2, Zenon
<1>2. Len(a.fields) \in Nat /\ Len(b.fields) \in Nat
  BY DEF IsSeq
<1>3. /\ Part(One(a), 1, values) = SubSeq(values, 0 + 1, 0 + Len(a.fields))
      /\ Part(Two(a, b), 1, values) = SubSeq(values, 0 + 1, 0 + Len(a.fields))
      /\ Part(Two(a, b), 2, values) = SubSeq(values, Len(a.fields) + 1, Len(a.fields) + Len(b.fields))
  <2>1. /\ SubSeq(One(a), 1, 1 - 1) = <<>> /\ SubSeq(Two(a, b), 1, 1 - 1) = <<>>
        /\ SubSeq(Two(a, b), 1, 2 - 1) = One(a)
        /\ One(a)[1] = a /\ Two(a, b)[1] = a /\ Two(a, b)[2] = b
    BY FirstChunks
  <2> DEFINE c == One(a)
             d == Two(a, b)
             e == <<>>
  <2> HIDE DEF c, d, e
  <2>2. /\ SubSeq(c, 1, 1 - 1) = e /\ SubSeq(d, 1, 1 - 1) = e /\ SubSeq(d, 1, 2 - 1) = c
        /\ c[1] = a /\ d[1] = a /\ d[2] = b /\ Len(FieldsOf(e)) = 0 /\ Len(FieldsOf(c)) = Len(a.fields)
    BY <1>1, <2>1, Zenon DEF c, d, e
  <2>3. /\ Part(c, 1, values) = SubSeq(values, 0 + 1, 0 + Len(a.fields))
        /\ Part(d, 1, values) = SubSeq(values, 0 + 1, 0 + Len(a.fields))
        /\ Part(d, 2, values) = SubSeq(values, Len(a.fields) + 1, Len(a.fields) + Len(b.fields))
    BY <2>2, Zenon DEF Part
  <2> QED BY <2>3, Zenon DEF c, d
<1>4. 0 + 1 = 1 /\ 0 + Len(a.fields) = Len(a.fields)
  BY <1>2
<1> QED BY <1>3, <1>4, Zenon

\* What is read of a field's value: a number of its scale, known to its precision.
ReadAs(f, v, number) ==
    /\ Faithful(f, v, number)
    /\ number.val \in Int /\ number.scale = f.num /\ number.step = f.den

\* What a decoder of the same scale reads of the index that an encoder writes.
LEMMA NumberReads ==
    ASSUME NEW f, NEW d, Packed(f, d), Reads(d, f), NEW v \in Int
    PROVE  /\ Number(d, Index(f, v)).val \in Int
           /\ Number(d, Index(f, v)).scale = f.num /\ Number(d, Index(f, v)).step = f.den
<1> DEFINE ix == Index(f, v)
<1>1. IsEncoder(f) /\ BelowRadix(f)
  BY Zenon DEF Packed
<1>2. f.radix \in Nat \ {0} /\ ix \in 0..(f.radix - 1)
  <2>1. f.radix \in Nat \ {0}
    BY <1>1, Zenon DEF BelowRadix
  <2> QED BY <1>1, <2>1, IndexBelow, Zenon
<1>3. ix \in Int /\ f.off \in Int /\ f.num \in Int /\ f.den \in Int
  BY <1>1, <1>2 DEF IsEncoder
<1>4. Number(d, ix) = [val |-> ix * f.den + f.off * f.num, scale |-> f.num, step |-> f.den]
  BY DEF Number, Reads
<1> HIDE DEF ix
<1>5. ix * f.den + f.off * f.num \in Int
  BY <1>3
<1>6. Number(d, ix).val \in Int /\ Number(d, ix).scale = f.num /\ Number(d, ix).step = f.den
  BY <1>4, <1>5
<1> QED BY <1>6 DEF ix

\* A builder's chunk and the parser's: what is said is read, but for the misread fields.
ChunkPair(c, d, misread) ==
    /\ c.len \in Nat \ {0} /\ d.len = c.len
    /\ \E room, p : Paired(c.fields, d.fields, room, misread) /\ Powers(p, c.len) /\ room <= p[c.len]

\* The characters of a pair of chunks: as many as announced, and read as they were said.
LEMMA PairSurvives ==
    ASSUME NEW c, NEW d, NEW misread, ChunkPair(c, d, misread),
           NEW values, \A k \in 1..Len(c.fields) : values[k] \in Int
    PROVE  /\ Encode(c.len, c.fields, values) \in Seq(Char)
           /\ Len(Encode(c.len, c.fields, values)) = c.len
           /\ IsSeq(Decode(d.fields, Encode(c.len, c.fields, values)))
           /\ Len(Decode(d.fields, Encode(c.len, c.fields, values))) = Len(c.fields)
           /\ \A k \in 1..Len(c.fields) :
                \/ k \in misread
                \/ ReadAs(c.fields[k], values[k], Decode(d.fields, Encode(c.len, c.fields, values))[k])
<1> DEFINE code == Encode(c.len, c.fields, values)
           read == Decode(d.fields, code)
           N(k) == Number(d.fields[k], Index(c.fields[k], values[k]))
<1>1. PICK room, p : Paired(c.fields, d.fields, room, misread) /\ Powers(p, c.len) /\ room <= p[c.len]
  BY Zenon DEF ChunkPair
<1>2. c.len \in Nat \ {0} /\ d.len = c.len
  BY DEF ChunkPair
<1>3. /\ code \in [1..c.len -> Char] /\ read = [k \in 1..Len(c.fields) |-> N(k)]
      /\ \A k \in 1..Len(c.fields) : k \in misread \/ ReadAs(c.fields[k], values[k], N(k))
  <2>1. c.len \in Nat \ {0} /\ Paired(c.fields, d.fields, room, misread) /\ Powers(p, c.len) /\ room <= p[c.len]
    BY <1>1, <1>2, Zenon
  <2>2. code \in [1..c.len -> Char]
    BY <2>1, ChunkSurvives, Zenon
  <2>3. read = [k \in 1..Len(c.fields) |-> N(k)]
    <3> HIDE DEF N
    <3>1. Decode(d.fields, Encode(c.len, c.fields, values))
            = [k \in 1..Len(c.fields) |-> Number(d.fields[k], Index(c.fields[k], values[k]))]
      BY <2>1, ChunkSurvives, SMTT(30)
    <3> QED BY <3>1, Zenon DEF N
  <2>4. \A k \in 1..Len(c.fields) : k \in misread \/ Faithful(c.fields[k], values[k], N(k))
    BY <2>1, ChunkSurvives, Zenon
  <2>5. ASSUME NEW k \in 1..Len(c.fields), k \notin misread PROVE ReadAs(c.fields[k], values[k], N(k))
    <3>1. Packed(c.fields[k], d.fields[k]) /\ Reads(d.fields[k], c.fields[k])
      BY <2>1, <2>5, Zenon DEF Paired
    <3>2. N(k).val \in Int /\ N(k).scale = c.fields[k].num /\ N(k).step = c.fields[k].den
      BY <3>1, NumberReads, Zenon
    <3> QED BY <2>4, <2>5, <3>2, Zenon DEF ReadAs
  <2> QED BY <2>2, <2>3, <2>5, Zenon
<1>4. IsSeq(c.fields)
  BY <1>1, Zenon DEF Paired
<1> HIDE DEF code, read, N
<1>5. code \in Seq(Char) /\ Len(code) = c.len
  BY <1>2, <1>3
<1>6. Len(c.fields) \in Nat
  BY <1>4 DEF IsSeq
<1>7. read \in Seq({N(k) : k \in 1..Len(c.fields)}) /\ Len(read) = Len(c.fields)
  BY <1>3, <1>6
<1>8. IsSeq(read)
  BY <1>7, Zenon DEF IsSeq
<1>9. \A k \in 1..Len(c.fields) : read[k] = N(k)
  BY <1>3
<1> QED BY <1>3, <1>5, <1>7, <1>8, <1>9, Zenon DEF code, read

\* The cases of an induction over at most two chunks.
LEMMA ZeroToTwo ==
    ASSUME NEW n \in 0..2
    PROVE  /\ n = 0 \/ n = 1 \/ n = 2
           /\ (n = 1 => n >= 1) /\ (n = 2 => n >= 1)
           /\ 1 # 0 /\ 2 # 0 /\ 2 # 1 /\ 1 - 1 = 0 /\ 2 - 1 = 1
           /\ 0 \in 0..n /\ (n >= 1 => 1 \in 0..n) /\ (n = 2 => 2 \in 0..n)
           /\ \A k \in 0..n : k = 0 \/ (k = 1 /\ n >= 1) \/ (k = 2 /\ n = 2)
OBVIOUS

\* toStr of a message that its builder does not refuse: p and q are its chunks' characters.
RowSaid(m, h, chunks, p, q) ==
    /\ Builder[m.type].chunks = chunks /\ Builder[m.type].header = h /\ Len(chunks) \in 0..2
    /\ p # <<>> /\ q # <<>> /\ One(h) # <<>> /\ One(h) \o p # <<>>
    /\ Len(chunks) >= 1 => p = Encode(chunks[1].len, chunks[1].fields, Part(chunks, 1, m.values))
    /\ Len(chunks) = 2 => q = Encode(chunks[2].len, chunks[2].fields, Part(chunks, 2, m.values))

\* What toStr puts together of a header and its chunks' characters,
LEMMA ToStrRow ==
    ASSUME NEW m, NEW h, NEW chunks, NEW p, NEW q, RowSaid(m, h, chunks, p, q)
    PROVE  ToStr(m) = IF \A i \in 1..Len(Fields[m.type]) :
                           m.values[i] \in Fields[m.type][i].from..Fields[m.type][i].to
                      THEN IF Len(chunks) = 0 THEN One(h)
                           ELSE IF Len(chunks) = 1 THEN One(h) \o p ELSE (One(h) \o p) \o q
                      ELSE <<>>
<1> USE DEF RowSaid, One
<1> DEFINE code(k) == Encode(Builder[m.type].chunks[k].len, Builder[m.type].chunks[k].fields, Part(Builder[m.type].chunks, k, m.values))
           s[k \in 0..Len(Builder[m.type].chunks)] ==
             IF k = 0 THEN <<Builder[m.type].header>>
             ELSE LET before == s[k - 1]
                      now == code(k)
                  IN  IF before = <<>> \/ now = <<>> THEN <<>> ELSE before \o now
           n == Len(chunks)
           f == [k \in 0..n |-> IF k = 0 THEN One(h) ELSE IF k = 1 THEN One(h) \o p ELSE (One(h) \o p) \o q]
<1>1. ToStr(m) = IF \A i \in 1..Len(Fields[m.type]) :
                           m.values[i] \in Fields[m.type][i].from..Fields[m.type][i].to
                 THEN s[Len(Builder[m.type].chunks)] ELSE <<>>
  BY Zenon DEF ToStr
<1>2. (n >= 1 => code(1) = p) /\ (n = 2 => code(2) = q)
  BY Zenon
<1>10. Len(Builder[m.type].chunks) = n
  BY Zenon
<1>3. f = [k \in 0..Len(Builder[m.type].chunks) |->
             IF k = 0 THEN <<Builder[m.type].header>>
             ELSE IF f[k - 1] = <<>> \/ code(k) = <<>> THEN <<>> ELSE f[k - 1] \o code(k)]
  <2>1. /\ f = [k \in 0..n |-> f[k]] /\ f[0] = One(h)
        /\ n >= 1 => f[1] = One(h) \o p
        /\ n = 2 => f[2] = (One(h) \o p) \o q
    OBVIOUS
  <2> HIDE DEF f, s, code
  <2>2. ASSUME NEW k \in 0..n
        PROVE  f[k] = IF k = 0 THEN One(h)
                      ELSE IF f[k - 1] = <<>> \/ code(k) = <<>> THEN <<>> ELSE f[k - 1] \o code(k)
    <3>1. k = 0 \/ (k = 1 /\ n >= 1) \/ (k = 2 /\ n = 2)
      BY ZeroToTwo, Zenon
    <3>2. 1 - 1 = 0 /\ 2 - 1 = 1 /\ 1 # 0 /\ 2 # 0 /\ (n = 2 => n >= 1)
      BY ZeroToTwo, Zenon
    <3> HIDE DEF n
    <3> QED BY <1>2, <2>1, <3>1, <3>2, Zenon
  <2> QED BY <1>10, <2>1, <2>2, Zenon
<1>4. s = [k \in 0..Len(Builder[m.type].chunks) |->
             IF k = 0 THEN <<Builder[m.type].header>>
             ELSE IF s[k - 1] = <<>> \/ code(k) = <<>> THEN <<>> ELSE s[k - 1] \o code(k)]
  BY <1>3, Zenon
<1> HIDE DEF s, code, f
<1>5. /\ s[0] = One(h)
      /\ n >= 1 => s[1] = One(h) \o p
      /\ n = 2 => s[2] = (One(h) \o p) \o q
  <2>1. \A k \in 0..n : s[k] = IF k = 0 THEN One(h)
                               ELSE IF s[k - 1] = <<>> \/ code(k) = <<>> THEN <<>> ELSE s[k - 1] \o code(k)
    <3> HIDE DEF n
    <3> QED BY <1>4, <1>10, Zenon
  <2>2. /\ 1 - 1 = 0 /\ 2 - 1 = 1 /\ 1 # 0 /\ 2 # 0 /\ (n = 2 => n >= 1)
        /\ 0 \in 0..n /\ (n >= 1 => 1 \in 0..n) /\ (n = 2 => 2 \in 0..n)
    BY ZeroToTwo, Zenon
  <2> HIDE DEF n
  <2>3. s[0] = One(h)
    BY <2>1, <2>2, Zenon
  <2>4. n >= 1 => s[1] = One(h) \o p
    BY <1>2, <2>1, <2>2, <2>3, Zenon
  <2> QED BY <1>2, <2>1, <2>2, <2>3, <2>4, Zenon
<1>6. n = 0 \/ n = 1 \/ n = 2
  BY ZeroToTwo, Zenon
<1>7. (n = 1 => n >= 1) /\ 1 # 0 /\ 2 # 0 /\ 2 # 1
  BY ZeroToTwo, Zenon
<1> HIDE DEF n
<1>8. s[n] = IF n = 0 THEN One(h) ELSE IF n = 1 THEN One(h) \o p ELSE (One(h) \o p) \o q
  BY <1>5, <1>6, <1>7, Zenon
<1> QED BY <1>1, <1>8, <1>10, Zenon DEF n

\* What a parser reads of its chunks, whose characters are p and q.
RowRead(t, chunks, from, p, q) ==
    /\ Parser[t] = chunks /\ Len(chunks) \in 0..2
    /\ Len(chunks) >= 1 => p = SubSeq(from, LengthOf(SubSeq(chunks, 1, 1 - 1)) + 1,
                                      LengthOf(SubSeq(chunks, 1, 1 - 1)) + chunks[1].len)
    /\ Len(chunks) = 2 => q = SubSeq(from, LengthOf(SubSeq(chunks, 1, 2 - 1)) + 1,
                                     LengthOf(SubSeq(chunks, 1, 2 - 1)) + chunks[2].len)

\* and what parse puts together of what it reads in each.
LEMMA ReadRow ==
    ASSUME NEW t, NEW chunks, NEW from, NEW p, NEW q, RowRead(t, chunks, from, p, q)
    PROVE  Read(t, from) = IF Len(chunks) = 0 THEN <<>>
                           ELSE IF Len(chunks) = 1 THEN <<>> \o Decode(chunks[1].fields, p)
                           ELSE (<<>> \o Decode(chunks[1].fields, p)) \o Decode(chunks[2].fields, q)
<1> USE DEF RowRead
<1> DEFINE code(k) == LET start == LengthOf(SubSeq(Parser[t], 1, k - 1))
                      IN  SubSeq(from, start + 1, start + Parser[t][k].len)
           s[k \in 0..Len(Parser[t])] ==
             IF k = 0 THEN <<>> ELSE s[k - 1] \o Decode(Parser[t][k].fields, code(k))
           n == Len(chunks)
           D1 == Decode(chunks[1].fields, p)
           D2 == Decode(chunks[2].fields, q)
           f == [k \in 0..n |-> IF k = 0 THEN <<>> ELSE IF k = 1 THEN <<>> \o D1 ELSE (<<>> \o D1) \o D2]
           Dec0(k) == Decode(Parser[t][k].fields, code(k))
<1>1. Read(t, from) = s[Len(Parser[t])]
  BY Zenon DEF Read
<1>2. (n >= 1 => Dec0(1) = D1) /\ (n = 2 => Dec0(2) = D2)
  BY Zenon
<1>10. Len(Parser[t]) = n
  BY Zenon
<1>3. f = [k \in 0..Len(Parser[t]) |-> IF k = 0 THEN <<>> ELSE f[k - 1] \o Dec0(k)]
  <2> HIDE DEF D1, D2
  <2>1. /\ f = [k \in 0..n |-> f[k]] /\ f[0] = <<>>
        /\ n >= 1 => f[1] = <<>> \o D1
        /\ n = 2 => f[2] = (<<>> \o D1) \o D2
    OBVIOUS
  <2> HIDE DEF f, s, Dec0
  <2>2. ASSUME NEW k \in 0..n PROVE f[k] = IF k = 0 THEN <<>> ELSE f[k - 1] \o Dec0(k)
    <3>1. k = 0 \/ (k = 1 /\ n >= 1) \/ (k = 2 /\ n = 2)
      BY ZeroToTwo, Zenon
    <3>2. 1 - 1 = 0 /\ 2 - 1 = 1 /\ 1 # 0 /\ 2 # 0 /\ (n = 2 => n >= 1)
      BY ZeroToTwo, Zenon
    <3> HIDE DEF n
    <3> QED BY <1>2, <2>1, <3>1, <3>2, Zenon
  <2> QED BY <1>10, <2>1, <2>2, Zenon
<1>4. s = [k \in 0..Len(Parser[t]) |-> IF k = 0 THEN <<>> ELSE s[k - 1] \o Dec0(k)]
  BY <1>3, Zenon
<1> HIDE DEF s, Dec0, f, D1, D2
<1>5. /\ s[0] = <<>>
      /\ n >= 1 => s[1] = <<>> \o D1
      /\ n = 2 => s[2] = (<<>> \o D1) \o D2
  <2>1. \A k \in 0..n : s[k] = IF k = 0 THEN <<>> ELSE s[k - 1] \o Dec0(k)
    <3> HIDE DEF n
    <3> QED BY <1>4, <1>10, Zenon
  <2>2. /\ 1 - 1 = 0 /\ 2 - 1 = 1 /\ 1 # 0 /\ 2 # 0 /\ (n = 2 => n >= 1)
        /\ 0 \in 0..n /\ (n >= 1 => 1 \in 0..n) /\ (n = 2 => 2 \in 0..n)
    BY ZeroToTwo, Zenon
  <2> HIDE DEF n
  <2>3. s[0] = <<>>
    BY <2>1, <2>2, Zenon
  <2>4. n >= 1 => s[1] = <<>> \o D1
    BY <1>2, <2>1, <2>2, <2>3, Zenon
  <2> QED BY <1>2, <2>1, <2>2, <2>3, <2>4, Zenon
<1>6. n = 0 \/ n = 1 \/ n = 2
  BY ZeroToTwo, Zenon
<1>7. (n = 1 => n >= 1) /\ 1 # 0 /\ 2 # 0 /\ 2 # 1
  BY ZeroToTwo, Zenon
<1> HIDE DEF n
<1>8. s[n] = IF n = 0 THEN <<>> ELSE IF n = 1 THEN <<>> \o D1 ELSE (<<>> \o D1) \o D2
  BY <1>5, <1>6, <1>7, Zenon
<1> QED BY <1>1, <1>8, <1>10, Zenon DEF n, D1, D2

-----------------------------------------------------------------------------
(* A header and its chunks, and what a parser cuts out of them.            *)

\* The first p and the next q of p + q integers.
LEMMA SplitValues ==
    ASSUME NEW p \in Nat, NEW q \in Nat, NEW w \in [1..(p + q) -> Int]
    PROVE  /\ \A k \in 1..p : SubSeq(w, 1, p)[k] \in Int /\ SubSeq(w, 1, p)[k] = w[k]
           /\ \A k \in 1..q : SubSeq(w, p + 1, p + q)[k] \in Int /\ SubSeq(w, p + 1, p + q)[k] = w[k + p]
<1>1. \A i \in 1..p : w[i] \in Int
  OBVIOUS
<1>2. \A i \in (p + 1)..(p + q) : w[i] \in Int
  OBVIOUS
<1>3. \A i \in 1..(p - 1 + 1) : SubSeq(w, 1, p)[i] = w[1 + i - 1]
  BY <1>1, SubSeqProperties
<1>4. \A i \in 1..((p + q) - (p + 1) + 1) : SubSeq(w, p + 1, p + q)[i] = w[p + 1 + i - 1]
  BY <1>2, SubSeqProperties
<1>5. \A k \in 1..p : SubSeq(w, 1, p)[k] = w[k] /\ w[k] \in Int
  BY <1>1, <1>3
<1>6. \A k \in 1..q : SubSeq(w, p + 1, p + q)[k] = w[k + p] /\ w[k + p] \in Int
  BY <1>4
<1> QED BY <1>5, <1>6, Zenon

\* A header and the characters of one chunk or two.
InRow(h, n, l, ca, cb, u, v) ==
    /\ h \in Char /\ n \in Nat \ {0} /\ l \in Nat \ {0}
    /\ ca \in Seq(Char) /\ Len(ca) = n /\ cb \in Seq(Char) /\ Len(cb) = l
    /\ u = One(h) \o ca /\ v = u \o cb

\* A header and its chunks' characters lie one after the other.
LEMMA Joined ==
    ASSUME NEW h, NEW n, NEW l, NEW ca, NEW cb, NEW u, NEW v, InRow(h, n, l, ca, cb, u, v)
    PROVE  /\ ca # <<>> /\ cb # <<>> /\ One(h) # <<>> /\ u # <<>>
           /\ u \in Seq(Char) /\ Len(u) = 1 + n /\ u[1] = h
           /\ \A i \in 1..n : u[1 + i] = ca[i]
           /\ v \in Seq(Char) /\ Len(v) = 1 + n + l /\ v[1] = h
           /\ \A i \in 1..n : v[1 + i] = ca[i]
           /\ \A i \in 1..l : v[1 + n + i] = cb[i]
<1> USE DEF InRow
<1> USE DEF One, Two
<1> DEFINE s == One(h)
<1>1. s \in Seq(Char) /\ Len(s) = 1 /\ s[1] = h /\ s # <<>>
  OBVIOUS
<1> HIDE DEF s
<1>2. /\ u \in Seq(Char) /\ Len(u) = 1 + n
      /\ \A i \in 1..(1 + n) : u[i] = IF i <= 1 THEN s[i] ELSE ca[i - 1]
  <2>1. /\ (s \o ca) \in Seq(Char) /\ Len(s \o ca) = Len(s) + Len(ca)
        /\ \A i \in 1..(Len(s) + Len(ca)) : (s \o ca)[i] = IF i <= Len(s) THEN s[i] ELSE ca[i - Len(s)]
    BY <1>1, ConcatProperties, Zenon
  <2>2. u = s \o ca
    BY Zenon DEF s
  <2> QED BY <1>1, <2>1, <2>2, Zenon
<1>3. /\ v \in Seq(Char) /\ Len(v) = 1 + n + l
      /\ \A i \in 1..(1 + n + l) : v[i] = IF i <= 1 + n THEN u[i] ELSE cb[i - (1 + n)]
  <2>0. u \in Seq(Char) /\ cb \in Seq(Char)
    BY <1>2, Zenon DEF InRow
  <2> HIDE DEF InRow, One, Two
  <2>1. /\ (u \o cb) \in Seq(Char) /\ Len(u \o cb) = Len(u) + Len(cb)
        /\ \A i \in 1..(Len(u) + Len(cb)) : (u \o cb)[i] = IF i <= Len(u) THEN u[i] ELSE cb[i - Len(u)]
    BY <2>0, ConcatProperties, Zenon
  <2>2. v = u \o cb
    BY Zenon DEF InRow
  <2>3. Len(cb) = l /\ Len(u) = 1 + n
    BY <1>2, Zenon DEF InRow
  <2> QED BY <2>1, <2>2, <2>3, Zenon
<1>4. u[1] = h /\ \A i \in 1..n : u[1 + i] = ca[i]
  BY <1>1, <1>2
<1>5. v[1] = h /\ (\A i \in 1..n : v[1 + i] = ca[i]) /\ \A i \in 1..l : v[1 + n + i] = cb[i]
  <2>1. 1 \in 1..(1 + n + l) /\ 1 <= 1 + n
    OBVIOUS
  <2>2. \A i \in 1..n : 1 + i \in 1..(1 + n + l) /\ 1 + i <= 1 + n
    OBVIOUS
  <2>3. \A i \in 1..l : 1 + n + i \in 1..(1 + n + l) /\ ~(1 + n + i <= 1 + n) /\ (1 + n + i) - (1 + n) = i
    OBVIOUS
  <2>4. \A i \in 1..l : v[1 + n + i] = cb[i]
    <3>1. \A i \in 1..l : v[1 + n + i] = cb[(1 + n + i) - (1 + n)]
      BY <1>3, <2>3, Zenon
    <3> QED BY <2>3, <3>1, Zenon
  <2> QED BY <1>3, <1>4, <2>1, <2>2, <2>4, ZenonT(40)
<1>6. ca # <<>> /\ cb # <<>> /\ u # <<>>
  BY <1>2
<1> QED BY <1>1, <1>2, <1>3, <1>4, <1>5, <1>6, Zenon DEF s

\* A chunk of characters in a string that begins as another.
Holds(from, s, n, start, total, c, first, last) ==
    /\ n \in Nat /\ start \in Nat /\ total \in Nat /\ start + n <= total
    /\ \A i \in 1..total : from[i] = s[i]
    /\ c \in Seq(Char) /\ Len(c) = n /\ \A i \in 1..n : s[start + i] = c[i]
    /\ first = start + 1 /\ last = start + n

\* What SubSeq cuts out of any string that begins with them is the chunk's characters.
LEMMA SameChunk ==
    ASSUME NEW from, NEW s, NEW n, NEW start, NEW total, NEW c, NEW first, NEW last, Holds(from, s, n, start, total, c, first, last)
    PROVE  SubSeq(from, first, last) = c
<1> USE DEF Holds
<1> DEFINE z == SubSeq(from, start + 1, start + n)
<1>1. \A i \in 1..n : c[i] \in Char
  OBVIOUS
<1>2. \A i \in (start + 1)..(start + n) : from[i] \in Char /\ from[i] = c[i - start]
  <2> SUFFICES ASSUME NEW i \in (start + 1)..(start + n) PROVE from[i] \in Char /\ from[i] = c[i - start]
    OBVIOUS
  <2> DEFINE j == i - start
  <2>1. j \in 1..n /\ start + j = i /\ i \in 1..total
    OBVIOUS
  <2> HIDE DEF j
  <2>2. from[i] = c[j] /\ c[j] \in Char
    BY <1>1, <2>1
  <2> QED BY <2>2 DEF j
<1>3. z \in Seq(Char) /\ Len(z) = n /\ \A i \in 1..((start + n) - (start + 1) + 1) : z[i] = from[start + 1 + i - 1]
  BY <1>2, SubSeqProperties
<1> HIDE DEF z
<1>4. \A i \in 1..n : z[i] = c[i]
  BY <1>2, <1>3
<1>5. z = c
  BY <1>3, <1>4, SeqEqual
<1> QED BY <1>5 DEF z

\* The builder refuses no value.
Fit(m) == \A i \in 1..Len(Fields[m.type]) : m.values[i] \in Fields[m.type][i].from..Fields[m.type][i].to

\* toStr's string of a message of two chunks, whose characters are u and v.
SaidTwo(m, h, a, b, p, q, u, s) ==
    /\ Builder[m.type].chunks = Two(a, b) /\ Builder[m.type].header = h
    /\ p # <<>> /\ q # <<>> /\ One(h) # <<>> /\ u = One(h) \o p /\ u # <<>> /\ s = u \o q
    /\ p = Encode(a.len, a.fields, Part(Two(a, b), 1, m.values))
    /\ q = Encode(b.len, b.fields, Part(Two(a, b), 2, m.values))

\* The string of a message of two chunks and of one,
LEMMA ToStrTwo ==
    ASSUME NEW m, NEW h, NEW a, NEW b, NEW p, NEW q, NEW u, NEW s, SaidTwo(m, h, a, b, p, q, u, s)
    PROVE  (Fit(m) => ToStr(m) = s) /\ (~Fit(m) => ToStr(m) = <<>>)
<1> USE DEF SaidTwo
<1> USE DEF One, Two
<1> DEFINE c == Two(a, b)
<1>1. Len(c) = 2 /\ c[1] = a /\ c[2] = b /\ 2 \in 0..2 /\ 2 # 0 /\ 2 # 1
  OBVIOUS
<1>2. /\ Builder[m.type].chunks = c /\ p = Encode(c[1].len, c[1].fields, Part(c, 1, m.values))
      /\ q = Encode(c[2].len, c[2].fields, Part(c, 2, m.values))
  BY <1>1, Zenon
<1> HIDE DEF c
<1>3. ToStr(m) = IF Fit(m)
                 THEN IF Len(c) = 0 THEN One(h)
                      ELSE IF Len(c) = 1 THEN One(h) \o p ELSE (One(h) \o p) \o q
                 ELSE <<>>
  <2>1. Len(c) \in 0..2
    BY <1>1
  <2>2. RowSaid(m, h, c, p, q)
    BY <1>2, <2>1, Zenon DEF RowSaid
  <2> QED BY <2>2, ToStrRow, Zenon DEF Fit
<1> QED BY <1>1, <1>3, Zenon

\* The same of one chunk.
SaidOne(m, h, a, p, s) ==
    /\ Builder[m.type].chunks = One(a) /\ Builder[m.type].header = h
    /\ p # <<>> /\ One(h) # <<>> /\ s = One(h) \o p /\ s # <<>>
    /\ p = Encode(a.len, a.fields, Part(One(a), 1, m.values))

LEMMA ToStrOne ==
    ASSUME NEW m, NEW h, NEW a, NEW p, NEW s, SaidOne(m, h, a, p, s)
    PROVE  (Fit(m) => ToStr(m) = s) /\ (~Fit(m) => ToStr(m) = <<>>)
<1> USE DEF SaidOne
<1> USE DEF One, Two
<1> DEFINE c == One(a)
<1>1. Len(c) = 1 /\ c[1] = a /\ 1 \in 0..2 /\ 1 # 0 /\ 1 # 2
  OBVIOUS
<1>2. /\ Builder[m.type].chunks = c /\ p = Encode(c[1].len, c[1].fields, Part(c, 1, m.values))
  BY <1>1, Zenon
<1> HIDE DEF c
<1>3. ToStr(m) = IF Fit(m)
                 THEN IF Len(c) = 0 THEN One(h)
                      ELSE IF Len(c) = 1 THEN One(h) \o p ELSE (One(h) \o p) \o p
                 ELSE <<>>
  <2>1. Len(c) \in 0..2 /\ Len(c) # 2
    BY <1>1
  <2>2. RowSaid(m, h, c, p, p)
    BY <1>2, <2>1, Zenon DEF RowSaid
  <2> QED BY <2>2, ToStrRow, Zenon DEF Fit
<1> QED BY <1>1, <1>3, Zenon

\* parse's numbers from a string in which two chunks lie behind the header.
GotTwo(t, x, y, from, p, q, D, E) ==
    /\ Parser[t] = Two(x, y) /\ x.len \in Nat /\ y.len \in Nat
    /\ p = SubSeq(from, 1 + 1, 1 + x.len) /\ q = SubSeq(from, (1 + x.len) + 1, (1 + x.len) + y.len)
    /\ D = Decode(x.fields, p) /\ E = Decode(y.fields, q)

\* and what is read of them.
LEMMA ReadTwo ==
    ASSUME NEW t, NEW x, NEW y, NEW from, NEW p, NEW q, NEW D, NEW E, GotTwo(t, x, y, from, p, q, D, E)
    PROVE  Read(t, from) = (<<>> \o D) \o E
<1> USE DEF GotTwo
<1> USE DEF One, Two
<1> DEFINE c == Two(x, y)
<1>1. Len(c) = 2 /\ c[1] = x /\ c[2] = y /\ 2 \in 0..2 /\ 2 # 0 /\ 2 # 1
  OBVIOUS
<1>2. LengthOf(SubSeq(c, 1, 1 - 1)) = 1 /\ LengthOf(SubSeq(c, 1, 2 - 1)) = 1 + x.len
  <2>1. SubSeq(Two(x, y), 1, 1 - 1) = <<>> /\ SubSeq(Two(x, y), 1, 2 - 1) = One(x)
    BY FirstChunks
  <2>2. LengthOf(<<>>) = 1 /\ LengthOf(One(x)) = 1 + x.len
    BY LengthOfChunks, Zenon
  <2> QED BY <2>1, <2>2, Zenon
<1>3. Parser[t] = c
  BY Zenon
<1> HIDE DEF c
<1>4. /\ p = SubSeq(from, LengthOf(SubSeq(c, 1, 1 - 1)) + 1, LengthOf(SubSeq(c, 1, 1 - 1)) + c[1].len)
      /\ q = SubSeq(from, LengthOf(SubSeq(c, 1, 2 - 1)) + 1, LengthOf(SubSeq(c, 1, 2 - 1)) + c[2].len)
  BY <1>1, <1>2, Zenon
<1>5. Len(c) \in 0..2
  BY <1>1
<1>6. Read(t, from) = IF Len(c) = 0 THEN <<>>
                      ELSE IF Len(c) = 1 THEN <<>> \o Decode(c[1].fields, p)
                      ELSE (<<>> \o Decode(c[1].fields, p)) \o Decode(c[2].fields, q)
  <2>1. RowRead(t, c, from, p, q)
    BY <1>3, <1>4, <1>5, Zenon DEF RowRead
  <2> QED BY <2>1, ReadRow
<1> QED BY <1>1, <1>6, Zenon

\* The same of one chunk.
GotOne(t, x, from, p, D) ==
    /\ Parser[t] = One(x) /\ x.len \in Nat /\ p = SubSeq(from, 1 + 1, 1 + x.len)
    /\ D = Decode(x.fields, p)

LEMMA ReadOne ==
    ASSUME NEW t, NEW x, NEW from, NEW p, NEW D, GotOne(t, x, from, p, D)
    PROVE  Read(t, from) = <<>> \o D
<1> USE DEF GotOne
<1> USE DEF One, Two
<1> DEFINE c == One(x)
<1>1. Len(c) = 1 /\ c[1] = x /\ 1 \in 0..2 /\ 1 # 0 /\ 1 # 2
  OBVIOUS
<1>2. LengthOf(SubSeq(c, 1, 1 - 1)) = 1
  <2>1. SubSeq(One(x), 1, 1 - 1) = <<>>
    BY FirstChunks
  <2>2. LengthOf(<<>>) = 1
    BY LengthOfChunks, Zenon
  <2> QED BY <2>1, <2>2, Zenon
<1>3. Parser[t] = c
  BY Zenon
<1> HIDE DEF c
<1>4. /\ p = SubSeq(from, LengthOf(SubSeq(c, 1, 1 - 1)) + 1, LengthOf(SubSeq(c, 1, 1 - 1)) + c[1].len)
  BY <1>1, <1>2, Zenon
<1>5. Len(c) \in 0..2 /\ Len(c) # 2
  BY <1>1
<1>6. Read(t, from) = IF Len(c) = 0 THEN <<>>
                      ELSE IF Len(c) = 1 THEN <<>> \o Decode(c[1].fields, p)
                      ELSE (<<>> \o Decode(c[1].fields, p)) \o Decode(c[2].fields, p)
  <2>1. RowRead(t, c, from, p, p)
    BY <1>3, <1>4, <1>5, Zenon DEF RowRead
  <2> QED BY <2>1, ReadRow
<1> QED BY <1>1, <1>6, Zenon

-----------------------------------------------------------------------------
(* What it means that a message is understood.                             *)

\* The numbers are those of the message, each known to the precision of its field.
AsSaid(m, numbers) ==
    /\ Len(numbers) = Len(Fields[m.type])
    /\ \A i \in 1..Len(Fields[m.type]) :
         \/ <<m.type, i>> \in MisscaledFields
         \/ ReadAs(Fields[m.type][i], m.values[i], numbers[i])

\* Builder and parser of the type agree: the builder refuses the values that it does not
\* say, or writes as many characters as it announces, the header first, and the parser
\* reads as many, of any string that begins with them, and the numbers.
SaidAndRead(m, t) ==
    /\ ~Sendable(m) => ToStr(m) = <<>>
    /\ Sendable(m) =>
         /\ ToStr(m) \in Seq(Char) /\ Len(ToStr(m)) = Length[t] /\ ToStr(m)[1] = Builder[t].header
         /\ \A from : (\A i \in 1..Length[t] : from[i] = ToStr(m)[i]) => AsSaid(m, Read(t, from))
Understood(t) ==
    /\ t \in DOMAIN Builder /\ t \in DOMAIN Parser
    /\ Length[t] \in Nat \ {0} /\ ReadLength[t] = Length[t] /\ Len(Fields[t]) \in Nat
    /\ \A m : m.type = t /\ m.values \in [1..Len(Fields[t]) -> Int] => SaidAndRead(m, t)

\* Sendable asks of the values what toStr asks of them.
LEMMA Looked ==
    ASSUME NEW t, Len(Fields[t]) \in Nat, NEW m, m.type = t, m.values \in [1..Len(Fields[t]) -> Int]
    PROVE  Sendable(m) <=> Fit(m)
<1>1. Len(m.values) = Len(Fields[t])
  OBVIOUS
<1> QED BY <1>1, Zenon DEF Sendable, Fit

\* A type of two chunks whose fields match is understood;
LEMMA TwoChunks ==
    ASSUME NEW t \in DOMAIN Builder, t \in DOMAIN Parser, NEW a, NEW b, NEW x, NEW y,
           Builder[t].chunks = Two(a, b), Parser[t] = Two(x, y), Builder[t].header \in Char,
           ChunkPair(a, x, {}), ChunkPair(b, y, {})
    PROVE  Understood(t) /\ Length[t] = 1 + a.len + b.len
<1> DEFINE p == Len(a.fields)
           q == Len(b.fields)
           h == Builder[t].header
<1>1. /\ a.len \in Nat \ {0} /\ x.len = a.len /\ b.len \in Nat \ {0} /\ y.len = b.len
      /\ IsSeq(a.fields) /\ IsSeq(b.fields)
  BY Zenon DEF ChunkPair, Paired
<1>2. p \in Nat /\ q \in Nat
  BY <1>1 DEF IsSeq
<1> HIDE DEF p, q
<1>3. Length[t] = 1 + a.len + b.len /\ ReadLength[t] = 1 + a.len + b.len
  <2>1. LengthOf(Two(a, b)) = 1 + a.len + b.len /\ LengthOf(Two(x, y)) = 1 + x.len + y.len
    BY <1>1, LengthOfChunks
  <2>2. Length[t] = LengthOf(Two(a, b)) /\ ReadLength[t] = LengthOf(Two(x, y))
    BY Zenon DEF Length, ReadLength
  <2> QED BY <1>1, <2>1, <2>2, Zenon
<1>4. Fields[t] = a.fields \o b.fields
  <2>1. Fields[t] = FieldsOf(Two(a, b))
    BY Zenon DEF Fields
  <2> QED BY <1>1, <2>1, FieldsOfChunks, Zenon
<1>5. /\ Len(Fields[t]) = p + q
      /\ \A k \in 1..p : Fields[t][k] = a.fields[k]
      /\ \A k \in 1..q : Fields[t][k + p] = b.fields[k]
  <2> DEFINE F == a.fields
             G == b.fields
  <2>1. IsSeq(F) /\ IsSeq(G) /\ Fields[t] = F \o G
    BY <1>1, <1>4, Zenon
  <2> HIDE DEF F, G
  <2>2. /\ Len(F \o G) = Len(F) + Len(G) /\ \A k \in 1..Len(F) : (F \o G)[k] = F[k]
        /\ \A k \in 1..Len(G) : (F \o G)[k + Len(F)] = G[k]
    BY <2>1, IsSeqConcat
  <2> QED BY <2>1, <2>2, Zenon DEF F, G, p, q
<1>6. ASSUME NEW m, m.type = t, m.values \in [1..Len(Fields[t]) -> Int]
      PROVE  SaidAndRead(m, t)
  <2> DEFINE va == SubSeq(m.values, 1, p)
             vb == SubSeq(m.values, p + 1, p + q)
             ca == Encode(a.len, a.fields, va)
             cb == Encode(b.len, b.fields, vb)
             ra == Decode(x.fields, ca)
             rb == Decode(y.fields, cb)
             s == (One(h) \o ca) \o cb
  <2>1. /\ \A k \in 1..p : va[k] \in Int /\ va[k] = m.values[k]
        /\ \A k \in 1..q : vb[k] \in Int /\ vb[k] = m.values[k + p]
    <3> DEFINE w == m.values
    <3>1. w \in [1..(p + q) -> Int]
      BY <1>5, <1>6, Zenon
    <3> HIDE DEF w
    <3>2. /\ \A k \in 1..p : SubSeq(w, 1, p)[k] \in Int /\ SubSeq(w, 1, p)[k] = w[k]
          /\ \A k \in 1..q : SubSeq(w, p + 1, p + q)[k] \in Int /\ SubSeq(w, p + 1, p + q)[k] = w[k + p]
      BY <1>2, <3>1, SplitValues
    <3> QED BY <3>2, Zenon DEF w
  <2> HIDE DEF va, vb
  <2>2. /\ ca \in Seq(Char) /\ Len(ca) = a.len /\ IsSeq(ra) /\ Len(ra) = p
        /\ \A k \in 1..p : ReadAs(a.fields[k], va[k], ra[k])
    <3>1. \A k \in 1..Len(a.fields) : va[k] \in Int
      BY <2>1, Zenon DEF p
    <3> QED BY <3>1, PairSurvives DEF p
  <2>3. /\ cb \in Seq(Char) /\ Len(cb) = b.len /\ IsSeq(rb) /\ Len(rb) = q
        /\ \A k \in 1..q : ReadAs(b.fields[k], vb[k], rb[k])
    <3>1. \A k \in 1..Len(b.fields) : vb[k] \in Int
      BY <2>1, Zenon DEF q
    <3> QED BY <3>1, PairSurvives DEF q
  <2>4. /\ Part(Two(a, b), 1, m.values) = va /\ Part(Two(a, b), 2, m.values) = vb
    BY <1>1, PartsOfChunks, Zenon DEF va, vb, p, q
  <2>5. /\ ca # <<>> /\ cb # <<>> /\ One(h) # <<>> /\ One(h) \o ca # <<>>
        /\ s \in Seq(Char) /\ Len(s) = 1 + a.len + b.len /\ s[1] = h
        /\ \A i \in 1..a.len : s[1 + i] = ca[i]
        /\ \A i \in 1..b.len : s[1 + a.len + i] = cb[i]
    <3> HIDE DEF ca, cb, h
    <3>0. a.len \in Nat \ {0} /\ b.len \in Nat \ {0} /\ ca \in Seq(Char) /\ Len(ca) = a.len
          /\ cb \in Seq(Char) /\ Len(cb) = b.len /\ h \in Char
      BY <1>1, <2>2, <2>3, Zenon DEF h
    <3> DEFINE n == a.len
               l == b.len
    <3> HIDE DEF n, l
    <3>1. /\ n \in Nat \ {0} /\ l \in Nat \ {0} /\ ca \in Seq(Char) /\ Len(ca) = n
          /\ cb \in Seq(Char) /\ Len(cb) = l /\ h \in Char
      BY <3>0, Zenon DEF n, l
    <3> DEFINE u == One(h) \o ca
               v == u \o cb
    <3>3. u = One(h) \o ca /\ v = u \o cb
      OBVIOUS
    <3> HIDE DEF u, v
    <3>2. /\ ca # <<>> /\ cb # <<>> /\ One(h) # <<>> /\ u # <<>>
          /\ v \in Seq(Char) /\ Len(v) = 1 + n + l /\ v[1] = h
          /\ \A i \in 1..n : v[1 + i] = ca[i]
          /\ \A i \in 1..l : v[1 + n + i] = cb[i]
      <4>1. InRow(h, n, l, ca, cb, u, v)
        BY <3>1, <3>3, Zenon DEF InRow
      <4> QED BY <4>1, Joined
    <3> QED BY <3>2, Zenon DEF n, l, u, v
  <2>6. (Fit(m) => ToStr(m) = s) /\ (~Fit(m) => ToStr(m) = <<>>)
    <3> HIDE DEF h, ca, cb
    <3>1. /\ Builder[m.type].chunks = Two(a, b) /\ Builder[m.type].header = h
          /\ ca = Encode(a.len, a.fields, Part(Two(a, b), 1, m.values))
          /\ cb = Encode(b.len, b.fields, Part(Two(a, b), 2, m.values))
      <4>1. Builder[m.type].chunks = Two(a, b) /\ Builder[m.type].header = h
        BY <1>6 DEF h
      <4>2. /\ ca = Encode(a.len, a.fields, va) /\ cb = Encode(b.len, b.fields, vb)
        BY Zenon DEF ca, cb
      <4> QED BY <2>4, <4>1, <4>2, Zenon
    <3> DEFINE u == One(h) \o ca
    <3>2. u = One(h) \o ca /\ s = u \o cb
      OBVIOUS
    <3> HIDE DEF u, s
    <3>3. u # <<>>
      BY <2>5, Zenon DEF u
    <3>4. SaidTwo(m, h, a, b, ca, cb, u, s)
      BY <2>5, <3>1, <3>2, <3>3, Zenon DEF SaidTwo
    <3> QED BY <3>4, ToStrTwo
  <2> HIDE DEF s, h, ca, cb, ra, rb
  <2>7. Sendable(m) <=> Fit(m)
    <3>1. Len(Fields[t]) \in Nat
      BY <1>2, <1>5
    <3> QED BY <1>6, <3>1, Looked
  <2>8. ASSUME NEW from, \A i \in 1..Length[t] : from[i] = s[i]
        PROVE  AsSaid(m, Read(t, from))
    <3> DEFINE n == a.len
               l == b.len
    <3>0. n \in Nat \ {0} /\ l \in Nat \ {0} /\ Len(ca) = n /\ Len(cb) = l
          /\ ca \in Seq(Char) /\ cb \in Seq(Char)
      BY <1>1, <2>2, <2>3, Zenon
    <3>1. /\ \A i \in 1..n : s[1 + i] = ca[i] /\ ca[i] \in Char
          /\ \A i \in 1..l : s[1 + n + i] = cb[i] /\ cb[i] \in Char
      <4> HIDE DEF ca, cb, s, n, l
      <4>1. \A i \in 1..n : ca[i] \in Char
        BY <3>0
      <4>2. \A i \in 1..l : cb[i] \in Char
        BY <3>0
      <4> QED BY <2>5, <4>1, <4>2, Zenon DEF n, l
    <3>20. \A i \in 1..(1 + n + l) : from[i] = s[i]
      BY <1>3, <2>8
    <3> HIDE DEF n, l, ca, cb, s
    <3>21. /\ 1 \in Nat /\ 1 + n \in Nat /\ n \in Nat /\ l \in Nat /\ 1 + n + l \in Nat
           /\ 1 + n <= 1 + n + l /\ (1 + n) + l <= 1 + n + l
      BY <3>0
    <3>2. SubSeq(from, 1 + 1, 1 + n) = ca
      <4>1. Holds(from, s, n, 1, 1 + n + l, ca, 1 + 1, 1 + n)
        BY <3>0, <3>1, <3>20, <3>21, Zenon DEF Holds
      <4> QED BY <4>1, SameChunk
    <3>3. SubSeq(from, (1 + n) + 1, (1 + n) + l) = cb
      <4>1. Holds(from, s, l, 1 + n, 1 + n + l, cb, (1 + n) + 1, (1 + n) + l)
        BY <3>0, <3>1, <3>20, <3>21, Zenon DEF Holds
      <4> QED BY <4>1, SameChunk
    <3>6. Read(t, from) = (<<>> \o ra) \o rb
      <4>1. /\ x.len \in Nat /\ y.len \in Nat /\ ca = SubSeq(from, 1 + 1, 1 + x.len)
            /\ cb = SubSeq(from, (1 + x.len) + 1, (1 + x.len) + y.len)
        <5>1. x.len = n /\ y.len = l /\ n \in Nat /\ l \in Nat
          BY <1>1 DEF n, l
        <5> QED BY <3>2, <3>3, <5>1, Zenon
      <4>2. ra = Decode(x.fields, ca) /\ rb = Decode(y.fields, cb)
        BY Zenon DEF ra, rb
      <4>3. GotTwo(t, x, y, from, ca, cb, ra, rb)
        BY <4>1, <4>2, Zenon DEF GotTwo
      <4> QED BY <4>3, ReadTwo
    <3> HIDE DEF ra, rb
    <3>7. <<>> \o ra = ra
      BY <2>2 DEF IsSeq
    <3>8. /\ Len(Read(t, from)) = p + q
          /\ \A k \in 1..p : Read(t, from)[k] = ra[k]
          /\ \A k \in 1..q : Read(t, from)[k + p] = rb[k]
      <4>1. Len(ra \o rb) = Len(ra) + Len(rb)
            /\ (\A k \in 1..Len(ra) : (ra \o rb)[k] = ra[k])
            /\ \A k \in 1..Len(rb) : (ra \o rb)[k + Len(ra)] = rb[k]
        <5>1. IsSeq(ra) /\ IsSeq(rb)
          BY <2>2, <2>3, Zenon
        <5> QED BY <5>1, IsSeqConcat
      <4> QED BY <2>2, <2>3, <3>6, <3>7, <4>1, Zenon
    <3>9. ASSUME NEW i \in 1..(p + q) PROVE ReadAs(Fields[t][i], m.values[i], Read(t, from)[i])
      <4>1. CASE i <= p
        <5>1. i \in 1..p
          BY <1>2, <4>1
        <5> QED BY <1>5, <2>1, <2>2, <3>8, <5>1, Zenon
      <4>2. CASE ~(i <= p)
        <5> DEFINE j == i - p
        <5>1. j \in 1..q /\ j + p = i
          BY <1>2, <4>2
        <5> HIDE DEF j
        <5>2. ReadAs(b.fields[j], vb[j], rb[j])
          BY <2>3, <5>1, Zenon
        <5>3. Fields[t][j + p] = b.fields[j] /\ vb[j] = m.values[j + p] /\ Read(t, from)[j + p] = rb[j]
          BY <1>5, <2>1, <3>8, <5>1, Zenon
        <5> QED BY <5>1, <5>2, <5>3, Zenon
      <4> QED BY <4>1, <4>2
    <3> QED BY <1>5, <1>6, <3>8, <3>9, Zenon DEF AsSaid
  <2> HIDE DEF s, h
  <2>9. ~Sendable(m) => ToStr(m) = <<>>
    BY <2>6, <2>7, Zenon
  <2>10. Sendable(m) => ToStr(m) = s
    BY <2>6, <2>7, Zenon
  <2>11. Sendable(m) =>
         /\ ToStr(m) \in Seq(Char) /\ Len(ToStr(m)) = Length[t] /\ ToStr(m)[1] = Builder[t].header
         /\ \A from : (\A i \in 1..Length[t] : from[i] = ToStr(m)[i]) => AsSaid(m, Read(t, from))
    BY <1>3, <2>5, <2>8, <2>10, Zenon DEF h
  <2> QED BY <2>9, <2>11, Zenon DEF SaidAndRead
<1>7. Length[t] \in Nat \ {0} /\ Len(Fields[t]) \in Nat
  BY <1>1, <1>2, <1>3, <1>5
<1> QED BY <1>3, <1>6, <1>7, Zenon DEF Understood

\* one of a single chunk, whose misread fields are those named in MisscaledFields;
LEMMA OneChunk ==
    ASSUME NEW t \in DOMAIN Builder, t \in DOMAIN Parser, NEW a, NEW x, NEW misread,
           Builder[t].chunks = One(a), Parser[t] = One(x), Builder[t].header \in Char,
           ChunkPair(a, x, misread), \A k \in misread : <<t, k>> \in MisscaledFields
    PROVE  Understood(t) /\ Length[t] = 1 + a.len
<1> DEFINE p == Len(a.fields)
           h == Builder[t].header
<1>1. /\ a.len \in Nat \ {0} /\ x.len = a.len /\ IsSeq(a.fields)
  BY Zenon DEF ChunkPair, Paired
<1>2. p \in Nat
  BY <1>1 DEF IsSeq
<1> HIDE DEF p
<1>3. Length[t] = 1 + a.len /\ ReadLength[t] = 1 + a.len
  <2>1. LengthOf(One(a)) = 1 + a.len /\ LengthOf(One(x)) = 1 + x.len
    BY <1>1, LengthOfChunks
  <2>2. Length[t] = LengthOf(One(a)) /\ ReadLength[t] = LengthOf(One(x))
    BY Zenon DEF Length, ReadLength
  <2> QED BY <1>1, <2>1, <2>2, Zenon
<1>4. Fields[t] = a.fields
  <2>1. Fields[t] = FieldsOf(One(a))
    BY Zenon DEF Fields
  <2> QED BY <1>1, <2>1, FieldsOfChunks, Zenon
<1>5. Len(Fields[t]) = p
  BY <1>4, Zenon DEF p
<1>6. ASSUME NEW m, m.type = t, m.values \in [1..Len(Fields[t]) -> Int]
      PROVE  SaidAndRead(m, t)
  <2> DEFINE va == SubSeq(m.values, 1, p)
             ca == Encode(a.len, a.fields, va)
             ra == Decode(x.fields, ca)
             s == One(h) \o ca
  <2>1. \A k \in 1..p : va[k] \in Int /\ va[k] = m.values[k]
    <3> DEFINE w == m.values
    <3>1. w \in [1..(p + 0) -> Int] /\ 0 \in Nat
      BY <1>2, <1>5, <1>6
    <3> HIDE DEF w
    <3>2. \A k \in 1..p : SubSeq(w, 1, p)[k] \in Int /\ SubSeq(w, 1, p)[k] = w[k]
      BY <1>2, <3>1, SplitValues
    <3> QED BY <3>2, Zenon DEF w
  <2> HIDE DEF va
  <2>2. /\ ca \in Seq(Char) /\ Len(ca) = a.len /\ IsSeq(ra) /\ Len(ra) = p
        /\ \A k \in 1..p : k \in misread \/ ReadAs(a.fields[k], va[k], ra[k])
    <3>1. \A k \in 1..Len(a.fields) : va[k] \in Int
      BY <2>1, Zenon DEF p
    <3> QED BY <3>1, PairSurvives DEF p
  <2>4. Part(One(a), 1, m.values) = va
    BY <1>1, PartsOfChunks, Zenon DEF va, p
  <2>5. /\ ca # <<>> /\ One(h) # <<>> /\ s # <<>>
        /\ s \in Seq(Char) /\ Len(s) = 1 + a.len /\ s[1] = h
        /\ \A i \in 1..a.len : s[1 + i] = ca[i]
    <3> HIDE DEF ca, h
    <3>0. a.len \in Nat \ {0} /\ ca \in Seq(Char) /\ Len(ca) = a.len /\ h \in Char
      BY <1>1, <2>2, Zenon DEF h
    <3> DEFINE n == a.len
               u == One(h) \o ca
               v == u \o ca
    <3> HIDE DEF n
    <3>1. n \in Nat \ {0} /\ ca \in Seq(Char) /\ Len(ca) = n /\ h \in Char
      BY <3>0, Zenon DEF n
    <3>3. u = One(h) \o ca /\ v = u \o ca
      OBVIOUS
    <3> HIDE DEF u, v
    <3>2. /\ ca # <<>> /\ One(h) # <<>> /\ u # <<>>
          /\ u \in Seq(Char) /\ Len(u) = 1 + n /\ u[1] = h
          /\ \A i \in 1..n : u[1 + i] = ca[i]
      <4>1. InRow(h, n, n, ca, ca, u, v)
        BY <3>1, <3>3, Zenon DEF InRow
      <4> QED BY <4>1, Joined
    <3> QED BY <3>2, Zenon DEF n, u
  <2>6. (Fit(m) => ToStr(m) = s) /\ (~Fit(m) => ToStr(m) = <<>>)
    <3> HIDE DEF h, ca
    <3>1. /\ Builder[m.type].chunks = One(a) /\ Builder[m.type].header = h
          /\ ca = Encode(a.len, a.fields, Part(One(a), 1, m.values))
      <4>1. Builder[m.type].chunks = One(a) /\ Builder[m.type].header = h
        BY <1>6 DEF h
      <4>2. ca = Encode(a.len, a.fields, va)
        BY Zenon DEF ca
      <4> QED BY <2>4, <4>1, <4>2, Zenon
    <3>2. s = One(h) \o ca
      OBVIOUS
    <3> HIDE DEF s
    <3>4. SaidOne(m, h, a, ca, s)
      BY <2>5, <3>1, <3>2, Zenon DEF SaidOne
    <3> QED BY <3>4, ToStrOne
  <2> HIDE DEF s, h, ca, ra
  <2>7. Sendable(m) <=> Fit(m)
    <3>1. Len(Fields[t]) \in Nat
      BY <1>2, <1>5
    <3> QED BY <1>6, <3>1, Looked
  <2>8. ASSUME NEW from, \A i \in 1..Length[t] : from[i] = s[i]
        PROVE  AsSaid(m, Read(t, from))
    <3> DEFINE n == a.len
    <3>0. n \in Nat \ {0} /\ Len(ca) = n /\ ca \in Seq(Char)
      BY <1>1, <2>2, Zenon
    <3>20. \A i \in 1..(1 + n) : from[i] = s[i]
      BY <1>3, <2>8
    <3> HIDE DEF n
    <3>1. \A i \in 1..n : s[1 + i] = ca[i]
      BY <2>5, Zenon DEF n
    <3>21. /\ 1 \in Nat /\ 1 + n \in Nat /\ n \in Nat /\ 1 + n <= 1 + n
      BY <3>0
    <3>2. SubSeq(from, 1 + 1, 1 + n) = ca
      <4>1. Holds(from, s, n, 1, 1 + n, ca, 1 + 1, 1 + n)
        BY <3>0, <3>1, <3>20, <3>21, Zenon DEF Holds
      <4> QED BY <4>1, SameChunk
    <3>6. Read(t, from) = <<>> \o ra
      <4>1. /\ x.len \in Nat /\ ca = SubSeq(from, 1 + 1, 1 + x.len)
        <5>1. x.len = n /\ n \in Nat
          BY <1>1 DEF n
        <5> QED BY <3>2, <5>1, Zenon
      <4>2. ra = Decode(x.fields, ca)
        BY Zenon DEF ra
      <4>3. GotOne(t, x, from, ca, ra)
        BY <4>1, <4>2, Zenon DEF GotOne
      <4> QED BY <4>3, ReadOne
    <3>7. <<>> \o ra = ra
      BY <2>2 DEF IsSeq
    <3>8. Read(t, from) = ra
      BY <3>6, <3>7, Zenon
    <3>9. ASSUME NEW i \in 1..p PROVE <<t, i>> \in MisscaledFields \/ ReadAs(Fields[t][i], m.values[i], Read(t, from)[i])
      <4>1. i \in misread \/ ReadAs(a.fields[i], va[i], ra[i])
        BY <2>2, Zenon
      <4>2. Fields[t][i] = a.fields[i] /\ va[i] = m.values[i] /\ Read(t, from)[i] = ra[i]
        BY <1>4, <2>1, <3>8, Zenon
      <4> QED BY <4>1, <4>2, Zenon
    <3> QED BY <1>5, <1>6, <2>2, <3>8, <3>9, Zenon DEF AsSaid
  <2>9. ~Sendable(m) => ToStr(m) = <<>>
    BY <2>6, <2>7, Zenon
  <2>10. Sendable(m) => ToStr(m) = s
    BY <2>6, <2>7, Zenon
  <2>11. Sendable(m) =>
         /\ ToStr(m) \in Seq(Char) /\ Len(ToStr(m)) = Length[t] /\ ToStr(m)[1] = Builder[t].header
         /\ \A from : (\A i \in 1..Length[t] : from[i] = ToStr(m)[i]) => AsSaid(m, Read(t, from))
    BY <1>3, <2>5, <2>8, <2>10, Zenon DEF h
  <2> QED BY <2>9, <2>11, Zenon DEF SaidAndRead
<1>7. Length[t] \in Nat \ {0} /\ Len(Fields[t]) \in Nat
  BY <1>1, <1>2, <1>3, <1>5
<1> QED BY <1>3, <1>6, <1>7, Zenon DEF Understood

\* and one of nothing but its header.
LEMMA NoChunk ==
    ASSUME NEW t \in DOMAIN Builder, t \in DOMAIN Parser,
           Builder[t].chunks = <<>>, Parser[t] = <<>>, Builder[t].header \in Char
    PROVE  Understood(t) /\ Length[t] = 1
<1> DEFINE h == Builder[t].header
<1>1. Length[t] = 1 /\ ReadLength[t] = 1 /\ Fields[t] = <<>>
  <2>1. LengthOf(<<>>) = 1
    <3> DEFINE c == [len |-> 0]
    <3>1. c.len \in Nat
      OBVIOUS
    <3> HIDE DEF c
    <3> QED BY <3>1, LengthOfChunks, Zenon
  <2>2. FieldsOf(<<>>) = <<>>
    <3> DEFINE c == [fields |-> <<>>]
    <3>1. IsSeq(c.fields)
      <4>1. <<>> \in Seq({})
        OBVIOUS
      <4> QED BY <4>1 DEF IsSeq
    <3> HIDE DEF c
    <3> QED BY <3>1, FieldsOfChunks, Zenon
  <2> QED BY <2>1, <2>2, Zenon DEF Length, ReadLength, Fields
<1>2. Len(<<>>) = 0 /\ Len(<<>>) \in 0..2 /\ Len(<<>>) # 1 /\ Len(<<>>) # 2 /\ ~(Len(<<>>) >= 1)
  OBVIOUS
<1>3. ASSUME NEW m, m.type = t, m.values \in [1..Len(Fields[t]) -> Int]
      PROVE  SaidAndRead(m, t)
  <2>1. One(h) \in Seq(Char) /\ Len(One(h)) = 1 /\ One(h)[1] = h /\ One(h) # <<>>
    BY DEF One
  <2>2. ToStr(m) = IF Fit(m) THEN One(h) ELSE <<>>
    <3> DEFINE e == <<>>
    <3>1. Len(e) = 0 /\ Len(e) \in 0..2 /\ Len(e) # 1 /\ Len(e) # 2 /\ ~(Len(e) >= 1)
      OBVIOUS
    <3>2. Builder[m.type].chunks = e /\ Builder[m.type].header = h /\ One(h) \o One(h) # <<>>
      <4>1. One(h) \o One(h) # <<>>
        BY DEF One
      <4> QED BY <1>3, <4>1
    <3> HIDE DEF e, h
    <3>3. RowSaid(m, h, e, One(h), One(h))
      BY <2>1, <3>1, <3>2, Zenon DEF RowSaid
    <3>4. ToStr(m) = IF Fit(m)
                     THEN IF Len(e) = 0 THEN One(h)
                          ELSE IF Len(e) = 1 THEN One(h) \o One(h) ELSE (One(h) \o One(h)) \o One(h)
                     ELSE <<>>
      BY <3>3, ToStrRow, Zenon DEF Fit
    <3> QED BY <3>1, <3>4, Zenon
  <2>3. ASSUME NEW from PROVE Read(t, from) = <<>>
    <3> DEFINE e == <<>>
    <3>1. Len(e) = 0 /\ Len(e) \in 0..2 /\ Len(e) # 1 /\ Len(e) # 2 /\ ~(Len(e) >= 1) /\ e = <<>> /\ Parser[t] = e
      OBVIOUS
    <3> HIDE DEF e
    <3>2. RowRead(t, e, from, One(h), One(h))
      BY <3>1, Zenon DEF RowRead
    <3>3. Read(t, from) = IF Len(e) = 0 THEN <<>>
                      ELSE IF Len(e) = 1 THEN <<>> \o Decode(e[1].fields, One(h))
                      ELSE (<<>> \o Decode(e[1].fields, One(h))) \o Decode(e[2].fields, One(h))
      BY <3>2, ReadRow
    <3> QED BY <3>1, <3>3, Zenon
  <2>4. ASSUME NEW from PROVE AsSaid(m, Read(t, from))
    <3>1. Len(Fields[m.type]) = 0 /\ \A i \in 1..Len(Fields[m.type]) : FALSE
      BY <1>1, <1>2, <1>3
    <3> QED BY <1>1, <1>3, <2>3, <3>1, Zenon DEF AsSaid
  <2>5. Sendable(m) <=> Fit(m)
    <3>1. Len(Fields[t]) \in Nat
      BY <1>1, <1>2
    <3> QED BY <1>3, <3>1, Looked
  <2> QED BY <1>1, <2>1, <2>2, <2>4, <2>5, Zenon DEF SaidAndRead
<1>7. Length[t] \in Nat \ {0} /\ Len(Fields[t]) \in Nat
  BY <1>1, <1>2
<1> QED BY <1>1, <1>3, <1>7, Zenon DEF Understood

-----------------------------------------------------------------------------
(* The fields.                                                             *)

\* The fields with the parser's part of each: those shared by several messages, ...
CodecPairs == {<<X9, DX9>>, <<X10, DX10>>, <<Y9, DY9>>, <<Speed, DSpeed>>, <<UnumPos[3], ToUnumPos[3]>>}
PlayerPairs ==
    {<<EncInt("number", 1, 22, 22), DecInt(1, 22)>>, <<EncInt("unum", 1, 11, 11), DecInt(1, 11)>>,
     <<Enc("player", 1, 22, 1, 1, 1, Unbounded, 22), DecInt(1, 22)>>,
     <<PlayerX(630, 167, 168), Dec(-52500, 1, 630, 168)>>,
     <<PlayerY(630, 108, 109), Dec(-34000, 1, 630, 109)>>,
     <<PlayerX(555, 190, 191), Dec(-52500, 1, 555, 191)>>,
     <<PlayerY(555, 123, 124), Dec(-34000, 1, 555, 124)>>,
     <<PlayerX(700, Unbounded, 151), Dec(-52500, 1, 700, 151)>>,
     <<PlayerY(700, Unbounded, 98), Dec(-34000, 1, 700, 98)>>,
     <<PlayerX(700, 150, 151), Dec(-52500, 1, 700, 151)>>,
     <<PlayerY(700, 99, 98), Dec(-34000, 1, 700, 98)>>,
     <<PlayerX(1000, 105, 106), Dec(-52500, 1, 1000, 106)>>,
     <<PlayerY(1000, 68, 69), Dec(-34000, 1, 1000, 69)>>,
     <<BodyDegrees, DBody>>, <<BodyTwoDegrees, DBodyTwo>>,
     <<Enc("body", -1800, 1790, -1800, 1, 20, 179, 180), DBodyTwo>>}
GoaliePairs == {<<GoalieFields[1], DGoalieFields[1]>>, <<GoalieFields[2], DGoalieFields[2]>>}
RatePairs ==
    {<<Percentage("rate", 0, 0, 1000), ToPercentage(0, 1000)>>,
     <<Within(10000, Unbounded, Percentage("line", 10000, 10000, 42000)), ToPercentage(10000, 42000)>>}
\* ... and those of one message only; BallGoalie's speed is left out, whose scales differ, and
\* so are DefenseLine's and Dribble's fields, which nothing says.
BallGoaliePairs ==
    {<<BallGoalieMessage.chunks[1].fields[i], BallGoalieMessageParser[1].fields[i]>> : i \in {1, 2, 5, 6, 7}}
SelfPairs ==
    {<<SelfMessage.chunks[1].fields[i], SelfMessageParser[1].fields[i]>> : i \in 1..4}
InterceptPairs ==
    {<<InterceptMessage.chunks[k].fields[1], InterceptMessageParser[k].fields[1]>> : k \in {1, 2}}
Pairs == CodecPairs \cup PlayerPairs \cup GoaliePairs \cup RatePairs
           \cup BallGoaliePairs \cup SelfPairs \cup InterceptPairs

\* The decoder gets the indices the encoder writes, and reads them with its scale.
Matching(f, d) == Packed(f, d) /\ Reads(d, f)

\* A look at the number before it is encoded changes nothing of the scale.
LEMMA WithinMatches ==
    ASSUME NEW f, NEW d, NEW from, NEW to, Matching(f, d),
           DOMAIN f = {"kind", "from", "to", "lo", "hi", "off", "num", "den", "top", "radix"}
    PROVE  Matching(Within(from, to, f), d)
<1> DEFINE g == Within(from, to, f)
<1>1. /\ g.lo = f.lo /\ g.hi = f.hi /\ g.off = f.off
      /\ g.num = f.num /\ g.den = f.den /\ g.top = f.top /\ g.radix = f.radix
  BY Zenon DEF Within
<1> HIDE DEF g
<1>2. Matching(g, d)
  BY <1>1, Zenon DEF Matching, Packed, BelowRadix, IsEncoder, Reads
<1> QED
  BY <1>2 DEF g

\* The fields of an encoder.
LEMMA EncDomain ==
    ASSUME NEW kind, NEW lo, NEW hi, NEW off, NEW num, NEW den, NEW top, NEW radix
    PROVE  DOMAIN Enc(kind, lo, hi, off, num, den, top, radix)
             = {"kind", "from", "to", "lo", "hi", "off", "num", "den", "top", "radix"}
BY Z3 DEF Enc

\* Whole numbers, and positions of players.
LEMMA IntMatches ==
    ASSUME NEW from \in Int, NEW to \in Int, from <= to, NEW kind, NEW radix \in 1..1000,
           to - from < radix
    PROVE  Matching(EncInt(kind, from, to, radix), DecInt(from, radix))
<1> DEFINE f == Enc(kind, from, to, from, 1, 1, Unbounded, radix)
<1>1. Matching(f, DecInt(from, radix))
  BY Z3 DEF Matching, Packed, BelowRadix, IsEncoder, Reads, Enc, Dec, DecInt, Unbounded
<1>2. DOMAIN f = {"kind", "from", "to", "lo", "hi", "off", "num", "den", "top", "radix"}
  BY EncDomain, ZenonT(40)
<1>3. EncInt(kind, from, to, radix) = Within(from, to, f)
  BY ZenonT(40) DEF EncInt
<1> HIDE DEF f
<1> QED
  BY <1>1, <1>2, <1>3, WithinMatches, ZenonT(40)

LEMMA PlayerMatches ==
    ASSUME NEW step \in Nat \ {0}, NEW top \in Nat, NEW radix \in Nat \ {0}
    PROVE  /\ 104990 <= (top + 1) * step /\ (top < radix \/ 2 * 104990 < (2 * radix - 1) * step)
                => Matching(PlayerX(step, top, radix), Dec(-52500, 1, step, radix))
           /\ 67990 <= (top + 1) * step /\ (top < radix \/ 2 * 67990 < (2 * radix - 1) * step)
                => Matching(PlayerY(step, top, radix), Dec(-34000, 1, step, radix))
BY Z3 DEF Matching, Packed, BelowRadix, PlayerX, PlayerY, Enc, Dec, IsEncoder, Reads

\* All of the pairs match.
LEMMA CodecPairsMatch == \A p \in CodecPairs : Matching(p[1], p[2])
<1>1. Matching(X9, DX9) /\ Matching(X10, DX10)
  BY Z3 DEF Matching, Packed, BelowRadix, X9, DX9, X10, DX10, Enc, Dec, Unbounded, IsEncoder, Reads
<1>2. Matching(Y9, DY9) /\ Matching(Speed, DSpeed)
  BY Z3 DEF Matching, Packed, BelowRadix, Y9, DY9, Speed, DSpeed, Enc, Dec, Unbounded, IsEncoder, Reads
<1>3. Matching(UnumPos[3], ToUnumPos[3])
  <2> DEFINE f == Enc("unum", 1, 11, 0, 1, 1, Unbounded, 16)
  <2>1. Matching(f, Dec(0, 1, 1, 16))
    BY Z3 DEF Matching, Packed, BelowRadix, Enc, Dec, Unbounded, IsEncoder, Reads
  <2>2. DOMAIN f = {"kind", "from", "to", "lo", "hi", "off", "num", "den", "top", "radix"}
    BY EncDomain, Zenon
  <2>3. UnumPos[3] = Within(1, 11, f) /\ ToUnumPos[3] = Dec(0, 1, 1, 16)
    BY Z3 DEF UnumPos, ToUnumPos, PosToBit19, Bit19ToPos
  <2> HIDE DEF f
  <2> QED
    BY <2>1, <2>2, <2>3, WithinMatches, Zenon
<1> QED
  BY <1>1, <1>2, <1>3, Z3 DEF CodecPairs

LEMMA PlayerPairsMatch == \A p \in PlayerPairs : Matching(p[1], p[2])
<1>1. /\ Matching(EncInt("number", 1, 22, 22), DecInt(1, 22))
      /\ Matching(EncInt("unum", 1, 11, 11), DecInt(1, 11))
  BY IntMatches, Z3
<1>2. /\ Matching(PlayerX(630, 167, 168), Dec(-52500, 1, 630, 168))
      /\ Matching(PlayerY(630, 108, 109), Dec(-34000, 1, 630, 109))
  BY PlayerMatches, Z3
<1>3. /\ Matching(PlayerX(555, 190, 191), Dec(-52500, 1, 555, 191))
      /\ Matching(PlayerY(555, 123, 124), Dec(-34000, 1, 555, 124))
  BY PlayerMatches, Z3
<1>4. /\ Matching(PlayerX(700, Unbounded, 151), Dec(-52500, 1, 700, 151))
      /\ Matching(PlayerY(700, Unbounded, 98), Dec(-34000, 1, 700, 98))
  BY PlayerMatches, Z3 DEF Unbounded
<1>5. /\ Matching(PlayerX(700, 150, 151), Dec(-52500, 1, 700, 151))
      /\ Matching(PlayerY(700, 99, 98), Dec(-34000, 1, 700, 98))
  BY PlayerMatches, Z3
<1>6. /\ Matching(PlayerX(1000, 105, 106), Dec(-52500, 1, 1000, 106))
      /\ Matching(PlayerY(1000, 68, 69), Dec(-34000, 1, 1000, 69))
  BY PlayerMatches, Z3
<1>7. /\ Matching(BodyDegrees, DBody) /\ Matching(BodyTwoDegrees, DBodyTwo)
      /\ Matching(Enc("body", -1800, 1790, -1800, 1, 20, 179, 180), DBodyTwo)
  BY Z3 DEF Matching, Packed, BelowRadix, BodyDegrees, DBody, BodyTwoDegrees, DBodyTwo, Enc, Dec, IsEncoder, Reads
<1>8. Matching(Enc("player", 1, 22, 1, 1, 1, Unbounded, 22), DecInt(1, 22))
  BY Z3 DEF Matching, Packed, BelowRadix, Enc, Dec, DecInt, Unbounded, IsEncoder, Reads
<1> QED
  BY <1>1, <1>2, <1>3, <1>4, <1>5, <1>6, <1>7, <1>8, Z3 DEF PlayerPairs

LEMMA GoaliePairsMatch == \A p \in GoaliePairs : Matching(p[1], p[2])
<1> DEFINE x == Enc("goalieX", 37000, 52900, 37000, 1, 100, 159, 160)
           y == Enc("goalieY", -19900, 19900, -20000, 1, 100, 399, 400)
<1>1. Matching(x, Dec(37000, 1, 100, 160)) /\ Matching(y, Dec(-20000, 1, 100, 400))
  BY Z3 DEF Matching, Packed, BelowRadix, Enc, Dec, Unbounded, IsEncoder, Reads
<1>2. /\ DOMAIN x = {"kind", "from", "to", "lo", "hi", "off", "num", "den", "top", "radix"}
      /\ DOMAIN y = {"kind", "from", "to", "lo", "hi", "off", "num", "den", "top", "radix"}
  BY Z3 DEF Enc
<1>3. /\ GoalieFields[1] = Within(37000, 52900, x)
      /\ GoalieFields[2] = Within(-19900, 19900, y)
  BY Z3 DEF GoalieFields
<1>4. /\ DGoalieFields[1] = Dec(37000, 1, 100, 160)
      /\ DGoalieFields[2] = Dec(-20000, 1, 100, 400)
  BY Z3 DEF DGoalieFields
<1> HIDE DEF x, y
<1>5. Matching(GoalieFields[1], DGoalieFields[1]) /\ Matching(GoalieFields[2], DGoalieFields[2])
  BY <1>1, <1>2, <1>3, <1>4, WithinMatches, Z3
<1> QED
  BY <1>5, Z3 DEF GoaliePairs

LEMMA RatePairsMatch == \A p \in RatePairs : Matching(p[1], p[2])
<1> DEFINE line == Percentage("line", 10000, 10000, 42000)
<1>1. Matching(Percentage("rate", 0, 0, 1000), ToPercentage(0, 1000))
  BY Z3 DEF Matching, Packed, BelowRadix, Percentage, ToPercentage, CHAR_SIZE, Enc, Dec, Unbounded, IsEncoder, Reads
<1>2. Matching(line, ToPercentage(10000, 42000))
  BY Z3 DEF Matching, Packed, BelowRadix, Percentage, ToPercentage, CHAR_SIZE, Enc, Dec, Unbounded, IsEncoder, Reads
<1>3. DOMAIN line = {"kind", "from", "to", "lo", "hi", "off", "num", "den", "top", "radix"}
  BY Z3 DEF Percentage, Enc
<1>4. Matching(Within(10000, Unbounded, line), ToPercentage(10000, 42000))
  <2> HIDE DEF line
  <2> QED BY <1>2, <1>3, WithinMatches, Z3
<1> QED
  BY <1>1, <1>4, Z3 DEF RatePairs

LEMMA BallGoaliePairsMatch == \A p \in BallGoaliePairs : Matching(p[1], p[2])
<1> DEFINE F(i) == BallGoalieMessage.chunks[1].fields[i]
           D(i) == BallGoalieMessageParser[1].fields[i]
           x == Enc("goalieX", 36500, 52500, 36500, 1, 100, 159, 160)
           y == Enc("goalieY", -20000, 20000, -20000, 1, 100, 399, 400)
<1>1. /\ F(1) = Enc("x", -52500, 52500, -52500, 1, 100, 1049, 1050)
      /\ F(2) = Enc("y", -34000, 34000, -34000, 1, 100, 679, 680)
      /\ F(5) = Within(36500, Unbounded, x)
      /\ F(6) = Within(-20000, 20000, y)
      /\ F(7) = BodyDegrees
  BY Z3 DEF BallGoalieMessage, Message, Chunk
<1>2. /\ D(1) = Dec(-52500, 1, 100, 1050) /\ D(2) = Dec(-34000, 1, 100, 680)
      /\ D(5) = Dec(36500, 1, 100, 160) /\ D(6) = Dec(-20000, 1, 100, 400) /\ D(7) = DBody
  BY Z3 DEF BallGoalieMessageParser, Chunk
<1>3. /\ Matching(Enc("x", -52500, 52500, -52500, 1, 100, 1049, 1050), Dec(-52500, 1, 100, 1050))
      /\ Matching(Enc("y", -34000, 34000, -34000, 1, 100, 679, 680), Dec(-34000, 1, 100, 680))
  BY Z3 DEF Matching, Packed, BelowRadix, Enc, Dec, Unbounded, IsEncoder, Reads
<1>4. Matching(x, Dec(36500, 1, 100, 160)) /\ Matching(y, Dec(-20000, 1, 100, 400))
  BY Z3 DEF Matching, Packed, BelowRadix, Enc, Dec, Unbounded, IsEncoder, Reads
<1>5. /\ DOMAIN x = {"kind", "from", "to", "lo", "hi", "off", "num", "den", "top", "radix"}
      /\ DOMAIN y = {"kind", "from", "to", "lo", "hi", "off", "num", "den", "top", "radix"}
  BY Z3 DEF Enc
<1>6. Matching(BodyDegrees, DBody)
  BY Z3 DEF Matching, Packed, BelowRadix, BodyDegrees, DBody, Enc, Dec, IsEncoder, Reads
<1> HIDE DEF x, y
<1>7. Matching(F(5), D(5)) /\ Matching(F(6), D(6))
  BY <1>1, <1>2, <1>4, <1>5, WithinMatches, Z3
<1>8. \A i \in {1, 2, 5, 6, 7} : Matching(F(i), D(i))
  BY <1>1, <1>2, <1>3, <1>6, <1>7, Z3
<1> QED
  BY <1>8, Z3 DEF BallGoaliePairs

LEMMA SelfPairsMatch == \A p \in SelfPairs : Matching(p[1], p[2])
BY Z3 DEF SelfPairs, SelfMessage, SelfMessageParser, Message, Chunk, Matching, Packed, BelowRadix, Enc, Dec, Unbounded,
          IsEncoder, Reads

LEMMA InterceptPairsMatch == \A p \in InterceptPairs : Matching(p[1], p[2])
<1> DEFINE x == Enc("player", 0, 73, 0, 1, 1, Unbounded, CHAR_SIZE)
           y == Enc("cycle", 0, 73, 0, 1, 1, Unbounded, CHAR_SIZE)
<1>1. /\ InterceptMessage.chunks[1].fields[1] = Within(0, 73, x)
      /\ InterceptMessage.chunks[2].fields[1] = Within(0, 73, y)
  BY Z3 DEF InterceptMessage, Message, Chunk
<1>2. /\ InterceptMessageParser[1].fields[1] = DecInt(0, CHAR_SIZE)
      /\ InterceptMessageParser[2].fields[1] = DecInt(0, CHAR_SIZE)
  BY Z3 DEF InterceptMessageParser, Chunk
<1>3. Matching(x, DecInt(0, CHAR_SIZE)) /\ Matching(y, DecInt(0, CHAR_SIZE))
  BY Z3 DEF Matching, Packed, BelowRadix, Enc, Dec, DecInt, Unbounded, CHAR_SIZE, IsEncoder, Reads
<1>4. /\ DOMAIN x = {"kind", "from", "to", "lo", "hi", "off", "num", "den", "top", "radix"}
      /\ DOMAIN y = {"kind", "from", "to", "lo", "hi", "off", "num", "den", "top", "radix"}
  BY Z3 DEF Enc
<1> HIDE DEF x, y
<1>5. Matching(Within(0, 73, x), DecInt(0, CHAR_SIZE)) /\ Matching(Within(0, 73, y), DecInt(0, CHAR_SIZE))
  BY <1>3, <1>4, WithinMatches, Z3
<1> QED
  BY <1>1, <1>2, <1>5, Z3 DEF InterceptPairs

\* Whatever number a builder in use encodes, its parser reads it to half a step (a step at
\* an upper end without an index of its own).
THEOREM FieldsSurvive ==
    \A p \in Pairs, v \in Int : Faithful(p[1], v, Number(p[2], Index(p[1], v)))
<1>1. \A p \in Pairs : Matching(p[1], p[2])
  BY CodecPairsMatch, PlayerPairsMatch, GoaliePairsMatch, RatePairsMatch,
     BallGoaliePairsMatch, SelfPairsMatch, InterceptPairsMatch, Zenon DEF Pairs
<1> QED
  BY <1>1, FieldSurvives DEF Matching, Packed

-----------------------------------------------------------------------------
(* Rows of fields and the characters they need.                            *)

\* So many numbers have len characters.
CharRoom(len, room) == \E p : Powers(p, len) /\ p[len] = room

\* 74 ^ len, one character after the other.
LEMMA NoCharacter == CharRoom(0, 1)
<1> DEFINE p == [k \in 0..0 |-> 1]
<1>1. Powers(p, 0) /\ p[0] = 1
  BY DEF Powers
<1> QED BY <1>1 DEF CharRoom

LEMMA OneMoreCharacter ==
    ASSUME NEW n \in Nat, NEW m, m = n + 1, NEW room \in Nat, CharRoom(n, room)
    PROVE  CharRoom(m, room * 74)
<1>1. PICK p : Powers(p, n) /\ p[n] = room
  BY Zenon DEF CharRoom
<1> DEFINE q == [k \in 0..m |-> IF k = m THEN room * 74 ELSE p[k]]
<1>2. p \in [0..n -> Nat] /\ p[0] = 1 /\ \A i \in 1..n : p[i] = p[i - 1] * CHAR_SIZE
  BY <1>1, Zenon DEF Powers
<1>3. room * 74 \in Nat
  OBVIOUS
<1>4. q \in [0..m -> Nat] /\ q[0] = 1 /\ q[m] = room * 74
  BY <1>2, <1>3
<1>5. \A i \in 1..m : q[i] = q[i - 1] * CHAR_SIZE
  BY <1>1, <1>2 DEF CHAR_SIZE
<1> HIDE DEF q
<1>6. Powers(q, m)
  BY <1>4, <1>5, Zenon DEF Powers
<1> QED BY <1>4, <1>6, Zenon DEF CharRoom

LEMMA CharRooms ==
    /\ CharRoom(1, 74) /\ CharRoom(3, 405224) /\ CharRoom(4, 29986576) /\ CharRoom(5, 2219006624)
    /\ CharRoom(6, 164206490176) /\ CharRoom(7, 12151280273024) /\ CharRoom(9, 66540410775079424)
<1>1. CharRoom(1, 74)
  BY NoCharacter, OneMoreCharacter
<1>2. CharRoom(2, 5476)
  BY <1>1, OneMoreCharacter
<1>3. CharRoom(3, 405224)
  BY <1>2, OneMoreCharacter
<1>4. CharRoom(4, 29986576)
  BY <1>3, OneMoreCharacter
<1>5. CharRoom(5, 2219006624)
  BY <1>4, OneMoreCharacter
<1>6. CharRoom(6, 164206490176)
  BY <1>5, OneMoreCharacter
<1>7. CharRoom(7, 12151280273024)
  BY <1>6, OneMoreCharacter
<1>8. CharRoom(8, 899194740203776)
  BY <1>7, OneMoreCharacter
<1>9. CharRoom(9, 66540410775079424)
  BY <1>8, OneMoreCharacter
<1> QED BY <1>1, <1>3, <1>4, <1>5, <1>6, <1>7, <1>9

\* A field with its part of the parser, and how many values it has.
Pair(a, x, radix) == Matching(a, x) /\ a.radix = radix /\ radix \in Nat

\* A row of one field, and of the fields of two rows: the products of their radices.
LEMMA RowOfOne ==
    ASSUME NEW a, NEW x, NEW r, Pair(a, x, r)
    PROVE  Paired(<<a>>, <<x>>, r, {}) /\ r \in Nat
<1>1. Packed(a, x) /\ Reads(x, a) /\ a.radix = r
  BY Zenon DEF Pair, Matching
<1>2. Paired(<<a>>, <<x>>, a.radix, {})
  BY <1>1, PairedOne
<1> QED BY <1>1, <1>2, Zenon DEF Pair

\* A row with its part of the parser, and how many values it has.
Row(f, d, room) == Paired(f, d, room, {}) /\ room \in Nat

LEMMA RowsJoin ==
    ASSUME NEW f, NEW d, NEW x, NEW g, NEW e, NEW y, Row(f, d, x), Row(g, e, y)
    PROVE  Row(f \o g, d \o e, x * y)
<1>1. Paired(f, d, x, {}) /\ x \in Nat /\ Paired(g, e, y, {}) /\ y \in Nat
  BY Zenon DEF Row
<1>2. x * y \in Nat
  BY <1>1, Z3
<1>3. Paired(f \o g, d \o e, x * y, {})
  BY <1>1, PairedConcat
<1> QED BY <1>2, <1>3, Zenon DEF Row

\* Rows written with \o and as tuples.
LEMMA TwoInRow == ASSUME NEW a, NEW b PROVE <<a>> \o <<b>> = <<a, b>>
<1> DEFINE S == {a, b}
           u == <<a>>
           v == <<b>>
           w == <<a, b>>
<1>1. u \in Seq(S) /\ v \in Seq(S) /\ w \in Seq(S) /\ Len(u) = 1 /\ Len(v) = 1 /\ Len(w) = 2
  OBVIOUS
<1>2. u[1] = a /\ v[1] = b /\ w[1] = a /\ w[2] = b
  OBVIOUS
<1> HIDE DEF S, u, v, w
<1>3. /\ (u \o v) \in Seq(S) /\ Len(u \o v) = Len(u) + Len(v)
      /\ \A i \in 1..(Len(u) + Len(v)) : (u \o v)[i] = IF i <= Len(u) THEN u[i] ELSE v[i - Len(u)]
  BY <1>1, ConcatProperties, Zenon
<1>4. (u \o v)[1] = a /\ (u \o v)[2] = b
  BY <1>1, <1>2, <1>3
<1>5. \A i \in 1..2 : i = 1 \/ i = 2
  OBVIOUS
<1>6. \A i \in 1..Len(w) : (u \o v)[i] = w[i]
  BY <1>1, <1>2, <1>4, <1>5
<1>7. u \o v = w
  BY <1>1, <1>3, <1>6, SeqEqual
<1> QED BY <1>7 DEF u, v, w

LEMMA ThreeInRow == ASSUME NEW a, NEW b, NEW c PROVE <<a, b>> \o <<c>> = <<a, b, c>>
<1> DEFINE S == {a, b, c}
           u == <<a, b>>
           v == <<c>>
           w == <<a, b, c>>
<1>1. u \in Seq(S) /\ v \in Seq(S) /\ w \in Seq(S) /\ Len(u) = 2 /\ Len(v) = 1 /\ Len(w) = 3
  OBVIOUS
<1>2. u[1] = a /\ u[2] = b /\ v[1] = c /\ w[1] = a /\ w[2] = b /\ w[3] = c
  OBVIOUS
<1> HIDE DEF S, u, v, w
<1>3. /\ (u \o v) \in Seq(S) /\ Len(u \o v) = Len(u) + Len(v)
      /\ \A i \in 1..(Len(u) + Len(v)) : (u \o v)[i] = IF i <= Len(u) THEN u[i] ELSE v[i - Len(u)]
  BY <1>1, ConcatProperties, Zenon
<1>4. (u \o v)[1] = a /\ (u \o v)[2] = b /\ (u \o v)[3] = c
  BY <1>1, <1>2, <1>3
<1>5. \A i \in 1..3 : i = 1 \/ i = 2 \/ i = 3
  OBVIOUS
<1>6. \A i \in 1..Len(w) : (u \o v)[i] = w[i]
  BY <1>1, <1>2, <1>4, <1>5
<1>7. u \o v = w
  BY <1>1, <1>3, <1>6, SeqEqual
<1> QED BY <1>7 DEF u, v, w

LEMMA FourInRow == ASSUME NEW a, NEW b, NEW c, NEW d PROVE <<a, b>> \o <<c, d>> = <<a, b, c, d>>
<1> DEFINE S == {a, b, c, d}
           u == <<a, b>>
           v == <<c, d>>
           w == <<a, b, c, d>>
<1>1. u \in Seq(S) /\ v \in Seq(S) /\ w \in Seq(S) /\ Len(u) = 2 /\ Len(v) = 2 /\ Len(w) = 4
  OBVIOUS
<1>2. u[1] = a /\ u[2] = b /\ v[1] = c /\ v[2] = d /\ w[1] = a /\ w[2] = b /\ w[3] = c /\ w[4] = d
  OBVIOUS
<1> HIDE DEF S, u, v, w
<1>3. /\ (u \o v) \in Seq(S) /\ Len(u \o v) = Len(u) + Len(v)
      /\ \A i \in 1..(Len(u) + Len(v)) : (u \o v)[i] = IF i <= Len(u) THEN u[i] ELSE v[i - Len(u)]
  BY <1>1, ConcatProperties, Zenon
<1>4. (u \o v)[1] = a /\ (u \o v)[2] = b /\ (u \o v)[3] = c /\ (u \o v)[4] = d
  BY <1>1, <1>2, <1>3
<1>5. \A i \in 1..4 : i = 1 \/ i = 2 \/ i = 3 \/ i = 4
  OBVIOUS
<1>6. \A i \in 1..Len(w) : (u \o v)[i] = w[i]
  BY <1>1, <1>2, <1>4, <1>5
<1>7. u \o v = w
  BY <1>1, <1>3, <1>6, SeqEqual
<1> QED BY <1>7 DEF u, v, w

LEMMA SevenInRow == ASSUME NEW a, NEW b, NEW c, NEW d, NEW e, NEW f, NEW g
   PROVE <<a, b, c, d>> \o <<e, f, g>> = <<a, b, c, d, e, f, g>>
<1> DEFINE S == {a, b, c, d, e, f, g}
           u == <<a, b, c, d>>
           v == <<e, f, g>>
           w == <<a, b, c, d, e, f, g>>
<1>1. u \in Seq(S) /\ v \in Seq(S) /\ w \in Seq(S) /\ Len(u) = 4 /\ Len(v) = 3 /\ Len(w) = 7
  OBVIOUS
<1>2. /\ u[1] = a /\ u[2] = b /\ u[3] = c /\ u[4] = d /\ v[1] = e /\ v[2] = f /\ v[3] = g
      /\ w[1] = a /\ w[2] = b /\ w[3] = c /\ w[4] = d /\ w[5] = e /\ w[6] = f /\ w[7] = g
  OBVIOUS
<1> HIDE DEF S, u, v, w
<1>3. /\ (u \o v) \in Seq(S) /\ Len(u \o v) = Len(u) + Len(v)
      /\ \A i \in 1..(Len(u) + Len(v)) : (u \o v)[i] = IF i <= Len(u) THEN u[i] ELSE v[i - Len(u)]
  BY <1>1, ConcatProperties, Zenon
<1>4. /\ (u \o v)[1] = a /\ (u \o v)[2] = b /\ (u \o v)[3] = c /\ (u \o v)[4] = d
      /\ (u \o v)[5] = e /\ (u \o v)[6] = f /\ (u \o v)[7] = g
  BY <1>1, <1>2, <1>3, SMTT(30)
<1>5. \A i \in 1..7 : i = 1 \/ i = 2 \/ i = 3 \/ i = 4 \/ i = 5 \/ i = 6 \/ i = 7
  OBVIOUS
<1>6. \A i \in 1..Len(w) : (u \o v)[i] = w[i]
  <2> DEFINE z == u \o v
  <2>1. \A i \in 1..Len(w) : i \in 1..7
    BY <1>1
  <2>2. /\ z[1] = w[1] /\ z[2] = w[2] /\ z[3] = w[3] /\ z[4] = w[4]
        /\ z[5] = w[5] /\ z[6] = w[6] /\ z[7] = w[7]
    BY <1>2, <1>4, Zenon
  <2> HIDE DEF z
  <2>3. \A i \in 1..Len(w) : z[i] = w[i]
    BY <1>5, <2>1, <2>2, Zenon
  <2> QED BY <2>3 DEF z
<1>7. u \o v = w
  <2>1. 4 + 3 = 7
    OBVIOUS
  <2>2. (u \o v) \in Seq(S) /\ w \in Seq(S) /\ Len(u \o v) = Len(w) /\ Len(w) = 7
    BY <1>1, <1>3, <2>1, Zenon
  <2> DEFINE z == u \o v
  <2>3. z \in Seq(S) /\ w \in Seq(S) /\ Len(z) = Len(w) /\ \A i \in 1..Len(z) : z[i] = w[i]
    BY <1>6, <2>2, Zenon
  <2> HIDE DEF z
  <2>4. z = w
    BY <2>3, SeqEqual
  <2> QED BY <2>4 DEF z
<1> QED BY <1>7 DEF u, v, w

\* Rows of up to four fields.
LEMMA RowOfTwo ==
    ASSUME NEW a, NEW x, NEW r, NEW b, NEW y, NEW s, Pair(a, x, r), Pair(b, y, s)
    PROVE  Row(<<a, b>>, <<x, y>>, r * s)
<1>1. Row(<<a>>, <<x>>, r) /\ Row(<<b>>, <<y>>, s)
  BY RowOfOne, Zenon DEF Row
<1>2. Row(<<a>> \o <<b>>, <<x>> \o <<y>>, r * s)
  BY <1>1, RowsJoin
<1>3. <<a>> \o <<b>> = <<a, b>> /\ <<x>> \o <<y>> = <<x, y>>
  BY TwoInRow, Zenon
<1> QED BY <1>2, <1>3

LEMMA RowOfThree ==
    ASSUME NEW a, NEW x, NEW r, NEW b, NEW y, NEW s, NEW c, NEW z, NEW t,
           Pair(a, x, r), Pair(b, y, s), Pair(c, z, t)
    PROVE  Row(<<a, b, c>>, <<x, y, z>>, (r * s) * t)
<1>1. Row(<<a, b>>, <<x, y>>, r * s)
  BY RowOfTwo
<1>2. Row(<<c>>, <<z>>, t)
  BY RowOfOne, Zenon DEF Row
<1>3. Row(<<a, b>> \o <<c>>, <<x, y>> \o <<z>>, (r * s) * t)
  <2> DEFINE f == <<a, b>>
             d == <<x, y>>
             g == <<c>>
             e == <<z>>
             n == r * s
  <2>1. Row(f, d, n) /\ Row(g, e, t)
    BY <1>1, <1>2, Zenon
  <2> HIDE DEF f, d, g, e, n
  <2>2. Row(f \o g, d \o e, n * t)
    BY <2>1, RowsJoin
  <2> QED BY <2>2 DEF f, d, g, e, n
<1>4. <<a, b>> \o <<c>> = <<a, b, c>> /\ <<x, y>> \o <<z>> = <<x, y, z>>
  BY ThreeInRow, Zenon
<1> QED BY <1>3, <1>4

LEMMA RowOfFour ==
    ASSUME NEW a, NEW x, NEW r, NEW b, NEW y, NEW s, NEW c, NEW z, NEW t, NEW d, NEW w, NEW u,
           Pair(a, x, r), Pair(b, y, s), Pair(c, z, t), Pair(d, w, u)
    PROVE  Row(<<a, b, c, d>>, <<x, y, z, w>>, (r * s) * (t * u))
<1>1. Row(<<a, b>>, <<x, y>>, r * s) /\ Row(<<c, d>>, <<z, w>>, t * u)
  BY RowOfTwo
<1>3. Row(<<a, b>> \o <<c, d>>, <<x, y>> \o <<z, w>>, (r * s) * (t * u))
  BY <1>1, RowsJoin
<1>4. <<a, b>> \o <<c, d>> = <<a, b, c, d>> /\ <<x, y>> \o <<z, w>> = <<x, y, z, w>>
  BY FourInRow, Zenon
<1> QED BY <1>3, <1>4

\* A row that its characters have room for makes a chunk.
LEMMA RowInChunk ==
    ASSUME NEW n \in Nat \ {0}, NEW f, NEW d, NEW room, NEW size \in Nat, Row(f, d, room), CharRoom(n, size),
           room <= size
    PROVE  ChunkPair(Chunk(n, f), Chunk(n, d), {})
<1>1. Paired(f, d, room, {})
  BY Zenon DEF Row
<1>2. PICK p : Powers(p, n) /\ p[n] = size
  BY Zenon DEF CharRoom
<1>3. /\ Chunk(n, f).len = n /\ Chunk(n, f).fields = f /\ Chunk(n, d).len = n /\ Chunk(n, d).fields = d
  BY Zenon DEF Chunk
<1>4. room <= p[n]
  BY <1>2, Zenon
<1> QED BY <1>1, <1>2, <1>3, <1>4, Zenon DEF ChunkPair

\* The radix of a field.
LEMMA EncRadix ==
    ASSUME NEW kind, NEW lo, NEW hi, NEW off, NEW num, NEW den, NEW top, NEW radix
    PROVE  Enc(kind, lo, hi, off, num, den, top, radix).radix = radix
BY Z3 DEF Enc

LEMMA WithinRadix ==
    ASSUME NEW f, NEW from, NEW to,
           DOMAIN f = {"kind", "from", "to", "lo", "hi", "off", "num", "den", "top", "radix"}
    PROVE  Within(from, to, f).radix = f.radix
BY Zenon DEF Within

\* The rows of audio_codec.cpp, and those that several messages share.
LEMMA CodecRows ==
    /\ Pair(X10, DX10, 1024) /\ Pair(Y9, DY9, 512) /\ Row(PosToBit18, Bit18ToPos, 512 * 512)
    /\ Row(PosToBit19, Bit19ToPos, 1024 * 512) /\ Row(PosVelToBit31, Bit31ToPosVel, (1024 * 512) * (64 * 64))
    /\ Row(UnumPos, ToUnumPos, (1024 * 512) * 16)
<1>1. Pair(X9, DX9, 512) /\ Pair(X10, DX10, 1024) /\ Pair(Y9, DY9, 512) /\ Pair(Speed, DSpeed, 64)
  <2>1. Matching(X9, DX9) /\ Matching(X10, DX10) /\ Matching(Y9, DY9) /\ Matching(Speed, DSpeed)
    BY CodecPairsMatch, Z3 DEF CodecPairs
  <2>2. X9.radix = 512 /\ X10.radix = 1024 /\ Y9.radix = 512 /\ Speed.radix = 64
    BY Z3 DEF X9, X10, Y9, Speed, Enc
  <2>3. 512 \in Nat /\ 1024 \in Nat /\ 64 \in Nat
    OBVIOUS
  <2> QED BY <2>1, <2>2, <2>3, ZenonT(40) DEF Pair
<1>2. Row(PosToBit18, Bit18ToPos, 512 * 512)
  BY <1>1, RowOfTwo DEF PosToBit18, Bit18ToPos
<1>3. Row(PosToBit19, Bit19ToPos, 1024 * 512)
  BY <1>1, RowOfTwo DEF PosToBit19, Bit19ToPos
<1>4. Row(<<Speed, Speed>>, <<DSpeed, DSpeed>>, 64 * 64)
  BY <1>1, RowOfTwo
<1>6. Row(PosVelToBit31, Bit31ToPosVel, (1024 * 512) * (64 * 64))
  <2> DEFINE g == <<Speed, Speed>>
             e == <<DSpeed, DSpeed>>
             m == 1024 * 512
             n == 64 * 64
  <2>1. Row(g, e, n) /\ Row(PosToBit19, Bit19ToPos, m)
    BY <1>3, <1>4
  <2>2. PosVelToBit31 = PosToBit19 \o g /\ Bit31ToPosVel = Bit19ToPos \o e
    BY Zenon DEF PosVelToBit31, Bit31ToPosVel
  <2> HIDE DEF g, e, m, n
  <2>3. Row(PosVelToBit31, Bit31ToPosVel, m * n)
    BY <2>1, <2>2, RowsJoin
  <2> QED BY <2>3 DEF m, n
<1>7. Row(UnumPos, ToUnumPos, (1024 * 512) * 16)
  <2> DEFINE f == Within(1, 11, Enc("unum", 1, 11, 0, 1, 1, Unbounded, 16))
             d == Dec(0, 1, 1, 16)
             g == <<f>>
             e == <<d>>
  <2>1. UnumPos = PosToBit19 \o g /\ ToUnumPos = Bit19ToPos \o e
    BY Zenon DEF UnumPos, ToUnumPos
  <2>2. UnumPos[3] = f /\ ToUnumPos[3] = d
    BY Z3 DEF UnumPos, ToUnumPos, PosToBit19, Bit19ToPos
  <2> DEFINE c == Enc("unum", 1, 11, 0, 1, 1, Unbounded, 16)
             m == 1024 * 512
  <2>3. f.radix = 16
    <3>1. DOMAIN c = {"kind", "from", "to", "lo", "hi", "off", "num", "den", "top", "radix"} /\ c.radix = 16
      BY Z3 DEF Enc
    <3> HIDE DEF c
    <3>2. Within(1, 11, c).radix = 16
      BY <3>1, WithinRadix
    <3> QED BY <3>2 DEF c
  <2> HIDE DEF f, d
  <2>4. Matching(f, d)
    BY CodecPairsMatch, <2>2, Z3 DEF CodecPairs
  <2>5. Pair(f, d, 16)
    BY <2>3, <2>4 DEF Pair
  <2>6. Row(g, e, 16)
    BY <2>5, RowOfOne, Zenon DEF Row
  <2>7. Row(PosToBit19, Bit19ToPos, m)
    BY <1>3
  <2> HIDE DEF g, e, m
  <2>8. Row(UnumPos, ToUnumPos, m * 16)
    BY <2>1, <2>6, <2>7, RowsJoin
  <2> QED BY <2>8 DEF m
<1> QED BY <1>1, <1>2, <1>3, <1>6, <1>7

LEMMA GoalieRow == Row(GoalieFields, DGoalieFields, (160 * 400) * 360)
<1> DEFINE x == Enc("goalieX", 37000, 52900, 37000, 1, 100, 159, 160)
           y == Enc("goalieY", -19900, 19900, -20000, 1, 100, 399, 400)
           a == Within(37000, 52900, x)
           b == Within(-19900, 19900, y)
           p == Dec(37000, 1, 100, 160)
           q == Dec(-20000, 1, 100, 400)
<1>1. a.radix = 160 /\ b.radix = 400 /\ BodyDegrees.radix = 360
  <2>1. x.radix = 160 /\ y.radix = 400 /\ BodyDegrees.radix = 360
    BY Z3 DEF Enc, BodyDegrees
  <2>2. /\ DOMAIN x = {"kind", "from", "to", "lo", "hi", "off", "num", "den", "top", "radix"}
        /\ DOMAIN y = {"kind", "from", "to", "lo", "hi", "off", "num", "den", "top", "radix"}
    BY Z3 DEF Enc
  <2> HIDE DEF x, y
  <2> QED BY <2>1, <2>2, WithinRadix
<1>2. GoalieFields[1] = a /\ GoalieFields[2] = b
  BY Z3 DEF GoalieFields
<1>3. DGoalieFields[1] = p /\ DGoalieFields[2] = q
  BY Z3 DEF DGoalieFields
<1>4. GoalieFields = <<a, b, BodyDegrees>> /\ DGoalieFields = <<p, q, DBody>>
  BY DEF GoalieFields, DGoalieFields
<1> HIDE DEF a, b, p, q
<1>5. Matching(a, p) /\ Matching(b, q)
  BY <1>2, <1>3, GoaliePairsMatch, Z3 DEF GoaliePairs
<1>6. Matching(BodyDegrees, DBody)
  BY PlayerPairsMatch, Z3 DEF PlayerPairs
<1>7. Pair(a, p, 160) /\ Pair(b, q, 400) /\ Pair(BodyDegrees, DBody, 360)
  BY <1>1, <1>5, <1>6 DEF Pair
<1>8. Row(GoalieFields, DGoalieFields, (160 * 400) * 360)
  BY <1>4, <1>7, RowOfThree
<1> QED BY <1>8

LEMMA IntRadix ==
    ASSUME NEW kind, NEW from, NEW to, NEW radix
    PROVE  EncInt(kind, from, to, radix).radix = radix
<1> DEFINE f == Enc(kind, from, to, from, 1, 1, Unbounded, radix)
<1>1. DOMAIN f = {"kind", "from", "to", "lo", "hi", "off", "num", "den", "top", "radix"} /\ f.radix = radix
  BY Z3 DEF Enc
<1>2. EncInt(kind, from, to, radix) = Within(from, to, f)
  BY Zenon DEF EncInt
<1> HIDE DEF f
<1> QED BY <1>1, <1>2, WithinRadix

LEMMA PlayerRadix ==
    ASSUME NEW step, NEW top, NEW radix
    PROVE  PlayerX(step, top, radix).radix = radix /\ PlayerY(step, top, radix).radix = radix
BY Z3 DEF Enc, PlayerX, PlayerY

\* The shared fields, by name of their pair.
PairIn(a, x, r) == <<a, x>> \in PlayerPairs /\ a.radix = r /\ r \in Nat

\* A player's fields have their pairs.
LEMMA PlayerPair ==
    ASSUME NEW a, NEW x, NEW r, PairIn(a, x, r)
    PROVE  Pair(a, x, r)
<1> DEFINE p == <<a, x>>
<1>1. p[1] = a /\ p[2] = x
  OBVIOUS
<1>2. p \in PlayerPairs /\ a.radix = r /\ r \in Nat
  BY Zenon DEF PairIn
<1> HIDE DEF p
<1>3. Matching(p[1], p[2])
  BY <1>2, PlayerPairsMatch
<1> QED BY <1>1, <1>2, <1>3, Zenon DEF Pair

LEMMA NumberPairs ==
    /\ Pair(EncInt("number", 1, 22, 22), DecInt(1, 22), 22) /\ Pair(EncInt("unum", 1, 11, 11), DecInt(1, 11), 11)
    /\ Pair(Enc("player", 1, 22, 1, 1, 1, Unbounded, 22), DecInt(1, 22), 22)
<1>1. EncInt("number", 1, 22, 22).radix = 22 /\ EncInt("unum", 1, 11, 11).radix = 11 /\ 22 \in Nat /\ 11 \in Nat
  BY IntRadix
<1>2. Enc("player", 1, 22, 1, 1, 1, Unbounded, 22).radix = 22
  BY EncRadix
<1>3. PairIn(EncInt("number", 1, 22, 22), DecInt(1, 22), 22) /\ PairIn(EncInt("unum", 1, 11, 11), DecInt(1, 11), 11)
  BY <1>1, Z3 DEF PlayerPairs, PairIn
<1>4. PairIn(Enc("player", 1, 22, 1, 1, 1, Unbounded, 22), DecInt(1, 22), 22)
  BY <1>2, Z3 DEF PlayerPairs, PairIn
<1> QED BY <1>3, <1>4, PlayerPair, Zenon

LEMMA PositionPairs ==
    /\ Pair(PlayerX(630, 167, 168), Dec(-52500, 1, 630, 168), 168)
    /\ Pair(PlayerY(630, 108, 109), Dec(-34000, 1, 630, 109), 109)
    /\ Pair(PlayerX(555, 190, 191), Dec(-52500, 1, 555, 191), 191)
    /\ Pair(PlayerY(555, 123, 124), Dec(-34000, 1, 555, 124), 124)
    /\ Pair(PlayerX(700, Unbounded, 151), Dec(-52500, 1, 700, 151), 151)
    /\ Pair(PlayerY(700, Unbounded, 98), Dec(-34000, 1, 700, 98), 98)
    /\ Pair(PlayerX(700, 150, 151), Dec(-52500, 1, 700, 151), 151)
    /\ Pair(PlayerY(700, 99, 98), Dec(-34000, 1, 700, 98), 98)
    /\ Pair(PlayerX(1000, 105, 106), Dec(-52500, 1, 1000, 106), 106)
    /\ Pair(PlayerY(1000, 68, 69), Dec(-34000, 1, 1000, 69), 69)
    /\ Pair(BodyDegrees, DBody, 360) /\ Pair(BodyTwoDegrees, DBodyTwo, 180)
    /\ Pair(Enc("body", -1800, 1790, -1800, 1, 20, 179, 180), DBodyTwo, 180)
<1>1. /\ PairIn(PlayerX(630, 167, 168), Dec(-52500, 1, 630, 168), 168)
      /\ PairIn(PlayerY(630, 108, 109), Dec(-34000, 1, 630, 109), 109)
  BY PlayerRadix, Z3 DEF PlayerPairs, PairIn
<1>2. /\ PairIn(PlayerX(555, 190, 191), Dec(-52500, 1, 555, 191), 191)
      /\ PairIn(PlayerY(555, 123, 124), Dec(-34000, 1, 555, 124), 124)
  BY PlayerRadix, Z3 DEF PlayerPairs, PairIn
<1>3. /\ PairIn(PlayerX(700, Unbounded, 151), Dec(-52500, 1, 700, 151), 151)
      /\ PairIn(PlayerY(700, Unbounded, 98), Dec(-34000, 1, 700, 98), 98)
  BY PlayerRadix, Z3 DEF PlayerPairs, PairIn
<1>4. /\ PairIn(PlayerX(700, 150, 151), Dec(-52500, 1, 700, 151), 151)
      /\ PairIn(PlayerY(700, 99, 98), Dec(-34000, 1, 700, 98), 98)
  BY PlayerRadix, Z3 DEF PlayerPairs, PairIn
<1>5. /\ PairIn(PlayerX(1000, 105, 106), Dec(-52500, 1, 1000, 106), 106)
      /\ PairIn(PlayerY(1000, 68, 69), Dec(-34000, 1, 1000, 69), 69)
  BY PlayerRadix, Z3 DEF PlayerPairs, PairIn
<1>6. BodyDegrees.radix = 360 /\ BodyTwoDegrees.radix = 180 /\ Enc("body", -1800, 1790, -1800, 1, 20, 179, 180).radix = 180
  BY Z3 DEF Enc, BodyDegrees, BodyTwoDegrees
<1>7. /\ PairIn(BodyDegrees, DBody, 360) /\ PairIn(BodyTwoDegrees, DBodyTwo, 180)
      /\ PairIn(Enc("body", -1800, 1790, -1800, 1, 20, 179, 180), DBodyTwo, 180)
  BY <1>6, Z3 DEF PlayerPairs, PairIn
<1> QED BY <1>1, <1>2, <1>3, <1>4, <1>5, <1>7, PlayerPair

\* A type's header and its chunks at the two ends.
Says(t, h, c, d) ==
    /\ t \in DOMAIN Builder /\ t \in DOMAIN Parser
    /\ Builder[t].header = h /\ Builder[t].chunks = c /\ Parser[t] = d /\ h \in Char

\* A builder and a parser, from their definitions.
LEMMA ThisMessage ==
    ASSUME NEW t \in DOMAIN Builder, t \in DOMAIN Parser, NEW h \in Char, NEW c, NEW d,
           Builder[t] = Message(h, c), Parser[t] = d
    PROVE  Says(t, h, c, d)
<1>1. Message(h, c).header = h /\ Message(h, c).chunks = c
  BY Zenon DEF Message
<1> QED BY <1>1, Zenon DEF Says

-----------------------------------------------------------------------------
(* The types.                                                              *)

\* The types that are said: nothing says DefenseLine and Dribble.
SaidTypes == {"Ball", "Pass", "Goalie", "GoalieAndPlayer", "OffsideLine", "WaitRequest", "Intercept", "PassRequest", "Stamina",
              "Recovery", "BallGoalie", "OnePlayer", "TwoPlayer", "ThreePlayer", "Self", "Teammate", "Opponent", "BallPlayer"}

\* The names of the types, their builders and their parsers.
LEMMA TypeNames ==
    /\ DOMAIN Builder = SaidTypes \cup {"DefenseLine", "Dribble"}
    /\ DOMAIN Parser = SaidTypes \cup {"DefenseLine", "Dribble"}
<1>1. DOMAIN Builder = SaidTypes \cup {"DefenseLine", "Dribble"}
  BY Z3 DEF Builder, SaidTypes
<1>2. DOMAIN Parser = SaidTypes \cup {"DefenseLine", "Dribble"}
  BY Z3 DEF Parser, SaidTypes
<1> QED BY <1>1, <1>2

LEMMA SaidAs ==
    /\ Builder["Ball"] = BallMessage /\ Parser["Ball"] = BallMessageParser
    /\ Builder["Pass"] = PassMessage /\ Parser["Pass"] = PassMessageParser
    /\ Builder["Goalie"] = GoalieMessage /\ Parser["Goalie"] = GoalieMessageParser
    /\ Builder["GoalieAndPlayer"] = GoalieAndPlayerMessage /\ Parser["GoalieAndPlayer"] = GoalieAndPlayerMessageParser
    /\ Builder["OffsideLine"] = OffsideLineMessage /\ Parser["OffsideLine"] = OffsideLineMessageParser
    /\ Builder["WaitRequest"] = WaitRequestMessage /\ Parser["WaitRequest"] = WaitRequestMessageParser
    /\ Builder["Intercept"] = InterceptMessage /\ Parser["Intercept"] = InterceptMessageParser
    /\ Builder["PassRequest"] = PassRequestMessage /\ Parser["PassRequest"] = PassRequestMessageParser
    /\ Builder["Stamina"] = StaminaMessage /\ Parser["Stamina"] = StaminaMessageParser
    /\ Builder["Recovery"] = RecoveryMessage /\ Parser["Recovery"] = RecoveryMessageParser
    /\ Builder["BallGoalie"] = BallGoalieMessage /\ Parser["BallGoalie"] = BallGoalieMessageParser
    /\ Builder["OnePlayer"] = OnePlayerMessage /\ Parser["OnePlayer"] = OnePlayerMessageParser
    /\ Builder["TwoPlayer"] = TwoPlayerMessage /\ Parser["TwoPlayer"] = TwoPlayerMessageParser
    /\ Builder["ThreePlayer"] = ThreePlayerMessage /\ Parser["ThreePlayer"] = ThreePlayerMessageParser
    /\ Builder["Self"] = SelfMessage /\ Parser["Self"] = SelfMessageParser
    /\ Builder["Teammate"] = TeammateMessage /\ Parser["Teammate"] = TeammateMessageParser
    /\ Builder["Opponent"] = OpponentMessage /\ Parser["Opponent"] = OpponentMessageParser
    /\ Builder["BallPlayer"] = BallPlayerMessage /\ Parser["BallPlayer"] = BallPlayerMessageParser
<1>1. Builder["Ball"] = BallMessage /\ Parser["Ball"] = BallMessageParser
  BY Z3 DEF Builder, Parser
<1>2. Builder["Pass"] = PassMessage /\ Parser["Pass"] = PassMessageParser
  BY Z3 DEF Builder, Parser
<1>3. Builder["Goalie"] = GoalieMessage /\ Parser["Goalie"] = GoalieMessageParser
  BY Z3 DEF Builder, Parser
<1>4. Builder["GoalieAndPlayer"] = GoalieAndPlayerMessage /\ Parser["GoalieAndPlayer"] = GoalieAndPlayerMessageParser
  BY Z3 DEF Builder, Parser
<1>5. Builder["OffsideLine"] = OffsideLineMessage /\ Parser["OffsideLine"] = OffsideLineMessageParser
  BY Z3 DEF Builder, Parser
<1>6. Builder["WaitRequest"] = WaitRequestMessage /\ Parser["WaitRequest"] = WaitRequestMessageParser
  BY Z3 DEF Builder, Parser
<1>7. Builder["Intercept"] = InterceptMessage /\ Parser["Intercept"] = InterceptMessageParser
  BY Z3 DEF Builder, Parser
<1>8. Builder["PassRequest"] = PassRequestMessage /\ Parser["PassRequest"] = PassRequestMessageParser
  BY Z3 DEF Builder, Parser
<1>9. Builder["Stamina"] = StaminaMessage /\ Parser["Stamina"] = StaminaMessageParser
  BY Z3 DEF Builder, Parser
<1>10. Builder["Recovery"] = RecoveryMessage /\ Parser["Recovery"] = RecoveryMessageParser
  BY Z3 DEF Builder, Parser
<1>11. Builder["BallGoalie"] = BallGoalieMessage /\ Parser["BallGoalie"] = BallGoalieMessageParser
  BY Z3 DEF Builder, Parser
<1>12. Builder["OnePlayer"] = OnePlayerMessage /\ Parser["OnePlayer"] = OnePlayerMessageParser
  BY Z3 DEF Builder, Parser
<1>13. Builder["TwoPlayer"] = TwoPlayerMessage /\ Parser["TwoPlayer"] = TwoPlayerMessageParser
  BY Z3 DEF Builder, Parser
<1>14. Builder["ThreePlayer"] = ThreePlayerMessage /\ Parser["ThreePlayer"] = ThreePlayerMessageParser
  BY Z3 DEF Builder, Parser
<1>15. Builder["Self"] = SelfMessage /\ Parser["Self"] = SelfMessageParser
  BY Z3 DEF Builder, Parser
<1>16. Builder["Teammate"] = TeammateMessage /\ Parser["Teammate"] = TeammateMessageParser
  BY Z3 DEF Builder, Parser
<1>17. Builder["Opponent"] = OpponentMessage /\ Parser["Opponent"] = OpponentMessageParser
  BY Z3 DEF Builder, Parser
<1>18. Builder["BallPlayer"] = BallPlayerMessage /\ Parser["BallPlayer"] = BallPlayerMessageParser
  BY Z3 DEF Builder, Parser
<1> QED BY <1>1, <1>2, <1>3, <1>4, <1>5, <1>6, <1>7, <1>8, <1>9, <1>10, <1>11, <1>12, <1>13, <1>14, <1>15, <1>16, <1>17, <1>18, Zenon

\* A message of one row, and of two, that have room in their characters.
LEMMA OneRowMessage ==
    ASSUME NEW t, NEW h, NEW n \in Nat \ {0}, NEW f, NEW d, NEW room, NEW size \in Nat,
           Says(t, h, One(Chunk(n, f)), One(Chunk(n, d))), Row(f, d, room), CharRoom(n, size), room <= size
    PROVE  Understood(t) /\ Length[t] = 1 + n
<1> DEFINE a == Chunk(n, f)
           x == Chunk(n, d)
<1>1. ChunkPair(a, x, {})
  BY RowInChunk
<1>2. a.len = n
  BY Zenon DEF Chunk
<1> HIDE DEF a, x
<1>3. /\ t \in DOMAIN Builder /\ t \in DOMAIN Parser /\ Builder[t].header \in Char
      /\ Builder[t].chunks = One(a) /\ Parser[t] = One(x)
  BY Zenon DEF Says, a, x
<1>4. \A k \in {} : <<t, k>> \in MisscaledFields
  OBVIOUS
<1>5. Understood(t) /\ Length[t] = 1 + a.len
  BY <1>1, <1>3, <1>4, OneChunk
<1> QED BY <1>2, <1>5

LEMMA TwoRowMessage ==
    ASSUME NEW t, NEW h, NEW n \in Nat \ {0}, NEW f, NEW d, NEW room, NEW size \in Nat,
           NEW l \in Nat \ {0}, NEW g, NEW e, NEW room2, NEW size2 \in Nat,
           Says(t, h, Two(Chunk(n, f), Chunk(l, g)), Two(Chunk(n, d), Chunk(l, e))),
           Row(f, d, room), CharRoom(n, size), room <= size,
           Row(g, e, room2), CharRoom(l, size2), room2 <= size2
    PROVE  Understood(t) /\ Length[t] = 1 + n + l
<1> DEFINE a == Chunk(n, f)
           x == Chunk(n, d)
           b == Chunk(l, g)
           y == Chunk(l, e)
<1>1. ChunkPair(a, x, {}) /\ ChunkPair(b, y, {})
  BY RowInChunk
<1>2. a.len = n /\ b.len = l
  BY Zenon DEF Chunk
<1> HIDE DEF a, x, b, y
<1>3. /\ t \in DOMAIN Builder /\ t \in DOMAIN Parser /\ Builder[t].header \in Char
      /\ Builder[t].chunks = Two(a, b) /\ Parser[t] = Two(x, y)
  BY Zenon DEF Says, a, b, x, y
<1>5. Understood(t) /\ Length[t] = 1 + a.len + b.len
  BY <1>1, <1>3, TwoChunks
<1> QED BY <1>2, <1>5

\* The rows of rates and lines, and of players.
LEMMA PercentageRows ==
    /\ Row(<<Percentage("rate", 0, 0, 1000)>>, <<ToPercentage(0, 1000)>>, 74)
    /\ Row(<<Within(10000, Unbounded, Percentage("line", 10000, 10000, 42000))>>, <<ToPercentage(10000, 42000)>>, 74)
<1> DEFINE rate == Percentage("rate", 0, 0, 1000)
           line == Percentage("line", 10000, 10000, 42000)
           seen == Within(10000, Unbounded, line)
           x == ToPercentage(0, 1000)
           y == ToPercentage(10000, 42000)
<1>1. rate.radix = 74 /\ line.radix = 74
  BY Z3 DEF Percentage, Enc, CHAR_SIZE
<1>2. DOMAIN line = {"kind", "from", "to", "lo", "hi", "off", "num", "den", "top", "radix"}
  BY Z3 DEF Percentage, Enc
<1>3. Matching(rate, x) /\ Matching(seen, y)
  BY RatePairsMatch, Z3 DEF RatePairs
<1> HIDE DEF rate, line, x, y
<1>4. seen.radix = 74
  BY <1>1, <1>2, WithinRadix
<1> HIDE DEF seen
<1>5. Pair(rate, x, 74) /\ Pair(seen, y, 74)
  BY <1>1, <1>3, <1>4 DEF Pair
<1>6. Row(<<rate>>, <<x>>, 74) /\ Row(<<seen>>, <<y>>, 74)
  BY <1>5, RowOfOne, Zenon DEF Row
<1> QED BY <1>6 DEF rate, line, seen, x, y

LEMMA PlayerRows ==
    /\ Row(PlayerFields, DPlayerFields, (22 * 168) * 109)
    /\ Row(<<Enc("player", 1, 22, 1, 1, 1, Unbounded, 22), PlayerX(555, 190, 191), PlayerY(555, 123, 124)>>,
           DPlayer(555, 191, 124), (22 * 191) * 124)
<1>1. Row(PlayerFields, DPlayerFields, (22 * 168) * 109)
  <2> DEFINE a == EncInt("number", 1, 22, 22)
             b == PlayerX(630, 167, 168)
             c == PlayerY(630, 108, 109)
             x == DecInt(1, 22)
             y == Dec(-52500, 1, 630, 168)
             z == Dec(-34000, 1, 630, 109)
  <2>1. Pair(a, x, 22) /\ Pair(b, y, 168) /\ Pair(c, z, 109)
    BY NumberPairs, PositionPairs
  <2>2. PlayerFields = <<a, b, c>> /\ DPlayerFields = <<x, y, z>>
    BY DEF PlayerFields, DPlayerFields, DPlayer
  <2> HIDE DEF a, b, c, x, y, z
  <2> QED BY <2>1, <2>2, RowOfThree
<1>2. Row(<<Enc("player", 1, 22, 1, 1, 1, Unbounded, 22), PlayerX(555, 190, 191), PlayerY(555, 123, 124)>>,
          DPlayer(555, 191, 124), (22 * 191) * 124)
  <2> DEFINE a == Enc("player", 1, 22, 1, 1, 1, Unbounded, 22)
             b == PlayerX(555, 190, 191)
             c == PlayerY(555, 123, 124)
             x == DecInt(1, 22)
             y == Dec(-52500, 1, 555, 191)
             z == Dec(-34000, 1, 555, 124)
  <2>1. Pair(a, x, 22) /\ Pair(b, y, 191) /\ Pair(c, z, 124)
    BY NumberPairs, PositionPairs
  <2>2. DPlayer(555, 191, 124) = <<x, y, z>>
    BY DEF DPlayer
  <2> HIDE DEF a, b, c, x, y, z
  <2>3. Row(<<a, b, c>>, <<x, y, z>>, (22 * 191) * 124)
    BY <2>1, RowOfThree
  <2> QED BY <2>2, <2>3 DEF a, b, c
<1> QED BY <1>1, <1>2

\* Type by type: the fields of builder and parser match, and the product of their radices has
\* room in the characters; 1024 * 512 * 64 * 64 < 74 ^ 5 of the ball, and so on.
LEMMA BallUnderstood == Understood("Ball") /\ Length["Ball"] = 6
<1> DEFINE f == PosVelToBit31
           d == Bit31ToPosVel
           r == (1024 * 512) * (64 * 64)
<1>1. Row(f, d, r)
  BY CodecRows
<1>2. "Ball" \in DOMAIN Builder /\ "Ball" \in DOMAIN Parser /\ 11 \in Char
  BY TypeNames DEF SaidTypes, Char, CHAR_SIZE
<1>3. Builder["Ball"] = Message(11, One(Chunk(5, f))) /\ Parser["Ball"] = One(Chunk(5, d))
  BY SaidAs DEF BallMessage, BallMessageParser, One
<1>4. r <= 2219006624 /\ 2219006624 \in Nat /\ CharRoom(5, 2219006624) /\ 5 \in Nat \ {0} /\ 1 + 5 = 6
  BY CharRooms
<1> HIDE DEF f, d, r
<1>5. Says("Ball", 11, One(Chunk(5, f)), One(Chunk(5, d)))
  BY <1>2, <1>3, ThisMessage
<1> QED BY <1>1, <1>4, <1>5, OneRowMessage

LEMMA PassUnderstood == Understood("Pass") /\ Length["Pass"] = 10
<1> DEFINE f == UnumPos
           d == ToUnumPos
           r == (1024 * 512) * 16
           g == PosVelToBit31
           e == Bit31ToPosVel
           q == (1024 * 512) * (64 * 64)
<1>1. Row(f, d, r) /\ Row(g, e, q)
  BY CodecRows
<1>2. "Pass" \in DOMAIN Builder /\ "Pass" \in DOMAIN Parser /\ 25 \in Char
  BY TypeNames DEF SaidTypes, Char, CHAR_SIZE
<1>3. /\ Builder["Pass"] = Message(25, Two(Chunk(4, f), Chunk(5, g)))
      /\ Parser["Pass"] = Two(Chunk(4, d), Chunk(5, e))
  BY SaidAs DEF PassMessage, PassMessageParser, Two
<1>4. /\ r <= 29986576 /\ 29986576 \in Nat /\ CharRoom(4, 29986576) /\ 4 \in Nat \ {0}
      /\ q <= 2219006624 /\ 2219006624 \in Nat /\ CharRoom(5, 2219006624) /\ 5 \in Nat \ {0} /\ 1 + 4 + 5 = 10
  BY CharRooms
<1> HIDE DEF f, d, r, g, e, q
<1>5. Says("Pass", 25, Two(Chunk(4, f), Chunk(5, g)), Two(Chunk(4, d), Chunk(5, e)))
  BY <1>2, <1>3, ThisMessage
<1> QED BY <1>1, <1>4, <1>5, TwoRowMessage

LEMMA GoalieUnderstood == Understood("Goalie") /\ Length["Goalie"] = 5
<1> DEFINE f == GoalieFields
           d == DGoalieFields
           r == (160 * 400) * 360
<1>1. Row(f, d, r)
  BY GoalieRow
<1>2. "Goalie" \in DOMAIN Builder /\ "Goalie" \in DOMAIN Parser /\ 16 \in Char
  BY TypeNames DEF SaidTypes, Char, CHAR_SIZE
<1>3. Builder["Goalie"] = Message(16, One(Chunk(4, f))) /\ Parser["Goalie"] = One(Chunk(4, d))
  BY SaidAs DEF GoalieMessage, GoalieMessageParser, One
<1>4. r <= 29986576 /\ 29986576 \in Nat /\ CharRoom(4, 29986576) /\ 4 \in Nat \ {0} /\ 1 + 4 = 5
  BY CharRooms
<1> HIDE DEF f, d, r
<1>5. Says("Goalie", 16, One(Chunk(4, f)), One(Chunk(4, d)))
  BY <1>2, <1>3, ThisMessage
<1> QED BY <1>1, <1>4, <1>5, OneRowMessage

LEMMA GoalieAndPlayerUnderstood == Understood("GoalieAndPlayer") /\ Length["GoalieAndPlayer"] = 8
<1> DEFINE f == GoalieFields \o <<Enc("player", 1, 22, 1, 1, 1, Unbounded, 22), PlayerX(555, 190, 191), PlayerY(555, 123, 124)>>
           d == DGoalieFields \o DPlayer(555, 191, 124)
           r == ((160 * 400) * 360) * ((22 * 191) * 124)
<1>1. Row(f, d, r)
  <2> DEFINE fa == GoalieFields
             da == DGoalieFields
             ra == (160 * 400) * 360
             fb == <<Enc("player", 1, 22, 1, 1, 1, Unbounded, 22), PlayerX(555, 190, 191), PlayerY(555, 123, 124)>>
             db == DPlayer(555, 191, 124)
             rb == (22 * 191) * 124
  <2>1. Row(fa, da, ra) /\ Row(fb, db, rb)
    BY GoalieRow, PlayerRows
  <2> HIDE DEF fa, da, ra, fb, db, rb
  <2>2. Row(fa \o fb, da \o db, ra * rb)
    BY <2>1, RowsJoin
  <2> QED BY <2>2 DEF fa, da, ra, fb, db, rb
<1>2. "GoalieAndPlayer" \in DOMAIN Builder /\ "GoalieAndPlayer" \in DOMAIN Parser /\ 14 \in Char
  BY TypeNames DEF SaidTypes, Char, CHAR_SIZE
<1>3. Builder["GoalieAndPlayer"] = Message(14, One(Chunk(7, f))) /\ Parser["GoalieAndPlayer"] = One(Chunk(7, d))
  BY SaidAs DEF GoalieAndPlayerMessage, GoalieAndPlayerMessageParser, One
<1>4. r <= 12151280273024 /\ 12151280273024 \in Nat /\ CharRoom(7, 12151280273024) /\ 7 \in Nat \ {0} /\ 1 + 7 = 8
  BY CharRooms
<1> HIDE DEF f, d, r
<1>5. Says("GoalieAndPlayer", 14, One(Chunk(7, f)), One(Chunk(7, d)))
  BY <1>2, <1>3, ThisMessage
<1> QED BY <1>1, <1>4, <1>5, OneRowMessage

LEMMA OffsideLineUnderstood == Understood("OffsideLine") /\ Length["OffsideLine"] = 2
<1> DEFINE f == <<Within(10000, Unbounded, Percentage("line", 10000, 10000, 42000))>>
           d == <<ToPercentage(10000, 42000)>>
           r == 74
<1>1. Row(f, d, r)
  BY PercentageRows
<1>2. "OffsideLine" \in DOMAIN Builder /\ "OffsideLine" \in DOMAIN Parser /\ 24 \in Char
  BY TypeNames DEF SaidTypes, Char, CHAR_SIZE
<1>3. Builder["OffsideLine"] = Message(24, One(Chunk(1, f))) /\ Parser["OffsideLine"] = One(Chunk(1, d))
  BY SaidAs DEF OffsideLineMessage, OffsideLineMessageParser, One
<1>4. r <= 74 /\ 74 \in Nat /\ CharRoom(1, 74) /\ 1 \in Nat \ {0} /\ 1 + 1 = 2
  BY CharRooms
<1> HIDE DEF f, d, r
<1>5. Says("OffsideLine", 24, One(Chunk(1, f)), One(Chunk(1, d)))
  BY <1>2, <1>3, ThisMessage
<1> QED BY <1>1, <1>4, <1>5, OneRowMessage

LEMMA WaitRequestUnderstood == Understood("WaitRequest") /\ Length["WaitRequest"] = 1
<1>1. "WaitRequest" \in DOMAIN Builder /\ "WaitRequest" \in DOMAIN Parser /\ 32 \in Char
  BY TypeNames DEF SaidTypes, Char, CHAR_SIZE
<1>2. Builder["WaitRequest"] = Message(32, <<>>) /\ Parser["WaitRequest"] = <<>>
  BY SaidAs DEF WaitRequestMessage, WaitRequestMessageParser
<1>3. Message(32, <<>>).chunks = <<>> /\ Message(32, <<>>).header = 32
  BY Zenon DEF Message
<1> QED BY <1>1, <1>2, <1>3, NoChunk

LEMMA InterceptUnderstood == Understood("Intercept") /\ Length["Intercept"] = 3
<1> DEFINE f == <<Within(0, 73, Enc("player", 0, 73, 0, 1, 1, Unbounded, CHAR_SIZE))>>
           d == <<DecInt(0, CHAR_SIZE)>>
           r == 74
           g == <<Within(0, 73, Enc("cycle", 0, 73, 0, 1, 1, Unbounded, CHAR_SIZE))>>
           e == <<DecInt(0, CHAR_SIZE)>>
           q == 74
<1>1. Row(f, d, r) /\ Row(g, e, q)
  <2> DEFINE a == Enc("player", 0, 73, 0, 1, 1, Unbounded, CHAR_SIZE)
             b == Enc("cycle", 0, 73, 0, 1, 1, Unbounded, CHAR_SIZE)
             c == Within(0, 73, a)
             k == Within(0, 73, b)
             x == DecInt(0, CHAR_SIZE)
  <2>1. a.radix = 74 /\ b.radix = 74
    BY Z3 DEF Enc, CHAR_SIZE
  <2>2. /\ DOMAIN a = {"kind", "from", "to", "lo", "hi", "off", "num", "den", "top", "radix"}
        /\ DOMAIN b = {"kind", "from", "to", "lo", "hi", "off", "num", "den", "top", "radix"}
    BY Z3 DEF Enc
  <2>3. Matching(a, x) /\ Matching(b, x)
    BY Z3 DEF Matching, Packed, BelowRadix, Enc, Dec, DecInt, Unbounded, CHAR_SIZE, IsEncoder, Reads
  <2> HIDE DEF a, b, x
  <2>4. c.radix = 74 /\ k.radix = 74
    BY <2>1, <2>2, WithinRadix
  <2>5. Matching(c, x) /\ Matching(k, x)
    BY <2>2, <2>3, WithinMatches
  <2> HIDE DEF c, k
  <2>6. Pair(c, x, 74) /\ Pair(k, x, 74)
    BY <2>1, <2>4, <2>5 DEF Pair
  <2>7. Row(<<c>>, <<x>>, 74) /\ Row(<<k>>, <<x>>, 74)
    BY <2>6, RowOfOne, Zenon DEF Row
  <2> QED BY <2>7 DEF a, b, c, k, x
<1>2. "Intercept" \in DOMAIN Builder /\ "Intercept" \in DOMAIN Parser /\ 18 \in Char
  BY TypeNames DEF SaidTypes, Char, CHAR_SIZE
<1>3. /\ Builder["Intercept"] = Message(18, Two(Chunk(1, f), Chunk(1, g)))
      /\ Parser["Intercept"] = Two(Chunk(1, d), Chunk(1, e))
  BY SaidAs DEF InterceptMessage, InterceptMessageParser, Two
<1>4. /\ r <= 74 /\ 74 \in Nat /\ CharRoom(1, 74) /\ 1 \in Nat \ {0}
      /\ q <= 74 /\ 74 \in Nat /\ CharRoom(1, 74) /\ 1 \in Nat \ {0} /\ 1 + 1 + 1 = 3
  BY CharRooms
<1> HIDE DEF f, d, r, g, e, q
<1>5. Says("Intercept", 18, Two(Chunk(1, f), Chunk(1, g)), Two(Chunk(1, d), Chunk(1, e)))
  BY <1>2, <1>3, ThisMessage
<1> QED BY <1>1, <1>4, <1>5, TwoRowMessage

LEMMA PassRequestUnderstood == Understood("PassRequest") /\ Length["PassRequest"] = 4
<1> DEFINE f == PosToBit18
           d == Bit18ToPos
           r == 512 * 512
<1>1. Row(f, d, r)
  BY CodecRows
<1>2. "PassRequest" \in DOMAIN Builder /\ "PassRequest" \in DOMAIN Parser /\ 17 \in Char
  BY TypeNames DEF SaidTypes, Char, CHAR_SIZE
<1>3. Builder["PassRequest"] = Message(17, One(Chunk(3, f))) /\ Parser["PassRequest"] = One(Chunk(3, d))
  BY SaidAs DEF PassRequestMessage, PassRequestMessageParser, One
<1>4. r <= 405224 /\ 405224 \in Nat /\ CharRoom(3, 405224) /\ 3 \in Nat \ {0} /\ 1 + 3 = 4
  BY CharRooms
<1> HIDE DEF f, d, r
<1>5. Says("PassRequest", 17, One(Chunk(3, f)), One(Chunk(3, d)))
  BY <1>2, <1>3, ThisMessage
<1> QED BY <1>1, <1>4, <1>5, OneRowMessage

LEMMA StaminaUnderstood == Understood("Stamina") /\ Length["Stamina"] = 2
<1> DEFINE f == <<Percentage("rate", 0, 0, 1000)>>
           d == <<ToPercentage(0, 1000)>>
           r == 74
<1>1. Row(f, d, r)
  BY PercentageRows
<1>2. "Stamina" \in DOMAIN Builder /\ "Stamina" \in DOMAIN Parser /\ 28 \in Char
  BY TypeNames DEF SaidTypes, Char, CHAR_SIZE
<1>3. Builder["Stamina"] = Message(28, One(Chunk(1, f))) /\ Parser["Stamina"] = One(Chunk(1, d))
  BY SaidAs DEF StaminaMessage, StaminaMessageParser, One
<1>4. r <= 74 /\ 74 \in Nat /\ CharRoom(1, 74) /\ 1 \in Nat \ {0} /\ 1 + 1 = 2
  BY CharRooms
<1> HIDE DEF f, d, r
<1>5. Says("Stamina", 28, One(Chunk(1, f)), One(Chunk(1, d)))
  BY <1>2, <1>3, ThisMessage
<1> QED BY <1>1, <1>4, <1>5, OneRowMessage

LEMMA RecoveryUnderstood == Understood("Recovery") /\ Length["Recovery"] = 2
<1> DEFINE f == <<Percentage("rate", 0, 0, 1000)>>
           d == <<ToPercentage(0, 1000)>>
           r == 74
<1>1. Row(f, d, r)
  BY PercentageRows
<1>2. "Recovery" \in DOMAIN Builder /\ "Recovery" \in DOMAIN Parser /\ 27 \in Char
  BY TypeNames DEF SaidTypes, Char, CHAR_SIZE
<1>3. Builder["Recovery"] = Message(27, One(Chunk(1, f))) /\ Parser["Recovery"] = One(Chunk(1, d))
  BY SaidAs DEF RecoveryMessage, RecoveryMessageParser, One
<1>4. r <= 74 /\ 74 \in Nat /\ CharRoom(1, 74) /\ 1 \in Nat \ {0} /\ 1 + 1 = 2
  BY CharRooms
<1> HIDE DEF f, d, r
<1>5. Says("Recovery", 27, One(Chunk(1, f)), One(Chunk(1, d)))
  BY <1>2, <1>3, ThisMessage
<1> QED BY <1>1, <1>4, <1>5, OneRowMessage

LEMMA OnePlayerUnderstood == Understood("OnePlayer") /\ Length["OnePlayer"] = 4
<1> DEFINE f == PlayerFields
           d == DPlayerFields
           r == (22 * 168) * 109
<1>1. Row(f, d, r)
  BY PlayerRows
<1>2. "OnePlayer" \in DOMAIN Builder /\ "OnePlayer" \in DOMAIN Parser /\ 51 \in Char
  BY TypeNames DEF SaidTypes, Char, CHAR_SIZE
<1>3. Builder["OnePlayer"] = Message(51, One(Chunk(3, f))) /\ Parser["OnePlayer"] = One(Chunk(3, d))
  BY SaidAs DEF OnePlayerMessage, OnePlayerMessageParser, One
<1>4. r <= 405224 /\ 405224 \in Nat /\ CharRoom(3, 405224) /\ 3 \in Nat \ {0} /\ 1 + 3 = 4
  BY CharRooms
<1> HIDE DEF f, d, r
<1>5. Says("OnePlayer", 51, One(Chunk(3, f)), One(Chunk(3, d)))
  BY <1>2, <1>3, ThisMessage
<1> QED BY <1>1, <1>4, <1>5, OneRowMessage

\* Players in a row.
LEMMA TwoPlayerRow == Row(PlayerFields \o PlayerFields, DPlayerFields \o DPlayerFields, ((22 * 168) * 109) * ((22 * 168) * 109))
<1> DEFINE n == (22 * 168) * 109
<1>1. Row(PlayerFields, DPlayerFields, n)
  BY PlayerRows
<1> HIDE DEF n
<1>2. Row(PlayerFields \o PlayerFields, DPlayerFields \o DPlayerFields, n * n)
  BY <1>1, RowsJoin
<1> QED BY <1>2 DEF n

LEMMA TwoPlayerUnderstood == Understood("TwoPlayer") /\ Length["TwoPlayer"] = 7
<1> DEFINE f == PlayerFields \o PlayerFields
           d == DPlayerFields \o DPlayerFields
           r == ((22 * 168) * 109) * ((22 * 168) * 109)
<1>1. Row(f, d, r)
  BY TwoPlayerRow
<1>2. "TwoPlayer" \in DOMAIN Builder /\ "TwoPlayer" \in DOMAIN Parser /\ 52 \in Char
  BY TypeNames DEF SaidTypes, Char, CHAR_SIZE
<1>3. Builder["TwoPlayer"] = Message(52, One(Chunk(6, f))) /\ Parser["TwoPlayer"] = One(Chunk(6, d))
  BY SaidAs DEF TwoPlayerMessage, TwoPlayerMessageParser, One
<1>4. r <= 164206490176 /\ 164206490176 \in Nat /\ CharRoom(6, 164206490176) /\ 6 \in Nat \ {0} /\ 1 + 6 = 7
  BY CharRooms
<1> HIDE DEF f, d, r
<1>5. Says("TwoPlayer", 52, One(Chunk(6, f)), One(Chunk(6, d)))
  BY <1>2, <1>3, ThisMessage
<1> QED BY <1>1, <1>4, <1>5, OneRowMessage

LEMMA ThreePlayerUnderstood == Understood("ThreePlayer") /\ Length["ThreePlayer"] = 10
<1> DEFINE f == (PlayerFields \o PlayerFields) \o PlayerFields
           d == (DPlayerFields \o DPlayerFields) \o DPlayerFields
           r == (((22 * 168) * 109) * ((22 * 168) * 109)) * ((22 * 168) * 109)
<1>1. Row(f, d, r)
  <2> DEFINE fa == PlayerFields \o PlayerFields
             da == DPlayerFields \o DPlayerFields
             ra == ((22 * 168) * 109) * ((22 * 168) * 109)
             fb == PlayerFields
             db == DPlayerFields
             rb == (22 * 168) * 109
  <2>1. Row(fa, da, ra) /\ Row(fb, db, rb)
    BY TwoPlayerRow, PlayerRows
  <2> HIDE DEF fa, da, ra, fb, db, rb
  <2>2. Row(fa \o fb, da \o db, ra * rb)
    BY <2>1, RowsJoin
  <2> QED BY <2>2 DEF fa, da, ra, fb, db, rb
<1>2. "ThreePlayer" \in DOMAIN Builder /\ "ThreePlayer" \in DOMAIN Parser /\ 53 \in Char
  BY TypeNames DEF SaidTypes, Char, CHAR_SIZE
<1>3. Builder["ThreePlayer"] = Message(53, One(Chunk(9, f))) /\ Parser["ThreePlayer"] = One(Chunk(9, d))
  BY SaidAs DEF ThreePlayerMessage, ThreePlayerMessageParser, One
<1>4. r <= 66540410775079424 /\ 66540410775079424 \in Nat /\ CharRoom(9, 66540410775079424) /\ 9 \in Nat \ {0} /\ 1 + 9 = 10
  BY CharRooms
<1> HIDE DEF f, d, r
<1>5. Says("ThreePlayer", 53, One(Chunk(9, f)), One(Chunk(9, d)))
  BY <1>2, <1>3, ThisMessage
<1> QED BY <1>1, <1>4, <1>5, OneRowMessage

LEMMA SelfUnderstood == Understood("Self") /\ Length["Self"] = 5
<1> DEFINE f == <<Enc("x", -52500, 52500, -52500, 1, 400, 263, 264), Enc("y", -34000, 34000, -34000, 1, 400, 170, 171), Enc("body", -1800, 1800, -1800, 1, 60, 59, 60), Enc("rate", 0, 1000, 0, 10, 1000, 10, 11)>>
           d == <<Dec(-52500, 1, 400, 264), Dec(-34000, 1, 400, 171), Dec(-1800, 1, 60, 60), Dec(0, 10, 1000, 11)>>
           r == (264 * 171) * (60 * 11)
<1>1. Row(f, d, r)
  <2> DEFINE a == Enc("x", -52500, 52500, -52500, 1, 400, 263, 264)
             b == Enc("y", -34000, 34000, -34000, 1, 400, 170, 171)
             c == Enc("body", -1800, 1800, -1800, 1, 60, 59, 60)
             p == Enc("rate", 0, 1000, 0, 10, 1000, 10, 11)
             x == Dec(-52500, 1, 400, 264)
             y == Dec(-34000, 1, 400, 171)
             z == Dec(-1800, 1, 60, 60)
             w == Dec(0, 10, 1000, 11)
  <2>11. a.radix = 264 /\ b.radix = 171 /\ c.radix = 60 /\ p.radix = 11
    BY Z3 DEF Enc
  <2>14. Matching(a, x) /\ Matching(b, y) /\ Matching(c, z) /\ Matching(p, w)
    BY Z3 DEF Matching, Packed, BelowRadix, Enc, Dec, Unbounded, IsEncoder, Reads
  <2>1. Pair(a, x, 264) /\ Pair(b, y, 171) /\ Pair(c, z, 60) /\ Pair(p, w, 11)
    <3> HIDE DEF a, b, c, p, x, y, z, w
    <3> QED BY <2>11, <2>14 DEF Pair
  <2> HIDE DEF a, b, c, p, x, y, z, w
  <2>2. Row(<<a, b, c, p>>, <<x, y, z, w>>, (264 * 171) * (60 * 11))
    BY <2>1, RowOfFour
  <2> QED BY <2>2 DEF a, b, c, p, x, y, z, w
<1>2. "Self" \in DOMAIN Builder /\ "Self" \in DOMAIN Parser /\ 54 \in Char
  BY TypeNames DEF SaidTypes, Char, CHAR_SIZE
<1>3. Builder["Self"] = Message(54, One(Chunk(4, f))) /\ Parser["Self"] = One(Chunk(4, d))
  BY SaidAs DEF SelfMessage, SelfMessageParser, One
<1>4. r <= 29986576 /\ 29986576 \in Nat /\ CharRoom(4, 29986576) /\ 4 \in Nat \ {0} /\ 1 + 4 = 5
  BY CharRooms
<1> HIDE DEF f, d, r
<1>5. Says("Self", 54, One(Chunk(4, f)), One(Chunk(4, d)))
  BY <1>2, <1>3, ThisMessage
<1> QED BY <1>1, <1>4, <1>5, OneRowMessage

LEMMA TeammateUnderstood == Understood("Teammate") /\ Length["Teammate"] = 5
<1> DEFINE f == <<EncInt("unum", 1, 11, 11), PlayerX(700, Unbounded, 151), PlayerY(700, Unbounded, 98), BodyTwoDegrees>>
           d == <<DecInt(1, 11), Dec(-52500, 1, 700, 151), Dec(-34000, 1, 700, 98), DBodyTwo>>
           r == (11 * 151) * (98 * 180)
<1>1. Row(f, d, r)
  <2> DEFINE a == EncInt("unum", 1, 11, 11)
             b == PlayerX(700, Unbounded, 151)
             c == PlayerY(700, Unbounded, 98)
             p == BodyTwoDegrees
             x == DecInt(1, 11)
             y == Dec(-52500, 1, 700, 151)
             z == Dec(-34000, 1, 700, 98)
             w == DBodyTwo
  <2>1. Pair(a, x, 11) /\ Pair(b, y, 151) /\ Pair(c, z, 98) /\ Pair(p, w, 180)
    BY NumberPairs, PositionPairs
  <2> HIDE DEF a, b, c, p, x, y, z, w
  <2>2. Row(<<a, b, c, p>>, <<x, y, z, w>>, (11 * 151) * (98 * 180))
    BY <2>1, RowOfFour
  <2> QED BY <2>2 DEF a, b, c, p, x, y, z, w
<1>2. "Teammate" \in DOMAIN Builder /\ "Teammate" \in DOMAIN Parser /\ 55 \in Char
  BY TypeNames DEF SaidTypes, Char, CHAR_SIZE
<1>3. Builder["Teammate"] = Message(55, One(Chunk(4, f))) /\ Parser["Teammate"] = One(Chunk(4, d))
  BY SaidAs DEF TeammateMessage, TeammateMessageParser, One
<1>4. r <= 29986576 /\ 29986576 \in Nat /\ CharRoom(4, 29986576) /\ 4 \in Nat \ {0} /\ 1 + 4 = 5
  BY CharRooms
<1> HIDE DEF f, d, r
<1>5. Says("Teammate", 55, One(Chunk(4, f)), One(Chunk(4, d)))
  BY <1>2, <1>3, ThisMessage
<1> QED BY <1>1, <1>4, <1>5, OneRowMessage

LEMMA OpponentUnderstood == Understood("Opponent") /\ Length["Opponent"] = 5
<1> DEFINE f == <<EncInt("unum", 1, 11, 11), PlayerX(700, 150, 151), PlayerY(700, 99, 98), BodyTwoDegrees>>
           d == <<DecInt(1, 11), Dec(-52500, 1, 700, 151), Dec(-34000, 1, 700, 98), DBodyTwo>>
           r == (11 * 151) * (98 * 180)
<1>1. Row(f, d, r)
  <2> DEFINE a == EncInt("unum", 1, 11, 11)
             b == PlayerX(700, 150, 151)
             c == PlayerY(700, 99, 98)
             p == BodyTwoDegrees
             x == DecInt(1, 11)
             y == Dec(-52500, 1, 700, 151)
             z == Dec(-34000, 1, 700, 98)
             w == DBodyTwo
  <2>1. Pair(a, x, 11) /\ Pair(b, y, 151) /\ Pair(c, z, 98) /\ Pair(p, w, 180)
    BY NumberPairs, PositionPairs
  <2> HIDE DEF a, b, c, p, x, y, z, w
  <2>2. Row(<<a, b, c, p>>, <<x, y, z, w>>, (11 * 151) * (98 * 180))
    BY <2>1, RowOfFour
  <2> QED BY <2>2 DEF a, b, c, p, x, y, z, w
<1>2. "Opponent" \in DOMAIN Builder /\ "Opponent" \in DOMAIN Parser /\ 50 \in Char
  BY TypeNames DEF SaidTypes, Char, CHAR_SIZE
<1>3. Builder["Opponent"] = Message(50, One(Chunk(4, f))) /\ Parser["Opponent"] = One(Chunk(4, d))
  BY SaidAs DEF OpponentMessage, OpponentMessageParser, One
<1>4. r <= 29986576 /\ 29986576 \in Nat /\ CharRoom(4, 29986576) /\ 4 \in Nat \ {0} /\ 1 + 4 = 5
  BY CharRooms
<1> HIDE DEF f, d, r
<1>5. Says("Opponent", 50, One(Chunk(4, f)), One(Chunk(4, d)))
  BY <1>2, <1>3, ThisMessage
<1> QED BY <1>1, <1>4, <1>5, OneRowMessage

\* BallPlayer's second chunk.
LEMMA FourthInRow == ASSUME NEW a, NEW b, NEW c, NEW d PROVE <<a, b, c>> \o <<d>> = <<a, b, c, d>>
<1> DEFINE S == {a, b, c, d}
           u == <<a, b, c>>
           v == <<d>>
           w == <<a, b, c, d>>
<1>1. u \in Seq(S) /\ v \in Seq(S) /\ w \in Seq(S) /\ Len(u) = 3 /\ Len(v) = 1 /\ Len(w) = 4
  OBVIOUS
<1>2. u[1] = a /\ u[2] = b /\ u[3] = c /\ v[1] = d /\ w[1] = a /\ w[2] = b /\ w[3] = c /\ w[4] = d
  OBVIOUS
<1> HIDE DEF S, u, v, w
<1>3. /\ (u \o v) \in Seq(S) /\ Len(u \o v) = Len(u) + Len(v)
      /\ \A i \in 1..(Len(u) + Len(v)) : (u \o v)[i] = IF i <= Len(u) THEN u[i] ELSE v[i - Len(u)]
  BY <1>1, ConcatProperties, Zenon
<1>4. (u \o v)[1] = a /\ (u \o v)[2] = b /\ (u \o v)[3] = c /\ (u \o v)[4] = d
  BY <1>1, <1>2, <1>3
<1>5. \A i \in 1..4 : i = 1 \/ i = 2 \/ i = 3 \/ i = 4
  OBVIOUS
<1>6. \A i \in 1..Len(w) : (u \o v)[i] = w[i]
  BY <1>1, <1>2, <1>4, <1>5
<1>7. u \o v = w
  BY <1>1, <1>3, <1>6, SeqEqual, SMTT(30)
<1> QED BY <1>7 DEF u, v, w

LEMMA BallPlayerRow == Row(<<EncInt("number", 1, 22, 22), PlayerX(1000, 105, 106), PlayerY(1000, 68, 69), Enc("body", -1800, 1790, -1800, 1, 20, 179, 180)>>,
                           DPlayer(1000, 106, 69) \o <<DBodyTwo>>, (22 * 106) * (69 * 180))
<1>1. Row(<<EncInt("number", 1, 22, 22), PlayerX(1000, 105, 106), PlayerY(1000, 68, 69), Enc("body", -1800, 1790, -1800, 1, 20, 179, 180)>>,
          <<DecInt(1, 22), Dec(-52500, 1, 1000, 106), Dec(-34000, 1, 1000, 69), DBodyTwo>>, (22 * 106) * (69 * 180))
  <2> DEFINE a == EncInt("number", 1, 22, 22)
             b == PlayerX(1000, 105, 106)
             c == PlayerY(1000, 68, 69)
             p == Enc("body", -1800, 1790, -1800, 1, 20, 179, 180)
             x == DecInt(1, 22)
             y == Dec(-52500, 1, 1000, 106)
             z == Dec(-34000, 1, 1000, 69)
             w == DBodyTwo
  <2>1. Pair(a, x, 22) /\ Pair(b, y, 106) /\ Pair(c, z, 69) /\ Pair(p, w, 180)
    BY NumberPairs, PositionPairs
  <2> HIDE DEF a, b, c, p, x, y, z, w
  <2>2. Row(<<a, b, c, p>>, <<x, y, z, w>>, (22 * 106) * (69 * 180))
    BY <2>1, RowOfFour
  <2> QED BY <2>2 DEF a, b, c, p, x, y, z, w
<1>2. DPlayer(1000, 106, 69) \o <<DBodyTwo>> = <<DecInt(1, 22), Dec(-52500, 1, 1000, 106), Dec(-34000, 1, 1000, 69), DBodyTwo>>
  <2> DEFINE x == DecInt(1, 22)
             y == Dec(-52500, 1, 1000, 106)
             z == Dec(-34000, 1, 1000, 69)
  <2>1. DPlayer(1000, 106, 69) = <<x, y, z>>
    BY DEF DPlayer
  <2> HIDE DEF x, y, z
  <2>2. <<x, y, z>> \o <<DBodyTwo>> = <<x, y, z, DBodyTwo>>
    BY FourthInRow
  <2>3. DPlayer(1000, 106, 69) \o <<DBodyTwo>> = <<x, y, z, DBodyTwo>>
    <3>1. ASSUME NEW s, s = <<x, y, z>> PROVE s \o <<DBodyTwo>> = <<x, y, z, DBodyTwo>>
      BY <2>2, <3>1
    <3> QED BY <2>1, <3>1
  <2> QED BY <2>3 DEF x, y, z
<1> DEFINE f == <<EncInt("number", 1, 22, 22), PlayerX(1000, 105, 106), PlayerY(1000, 68, 69), Enc("body", -1800, 1790, -1800, 1, 20, 179, 180)>>
           d == <<DecInt(1, 22), Dec(-52500, 1, 1000, 106), Dec(-34000, 1, 1000, 69), DBodyTwo>>
           e == DPlayer(1000, 106, 69) \o <<DBodyTwo>>
           r == (22 * 106) * (69 * 180)
<1>3. Row(f, d, r) /\ e = d
  BY <1>1, <1>2
<1> HIDE DEF f, d, e, r
<1>4. Row(f, e, r)
  BY <1>3
<1> QED BY <1>4 DEF f, e, r

LEMMA BallPlayerUnderstood == Understood("BallPlayer") /\ Length["BallPlayer"] = 10
<1> DEFINE f == PosVelToBit31
           d == Bit31ToPosVel
           r == (1024 * 512) * (64 * 64)
           g == <<EncInt("number", 1, 22, 22), PlayerX(1000, 105, 106), PlayerY(1000, 68, 69), Enc("body", -1800, 1790, -1800, 1, 20, 179, 180)>>
           e == DPlayer(1000, 106, 69) \o <<DBodyTwo>>
           q == (22 * 106) * (69 * 180)
<1>1. Row(f, d, r) /\ Row(g, e, q)
  BY CodecRows, BallPlayerRow
<1>2. "BallPlayer" \in DOMAIN Builder /\ "BallPlayer" \in DOMAIN Parser /\ 37 \in Char
  BY TypeNames DEF SaidTypes, Char, CHAR_SIZE
<1>3. /\ Builder["BallPlayer"] = Message(37, Two(Chunk(5, f), Chunk(4, g)))
      /\ Parser["BallPlayer"] = Two(Chunk(5, d), Chunk(4, e))
  BY SaidAs DEF BallPlayerMessage, BallPlayerMessageParser, Two
<1>4. /\ r <= 2219006624 /\ 2219006624 \in Nat /\ CharRoom(5, 2219006624) /\ 5 \in Nat \ {0}
      /\ q <= 29986576 /\ 29986576 \in Nat /\ CharRoom(4, 29986576) /\ 4 \in Nat \ {0} /\ 1 + 5 + 4 = 10
  BY CharRooms
<1> HIDE DEF f, d, r, g, e, q
<1>5. Says("BallPlayer", 37, Two(Chunk(5, f), Chunk(4, g)), Two(Chunk(5, d), Chunk(4, e)))
  BY <1>2, <1>3, ThisMessage
<1> QED BY <1>1, <1>4, <1>5, TwoRowMessage

\* The ball's speed is scaled differently at the two ends: what follows packs and unpacks
\* it all the same, and the other fields are read as said.
LEMMA BallGoalieUnderstood == Understood("BallGoalie") /\ Length["BallGoalie"] = 10
<1> DEFINE F1 == Enc("x", -52500, 52500, -52500, 1, 100, 1049, 1050)
           F2 == Enc("y", -34000, 34000, -34000, 1, 100, 679, 680)
           X == Enc("goalieX", 36500, 52500, 36500, 1, 100, 159, 160)
           Y == Enc("goalieY", -20000, 20000, -20000, 1, 100, 399, 400)
           F5 == Within(36500, Unbounded, X)
           F6 == Within(-20000, 20000, Y)
           D1 == Dec(-52500, 1, 100, 1050)
           D2 == Dec(-34000, 1, 100, 680)
           D3 == Dec(-3000, 63, 6000, 63)
           own == Dec(-2820, 63, 5640, 63)
           D5 == Dec(36500, 1, 100, 160)
           D6 == Dec(-20000, 1, 100, 400)
           f == <<F1, F2, DecayedSpeed, DecayedSpeed, F5, F6, BodyDegrees>>
           d == <<D1, D2, D3, D3, D5, D6, DBody>>
           e == <<D1, D2, own, own, D5, D6, DBody>>
           r == ((1050 * 680) * (63 * 63)) * ((160 * 400) * 360)
<1>1. /\ Matching(F1, D1) /\ Matching(F2, D2) /\ Matching(DecayedSpeed, own)
      /\ Packed(DecayedSpeed, D3) /\ Matching(X, D5) /\ Matching(Y, D6)
  BY Z3 DEF Matching, Packed, BelowRadix, DecayedSpeed, Enc, Dec, Unbounded, IsEncoder, Reads
<1>2. /\ F1.radix = 1050 /\ F2.radix = 680 /\ DecayedSpeed.radix = 63 /\ X.radix = 160 /\ Y.radix = 400
  BY Z3 DEF DecayedSpeed, Enc
<1>3. /\ DOMAIN X = {"kind", "from", "to", "lo", "hi", "off", "num", "den", "top", "radix"}
      /\ DOMAIN Y = {"kind", "from", "to", "lo", "hi", "off", "num", "den", "top", "radix"}
  BY Z3 DEF Enc
<1>4. Builder["BallGoalie"] = Message(42, One(Chunk(9, f))) /\ Parser["BallGoalie"] = One(Chunk(9, d))
  BY SaidAs DEF BallGoalieMessage, BallGoalieMessageParser, One
<1>5. r <= 66540410775079424 /\ 66540410775079424 \in Nat /\ CharRoom(9, 66540410775079424)
  BY CharRooms
<1>6. "BallGoalie" \in DOMAIN Builder /\ "BallGoalie" \in DOMAIN Parser /\ 42 \in Char
  BY TypeNames DEF SaidTypes, Char, CHAR_SIZE
<1> HIDE DEF F1, F2, X, Y, D1, D2, D3, own, D5, D6
<1>7. F5.radix = 160 /\ F6.radix = 400 /\ Matching(F5, D5) /\ Matching(F6, D6)
  BY <1>1, <1>2, <1>3, WithinRadix, WithinMatches
<1> HIDE DEF F5, F6
<1>8. Pair(F1, D1, 1050) /\ Pair(F2, D2, 680) /\ Pair(DecayedSpeed, own, 63) /\ Pair(F5, D5, 160) /\ Pair(F6, D6, 400)
  BY <1>1, <1>2, <1>7 DEF Pair
<1>9. Row(f, e, r)
  <2> DEFINE f1 == <<F1, F2, DecayedSpeed, DecayedSpeed>>
             e1 == <<D1, D2, own, own>>
             r1 == (1050 * 680) * (63 * 63)
             f2 == <<F5, F6, BodyDegrees>>
             e2 == <<D5, D6, DBody>>
             r2 == (160 * 400) * 360
  <2>1. Row(f1, e1, r1)
    BY <1>8, RowOfFour
  <2>2. Row(f2, e2, r2)
    BY <1>8, PositionPairs, RowOfThree
  <2>3. f1 \o f2 = f /\ e1 \o e2 = e
    BY SevenInRow
  <2> HIDE DEF f1, e1, r1, f2, e2, r2, f, e
  <2>4. Row(f1 \o f2, e1 \o e2, r1 * r2)
    BY <2>1, <2>2, RowsJoin
  <2>5. Row(f, e, r1 * r2)
    BY <2>3, <2>4
  <2> QED BY <2>5 DEF r1, r2
<1>10. Len(f) = 7 /\ Len(d) = 7 /\ IsSeq(d)
  <2>1. Len(f) = 7 /\ Len(d) = 7 /\ d \in Seq({D1, D2, D3, D5, D6, DBody})
    OBVIOUS
  <2> QED BY <2>1, Zenon DEF IsSeq
<1>11. /\ f[1] = F1 /\ f[2] = F2 /\ f[3] = DecayedSpeed /\ f[4] = DecayedSpeed /\ f[5] = F5 /\ f[6] = F6
       /\ f[7] = BodyDegrees /\ d[1] = D1 /\ d[2] = D2 /\ d[3] = D3 /\ d[4] = D3 /\ d[5] = D5 /\ d[6] = D6 /\ d[7] = DBody
  OBVIOUS
<1> HIDE DEF f, d, e, r
<1>12. IsSeq(f) /\ HasRoom(f, r)
  BY <1>9, Zenon DEF Row, Paired
<1>13. \A k \in 1..7 : Packed(f[k], d[k]) /\ (k \in {3, 4} \/ Reads(d[k], f[k]))
  <2>1. Packed(BodyDegrees, DBody) /\ Reads(DBody, BodyDegrees)
    <3>1. Pair(BodyDegrees, DBody, 360)
      BY PositionPairs
    <3> QED BY <3>1, Zenon DEF Pair, Matching
  <2>2. /\ Packed(F1, D1) /\ Reads(D1, F1) /\ Packed(F2, D2) /\ Reads(D2, F2)
        /\ Packed(F5, D5) /\ Reads(D5, F5) /\ Packed(F6, D6) /\ Reads(D6, F6)
    BY <1>1, <1>7, Zenon DEF Matching
  <2>3. \A k \in 1..7 : k = 1 \/ k = 2 \/ k = 3 \/ k = 4 \/ k = 5 \/ k = 6 \/ k = 7
    OBVIOUS
  <2>4. /\ Packed(f[1], d[1]) /\ Reads(d[1], f[1]) /\ Packed(f[2], d[2]) /\ Reads(d[2], f[2])
        /\ Packed(f[3], d[3]) /\ 3 \in {3, 4} /\ Packed(f[4], d[4]) /\ 4 \in {3, 4}
        /\ Packed(f[5], d[5]) /\ Reads(d[5], f[5]) /\ Packed(f[6], d[6]) /\ Reads(d[6], f[6])
        /\ Packed(f[7], d[7]) /\ Reads(d[7], f[7])
    BY <1>1, <1>11, <2>1, <2>2
  <2> QED BY <2>3, <2>4, Zenon
<1>14. Paired(f, d, r, {3, 4})
  BY <1>10, <1>12, <1>13 DEF Paired
<1> DEFINE a == Chunk(9, f)
           x == Chunk(9, d)
<1>15. a.len = 9 /\ x.len = 9 /\ a.fields = f /\ x.fields = d
  BY Zenon DEF Chunk
<1>16. Builder["BallGoalie"].header = 42 /\ Builder["BallGoalie"].chunks = One(a) /\ Parser["BallGoalie"] = One(x)
  BY <1>4, <1>6, ThisMessage DEF Says
<1> HIDE DEF a, x
<1>17. ChunkPair(a, x, {3, 4})
  <2>1. PICK p : Powers(p, 9) /\ p[9] = 66540410775079424
    BY <1>5 DEF CharRoom
  <2>2. r <= p[9]
    BY <1>5, <2>1
  <2>3. 9 \in Nat \ {0}
    OBVIOUS
  <2> QED BY <1>14, <1>15, <2>1, <2>2, <2>3 DEF ChunkPair
<1>18. \A k \in {3, 4} : <<"BallGoalie", k>> \in MisscaledFields
  BY DEF MisscaledFields
<1>19. Builder["BallGoalie"].header \in Char
  BY <1>6, <1>16
<1>20. Understood("BallGoalie") /\ Length["BallGoalie"] = 1 + a.len
  BY <1>6, <1>16, <1>17, <1>18, <1>19, OneChunk
<1> QED BY <1>15, <1>20

\* Every type that is said: its builder and its parser agree on where it ends and on what
\* it says, but for the ball's speed in a BallGoalie message.
THEOREM MessagesUnderstood == \A t \in SaidTypes : Understood(t)
<1>1. \A t \in SaidTypes :
        \/ t = "Ball" \/ t = "Pass" \/ t = "Goalie" \/ t = "GoalieAndPlayer" \/ t = "OffsideLine"
        \/ t = "WaitRequest" \/ t = "Intercept" \/ t = "PassRequest" \/ t = "Stamina" \/ t = "Recovery"
        \/ t = "BallGoalie" \/ t = "OnePlayer" \/ t = "TwoPlayer" \/ t = "ThreePlayer" \/ t = "Self"
        \/ t = "Teammate" \/ t = "Opponent" \/ t = "BallPlayer"
  BY DEF SaidTypes
<1> QED BY <1>1, BallUnderstood, PassUnderstood, GoalieUnderstood, GoalieAndPlayerUnderstood, OffsideLineUnderstood,
           WaitRequestUnderstood, InterceptUnderstood, PassRequestUnderstood, StaminaUnderstood,
           RecoveryUnderstood, BallGoalieUnderstood, OnePlayerUnderstood, TwoPlayerUnderstood,
           ThreePlayerUnderstood, SelfUnderstood, TeammateUnderstood, OpponentUnderstood,
           BallPlayerUnderstood

\* A header tells its type.
LEMMA HeadersDiffer ==
    ASSUME NEW s \in DOMAIN Parser, NEW t \in DOMAIN Parser, Builder[s].header = Builder[t].header
    PROVE  s = t
<1>1. /\ Builder["Ball"].header = 11 /\ Builder["Pass"].header = 25 /\ Builder["Goalie"].header = 16
      /\ Builder["GoalieAndPlayer"].header = 14 /\ Builder["OffsideLine"].header = 24
      /\ Builder["WaitRequest"].header = 32 /\ Builder["Intercept"].header = 18
      /\ Builder["PassRequest"].header = 17 /\ Builder["Stamina"].header = 28
      /\ Builder["Recovery"].header = 27 /\ Builder["BallGoalie"].header = 42
      /\ Builder["OnePlayer"].header = 51 /\ Builder["TwoPlayer"].header = 52
      /\ Builder["ThreePlayer"].header = 53 /\ Builder["Self"].header = 54
      /\ Builder["Teammate"].header = 55 /\ Builder["Opponent"].header = 50
      /\ Builder["BallPlayer"].header = 37
  <2>1. BallMessage.header = 11 /\ PassMessage.header = 25 /\ GoalieMessage.header = 16
    BY Z3 DEF Message, BallMessage, PassMessage, GoalieMessage
  <2>2. GoalieAndPlayerMessage.header = 14 /\ OffsideLineMessage.header = 24 /\ WaitRequestMessage.header = 32
    BY Z3 DEF Message, GoalieAndPlayerMessage, OffsideLineMessage, WaitRequestMessage
  <2>3. InterceptMessage.header = 18 /\ PassRequestMessage.header = 17 /\ StaminaMessage.header = 28
    BY Z3 DEF Message, InterceptMessage, PassRequestMessage, StaminaMessage
  <2>4. RecoveryMessage.header = 27 /\ BallGoalieMessage.header = 42 /\ OnePlayerMessage.header = 51
    BY Z3 DEF Message, RecoveryMessage, BallGoalieMessage, OnePlayerMessage
  <2>5. TwoPlayerMessage.header = 52 /\ ThreePlayerMessage.header = 53 /\ SelfMessage.header = 54
    BY Z3 DEF Message, TwoPlayerMessage, ThreePlayerMessage, SelfMessage
  <2>6. TeammateMessage.header = 55 /\ OpponentMessage.header = 50 /\ BallPlayerMessage.header = 37
    BY Z3 DEF Message, TeammateMessage, OpponentMessage, BallPlayerMessage
  <2> QED BY <2>1, <2>2, <2>3, <2>4, <2>5, <2>6, SaidAs
<1>2. Builder["DefenseLine"].header = 13 /\ Builder["Dribble"].header = 39
  <2>1. Builder["DefenseLine"] = DefenseLineMessage /\ Builder["Dribble"] = DribbleMessage
    BY Z3 DEF Builder
  <2>2. \A h, c : Message(h, c).header = h
    BY Zenon DEF Message
  <2> QED BY <2>1, <2>2 DEF DefenseLineMessage, DribbleMessage
<1> DEFINE named(h) ==
  IF h = 11 THEN "Ball"
  ELSE IF h = 25 THEN "Pass"
  ELSE IF h = 16 THEN "Goalie"
  ELSE IF h = 14 THEN "GoalieAndPlayer"
  ELSE IF h = 24 THEN "OffsideLine"
  ELSE IF h = 32 THEN "WaitRequest"
  ELSE IF h = 18 THEN "Intercept"
  ELSE IF h = 17 THEN "PassRequest"
  ELSE IF h = 28 THEN "Stamina"
  ELSE IF h = 27 THEN "Recovery"
  ELSE IF h = 42 THEN "BallGoalie"
  ELSE IF h = 51 THEN "OnePlayer"
  ELSE IF h = 52 THEN "TwoPlayer"
  ELSE IF h = 53 THEN "ThreePlayer"
  ELSE IF h = 54 THEN "Self"
  ELSE IF h = 55 THEN "Teammate"
  ELSE IF h = 50 THEN "Opponent"
  ELSE IF h = 37 THEN "BallPlayer"
  ELSE IF h = 13 THEN "DefenseLine"
  ELSE "Dribble"
<1>3. /\ named(11) = "Ball"
      /\ named(25) = "Pass"
      /\ named(16) = "Goalie"
      /\ named(14) = "GoalieAndPlayer"
      /\ named(24) = "OffsideLine"
      /\ named(32) = "WaitRequest"
      /\ named(18) = "Intercept"
      /\ named(17) = "PassRequest"
      /\ named(28) = "Stamina"
      /\ named(27) = "Recovery"
      /\ named(42) = "BallGoalie"
      /\ named(51) = "OnePlayer"
      /\ named(52) = "TwoPlayer"
      /\ named(53) = "ThreePlayer"
      /\ named(54) = "Self"
      /\ named(55) = "Teammate"
      /\ named(50) = "Opponent"
      /\ named(37) = "BallPlayer"
      /\ named(13) = "DefenseLine"
      /\ named(39) = "Dribble"
  OBVIOUS
<1> HIDE DEF named
<1>4. \A r \in DOMAIN Parser :
        \/ r = "Ball" \/ r = "Pass" \/ r = "Goalie" \/ r = "GoalieAndPlayer" \/ r = "OffsideLine"
        \/ r = "WaitRequest" \/ r = "Intercept" \/ r = "PassRequest" \/ r = "Stamina" \/ r = "Recovery"
        \/ r = "BallGoalie" \/ r = "OnePlayer" \/ r = "TwoPlayer" \/ r = "ThreePlayer" \/ r = "Self"
        \/ r = "Teammate" \/ r = "Opponent" \/ r = "BallPlayer" \/ r = "DefenseLine" \/ r = "Dribble"
  BY TypeNames DEF SaidTypes
<1>5. \A r \in DOMAIN Parser : named(Builder[r].header) = r
  BY <1>1, <1>2, <1>3, <1>4
<1> QED BY <1>5

-----------------------------------------------------------------------------
(* What may be said.                                                       *)

\* The players it names are of the two teams.
KnownPlayers(t, v) ==
    \A i \in 1..Len(Fields[t]) : Fields[t][i].kind = "player" => v[i] \in 1..(2 * MAX_PLAYER)

\* What a player may say: a type that is said, with a number for each field.
Said == UNION {[type : {t}, values : {v \in [1..Len(Fields[t]) -> Int] : KnownPlayers(t, v)}] : t \in SaidTypes}

\* Its parts.
LEMMA SaidMember ==
    /\ \A m \in Said :
         m.type \in SaidTypes /\ m.values \in [1..Len(Fields[m.type]) -> Int] /\ KnownPlayers(m.type, m.values)
    /\ \A t \in SaidTypes : \A v \in [1..Len(Fields[t]) -> Int] :
         KnownPlayers(t, v) => [type |-> t, values |-> v] \in Said
BY DEF Said

\* The lengths and the fields of the types that are said.
LEMMA Lengths ==
    /\ \A t \in SaidTypes : Length[t] \in 1..10 /\ ReadLength[t] = Length[t] /\ Len(Fields[t]) \in Nat
    /\ \A t \in SaidTypes : t \in DOMAIN Builder /\ t \in DOMAIN Parser
<1>1. \A t \in SaidTypes :
        \/ t = "Ball" \/ t = "Pass" \/ t = "Goalie" \/ t = "GoalieAndPlayer" \/ t = "OffsideLine"
        \/ t = "WaitRequest" \/ t = "Intercept" \/ t = "PassRequest" \/ t = "Stamina" \/ t = "Recovery"
        \/ t = "BallGoalie" \/ t = "OnePlayer" \/ t = "TwoPlayer" \/ t = "ThreePlayer" \/ t = "Self"
        \/ t = "Teammate" \/ t = "Opponent" \/ t = "BallPlayer"
  BY DEF SaidTypes
<1>2. \A t \in SaidTypes : Length[t] \in 1..10
  BY <1>1, BallUnderstood, PassUnderstood, GoalieUnderstood, GoalieAndPlayerUnderstood, OffsideLineUnderstood,
           WaitRequestUnderstood, InterceptUnderstood, PassRequestUnderstood, StaminaUnderstood,
           RecoveryUnderstood, BallGoalieUnderstood, OnePlayerUnderstood, TwoPlayerUnderstood,
           ThreePlayerUnderstood, SelfUnderstood, TeammateUnderstood, OpponentUnderstood,
           BallPlayerUnderstood
<1>3. \A t \in SaidTypes : Understood(t)
  BY MessagesUnderstood
<1>4. \A t \in SaidTypes : t \in DOMAIN Builder /\ t \in DOMAIN Parser /\ ReadLength[t] = Length[t] /\ Len(Fields[t]) \in Nat
  BY <1>3, Zenon DEF Understood
<1> QED BY <1>2, <1>4, Zenon

\* The builder of a message that may be said, and the parser of its type.
LEMMA MessageUnderstood ==
    ASSUME NEW m \in Said
    PROVE  /\ m.type \in SaidTypes /\ m.type \in DOMAIN Parser
           /\ Length[m.type] \in 1..10 /\ ReadLength[m.type] = Length[m.type]
           /\ Len(m.values) = Len(Fields[m.type])
           /\ ~Sendable(m) => ToStr(m) = <<>>
           /\ Sendable(m) =>
                /\ ToStr(m) \in Seq(Char) /\ Len(ToStr(m)) = Length[m.type] /\ ToStr(m) # <<>>
                /\ ToStr(m)[1] = Builder[m.type].header
                /\ \A from : (\A i \in 1..Length[m.type] : from[i] = ToStr(m)[i]) => AsSaid(m, Read(m.type, from))
<1> DEFINE t == m.type
<1>1. t \in SaidTypes /\ m.values \in [1..Len(Fields[t]) -> Int]
  BY SaidMember
<1>2. Understood(t) /\ Length[t] \in 1..10 /\ ReadLength[t] = Length[t] /\ Len(Fields[t]) \in Nat /\ t \in DOMAIN Parser
  BY <1>1, MessagesUnderstood, Lengths, Zenon
<1>3. SaidAndRead(m, t)
  BY <1>1, <1>2, Zenon DEF Understood
<1>4. Len(m.values) = Len(Fields[t])
  <2> DEFINE v == m.values
             n == Len(Fields[t])
  <2>1. v \in [1..n -> Int] /\ n \in Nat
    BY <1>1, <1>2, Zenon
  <2> HIDE DEF v, n
  <2>2. Len(v) = n
    BY <2>1
  <2> QED BY <2>2 DEF v, n
<1>5. Sendable(m) => ToStr(m) # <<>>
  <2>1. Sendable(m) => Len(ToStr(m)) \in 1..10
    BY <1>2, <1>3, Zenon DEF SaidAndRead
  <2>2. Len(<<>>) = 0 /\ ~(0 \in 1..10)
    OBVIOUS
  <2> QED BY <2>1, <2>2, Zenon
<1> QED BY <1>1, <1>2, <1>3, <1>4, <1>5, Zenon DEF SaidAndRead

\* The player's number of an Intercept message is read exactly, so its parser takes it.
LEMMA LegalAsSaid ==
    ASSUME NEW m \in Said, NEW numbers, AsSaid(m, numbers)
    PROVE  Legal(m.type, numbers)
<1> SUFFICES ASSUME m.type = "Intercept" PROVE numbers[1].val \in 1..(2 * MAX_PLAYER)
  BY Zenon DEF Legal
<1> DEFINE f == Within(0, 73, Enc("player", 0, 73, 0, 1, 1, Unbounded, CHAR_SIZE))
           g == Within(0, 73, Enc("cycle", 0, 73, 0, 1, 1, Unbounded, CHAR_SIZE))
           F == Fields["Intercept"]
           v == m.values[1]
           number == numbers[1]
<1>1. Len(F) = 2 /\ F[1] = f
  <2> DEFINE a == Chunk(1, <<f>>)
             b == Chunk(1, <<g>>)
  <2>1. a.fields = <<f>> /\ b.fields = <<g>>
    BY Zenon DEF Chunk
  <2>2. Builder["Intercept"].chunks = Two(a, b)
    BY SaidAs DEF InterceptMessage, Message, Two
  <2>3. "Intercept" \in DOMAIN Builder
    BY TypeNames DEF SaidTypes
  <2> HIDE DEF a, b, f, g
  <2>4. F = FieldsOf(Two(a, b))
    BY <2>2, <2>3, Zenon DEF Fields
  <2>5. IsSeq(a.fields) /\ IsSeq(b.fields)
    <3>1. <<f>> \in Seq({f}) /\ <<g>> \in Seq({g})
      OBVIOUS
    <3> QED BY <2>1, <3>1, Zenon DEF IsSeq
  <2>6. F = <<f>> \o <<g>>
    BY <2>1, <2>4, <2>5, FieldsOfChunks, Zenon
  <2> QED BY <2>6
<1>2. f.kind = "player" /\ f.lo = 0 /\ f.hi = 73 /\ f.off = 0 /\ f.num = 1 /\ f.den = 1 /\ f.top = Unbounded
  BY Z3 DEF Within, Enc
<1> HIDE DEF f, g, F
<1>3. 1 \in 1..Len(F)
  BY <1>1
<1>4. v \in 1..22
  <2>1. KnownPlayers("Intercept", m.values)
    BY SaidMember, Zenon
  <2>2. v \in 1..(2 * MAX_PLAYER)
    BY <1>1, <1>2, <1>3, <2>1, Zenon DEF KnownPlayers, F
  <2> QED BY <2>2 DEF MAX_PLAYER
<1>5. ReadAs(f, v, number)
  <2>1. <<"Intercept", 1>> \notin MisscaledFields
    BY DEF MisscaledFields
  <2> QED BY <1>1, <1>3, <2>1, Zenon DEF AsSaid, F
<1> HIDE DEF v, number
<1>6. Clamped(f, v) = v
  BY <1>2, <1>4 DEF Clamped, min_max
<1>7. Index(f, v) # f.top
  <2>1. v - 0 = v /\ v * 1 = v /\ v \div 1 = v /\ v % 1 = 0
    BY <1>4
  <2>2. rint(v, 1) = v
    BY <1>4, <2>1 DEF rint
  <2>3. Index(f, v) = min_max(0, v, Unbounded)
    BY <1>2, <1>6, <2>1, <2>2 DEF Index
  <2> QED BY <1>2, <1>4, <2>3 DEF min_max, Unbounded
<1>8. number.val = v
  <2>1. number.val \in Int /\ number.scale = 1 /\ number.step = 1 /\ Faithful(f, v, number)
    BY <1>2, <1>5, Zenon DEF ReadAs
  <2> QED BY <1>4, <1>6, <1>7, <2>1 DEF Faithful
<1> QED BY <1>4, <1>8 DEF MAX_PLAYER, number

-----------------------------------------------------------------------------
(* How long the messages are together.                                     *)

\* S[k] is the length of the first k messages.
Sum(S, messages) ==
    /\ S \in [0..Len(messages) -> Nat] /\ S[0] = 0
    /\ \A k \in 1..Len(messages) : S[k] = S[k - 1] + Length[messages[k].type]

\* SayLength is the last of the sums,
LEMMA SumExists ==
    ASSUME NEW messages \in Seq(Said)
    PROVE  \E S : Sum(S, messages) /\ SayLength(messages) = S[Len(messages)]
<1> DEFINE n == Len(messages)
           L(k) == Length[messages[k].type]
           sum[k \in 0..Len(messages)] == IF k = 0 THEN 0 ELSE sum[k - 1] + Length[messages[k].type]
           step == [k \in 1..n |-> [x \in Nat |-> x + L(k)]]
<1>1. SayLength(messages) = sum[n]
  BY Zenon DEF SayLength
<1>2. n \in Nat /\ \A k \in 1..n : L(k) \in Nat
  <2>1. \A k \in 1..n : messages[k] \in Said
    OBVIOUS
  <2>2. \A k \in 1..n : L(k) \in 1..10
    BY <2>1, MessageUnderstood, Zenon
  <2> HIDE DEF L
  <2> QED BY <2>2
<1> HIDE DEF L
<1>3. step \in Steps(n, Nat)
  BY <1>2 DEF Steps
<1>4. PICK f : Recursive(f, n, Nat, 0, step)
  <2>1. 0 \in Nat
    OBVIOUS
  <2> HIDE DEF step
  <2> QED BY <1>2, <1>3, <2>1, Recursion
<1>5. /\ f \in [0..n -> Nat] /\ f[0] = 0 /\ \A k \in 1..n : f[k] = f[k - 1] + L(k)
  <2>1. f \in [0..n -> Nat] /\ f[0] = 0 /\ \A k \in 1..n : f[k] = step[k][f[k - 1]]
    BY <1>4, Zenon DEF Recursive
  <2>2. \A k \in 1..n, x \in Nat : step[k][x] = x + L(k)
    BY Zenon
  <2> HIDE DEF step
  <2>3. \A k \in 1..n : f[k - 1] \in Nat
    BY <2>1, SMTT(30)
  <2> QED BY <2>1, <2>2, <2>3, Zenon
<1>6. f = [k \in 0..Len(messages) |-> IF k = 0 THEN 0 ELSE f[k - 1] + Length[messages[k].type]]
  BY <1>5 DEF L
<1>7. sum = [k \in 0..Len(messages) |-> IF k = 0 THEN 0 ELSE sum[k - 1] + Length[messages[k].type]]
  BY <1>6, Zenon
<1> HIDE DEF sum
<1>8. sum = [k \in 0..n |-> sum[k]] /\ sum[0] = 0 /\ \A k \in 1..n : sum[k] = sum[k - 1] + L(k)
  BY <1>7 DEF L
<1>9. Recursive(sum, n, Nat, 0, step)
  <2>1. 0 \in Nat /\ \A k \in 1..n : sum[k - 1] \in Nat => sum[k] = step[k][sum[k - 1]]
    BY <1>8, Zenon
  <2> HIDE DEF step
  <2> QED BY <1>2, <1>3, <1>8, <2>1, RecursionType
<1>10. Sum(sum, messages)
  <2>1. sum \in [0..n -> Nat]
    BY <1>9, Zenon DEF Recursive
  <2> QED BY <1>8, <2>1, Zenon DEF Sum, L
<1> QED BY <1>1, <1>10, Zenon

\* which messages that begin alike share,
LEMMA SumUnique ==
    ASSUME NEW s, NEW t, NEW S, NEW T, NEW n \in Nat, Sum(S, s), Sum(T, t), n <= Len(s), n <= Len(t),
           Len(s) \in Nat, Len(t) \in Nat, \A k \in 1..n : s[k] = t[k]
    PROVE  \A k \in 0..n : S[k] = T[k]
<1> DEFINE R == {k \in 0..n : S[k] = T[k]}
<1>1. 0 \in R
  BY DEF Sum
<1>2. \A k \in 0..(n - 1) : k \in R => k + 1 \in R
  <2> SUFFICES ASSUME NEW k \in 0..(n - 1), S[k] = T[k] PROVE S[k + 1] = T[k + 1]
    OBVIOUS
  <2> DEFINE j == k + 1
  <2>1. j \in 1..n /\ j \in 1..Len(s) /\ j \in 1..Len(t) /\ j - 1 = k
    OBVIOUS
  <2> HIDE DEF j
  <2>2. S[j] = S[j - 1] + Length[s[j].type] /\ T[j] = T[j - 1] + Length[t[j].type] /\ s[j] = t[j]
    BY <2>1, Zenon DEF Sum
  <2>3. S[j] = T[j]
    BY <2>1, <2>2
  <2> QED BY <2>3 DEF j
<1> HIDE DEF R
<1>3. \A k \in 0..n : k \in R
  BY <1>1, <1>2, UpTo
<1> QED BY <1>3 DEF R

\* and grows by the length of what is appended.
LEMMA SayLengthOf ==
    /\ <<>> \in Seq(Said) /\ SayLength(<<>>) = 0
    /\ \A s \in Seq(Said), m \in Said :
         /\ Append(s, m) \in Seq(Said) /\ SayLength(s) \in Nat
         /\ SayLength(Append(s, m)) = SayLength(s) + Length[m.type]
<1>1. <<>> \in Seq(Said) /\ SayLength(<<>>) = 0
  <2> DEFINE e == <<>>
  <2>1. e \in Seq(Said) /\ Len(e) = 0 /\ e = <<>>
    OBVIOUS
  <2> HIDE DEF e
  <2>2. PICK S : Sum(S, e) /\ SayLength(e) = S[Len(e)]
    BY <2>1, SumExists
  <2> QED BY <2>1, <2>2 DEF Sum
<1>2. ASSUME NEW s \in Seq(Said), NEW m \in Said
      PROVE  /\ Append(s, m) \in Seq(Said) /\ SayLength(s) \in Nat
             /\ SayLength(Append(s, m)) = SayLength(s) + Length[m.type]
  <2> DEFINE t == Append(s, m)
             n == Len(s)
  <2>1. t \in Seq(Said) /\ Len(t) = n + 1 /\ t[n + 1] = m /\ n \in Nat /\ \A k \in 1..n : t[k] = s[k]
    BY <1>2
  <2> HIDE DEF t
  <2>2. PICK S : Sum(S, s) /\ SayLength(s) = S[n]
    BY <1>2, SumExists
  <2>3. PICK T : Sum(T, t) /\ SayLength(t) = T[n + 1]
    BY <2>1, SumExists
  <2>4. S[n] = T[n]
    <3>1. n <= Len(s) /\ n <= Len(t) /\ Len(t) \in Nat /\ n \in 0..n
      BY <2>1
    <3>2. \A k \in 1..n : s[k] = t[k]
      BY <2>1
    <3> QED BY <2>1, <2>2, <2>3, <3>1, <3>2, SumUnique
  <2>5. T[n + 1] = T[n] + Length[m.type]
    <3> DEFINE j == n + 1
    <3>1. j \in 1..Len(t) /\ j - 1 = n /\ t[j] = m
      BY <2>1
    <3> HIDE DEF j
    <3>2. T[j] = T[j - 1] + Length[t[j].type]
      BY <2>3, <3>1, Zenon DEF Sum
    <3>3. T[j] = T[n] + Length[m.type]
      BY <3>1, <3>2
    <3> QED BY <3>3 DEF j
  <2>6. S[n] \in Nat
    BY <2>1, <2>2 DEF Sum
  <2> QED BY <2>1, <2>2, <2>3, <2>4, <2>5, <2>6, Zenon DEF t
<1> QED BY <1>1, <1>2

-----------------------------------------------------------------------------
(* What is added.                                                          *)

\* All values tried are numbers, one for each field, those of players known ones.
LEMMA ValuesType ==
    ASSUME NEW type \in DOMAIN Builder, Len(Fields[type]) \in Nat, NEW thorough \in BOOLEAN
    PROVE  \A v \in Values(type, thorough) : v \in [1..Len(Fields[type]) -> Int] /\ KnownPlayers(type, v)
<1> DEFINE fields  == Fields[type]
           n == Len(fields)
           samples(i) == Samples[fields[i].kind]
           low     == [i \in 1..n |-> samples(i)[1]]
           middle  == [i \in 1..n |-> samples(i)[(Len(samples(i)) + 1) \div 2]]
           high    == [i \in 1..n |-> samples(i)[Len(samples(i))]]
           varied(base, i) == {[base EXCEPT ![i] = samples(i)[j]] : j \in 1..Len(samples(i))}
           Tried(i) == {x \in Int : fields[i].kind = "player" => x \in 1..(2 * MAX_PLAYER)}
           All == {v \in [1..n -> Int] : \A i \in 1..n : v[i] \in Tried(i)}
<1>1. Values(type, thorough) = {low, middle, high} \cup
         IF thorough THEN UNION {varied(base, i) : base \in {low, middle, high}, i \in 1..n} ELSE {}
  BY DEF Values
<1>2. \A i \in 1..n : samples(i) \in Seq(Int) \ {<<>>}
  BY SamplesAssumption, Zenon
<1>8. \A i \in 1..n : fields[i].kind = "player" => samples(i) \in Seq(1..(2 * MAX_PLAYER))
  BY SamplesAssumption, Zenon
<1> HIDE DEF samples
<1>3. \A i \in 1..n : \A j \in 1..Len(samples(i)) : samples(i)[j] \in Tried(i)
  <2> SUFFICES ASSUME NEW i \in 1..n, NEW j \in 1..Len(samples(i)) PROVE samples(i)[j] \in Tried(i)
    OBVIOUS
  <2> DEFINE x == samples(i)
             players == 1..(2 * MAX_PLAYER)
  <2>1. x \in Seq(Int) /\ j \in 1..Len(x) /\ (fields[i].kind = "player" => x \in Seq(players))
    BY <1>2, <1>8, Zenon
  <2> HIDE DEF x, players
  <2>2. x[j] \in Int /\ (fields[i].kind = "player" => x[j] \in players)
    BY <2>1
  <2> QED BY <2>2 DEF x, players
<1>4. \A i \in 1..n : /\ 1 \in 1..Len(samples(i)) /\ (Len(samples(i)) + 1) \div 2 \in 1..Len(samples(i))
                      /\ Len(samples(i)) \in 1..Len(samples(i))
  <2> SUFFICES ASSUME NEW i \in 1..n
               PROVE  /\ 1 \in 1..Len(samples(i)) /\ (Len(samples(i)) + 1) \div 2 \in 1..Len(samples(i))
                      /\ Len(samples(i)) \in 1..Len(samples(i))
    OBVIOUS
  <2> DEFINE l == Len(samples(i))
  <2>1. l \in Nat \ {0}
    BY <1>2
  <2> HIDE DEF l
  <2>2. 1 \in 1..l /\ (l + 1) \div 2 \in 1..l /\ l \in 1..l
    BY <2>1
  <2> QED BY <2>2 DEF l
<1>5. low \in All /\ middle \in All /\ high \in All
  <2>1. \A i \in 1..n : samples(i)[1] \in Tried(i) /\ samples(i)[(Len(samples(i)) + 1) \div 2] \in Tried(i)
                        /\ samples(i)[Len(samples(i))] \in Tried(i)
    BY <1>3, <1>4, Zenon
  <2>2. \A i \in 1..n : Tried(i) \subseteq Int
    OBVIOUS
  <2> HIDE DEF Tried
  <2> QED BY <2>1, <2>2, Zenon
<1> HIDE DEF low, middle, high, n
<1>6. \A base \in All, i \in 1..n : \A v \in varied(base, i) : v \in All
  <2> SUFFICES ASSUME NEW base \in All, NEW i \in 1..n, NEW j \in 1..Len(samples(i))
               PROVE  [base EXCEPT ![i] = samples(i)[j]] \in All
    OBVIOUS
  <2> DEFINE y == samples(i)[j]
  <2>1. y \in Tried(i) /\ \A k \in 1..n : Tried(k) \subseteq Int
    BY <1>3, Zenon
  <2> HIDE DEF y, Tried
  <2>2. [base EXCEPT ![i] = y] \in All
    BY <2>1
  <2> QED BY <2>2 DEF y
<1> HIDE DEF varied, All, Tried
<1>7. \A v \in Values(type, thorough) : v \in All
  BY <1>1, <1>5, <1>6
<1> QED
  <2> SUFFICES ASSUME NEW v \in Values(type, thorough)
               PROVE  v \in [1..Len(Fields[type]) -> Int] /\ KnownPlayers(type, v)
    OBVIOUS
  <2>1. v \in [1..n -> Int] /\ \A k \in 1..n : v[k] \in Tried(k)
    BY <1>7, Zenon DEF All
  <2>2. \A k \in 1..n : fields[k].kind = "player" => v[k] \in 1..(2 * MAX_PLAYER)
    BY <2>1 DEF Tried
  <2> QED BY <2>1, <2>2, Zenon DEF n, KnownPlayers

\* What SampleCommunication may add: one of the types, or nothing.
Sayable == SaidTypes \cup {"none"}

\* What Added adds may be said, and is as long as its type.
LEMMA AddedSaid ==
    ASSUME NEW messages \in Seq(Said), NEW type \in Sayable, NEW more \in Added(messages, type)
    PROVE  more \in Seq(Said) /\ SayLength(messages) \in Nat /\ SayLength(more) = Plus(SayLength(messages), type)
<1>0. SayLength(messages) \in Nat
  <2>1. PICK S : Sum(S, messages) /\ SayLength(messages) = S[Len(messages)]
    BY SumExists
  <2>2. Len(messages) \in 0..Len(messages)
    OBVIOUS
  <2> QED BY <2>1, <2>2 DEF Sum
<1>1. CASE type = "none"
  <2>1. more = messages
    BY <1>1 DEF Added
  <2> QED BY <1>0, <1>1, <2>1, Zenon DEF Plus
<1>2. CASE type # "none"
  <2>1. type \in SaidTypes
    BY <1>2 DEF Sayable
  <2>2. PICK vs \in Values(type, messages = <<>>) : more = Append(messages, [type |-> type, values |-> vs])
    BY <1>2, Zenon DEF Added
  <2>3. vs \in [1..Len(Fields[type]) -> Int] /\ KnownPlayers(type, vs)
    <3>1. type \in DOMAIN Builder /\ Len(Fields[type]) \in Nat /\ (messages = <<>>) \in BOOLEAN
      BY <2>1, Lengths, Zenon
    <3> DEFINE b == (messages = <<>>)
    <3> HIDE DEF b
    <3>2. vs \in Values(type, b) /\ b \in BOOLEAN
      BY <2>2, <3>1, Zenon DEF b
    <3> QED BY <3>1, <3>2, ValuesType, Zenon
  <2> DEFINE m == [type |-> type, values |-> vs]
  <2>4. m \in Said /\ m.type = type
    BY <2>1, <2>3, SaidMember, Zenon
  <2> HIDE DEF m
  <2>5. more = Append(messages, m)
    BY <2>2 DEF m
  <2> QED BY <1>0, <1>2, <2>4, <2>5, SayLengthOf, Zenon DEF Plus
<1> QED BY <1>1, <1>2

\* What SampleCommunication adds to length characters fits.
Fitting(length, types) ==
    /\ types[1] \in Sayable /\ types[2] \in Sayable /\ types[3] \in Sayable
    /\ Plus(Plus(Plus(length, types[1]), types[2]), types[3]) \in 0..playerSayMsgSize

\* What fits leaves the length within the say command;
LEMMA FitsPlus ==
    ASSUME NEW type \in Sayable, NEW length \in 0..playerSayMsgSize, type = "none" \/ Fits(type, length)
    PROVE  Plus(length, type) \in 0..playerSayMsgSize
<1>1. CASE type = "none"
  BY <1>1 DEF Plus
<1>2. CASE type # "none"
  <2>1. type \in SaidTypes
    BY <1>2 DEF Sayable
  <2>2. Length[type] \in 1..10
    BY <2>1, Lengths
  <2> QED BY <1>2, <2>2 DEF Plus, Fits, playerSayMsgSize
<1> QED BY <1>1, <1>2

\* sayBallAndPlayers adds only what fits,
LEMMA BallAndPlayersFits ==
    ASSUME NEW r, NEW a, NEW b, NEW near, NEW other, NEW first, NEW length
    PROVE  LET type == BallAndPlayers(r, a, b, near, other, first, length)
           IN  type \in Sayable /\ (type = "none" \/ Fits(type, length))
<1>1. /\ "Ball" \in Sayable /\ "BallPlayer" \in Sayable /\ "BallGoalie" \in Sayable /\ "GoalieAndPlayer" \in Sayable
      /\ "Goalie" \in Sayable /\ "ThreePlayer" \in Sayable /\ "TwoPlayer" \in Sayable /\ "OnePlayer" \in Sayable
      /\ "none" \in Sayable
  BY DEF Sayable, SaidTypes
<1> QED BY <1>1, Zenon DEF BallAndPlayers

\* and so does SampleCommunication, for everything that it has seen.
LEMMA CommunicationsFit ==
    ASSUME NEW length \in 0..playerSayMsgSize, NEW types \in Communications[length]
    PROVE  Fitting(length, types)
<1> DEFINE spoken(l, phase, sender, weak, mustBall, mustGoalie, near, other, first, n, before) ==
             LET recovery  == Recovery(phase, sender, weak, l)
                 talkative == phase \in {"play", "set_play"}
                 one       == Plus(l, recovery)
                 objects   == IF talkative /\ (mustBall \/ mustGoalie \/ sender \/ one > 0)
                              THEN BallAndPlayers(Ranking(n, before), mustBall, mustGoalie, near, other, first, one)
                              ELSE "none"
             IN  <<recovery, objects, IF talkative THEN Stamina(Plus(one, objects)) ELSE "none">>
           senders(l) == IF l = 0 THEN BOOLEAN ELSE {TRUE}
<1>0. Communications =
        [l \in 0..playerSayMsgSize |->
           {spoken(l, phase, sender, weak, mustBall, mustGoalie, near, other, first, n, before) :
              phase \in Phases, sender \in senders(l), weak \in BOOLEAN,
              mustBall \in BOOLEAN, mustGoalie \in BOOLEAN, near \in BOOLEAN, other \in BOOLEAN,
              first \in BOOLEAN, n \in 0..3, before \in {0, 1, 2, NoBall}}]
  BY DEF Communications
<1> HIDE DEF spoken, senders
<1>00. Communications[length] =
           {spoken(length, phase, sender, weak, mustBall, mustGoalie, near, other, first, n, before) :
              phase \in Phases, sender \in senders(length), weak \in BOOLEAN,
              mustBall \in BOOLEAN, mustGoalie \in BOOLEAN, near \in BOOLEAN, other \in BOOLEAN,
              first \in BOOLEAN, n \in 0..3, before \in {0, 1, 2, NoBall}}
  BY <1>0, Z3
<1>1. PICK phase, sender, weak, mustBall, mustGoalie, near, other, first, n, before :
        types = spoken(length, phase, sender, weak, mustBall, mustGoalie, near, other, first, n, before)
  BY <1>00
<1> DEFINE recovery  == Recovery(phase, sender, weak, length)
           talkative == phase \in {"play", "set_play"}
           one       == Plus(length, recovery)
           objects   == IF talkative /\ (mustBall \/ mustGoalie \/ sender \/ one > 0)
                        THEN BallAndPlayers(Ranking(n, before), mustBall, mustGoalie, near, other, first, one)
                        ELSE "none"
           two       == Plus(one, objects)
           stamina   == IF talkative THEN Stamina(two) ELSE "none"
<1>2. types = <<recovery, objects, stamina>>
  BY <1>1 DEF spoken
<1>3. "none" \in Sayable /\ "Recovery" \in Sayable /\ "Stamina" \in Sayable
  BY DEF Sayable, SaidTypes
<1>4. recovery \in Sayable /\ (recovery = "none" \/ Fits(recovery, length))
  BY <1>3, Zenon DEF Recovery
<1>5. one \in 0..playerSayMsgSize
  <2> HIDE DEF recovery
  <2> QED BY <1>4, FitsPlus
<1> HIDE DEF one
<1>6. objects \in Sayable /\ (objects = "none" \/ Fits(objects, one))
  BY <1>3, BallAndPlayersFits, Zenon
<1>7. two \in 0..playerSayMsgSize
  <2> HIDE DEF objects
  <2> QED BY <1>5, <1>6, FitsPlus
<1> HIDE DEF two
<1>8. stamina \in Sayable /\ (stamina = "none" \/ Fits(stamina, two))
  BY <1>3, Zenon DEF Stamina
<1>9. Plus(two, stamina) \in 0..playerSayMsgSize
  <2> HIDE DEF stamina
  <2> QED BY <1>7, <1>8, FitsPlus
<1>10. types[1] = recovery /\ types[2] = objects /\ types[3] = stamina
  BY <1>2
<1> HIDE DEF recovery, objects, stamina
<1> QED BY <1>4, <1>6, <1>8, <1>9, <1>10, Zenon DEF Fitting, one, two

-----------------------------------------------------------------------------
(* What is built.                                                          *)

\* The sums never fall.
LEMMA SumGrows ==
    ASSUME NEW S, NEW messages \in Seq(Said), Sum(S, messages)
    PROVE  /\ \A k \in 0..Len(messages) : S[k] \in Nat
           /\ \A k \in 1..Len(messages) : Length[messages[k].type] \in 1..10 /\ S[k] = S[k - 1] + Length[messages[k].type]
           /\ \A j \in 0..Len(messages) : \A i \in 0..j : S[i] <= S[j]
<1> DEFINE n == Len(messages)
           L(k) == Length[messages[k].type]
           R == {j \in 0..n : \A i \in 0..j : S[i] <= S[j]}
<1>1. n \in Nat
  OBVIOUS
<1>2. \A k \in 1..n : L(k) \in 1..10
  <2>1. \A k \in 1..n : messages[k] \in Said
    OBVIOUS
  <2> QED BY <2>1, MessageUnderstood, Zenon
<1>3. \A k \in 0..n : S[k] \in Nat
  BY DEF Sum
<1>4. \A k \in 1..n : S[k] = S[k - 1] + L(k)
  BY Zenon DEF Sum
<1> HIDE DEF L, n
<1>5. 0 \in R
  BY <1>1, <1>3
<1>6. ASSUME NEW j \in 0..(n - 1), j \in R PROVE j + 1 \in R
  <2> DEFINE k == j + 1
  <2>1. k \in 0..n /\ k \in 1..n /\ k - 1 = j /\ j \in 0..n /\ j \in Nat
    BY <1>1
  <2>2. \A i \in 0..k : i = k \/ i \in 0..j
    BY <2>1
  <2> HIDE DEF k
  <2>3. S[k] = S[k - 1] + L(k) /\ L(k) \in 1..10
    BY <1>2, <1>4, <2>1, Zenon
  <2>4. S[j] \in Nat /\ S[k] = S[j] + L(k)
    BY <1>3, <2>1, <2>3
  <2>5. \A i \in 0..j : S[i] \in Nat /\ S[i] <= S[j]
    BY <1>1, <1>3, <1>6, <2>1
  <2>6. \A i \in 0..k : S[i] <= S[k]
    <3>1. k \in 0..n
      BY <2>1
    <3>2. TAKE i \in 0..k
    <3>3. CASE i = k
      BY <1>3, <3>1, <3>3
    <3>4. CASE i \in 0..j
      <4>1. S[i] \in Nat /\ S[i] <= S[j] /\ S[j] \in Nat /\ S[k] = S[j] + L(k) /\ L(k) \in 1..10
        BY <2>3, <2>4, <2>5, <3>4
      <4> QED BY <4>1
    <3> QED BY <2>2, <3>3, <3>4
  <2>7. k \in R
    BY <2>1, <2>6
  <2> QED BY <2>7 DEF k
<1> HIDE DEF R
<1>7. \A j \in 0..n : j \in R
  BY <1>1, <1>5, <1>6, UpTo
<1> QED BY <1>2, <1>3, <1>4, <1>7, Zenon DEF R, L, n

\* What is left of the string when h of its messages have been heard; pos tells where the
\* messages began.
Written(s, messages, h, pos) ==
    /\ Sum(pos, messages) /\ h \in 0..Len(messages)
    /\ s \in Seq(Char) /\ Len(s) = pos[Len(messages)] - pos[h]
    /\ \A j \in (h + 1)..Len(messages) :
         /\ Sendable(messages[j])
         /\ \A i \in 1..Length[messages[j].type] : s[(pos[j - 1] - pos[h]) + i] = ToStr(messages[j])[i]

\* An empty string is made of no messages,
LEMMA WriteNone == \E pos : Written(<<>>, <<>>, 0, pos)
<1> DEFINE e == <<>>
<1>1. e \in Seq(Said) /\ e \in Seq(Char) /\ Len(e) = 0
  OBVIOUS
<1> HIDE DEF e
<1>2. PICK pos : Sum(pos, e)
  BY <1>1, SumExists, Zenon
<1>3. pos[0] = 0
  BY <1>2 DEF Sum
<1>4. Written(e, e, 0, pos)
  BY <1>1, <1>2, <1>3 DEF Written
<1> QED BY <1>4 DEF e

\* and the characters of one more message lie behind those of the others.
LEMMA WriteOne ==
    ASSUME NEW s, NEW messages \in Seq(Said), NEW S, Written(s, messages, 0, S), NEW m \in Said, Sendable(m)
    PROVE  /\ \E pos : Written(s \o ToStr(m), Append(messages, m), 0, pos)
           /\ Len(s \o ToStr(m)) = Len(s) + Length[m.type]
<1> DEFINE n == Len(messages)
           more == Append(messages, m)
           c == ToStr(m)
           l == Length[m.type]
           t == s \o c
<1>1. more \in Seq(Said) /\ Len(more) = n + 1 /\ more[n + 1] = m /\ n \in Nat /\ \A k \in 1..n : more[k] = messages[k]
  OBVIOUS
<1>2. c \in Seq(Char) /\ Len(c) = l /\ l \in 1..10
  BY MessageUnderstood
<1>3. Sum(S, messages) /\ s \in Seq(Char) /\ Len(s) = S[n] - S[0]
  BY Zenon DEF Written
<1>4. \A j \in 1..n : Sendable(messages[j]) /\ \A i \in 1..Length[messages[j].type] : s[(S[j - 1] - S[0]) + i] = ToStr(messages[j])[i]
  BY DEF Written
<1>5. S[0] = 0 /\ (\A k \in 0..n : S[k] \in Nat)
      /\ (\A k \in 1..n : Length[messages[k].type] \in 1..10 /\ S[k] = S[k - 1] + Length[messages[k].type])
      /\ \A j \in 0..n : \A i \in 0..j : S[i] <= S[j]
  <2>1. S[0] = 0
    BY <1>3, Zenon DEF Sum
  <2> QED BY <1>3, <2>1, SumGrows
<1> HIDE DEF more
<1>6. PICK T : Sum(T, more)
  BY <1>1, SumExists, Zenon
<1>7. \A k \in 0..n : T[k] = S[k]
  <2>1. n <= Len(messages) /\ n <= Len(more) /\ Len(more) \in Nat /\ Len(messages) \in Nat
    BY <1>1
  <2>2. \A k \in 1..n : messages[k] = more[k]
    BY <1>1
  <2>3. \A k \in 0..n : S[k] = T[k]
    BY <1>1, <1>3, <1>6, <2>1, <2>2, SumUnique
  <2> QED BY <2>3
<1>8. T[n + 1] = S[n] + l
  <2> DEFINE j == n + 1
  <2>1. j \in 1..Len(more) /\ j - 1 = n /\ more[j] = m /\ n \in 0..n
    BY <1>1
  <2> HIDE DEF j
  <2>2. T[j] = T[j - 1] + Length[more[j].type]
    BY <1>6, <2>1, Zenon DEF Sum
  <2>3. T[j] = S[n] + l
    BY <1>7, <2>1, <2>2
  <2> QED BY <2>3 DEF j
<1> HIDE DEF c, l
<1>9. /\ t \in Seq(Char) /\ Len(t) = Len(s) + Len(c)
      /\ \A i \in 1..(Len(s) + Len(c)) : t[i] = IF i <= Len(s) THEN s[i] ELSE c[i - Len(s)]
  BY <1>2, <1>3, ConcatProperties, Zenon
<1> HIDE DEF t, n
<1>10. Len(s) = S[n] /\ S[n] \in Nat /\ n \in 0..n
  <2>1. n \in 0..n
    BY <1>1
  <2> QED BY <1>3, <1>5, <2>1
<1>11. Len(t) = S[n] + l
  BY <1>2, <1>9, <1>10
<1>12. \A j \in 1..n, i \in 1..10 : i <= Length[messages[j].type] => t[(T[j - 1] - T[0]) + i] = ToStr(messages[j])[i]
  <2> SUFFICES ASSUME NEW j \in 1..n, NEW i \in 1..10, i <= Length[messages[j].type]
               PROVE  t[(T[j - 1] - T[0]) + i] = ToStr(messages[j])[i]
    OBVIOUS
  <2> DEFINE k == S[j - 1] + i
  <2>1. j - 1 \in 0..n /\ j \in 0..n /\ 0 \in 0..n
    BY <1>1
  <2>2. S[j] = S[j - 1] + Length[messages[j].type] /\ S[j] <= S[n] /\ S[j - 1] \in Nat /\ Length[messages[j].type] \in 1..10
    BY <1>5, <1>10, <2>1
  <2>3. k \in 1..(Len(s) + Len(c)) /\ k <= Len(s)
    <3> DEFINE x == S[j - 1]
               y == Length[messages[j].type]
               z == S[n]
               e == Len(s)
               g == Len(c)
    <3>1. S[j] = x + y /\ S[j] <= z /\ x \in Nat /\ y \in 1..10
      BY <2>2
    <3>2. i <= y /\ e = z /\ z \in Nat /\ k = x + i
      BY <1>10
    <3>3. g \in 1..10
      BY <1>2
    <3> HIDE DEF x, y, z, e, g, k
    <3>4. k \in 1..(e + g) /\ k <= e
      BY <3>1, <3>2, <3>3
    <3> QED BY <3>4 DEF e, g
  <2>4. (T[j - 1] - T[0]) + i = k /\ (S[j - 1] - S[0]) + i = k
    BY <1>5, <1>7, <2>1, <2>2
  <2> HIDE DEF k
  <2>5. t[k] = s[k]
    BY <1>9, <2>3, Zenon
  <2>6. i \in 1..Length[messages[j].type]
    BY <2>2
  <2>7. s[(S[j - 1] - S[0]) + i] = ToStr(messages[j])[i]
    BY <1>4, <2>6, Zenon
  <2> QED BY <2>4, <2>5, <2>7
<1>13. \A i \in 1..l : t[(T[n] - T[0]) + i] = c[i]
  <2> SUFFICES ASSUME NEW i \in 1..l PROVE t[(T[n] - T[0]) + i] = c[i]
    OBVIOUS
  <2> DEFINE k == S[n] + i
  <2>1. 0 \in 0..n
    BY <1>1
  <2>2. (T[n] - T[0]) + i = k
    BY <1>2, <1>5, <1>7, <1>10, <2>1
  <2>3. k \in 1..(Len(s) + Len(c)) /\ ~(k <= Len(s)) /\ k - Len(s) = i
    BY <1>2, <1>10
  <2> HIDE DEF k
  <2>4. t[k] = c[k - Len(s)]
    BY <1>9, <2>3, Zenon
  <2> QED BY <2>2, <2>3, <2>4
<1>14. Written(t, more, 0, T)
  <2>1. Len(t) = T[Len(more)] - T[0]
    <3>1. 0 \in 0..n
      BY <1>1
    <3> QED BY <1>1, <1>2, <1>5, <1>7, <1>8, <1>10, <1>11, <3>1 DEF n
  <2>2. ASSUME NEW j \in (0 + 1)..Len(more)
        PROVE  /\ Sendable(more[j])
               /\ \A i \in 1..Length[more[j].type] : t[(T[j - 1] - T[0]) + i] = ToStr(more[j])[i]
    <3>1. CASE j = n + 1
      <4>1. more[j] = m /\ j - 1 = n
        BY <1>1, <3>1 DEF n
      <4> QED BY <1>13, <4>1 DEF c, l
    <3>2. CASE j # n + 1
      <4>1. j \in 1..n
        BY <1>1, <3>2 DEF n
      <4>2. more[j] = messages[j] /\ Sendable(messages[j]) /\ Length[messages[j].type] \in 1..10
        BY <1>1, <1>4, <1>5, <4>1, Zenon DEF n
      <4>3. \A i \in 1..Length[messages[j].type] : i \in 1..10 /\ i <= Length[messages[j].type]
        BY <4>2
      <4>4. \A i \in 1..Length[messages[j].type] : t[(T[j - 1] - T[0]) + i] = ToStr(messages[j])[i]
        BY <1>12, <4>1, <4>3, Zenon
      <4> QED BY <4>2, <4>4, Zenon
    <3> QED BY <3>1, <3>2
  <2>3. 0 \in 0..Len(more)
    BY <1>1 DEF n
  <2> QED BY <1>6, <1>9, <2>1, <2>2, <2>3, Zenon DEF Written
<1> QED BY <1>2, <1>9, <1>14, Zenon DEF t, c, l, more

\* f[k] are those of the first k messages that no builder refuses.
SentUp(f, messages) ==
    /\ f \in [0..Len(messages) -> Seq(Said)] /\ f[0] = <<>>
    /\ \A k \in 1..Len(messages) :
         f[k] = IF Sendable(messages[k]) THEN Append(f[k - 1], messages[k]) ELSE f[k - 1]

\* Such a function defines Sent.
LEMMA SentExists ==
    ASSUME NEW messages \in Seq(Said)
    PROVE  \E f : SentUp(f, messages) /\ Sent(messages) = f[Len(messages)]
<1> DEFINE n == Len(messages)
           V == Seq(Said)
           e == <<>>
           Go(k, x) == IF Sendable(messages[k]) THEN Append(x, messages[k]) ELSE x
           sent[k \in 0..Len(messages)] ==
             IF k = 0 THEN <<>>
             ELSE IF Sendable(messages[k]) THEN Append(sent[k - 1], messages[k]) ELSE sent[k - 1]
           step == [k \in 1..n |-> [x \in V |-> Go(k, x)]]
<1>1. Sent(messages) = sent[n]
  BY Zenon DEF Sent
<1>2. n \in Nat /\ (\A k \in 1..n, x \in V : Go(k, x) \in V) /\ e \in V
  OBVIOUS
<1> HIDE DEF V
<1>3. step \in Steps(n, V)
  <2> HIDE DEF Go
  <2> QED BY <1>2 DEF Steps
<1>4. PICK f : Recursive(f, n, V, e, step)
  <2> HIDE DEF step, e
  <2> QED BY <1>2, <1>3, Recursion
<1>5. f \in [0..n -> V] /\ f[0] = e /\ \A k \in 1..n : f[k] = Go(k, f[k - 1])
  <2>1. f \in [0..n -> V] /\ f[0] = e /\ \A k \in 1..n : f[k] = step[k][f[k - 1]]
    BY <1>4, Zenon DEF Recursive
  <2>2. \A k \in 1..n, x \in V : step[k][x] = Go(k, x)
    BY Zenon
  <2> HIDE DEF step, Go, e
  <2>3. \A k \in 1..n : f[k - 1] \in V
    BY <1>2, <2>1
  <2> QED BY <2>1, <2>2, <2>3, Zenon
<1>6. f = [k \in 0..n |-> IF k = 0 THEN e ELSE Go(k, f[k - 1])]
  <2> HIDE DEF Go, e
  <2> QED BY <1>2, <1>5
<1>7. sent = [k \in 0..n |-> IF k = 0 THEN e ELSE Go(k, sent[k - 1])]
  BY <1>6, Zenon
<1> HIDE DEF sent
<1>8. sent = [k \in 0..n |-> sent[k]] /\ sent[0] = e /\ \A k \in 1..n : sent[k] = Go(k, sent[k - 1])
  <2> HIDE DEF Go, e
  <2> QED BY <1>2, <1>7
<1>9. Recursive(sent, n, V, e, step)
  <2>1. \A k \in 1..n : sent[k - 1] \in V => sent[k] = step[k][sent[k - 1]]
    BY <1>8, Zenon
  <2> HIDE DEF step, e, Go
  <2> QED BY <1>2, <1>3, <1>8, <2>1, RecursionType
<1>10. sent \in [0..n -> V]
  BY <1>9, Zenon DEF Recursive
<1> QED BY <1>1, <1>8, <1>10, Zenon DEF SentUp, V

\* makeSayCommand's turn with a message.
Made == [str : Seq(Char), accepted : Seq(Said)]
Nothing == [str |-> <<>>, accepted |-> <<>>]
WithRoom(m, to) == IF Len(to) + Length[m.type] > playerSayMsgSize THEN <<>> ELSE ToStr(m)
Make(m, before) ==
    IF WithRoom(m, before.str) = <<>> THEN before
    ELSE [str |-> before.str \o WithRoom(m, before.str), accepted |-> Append(before.accepted, m)]

\* g[k] is what makeSayCommand has after k messages.
MadeUp(g, messages) ==
    /\ g \in [0..Len(messages) -> Made] /\ g[0] = Nothing
    /\ \A k \in 1..Len(messages) : g[k] = Make(messages[k], g[k - 1])

\* A turn makes a string and a sequence of messages of what were such,
LEMMA MakeType ==
    /\ Nothing \in Made
    /\ \A m \in Said, x \in Made : Make(m, x) \in Made
<1>1. Nothing \in Made
  BY DEF Nothing, Made
<1>2. ASSUME NEW m \in Said, NEW x \in Made PROVE Make(m, x) \in Made
  <2> DEFINE s == WithRoom(m, x.str)
  <2>1. x.str \in Seq(Char) /\ x.accepted \in Seq(Said)
    BY DEF Made
  <2>2. s \in Seq(Char)
    <3>1. <<>> \in Seq(Char)
      OBVIOUS
    <3>2. ToStr(m) \in Seq(Char)
      BY <3>1, MessageUnderstood, Zenon
    <3> QED BY <3>1, <3>2, Zenon DEF WithRoom
  <2> HIDE DEF s
  <2>3. x.str \o s \in Seq(Char) /\ Append(x.accepted, m) \in Seq(Said)
    BY <2>1, <2>2
  <2>4. [str |-> x.str \o s, accepted |-> Append(x.accepted, m)] \in Made
    BY <2>3 DEF Made
  <2> QED BY <2>4, Zenon DEF Make, s
<1> QED BY <1>1, <1>2

\* and makeSayCommand's loop consists of its turns.
LEMMA MadeExists ==
    ASSUME said \in Seq(Said), MakeSayCommand
    PROVE  \E g : MadeUp(g, said) /\ str' = g[Len(said)].str /\ accepted' = g[Len(said)].accepted
<1> DEFINE n == Len(said)
           Go(k, x) == Make(said[k], x)
           toStr(m, to) == IF Len(to) + Length[m.type] > playerSayMsgSize THEN <<>> ELSE ToStr(m)
           made[k \in 0..Len(said)] ==
             IF k = 0 THEN [str |-> <<>>, accepted |-> <<>>]
             ELSE LET before == made[k - 1]
                      s == toStr(said[k], before.str)
                  IN  IF s = <<>> THEN before
                      ELSE [str |-> before.str \o s, accepted |-> Append(before.accepted, said[k])]
           step == [k \in 1..n |-> [x \in Made |-> Go(k, x)]]
<1>1. str' = made[n].str /\ accepted' = made[n].accepted
  BY Zenon DEF MakeSayCommand
<1>2. n \in Nat /\ (\A k \in 1..n, x \in Made : Go(k, x) \in Made) /\ Nothing \in Made
  <2>1. n \in Nat /\ \A k \in 1..n : said[k] \in Said
    OBVIOUS
  <2> QED BY <2>1, MakeType, Zenon
<1>3. step \in Steps(n, Made)
  <2> HIDE DEF Go
  <2> QED BY <1>2 DEF Steps
<1>4. PICK f : Recursive(f, n, Made, Nothing, step)
  <2> HIDE DEF step
  <2> QED BY <1>2, <1>3, Recursion
<1>5. f \in [0..n -> Made] /\ f[0] = Nothing /\ \A k \in 1..n : f[k] = Go(k, f[k - 1])
  <2>1. f \in [0..n -> Made] /\ f[0] = Nothing /\ \A k \in 1..n : f[k] = step[k][f[k - 1]]
    BY <1>4, Zenon DEF Recursive
  <2>2. \A k \in 1..n, x \in Made : step[k][x] = Go(k, x)
    BY Zenon
  <2> HIDE DEF step, Go
  <2>3. \A k \in 1..n : f[k - 1] \in Made
    BY <1>2, <2>1
  <2> QED BY <2>1, <2>2, <2>3, Zenon
<1>6. f = [k \in 0..n |-> IF k = 0 THEN Nothing ELSE Go(k, f[k - 1])]
  <2> HIDE DEF Go
  <2> QED BY <1>2, <1>5
<1>60. made = [k \in 0..Len(said) |->
                IF k = 0 THEN [str |-> <<>>, accepted |-> <<>>]
                ELSE LET before == made[k - 1]
                         s == toStr(said[k], before.str)
                     IN  IF s = <<>> THEN before
                         ELSE [str |-> before.str \o s, accepted |-> Append(before.accepted, said[k])]]
  BY <1>6, Zenon DEF Nothing, Make, WithRoom
<1>7. made = [k \in 0..n |-> IF k = 0 THEN Nothing ELSE Go(k, made[k - 1])]
  <2> HIDE DEF made
  <2> QED BY <1>60, Zenon DEF Nothing, Make, WithRoom
<1> HIDE DEF made
<1>8. made = [k \in 0..n |-> made[k]] /\ made[0] = Nothing /\ \A k \in 1..n : made[k] = Go(k, made[k - 1])
  <2> HIDE DEF Go
  <2> QED BY <1>2, <1>7
<1>9. Recursive(made, n, Made, Nothing, step)
  <2>1. \A k \in 1..n : made[k - 1] \in Made => made[k] = step[k][made[k - 1]]
    BY <1>8, Zenon
  <2> HIDE DEF step, Go
  <2> QED BY <1>2, <1>3, <1>8, <2>1, RecursionType
<1>10. made \in [0..n -> Made]
  BY <1>9, Zenon DEF Recursive
<1>11. MadeUp(made, said)
  BY <1>8, <1>10, Zenon DEF MadeUp
<1> QED BY <1>1, <1>11, Zenon

\* After k messages the string is that of those no builder refuses, and no longer than the
\* k messages together.
MadeSo(k, g, f, S) ==
    /\ g[k].accepted = f[k] /\ \E pos : Written(g[k].str, f[k], 0, pos)
    /\ Len(g[k].str) \in Nat /\ Len(g[k].str) <= S[k]
    /\ Len(f[k]) \in Nat /\ Len(f[k]) <= k

\* Messages that have room together are refused by nothing but their builder.
LEMMA MadeIsSent ==
    ASSUME NEW messages \in Seq(Said), SayLength(messages) \in 0..playerSayMsgSize,
           NEW g, MadeUp(g, messages), NEW f, SentUp(f, messages), NEW S, Sum(S, messages),
           SayLength(messages) = S[Len(messages)]
    PROVE  \A k \in 0..Len(messages) : MadeSo(k, g, f, S)
<1> DEFINE n == Len(messages)
           R == {k \in 0..n : MadeSo(k, g, f, S)}
<1>1. n \in Nat /\ \A k \in 1..n : messages[k] \in Said
  OBVIOUS
<1>2. /\ \A k \in 0..n : S[k] \in Nat
      /\ \A k \in 1..n : Length[messages[k].type] \in 1..10 /\ S[k] = S[k - 1] + Length[messages[k].type]
      /\ \A j \in 0..n : \A i \in 0..j : S[i] <= S[j]
      /\ S[n] <= 10
  <2>1. S[n] <= 10
    BY DEF playerSayMsgSize
  <2> QED BY <2>1, SumGrows
<1>3. 0 \in R
  <2>1. f[0] = <<>> /\ g[0] = Nothing
    BY Zenon DEF SentUp, MadeUp
  <2>2. g[0].accepted = f[0] /\ g[0].str = <<>>
    BY <2>1 DEF Nothing
  <2>3. \E pos : Written(g[0].str, f[0], 0, pos)
    BY <2>1, <2>2, WriteNone, Zenon
  <2>4. Len(<<>>) = 0 /\ 0 \in 0..n /\ S[0] \in Nat
    BY <1>1, <1>2
  <2>5. Len(g[0].str) = 0 /\ Len(f[0]) = 0
    BY <2>1, <2>2, <2>4
  <2>6. Len(g[0].str) \in Nat /\ Len(g[0].str) <= S[0] /\ Len(f[0]) \in Nat /\ Len(f[0]) <= 0
    BY <2>4, <2>5
  <2>7. MadeSo(0, g, f, S)
    BY <2>2, <2>3, <2>6, Zenon DEF MadeSo
  <2> QED BY <2>4, <2>7
<1> HIDE DEF n
<1>4. ASSUME NEW i \in 0..(n - 1), i \in R PROVE i + 1 \in R
  <2> DEFINE k == i + 1
             m == messages[k]
             l == Length[m.type]
             x == g[i]
  <2>1. k \in 1..n /\ k \in 0..n /\ k - 1 = i /\ i \in 0..n /\ i \in Nat /\ n \in 0..n /\ k \in 0..n
    BY <1>1
  <2> HIDE DEF k
  <2>2. MadeSo(i, g, f, S)
    BY <1>4
  <2>3. PICK pos : Written(x.str, f[i], 0, pos)
    BY <2>2, Zenon DEF MadeSo
  <2>4. x.accepted = f[i] /\ Len(x.str) \in Nat /\ Len(x.str) <= S[i] /\ Len(f[i]) \in Nat /\ Len(f[i]) <= i
    BY <2>2, Zenon DEF MadeSo
  <2>5. m \in Said /\ l \in 1..10 /\ S[k] = S[i] + l /\ S[k] <= S[n] /\ S[i] \in Nat /\ S[n] \in Nat
    <3>1. m \in Said
      BY <1>1, <2>1, Zenon
    <3>2. l \in 1..10 /\ S[k] = S[k - 1] + l
      BY <1>2, <2>1, Zenon
    <3>3. S[k] <= S[n] /\ S[i] \in Nat /\ S[n] \in Nat
      BY <1>2, <2>1, Zenon
    <3> QED BY <2>1, <3>1, <3>2, <3>3, Zenon
  <2>6. f[i] \in Seq(Said)
    BY <2>1, Zenon DEF SentUp, n
  <2>7. g[k] = Make(m, x) /\ f[k] = IF Sendable(m) THEN Append(f[i], m) ELSE f[i]
    <3>1. g[k] = Make(messages[k], g[k - 1])
      BY <2>1, Zenon DEF MadeUp, n
    <3>2. f[k] = IF Sendable(messages[k]) THEN Append(f[k - 1], messages[k]) ELSE f[k - 1]
      BY <2>1, Zenon DEF SentUp, n
    <3> QED BY <2>1, <3>1, <3>2, Zenon
  <2> SUFFICES MadeSo(k, g, f, S)
    BY <2>1 DEF k
  <2> HIDE DEF R
  <2>8. CASE Sendable(m)
    <3> DEFINE c == ToStr(m)
               s == x.str
               a == Len(s)
    <3>1. ~(a + l > playerSayMsgSize)
      <4> HIDE DEF l, m, a
      <4>1. a \in Nat /\ a <= S[i]
        BY <2>4, Zenon DEF a
      <4> QED BY <1>2, <2>5, <4>1 DEF playerSayMsgSize
    <3>2. c # <<>>
      BY <2>5, <2>8, MessageUnderstood, Zenon
    <3>3. WithRoom(m, s) = c
      BY <3>1, Zenon DEF WithRoom
    <3>4. g[k] = [str |-> s \o c, accepted |-> Append(f[i], m)]
      BY <2>4, <2>7, <3>2, <3>3, Zenon DEF Make
    <3>5. f[k] = Append(f[i], m)
      BY <2>7, <2>8, Zenon
    <3>6. g[k].str = s \o c /\ g[k].accepted = f[k]
      <4> DEFINE u == s \o c
                 v == Append(f[i], m)
      <4> HIDE DEF u, v
      <4>1. g[k] = [str |-> u, accepted |-> v] /\ f[k] = v
        BY <3>4, <3>5, Zenon DEF u, v
      <4>2. g[k].str = u /\ g[k].accepted = v
        BY <4>1
      <4> QED BY <4>1, <4>2, Zenon DEF u
    <3>7. (\E p : Written(s \o c, Append(f[i], m), 0, p)) /\ Len(s \o c) = Len(s) + l
      BY <2>3, <2>5, <2>6, <2>8, WriteOne, Zenon
    <3>8. \E p : Written(g[k].str, f[k], 0, p)
      BY <3>5, <3>6, <3>7, Zenon
    <3>9. Len(g[k].str) \in Nat /\ Len(g[k].str) <= S[k]
      <4>1. Len(g[k].str) = a + l
        BY <3>6, <3>7, Zenon
      <4>2. a \in Nat /\ a <= S[i]
        BY <2>4, Zenon
      <4> HIDE DEF l, m, a
      <4> QED BY <2>5, <4>1, <4>2
    <3>10. Len(f[k]) \in Nat /\ Len(f[k]) <= k
      <4> HIDE DEF m
      <4>1. Len(Append(f[i], m)) = Len(f[i]) + 1
        BY <2>5, <2>6
      <4>2. k = i + 1
        BY DEF k
      <4> QED BY <2>1, <2>4, <3>5, <4>1, <4>2
    <3> QED BY <3>6, <3>8, <3>9, <3>10, Zenon DEF MadeSo
  <2>9. CASE ~Sendable(m)
    <3>1. ToStr(m) = <<>>
      BY <2>5, <2>9, MessageUnderstood, Zenon
    <3>2. WithRoom(m, x.str) = <<>>
      BY <3>1, Zenon DEF WithRoom
    <3>3. g[k] = g[i] /\ f[k] = f[i]
      BY <2>7, <2>9, <3>2, Zenon DEF Make
    <3>4. Len(x.str) <= S[k] /\ Len(f[i]) <= k
      <4> HIDE DEF l, m
      <4> DEFINE a == Len(x.str)
                 b == Len(f[i])
      <4>1. a \in Nat /\ a <= S[i] /\ b \in Nat /\ b <= i
        BY <2>4, Zenon
      <4> HIDE DEF a, b, x
      <4>2. a <= S[k] /\ b <= k
        BY <2>1, <2>5, <4>1 DEF k
      <4> QED BY <4>2 DEF a, b
    <3> QED BY <2>3, <2>4, <3>3, <3>4, Zenon DEF MadeSo
  <2> QED BY <2>8, <2>9, Zenon
<1> HIDE DEF R
<1>5. \A k \in 0..n : k \in R
  BY <1>1, <1>3, <1>4, UpTo DEF n
<1> QED BY <1>5 DEF R, n

-----------------------------------------------------------------------------
(* What is heard.                                                          *)

\* The string begins with the message.
Ahead(m, s) ==
    /\ m \in Said /\ Sendable(m) /\ s # <<>> /\ Builder[m.type].header = s[1]
    /\ ReadLength[m.type] <= Len(s) /\ \A i \in 1..Length[m.type] : s[i] = ToStr(m)[i]

\* Unless all messages have been heard, the string begins with the next one.
LEMMA NextAhead ==
    ASSUME NEW messages \in Seq(Said), NEW s, NEW h, NEW pos, Written(s, messages, h, pos), h # Len(messages)
    PROVE  h + 1 \in 1..Len(messages) /\ Ahead(messages[h + 1], s)
<1> DEFINE n == Len(messages)
           j == h + 1
           m == messages[j]
           l == Length[m.type]
<1>1. n \in Nat /\ h \in 0..n /\ s \in Seq(Char) /\ Len(s) = pos[n] - pos[h] /\ Sum(pos, messages)
  <2>1. n \in Nat
    OBVIOUS
  <2> QED BY <2>1, Zenon DEF Written
<1>2. j \in 1..n /\ j \in (h + 1)..n /\ j - 1 = h /\ n \in 0..n /\ h \in 0..n /\ j \in 0..n
  BY <1>1
<1>3. m \in Said
  BY <1>2
<1>4. Sendable(m) /\ \A i \in 1..l : s[(pos[j - 1] - pos[h]) + i] = ToStr(m)[i]
  BY <1>2, Zenon DEF Written
<1>5. /\ pos[h] \in Nat /\ pos[n] \in Nat /\ pos[j] \in Nat
      /\ l \in 1..10 /\ pos[j] = pos[h] + l /\ pos[j] <= pos[n]
  <2>1. /\ \A k \in 0..n : pos[k] \in Nat
        /\ \A k \in 1..n : Length[messages[k].type] \in 1..10 /\ pos[k] = pos[k - 1] + Length[messages[k].type]
        /\ \A k \in 0..n : \A i \in 0..k : pos[i] <= pos[k]
    BY <1>1, SumGrows
  <2> HIDE DEF n
  <2>2. l \in 1..10 /\ pos[j] = pos[j - 1] + l
    BY <1>2, <2>1, Zenon
  <2> QED BY <1>2, <2>1, <2>2, Zenon
<1> HIDE DEF j, n
<1>6. \A i \in 1..l : s[i] = ToStr(m)[i]
  <2> SUFFICES ASSUME NEW i \in 1..l PROVE s[i] = ToStr(m)[i]
    OBVIOUS
  <2>1. (pos[j - 1] - pos[h]) + i = i
    <3> HIDE DEF l
    <3>1. pos[j - 1] = pos[h] /\ i \in Int /\ pos[h] \in Int
      BY <1>2, <1>5
    <3> QED BY <3>1
  <2> QED BY <1>4, <2>1
<1>7. ReadLength[m.type] = l /\ ToStr(m)[1] = Builder[m.type].header
  BY <1>3, <1>4, MessageUnderstood, Zenon
<1> HIDE DEF l, m
<1>8. l <= Len(s) /\ s # <<>> /\ 1 \in 1..l
  BY <1>1, <1>5
<1>9. s[1] = ToStr(m)[1]
  BY <1>6, <1>8, Zenon
<1>10. ReadLength[m.type] <= Len(s)
  BY <1>7, <1>8
<1>11. Ahead(m, s)
  BY <1>3, <1>4, <1>6, <1>7, <1>8, <1>9, <1>10, Zenon DEF Ahead, l
<1> QED BY <1>2, <1>11 DEF j, n, m

\* A parser that can read reads the next message, and leaves the string to the one after it.
LEMMA WalkOn ==
    ASSUME NEW messages \in Seq(Said), NEW s, NEW h, NEW pos, Written(s, messages, h, pos),
           NEW t \in DOMAIN Parser, s # <<>>, Builder[t].header = s[1]
    PROVE  /\ h + 1 \in 1..Len(messages) /\ t = messages[h + 1].type
           /\ AsSaid(messages[h + 1], Read(t, s))
           /\ Written(SubSeq(s, ReadLength[t] + 1, Len(s)), messages, h + 1, pos)
<1> DEFINE n == Len(messages)
           j == h + 1
           m == messages[j]
           l == Length[m.type]
           u == SubSeq(s, l + 1, Len(s))
<1>1. n \in Nat /\ h \in 0..n /\ s \in Seq(Char) /\ Len(s) = pos[n] - pos[h] /\ Sum(pos, messages)
  <2>1. n \in Nat
    OBVIOUS
  <2> QED BY <2>1, Zenon DEF Written
<1>2. /\ \A k \in 0..n : pos[k] \in Nat
      /\ \A k \in 1..n : Length[messages[k].type] \in 1..10 /\ pos[k] = pos[k - 1] + Length[messages[k].type]
      /\ \A k \in 0..n : \A i \in 0..k : pos[i] <= pos[k]
  BY <1>1, SumGrows
<1>3. h # n
  <2> SUFFICES ASSUME h = n PROVE FALSE
    OBVIOUS
  <2>1. n \in 0..n
    BY <1>1
  <2>2. pos[n] \in Nat
    BY <1>2, <2>1, Zenon
  <2>3. Len(s) = 0
    BY <1>1, <2>2
  <2>4. s = <<>>
    BY <1>1, <2>3
  <2> QED BY <2>4
<1>4. j \in 1..n /\ Ahead(m, s)
  BY <1>3, NextAhead
<1>5. m \in Said /\ Sendable(m) /\ Builder[m.type].header = s[1] /\ \A i \in 1..l : s[i] = ToStr(m)[i]
  BY <1>4, Zenon DEF Ahead
<1>6. m.type \in DOMAIN Parser /\ l \in 1..10 /\ ReadLength[m.type] = l
      /\ \A from : (\A i \in 1..l : from[i] = ToStr(m)[i]) => AsSaid(m, Read(m.type, from))
  BY <1>5, MessageUnderstood, Zenon
<1>7. t = m.type
  BY <1>5, <1>6, HeadersDiffer
<1>8. AsSaid(m, Read(t, s))
  BY <1>5, <1>6, <1>7, Zenon
<1>9. \A k \in (h + 1)..n :
        /\ Sendable(messages[k])
        /\ \A i \in 1..Length[messages[k].type] : s[(pos[k - 1] - pos[h]) + i] = ToStr(messages[k])[i]
  BY Zenon DEF Written
<1>10. pos[h] \in Nat /\ pos[n] \in Nat /\ pos[j] \in Nat /\ pos[j] = pos[h] + l /\ pos[j] <= pos[n] /\ j \in 0..n
       /\ j - 1 = h
  <2>1. n \in 0..n /\ h \in 0..n /\ j \in 0..n /\ j \in 0..n /\ j - 1 = h
    BY <1>1, <1>4
  <2>2. pos[j] = pos[j - 1] + l
    BY <1>2, <1>4, Zenon
  <2> HIDE DEF n, j
  <2> QED BY <1>2, <2>1, <2>2, Zenon
<1> HIDE DEF l
<1>11. u \in Seq(Char) /\ Len(u) = Len(s) - l /\ \A q \in 1..(Len(s) - l) : u[q] = s[l + q]
  <2> DEFINE e == Len(s)
             a == l + 1
  <2>1. a \in 1..(e + 1) /\ e \in Nat /\ e <= Len(s) /\ l \in Nat /\ l <= e
    BY <1>1, <1>6, <1>10, SMTT(30)
  <2>3. \A q \in 1..(e - l) : u[q] = s[q + l]
    BY <1>1, <2>1
  <2>4. Len(u) = e - l
    BY <1>1, <2>1, SMTT(30)
  <2>5. u \in Seq(Char)
    BY <1>1, <2>1
  <2>6. \A q \in 1..(e - l) : q + l = l + q
    BY <2>1
  <2> QED BY <2>3, <2>4, <2>5, <2>6
<1>12. Len(u) = pos[n] - pos[j]
  <2> HIDE DEF u, n, j
  <2> QED BY <1>1, <1>6, <1>10, <1>11, SMTT(30)
<1>13. ASSUME NEW k \in (j + 1)..n
       PROVE  /\ Sendable(messages[k])
              /\ \A i \in 1..Length[messages[k].type] : u[(pos[k - 1] - pos[j]) + i] = ToStr(messages[k])[i]
  <2>1. k \in (h + 1)..n /\ k \in 1..n /\ k \in 0..n /\ k - 1 \in 0..n /\ j \in 0..(k - 1) /\ k \in 0..n /\ n \in 0..n
    BY <1>1, <1>4, <1>13
  <2> DEFINE b == Length[messages[k].type]
             x == pos[k - 1]
  <2>2. Sendable(messages[k]) /\ \A i \in 1..b : s[(x - pos[h]) + i] = ToStr(messages[k])[i]
    BY <1>9, <2>1, Zenon
  <2> HIDE DEF n, j
  <2>3. b \in 1..10 /\ pos[k] = x + b
    BY <1>2, <2>1, Zenon
  <2>4. x \in Nat /\ pos[j] <= x /\ pos[k] <= pos[n]
    BY <1>2, <2>1, Zenon
  <2>5. ASSUME NEW i \in 1..b PROVE u[(x - pos[j]) + i] = ToStr(messages[k])[i]
    <3> DEFINE q == (x - pos[j]) + i
               d == (x - pos[h]) + i
    <3> HIDE DEF b, x, u
    <3>1. q \in 1..(Len(s) - l) /\ l + q = d
      <4> DEFINE z == pos[n]
                 w == pos[j]
                 v == pos[h]
                 e == Len(s)
      <4>1. z \in Nat /\ w = v + l /\ v \in Nat /\ l \in 1..10 /\ e = z - v
        BY <1>1, <1>6, <1>10, Zenon
      <4>2. x \in Nat /\ w <= x /\ x + b <= z /\ b \in 1..10 /\ i \in 1..b
        BY <2>3, <2>4, <2>5
      <4> HIDE DEF z, w, v, e
      <4>3. (x - w) + i \in 1..(e - l) /\ l + ((x - w) + i) = (x - v) + i
        BY <4>1, <4>2
      <4> QED BY <4>3 DEF e, w, v
    <3> HIDE DEF q, d
    <3>2. u[q] = s[l + q]
      BY <1>11, <3>1, Zenon
    <3>3. s[d] = ToStr(messages[k])[i]
      BY <2>2, <2>5, Zenon DEF d
    <3> QED BY <3>1, <3>2, <3>3 DEF q
  <2> QED BY <2>2, <2>5
<1>14. Written(u, messages, j, pos)
  <2> HIDE DEF u, j
  <2> QED BY <1>1, <1>10, <1>11, <1>12, <1>13, Zenon DEF Written
<1>15. u = SubSeq(s, ReadLength[t] + 1, Len(s))
  BY <1>6, <1>7, Zenon
<1> QED BY <1>4, <1>7, <1>8, <1>14, <1>15, Zenon

\* Where nothing is left to read, all messages have been heard.
LEMMA WalkStops ==
    ASSUME NEW messages \in Seq(Said), NEW s, NEW h, NEW pos, Written(s, messages, h, pos),
           ~\E t \in DOMAIN Parser : s # <<>> /\ Builder[t].header = s[1] /\ ReadLength[t] <= Len(s) /\ Legal(t, Read(t, s))
    PROVE  s = <<>> /\ h = Len(messages)
<1> DEFINE n == Len(messages)
<1>1. h = n
  <2> SUFFICES ASSUME h # n PROVE FALSE
    OBVIOUS
  <2> DEFINE m == messages[h + 1]
  <2>1. Ahead(m, s)
    BY NextAhead
  <2>2. m \in Said /\ s # <<>> /\ Builder[m.type].header = s[1] /\ ReadLength[m.type] <= Len(s)
    BY <2>1, Zenon DEF Ahead
  <2>3. m.type \in DOMAIN Parser
    BY <2>2, MessageUnderstood, Zenon
  <2>4. AsSaid(m, Read(m.type, s))
    <3>1. Sendable(m) /\ \A i \in 1..Length[m.type] : s[i] = ToStr(m)[i]
      BY <2>1, Zenon DEF Ahead
    <3> QED BY <2>2, <3>1, MessageUnderstood, Zenon
  <2>5. Legal(m.type, Read(m.type, s))
    BY <2>2, <2>4, LegalAsSaid, Zenon
  <2> QED BY <2>2, <2>3, <2>5, Zenon
<1>2. n \in Nat /\ h \in 0..n /\ s \in Seq(Char) /\ Len(s) = pos[n] - pos[h] /\ Sum(pos, messages)
  <2>1. n \in Nat
    OBVIOUS
  <2> QED BY <2>1, Zenon DEF Written
<1>3. pos[n] \in Nat
  <2>1. n \in 0..n
    BY <1>2
  <2> QED BY <1>2, <2>1, SumGrows, Zenon
<1>4. Len(s) = 0
  BY <1>1, <1>2, <1>3
<1> QED BY <1>1, <1>2, <1>4

-----------------------------------------------------------------------------
(* The inductive invariant.                                                *)

\* What was heard is the beginning of what is in the string, and str is the rest of it.
Walked ==
    /\ IsSeq(heard)
    /\ \A k \in 1..Len(heard) : heard[k].type = accepted[k].type /\ AsSaid(accepted[k], heard[k].numbers)
    /\ \E pos : Written(str, accepted, Len(heard), pos)

\* What is said fits the say command; the string holds all of it that no builder refuses.
SayInv ==
    /\ pc \in {"behave", "communicate", "make", "parse"}
    /\ said \in Seq(Said) /\ accepted \in Seq(Said)
    /\ pc = "behave" => said = <<>>
    /\ pc # "parse" => str = <<>> /\ accepted = <<>> /\ heard = <<>>
    /\ pc \in {"communicate", "make"} => SayLength(said) \in 0..playerSayMsgSize
    /\ pc = "parse" => accepted = Sent(said) /\ Len(accepted) <= Len(said) /\ Len(str) <= playerSayMsgSize
    /\ Walked

\* Before the first message is read,
LEMMA NothingHeard ==
    ASSUME NEW s, NEW messages, \E pos : Written(s, messages, 0, pos)
    PROVE  /\ IsSeq(<<>>)
           /\ \A k \in 1..Len(<<>>) : <<>>[k].type = messages[k].type /\ AsSaid(messages[k], <<>>[k].numbers)
           /\ \E pos : Written(s, messages, Len(<<>>), pos)
<1> DEFINE e == <<>>
<1>1. e \in Seq({}) /\ Len(e) = 0
  OBVIOUS
<1> HIDE DEF e
<1>2. IsSeq(e)
  BY <1>1, Zenon DEF IsSeq
<1>3. \A k \in 1..Len(e) : FALSE
  BY <1>1
<1>4. \E pos : Written(s, messages, Len(e), pos)
  BY <1>1
<1> QED BY <1>2, <1>3, <1>4, Zenon DEF e

\* and where there is none.
LEMMA AtRest ==
    /\ IsSeq(<<>>)
    /\ \A k \in 1..Len(<<>>) : <<>>[k].type = <<>>[k].type /\ AsSaid(<<>>[k], <<>>[k].numbers)
    /\ \E pos : Written(<<>>, <<>>, Len(<<>>), pos)
<1>1. \E pos : Written(<<>>, <<>>, 0, pos)
  BY WriteNone
<1> QED BY <1>1, NothingHeard

\* SayInv holds at the start
LEMMA StartInv == Init => SayInv
<1> SUFFICES ASSUME Init PROVE SayInv
  OBVIOUS
<1>1. pc = "behave" /\ said = <<>> /\ str = <<>> /\ accepted = <<>> /\ heard = <<>>
  BY DEF Init
<1>2. <<>> \in Seq(Said)
  OBVIOUS
<1>3. Walked
  BY <1>1, AtRest, Zenon DEF Walked
<1> QED BY <1>1, <1>2, <1>3 DEF SayInv

\* and each action keeps it: a behaviour says one message, which fits;
LEMMA BehaveInv ==
    ASSUME SayInv, Behave
    PROVE  SayInv'
<1>1. PICK type \in BehaviourTypes \cup {"none"} : said' \in Added(<<>>, type)
  BY DEF Behave
<1>2. pc = "behave" /\ pc' = "communicate" /\ str' = str /\ accepted' = accepted /\ heard' = heard
  BY DEF Behave
<1>3. str' = <<>> /\ accepted' = <<>> /\ heard' = <<>>
  BY <1>2 DEF SayInv
<1>4. type \in Sayable
  BY BehavioursAssumption, TypeNames DEF Sayable
<1>5. <<>> \in Seq(Said) /\ SayLength(<<>>) = 0
  BY SayLengthOf
<1>6. said' \in Seq(Said) /\ SayLength(said') = Plus(0, type)
  BY <1>1, <1>4, <1>5, AddedSaid, Zenon
<1>7. Plus(0, type) \in 0..playerSayMsgSize
  <2>1. CASE type = "none"
    BY <2>1 DEF Plus, playerSayMsgSize
  <2>2. CASE type # "none"
    <3>1. type \in SaidTypes
      BY <1>4, <2>2 DEF Sayable
    <3>2. Length[type] \in 1..10
      BY <3>1, Lengths
    <3> QED BY <2>2, <3>2 DEF Plus, playerSayMsgSize
  <2> QED BY <2>1, <2>2
<1>8. Walked'
  BY <1>3, AtRest, Zenon DEF Walked
<1>9. SayLength(said)' \in 0..playerSayMsgSize
  BY <1>6, <1>7 DEF SayLength, Length
<1>10. accepted' \in Seq(Said)
  BY <1>3, <1>5
<1> QED BY <1>2, <1>3, <1>6, <1>8, <1>9, <1>10 DEF SayInv

\* SampleCommunication looks at the room;
LEMMA CommunicateInv ==
    ASSUME SayInv, Communicate
    PROVE  SayInv'
<1>1. PICK types \in Communications[SayLength(said)] :
        \E one \in Added(said, types[1]) : \E two \in Added(one, types[2]) : said' \in Added(two, types[3])
  BY Zenon DEF Communicate
<1>2. PICK one \in Added(said, types[1]) : \E two \in Added(one, types[2]) : said' \in Added(two, types[3])
  BY <1>1
<1>3. PICK two \in Added(one, types[2]) : said' \in Added(two, types[3])
  BY <1>2
<1>4. pc = "communicate" /\ pc' = "make" /\ str' = str /\ accepted' = accepted /\ heard' = heard
  BY DEF Communicate
<1>5. /\ str' = <<>> /\ accepted' = <<>> /\ heard' = <<>> /\ said \in Seq(Said)
      /\ SayLength(said) \in 0..playerSayMsgSize /\ accepted \in Seq(Said)
  BY <1>4 DEF SayInv
<1>6. Fitting(SayLength(said), types)
  BY <1>5, CommunicationsFit
<1>7. /\ types[1] \in Sayable /\ types[2] \in Sayable /\ types[3] \in Sayable
      /\ Plus(Plus(Plus(SayLength(said), types[1]), types[2]), types[3]) \in 0..playerSayMsgSize
  BY <1>6, Zenon DEF Fitting
<1>8. one \in Seq(Said) /\ SayLength(one) = Plus(SayLength(said), types[1])
  BY <1>5, <1>7, AddedSaid, Zenon
<1>9. two \in Seq(Said) /\ SayLength(two) = Plus(SayLength(one), types[2])
  BY <1>7, <1>8, AddedSaid, Zenon
<1>10. said' \in Seq(Said) /\ SayLength(said') = Plus(SayLength(two), types[3])
  BY <1>3, <1>7, <1>9, AddedSaid, Zenon
<1>11. SayLength(said') \in 0..playerSayMsgSize
  BY <1>7, <1>8, <1>9, <1>10, Zenon
<1>12. Walked'
  BY <1>5, AtRest, Zenon DEF Walked
<1>13. accepted' \in Seq(Said)
  BY <1>4, <1>5
<1> QED BY <1>4, <1>5, <1>10, <1>11, <1>12, <1>13 DEF SayInv

\* the messages have room together;
LEMMA MakeSayCommandInv ==
    ASSUME SayInv, MakeSayCommand
    PROVE  SayInv'
<1> DEFINE n == Len(said)
<1>1. pc = "make" /\ pc' = "parse" /\ said' = said /\ heard' = heard
  BY DEF MakeSayCommand
<1>2. said \in Seq(Said) /\ SayLength(said) \in 0..playerSayMsgSize /\ heard' = <<>>
  BY <1>1 DEF SayInv
<1>3. PICK g : MadeUp(g, said) /\ str' = g[n].str /\ accepted' = g[n].accepted
  BY <1>2, MadeExists, Zenon
<1>4. PICK f : SentUp(f, said) /\ Sent(said) = f[n]
  BY <1>2, SentExists, Zenon
<1>5. PICK S : Sum(S, said) /\ SayLength(said) = S[n]
  BY <1>2, SumExists, Zenon
<1>6. n \in Nat /\ n \in 0..n
  BY <1>2
<1>7. MadeSo(n, g, f, S)
  <2>1. \A k \in 0..n : MadeSo(k, g, f, S)
    BY <1>2, <1>3, <1>4, <1>5, MadeIsSent
  <2> QED BY <1>6, <2>1, Zenon
<1>8. accepted' = f[n] /\ (\E pos : Written(str', accepted', 0, pos)) /\ Len(accepted') <= n
  BY <1>3, <1>7, Zenon DEF MadeSo
<1>9. Len(str') <= playerSayMsgSize
  <2>1. Len(str') \in Nat /\ Len(str') <= S[n]
    BY <1>3, <1>7, Zenon DEF MadeSo
  <2>2. S[n] \in 0..playerSayMsgSize
    BY <1>2, <1>5, Zenon
  <2> QED BY <2>1, <2>2 DEF playerSayMsgSize
<1>10. accepted' = Sent(said)'
  BY <1>1, <1>4, <1>8, Zenon
<1>11. accepted' \in Seq(Said)
  <2>1. f \in [0..n -> Seq(Said)]
    BY <1>4, Zenon DEF SentUp
  <2> QED BY <1>6, <1>8, <2>1
<1>12. Walked'
  <2>1. /\ IsSeq(<<>>)
        /\ \A k \in 1..Len(<<>>) : <<>>[k].type = accepted'[k].type /\ AsSaid(accepted'[k], <<>>[k].numbers)
        /\ \E pos : Written(str', accepted', Len(<<>>), pos)
    BY <1>8, NothingHeard
  <2> QED BY <1>2, <2>1, Zenon DEF Walked
<1> QED BY <1>1, <1>2, <1>8, <1>9, <1>10, <1>11, <1>12, SMTT(30) DEF SayInv

\* the hearer reads the next message;
LEMMA ParseOneInv ==
    ASSUME SayInv, ParseOne
    PROVE  SayInv'
<1> DEFINE h == Len(heard)
<1>1. pc = "parse" /\ pc' = pc /\ said' = said /\ accepted' = accepted
  BY DEF ParseOne
<1>2. PICK type \in DOMAIN Parser :
        /\ Readable(type)
        /\ heard' = Append(heard, [type |-> type, numbers |-> Read(type, str)])
        /\ str' = SubSeq(str, ReadLength[type] + 1, Len(str))
  BY Zenon DEF ParseOne
<1>3. str # <<>> /\ Builder[type].header = str[1] /\ ReadLength[type] <= Len(str)
  BY <1>2, Zenon DEF Readable
<1>4. /\ said \in Seq(Said) /\ accepted \in Seq(Said) /\ accepted = Sent(said)
      /\ Len(accepted) <= Len(said) /\ Len(str) <= playerSayMsgSize /\ Walked
  BY <1>1 DEF SayInv
<1>5. PICK pos : Written(str, accepted, h, pos)
  BY <1>4, Zenon DEF Walked
<1>6. /\ h + 1 \in 1..Len(accepted) /\ type = accepted[h + 1].type
      /\ AsSaid(accepted[h + 1], Read(type, str))
      /\ Written(str', accepted, h + 1, pos)
  <2>1. /\ h + 1 \in 1..Len(accepted) /\ type = accepted[h + 1].type
        /\ AsSaid(accepted[h + 1], Read(type, str))
        /\ Written(SubSeq(str, ReadLength[type] + 1, Len(str)), accepted, h + 1, pos)
    BY <1>3, <1>4, <1>5, WalkOn
  <2> QED BY <1>2, <2>1, Zenon
<1> DEFINE x == [type |-> type, numbers |-> Read(type, str)]
<1>7. x.type = type /\ x.numbers = Read(type, str)
  OBVIOUS
<1> HIDE DEF x
<1>8. /\ IsSeq(heard') /\ Len(heard') = h + 1 /\ h \in Nat /\ heard'[h + 1] = x
      /\ \A k \in 1..h : heard'[k] = heard[k]
  <2>1. PICK S : heard \in Seq(S)
    BY <1>4 DEF Walked, IsSeq
  <2> DEFINE T == S \cup {x}
  <2>2. heard \in Seq(T) /\ x \in T
    BY <2>1
  <2>3. heard' = Append(heard, x)
    BY <1>2 DEF x
  <2> HIDE DEF T
  <2>4. heard' \in Seq(T)
    BY <2>2, <2>3
  <2>5. IsSeq(heard')
    BY <2>4, Zenon DEF IsSeq
  <2> QED BY <2>2, <2>3, <2>5
<1>9. \A k \in 1..Len(heard') : heard'[k].type = accepted[k].type /\ AsSaid(accepted[k], heard'[k].numbers)
  <2> SUFFICES ASSUME NEW k \in 1..Len(heard')
               PROVE  heard'[k].type = accepted[k].type /\ AsSaid(accepted[k], heard'[k].numbers)
    OBVIOUS
  <2>1. k = h + 1 \/ k \in 1..h
    BY <1>8
  <2>2. CASE k = h + 1
    BY <1>6, <1>7, <1>8, <2>2, Zenon
  <2>3. CASE k \in 1..h
    BY <1>4, <1>8, <2>3, Zenon DEF Walked
  <2> QED BY <2>1, <2>2, <2>3
<1>10. \E p : Written(str', accepted, Len(heard'), p)
  BY <1>6, <1>8, Zenon
<1>11. Walked'
  BY <1>1, <1>8, <1>9, <1>10, Zenon DEF Walked
<1>12. Len(str') <= playerSayMsgSize
  <2> DEFINE l == ReadLength[type]
  <2>1. l \in 1..10
    <3>1. accepted[h + 1] \in Said
      BY <1>4, <1>6
    <3> QED BY <1>6, <3>1, MessageUnderstood
  <2>2. str \in Seq(Char) /\ l <= Len(str) /\ str' = SubSeq(str, l + 1, Len(str))
    BY <1>2, <1>3, <1>5, Zenon DEF Written
  <2> HIDE DEF l
  <2>3. Len(str') = Len(str) - l /\ Len(str) \in Nat
    BY <2>1, <2>2
  <2> QED BY <1>4, <2>1, <2>3 DEF playerSayMsgSize
<1>13. accepted' = Sent(said)'
  BY <1>1, <1>4, Zenon
<1> QED BY <1>1, <1>4, <1>11, <1>12, <1>13 DEF SayInv

\* and everything is cleared.
LEMMA NextDecisionInv ==
    ASSUME SayInv, NextDecision
    PROVE  SayInv'
<1>1. pc' = "behave" /\ said' = <<>> /\ str' = <<>> /\ accepted' = <<>> /\ heard' = <<>>
  BY DEF NextDecision
<1>2. <<>> \in Seq(Said)
  OBVIOUS
<1>3. Walked'
  BY <1>1, AtRest, Zenon DEF Walked
<1> QED BY <1>1, <1>2, <1>3 DEF SayInv

\* The invariant of saying and hearing.
THEOREM SayInvariant == Spec => []SayInv
<1>1. Init => SayInv
  BY StartInv
<1>2. SayInv /\ [Next]_vars => SayInv'
  <2> SUFFICES ASSUME SayInv, [Next]_vars PROVE SayInv'
    OBVIOUS
  <2>1. CASE Behave
    BY <2>1, BehaveInv
  <2>2. CASE Communicate
    BY <2>2, CommunicateInv
  <2>3. CASE MakeSayCommand
    BY <2>3, MakeSayCommandInv
  <2>4. CASE ParseOne
    BY <2>4, ParseOneInv
  <2>5. CASE NextDecision
    BY <2>5, NextDecisionInv
  <2>6. CASE UNCHANGED vars
    BY <2>6, Zenon DEF vars, SayInv, Walked
  <2> QED BY <2>1, <2>2, <2>3, <2>4, <2>5, <2>6 DEF Next
<1> QED BY <1>1, <1>2, PTL DEF Spec

\* The string is made of the codec's characters and fits the say command.
THEOREM SayTypeOK == Spec => []TypeOK
<1>1. SayInv => TypeOK
  <2> SUFFICES ASSUME SayInv PROVE TypeOK
    OBVIOUS
  <2>1. pc \in {"behave", "communicate", "make", "parse"} /\ said \in Seq(Said) /\ accepted \in Seq(Said) /\ Walked
    BY DEF SayInv
  <2>2. \A k \in 1..Len(said) : Len(said[k].values) = Len(Fields[said[k].type])
    <3>1. \A k \in 1..Len(said) : said[k] \in Said
      BY <2>1
    <3> QED BY <3>1, MessageUnderstood, Zenon
  <2>3. str \in Seq(Char) /\ Len(heard) \in 0..Len(accepted)
    BY <2>1, Zenon DEF Walked, Written
  <2>4. \A k \in 1..Len(str) : str[k] \in Char
    BY <2>3
  <2>5. Len(str) <= playerSayMsgSize /\ Len(accepted) <= Len(said)
    <3>1. CASE pc = "parse"
      BY <3>1 DEF SayInv
    <3>2. CASE pc # "parse"
      <4>1. str = <<>> /\ accepted = <<>>
        BY <3>2 DEF SayInv
      <4>2. Len(<<>>) = 0 /\ Len(said) \in Nat
        BY <2>1
      <4> QED BY <4>1, <4>2 DEF playerSayMsgSize
    <3> QED BY <3>1, <3>2
  <2>6. Len(heard) <= Len(accepted)
    BY <2>1, <2>3
  <2> QED BY <2>1, <2>2, <2>4, <2>5, <2>6, Zenon DEF TypeOK
<1> QED BY <1>1, SayInvariant, PTL

\* Whatever the behaviour and SampleCommunication add finds its room in the say command:
\* only a message whose builder refuses the position or the number is left out.
THEOREM NoMessageIsCrowdedOut == Spec => []NothingIsCrowdedOut
<1>1. SayInv => NothingIsCrowdedOut
  BY DEF SayInv, NothingIsCrowdedOut
<1> QED BY <1>1, SayInvariant, PTL

\* The hearer reads the messages of the string, each as the type it was said as and with
\* its numbers, in their order, and nothing else; it stops only at the string's end.
THEOREM WhatIsHeardWasSaid == Spec => []HeardIsSaid
<1>1. SayInv => HeardIsSaid
  <2> SUFFICES ASSUME SayInv, pc = "parse" PROVE HeardIsSaid
    BY DEF HeardIsSaid
  <2>1. accepted \in Seq(Said) /\ Walked
    BY DEF SayInv
  <2>2. PICK pos : Written(str, accepted, Len(heard), pos)
    BY <2>1, Zenon DEF Walked
  <2>3. ASSUME NEW k \in 1..Len(heard)
        PROVE  /\ heard[k].type = accepted[k].type
               /\ Len(heard[k].numbers) = Len(Fields[accepted[k].type])
               /\ \A i \in 1..Len(Fields[accepted[k].type]) :
                    \/ <<heard[k].type, i>> \in MisscaledFields
                    \/ Faithful(Fields[accepted[k].type][i], accepted[k].values[i], heard[k].numbers[i])
    <3>1. heard[k].type = accepted[k].type /\ AsSaid(accepted[k], heard[k].numbers)
      BY <2>1, Zenon DEF Walked
    <3> QED BY <3>1, Zenon DEF AsSaid, ReadAs
  <2>4. (~\E type \in DOMAIN Parser : Readable(type)) => str = <<>> /\ Len(heard) = Len(accepted)
    <3> SUFFICES ASSUME ~\E type \in DOMAIN Parser : Readable(type)
                 PROVE  str = <<>> /\ Len(heard) = Len(accepted)
      OBVIOUS
    <3>1. ~\E t \in DOMAIN Parser :
             str # <<>> /\ Builder[t].header = str[1] /\ ReadLength[t] <= Len(str) /\ Legal(t, Read(t, str))
      BY Zenon DEF Readable
    <3> QED BY <2>1, <2>2, <3>1, WalkStops
  <2> QED BY <2>3, <2>4, Zenon DEF HeardIsSaid
<1> QED BY <1>1, SayInvariant, PTL
================================================================================
