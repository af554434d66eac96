-------------------------- MODULE PacketCodec_proofs --------------------------
(* Encode and Decode of PacketCodec, for any protocols.                       *)
EXTENDS PacketCodec, WellFoundedInduction, SequenceTheorems, TLAPS

Data == Seq(Byte)

\* What crc16.Crc returns is a number: it is a uint16 there.  (All data are too many
\* for TLC to evaluate this as an assumption of PacketCodec.)
ChecksumsAreNumbers ==
  \A name \in KnownCrcs, data \in Data : Checksum(name, data) \in Nat

LEMMA ByteIsNat == Byte \subseteq Nat /\ 0 \in Byte
  BY DEF Byte

-----------------------------------------------------------------------------
(* Bytes of numbers and strings.                                             *)

LEMMA Remainder == ASSUME NEW v \in Int PROVE v % 256 \in Byte /\ v \div 256 \in Int
  BY DEF Byte

\* What a tuple of eight bytes is.
LEMMA EightBytes ==
  ASSUME NEW a \in Byte, NEW b \in Byte, NEW c \in Byte, NEW d \in Byte,
         NEW e \in Byte, NEW f \in Byte, NEW g \in Byte, NEW h \in Byte
  PROVE  <<a, b, c, d, e, f, g, h>> \in Data /\ Len(<<a, b, c, d, e, f, g, h>>) = 8
  BY DEF Data

LEMMA OctetsAreBytes ==
  ASSUME NEW v \in Int
  PROVE  Octets(v) \in Data /\ Len(Octets(v)) = 8
<1> DEFINE v1 == v \div 256   v2 == v1 \div 256  v3 == v2 \div 256  v4 == v3 \div 256
           v5 == v4 \div 256  v6 == v5 \div 256  v7 == v6 \div 256
           a == v % 256   b == v1 % 256  c == v2 % 256  d == v3 % 256
           e == v4 % 256  f == v5 % 256  g == v6 % 256  h == v7 % 256
<1>1. Octets(v) = <<a, b, c, d, e, f, g, h>> BY DEF Octets
<1>2. a \in Byte /\ v1 \in Int BY Remainder
<1> HIDE DEF v1
<1>3. b \in Byte /\ v2 \in Int BY <1>2, Remainder
<1> HIDE DEF v2
<1>4. c \in Byte /\ v3 \in Int BY <1>3, Remainder
<1> HIDE DEF v3
<1>5. d \in Byte /\ v4 \in Int BY <1>4, Remainder
<1> HIDE DEF v4
<1>6. e \in Byte /\ v5 \in Int BY <1>5, Remainder
<1> HIDE DEF v5
<1>7. f \in Byte /\ v6 \in Int BY <1>6, Remainder
<1> HIDE DEF v6
<1>8. g \in Byte /\ v7 \in Int BY <1>7, Remainder
<1> HIDE DEF v7
<1>9. h \in Byte BY <1>8, Remainder
<1> HIDE DEF a, b, c, d, e, f, g, h
<1>10. /\ a \in Byte /\ b \in Byte /\ c \in Byte /\ d \in Byte
       /\ e \in Byte /\ f \in Byte /\ g \in Byte /\ h \in Byte
  BY <1>2, <1>3, <1>4, <1>5, <1>6, <1>7, <1>8, <1>9
<1>11. <<a, b, c, d, e, f, g, h>> \in Data /\ Len(<<a, b, c, d, e, f, g, h>>) = 8
  BY <1>10, EightBytes
<1> HIDE DEF Octets
<1> QED BY <1>1, <1>11, Zenon

\* A part of bytes.
LEMMA PartOfBytes ==
  ASSUME NEW data \in Data, NEW i \in 1..(Len(data) + 1), NEW j \in (i - 1)..Len(data)
  PROVE  SubSeq(data, i, j) \in Data /\ Len(SubSeq(data, i, j)) = j - i + 1
<1>1. Len(data) \in Nat BY LenProperties DEF Data
<1> QED BY <1>1, SubSeqProperties DEF Data

\* The first or the last bytes of eight.
LEMMA PartOfEight ==
  ASSUME NEW data \in Data, Len(data) = 8, NEW size \in 0..8
  PROVE  /\ SubSeq(data, 1, size) \in Data /\ Len(SubSeq(data, 1, size)) = size
         /\ SubSeq(data, 9 - size, 8) \in Data /\ Len(SubSeq(data, 9 - size, 8)) = size
<1>1. 1 \in 1..(Len(data) + 1) /\ size \in (1 - 1)..Len(data) /\ size - 1 + 1 = size OBVIOUS
<1>2. /\ 9 - size \in 1..(Len(data) + 1) /\ 8 \in ((9 - size) - 1)..Len(data)
      /\ 8 - (9 - size) + 1 = size
  OBVIOUS
<1>3. SubSeq(data, 1, size) \in Data /\ Len(SubSeq(data, 1, size)) = size
  BY <1>1, PartOfBytes
<1>4. SubSeq(data, 9 - size, 8) \in Data /\ Len(SubSeq(data, 9 - size, 8)) = size
  BY <1>2, PartOfBytes
<1> QED BY <1>3, <1>4

LEMMA ReversedBytes ==
  ASSUME NEW data \in Data
  PROVE  Reverse(data) \in Data /\ Len(Reverse(data)) = Len(data)
<1>1. Len(data) \in Nat /\ \A i \in 1..Len(data) : data[i] \in Byte
  BY LenProperties, ElementOfSeq DEF Data
<1>2. Reverse(data) = [i \in 1..Len(data) |-> data[(Len(data) - i) + 1]]
  BY DEF Reverse
<1>3. \A i \in 1..Len(data) : (Len(data) - i) + 1 \in 1..Len(data)
  BY <1>1
<1> QED BY <1>1, <1>2, <1>3 DEF Data

\* WriteInt writes as many bytes as it is asked for.
LEMMA IntBytesSized ==
  ASSUME NEW v \in Int, NEW size \in 0..8, NEW order
  PROVE  IntBytes(v, size, order) \in Data /\ Len(IntBytes(v, size, order)) = size
<1>1. Octets(v) \in Data /\ Len(Octets(v)) = 8
  BY OctetsAreBytes
<1>2. Reverse(Octets(v)) \in Data /\ Len(Reverse(Octets(v))) = 8
  BY <1>1, ReversedBytes
<1> QED BY <1>1, <1>2, PartOfEight DEF IntBytes

LEMMA FloatBytesTyped ==
  ASSUME NEW v \in 0..31
  PROVE  FloatBytes(v) \in Data /\ Len(FloatBytes(v)) = 8
<1>1. CASE v = 0
  <2>1. FloatBytes(v) = [i \in 1..8 |-> 0] BY <1>1 DEF FloatBytes
  <2> QED BY <2>1, ByteIsNat DEF Data
<1>2. CASE v # 0
  <2> DEFINE e == CHOOSE k \in 0..4 : Pow2(k) <= v /\ v < 2 * Pow2(k)
             first == (1023 + e) \div 16
             second == 16 * ((1023 + e) % 16) + (((v - Pow2(e)) * 16) \div Pow2(e))
  <2>1. FloatBytes(v) = <<first, second, 0, 0, 0, 0, 0, 0>>
    BY <1>2 DEF FloatBytes
  <2>2. /\ Pow2(0) = 1 /\ Pow2(1) = 2 /\ Pow2(2) = 4 /\ Pow2(3) = 8 /\ Pow2(4) = 16
    BY DEF Pow2
  <2>3. \E k \in 0..4 : Pow2(k) <= v /\ v < 2 * Pow2(k)
    <3>1. \/ (1 <= v /\ v < 2 * 1) \/ (2 <= v /\ v < 2 * 2) \/ (4 <= v /\ v < 2 * 4)
          \/ (8 <= v /\ v < 2 * 8) \/ (16 <= v /\ v < 2 * 16)
      BY <1>2
    <3> QED BY <2>2, <3>1
  <2>4. e \in 0..4 /\ Pow2(e) <= v /\ v < 2 * Pow2(e)
    BY <2>3
  <2> HIDE DEF e
  <2>5. first \in Byte /\ second \in Byte
    <3>1. CASE e = 0 BY <2>2, <2>4, <3>1 DEF Byte
    <3>2. CASE e = 1 BY <2>2, <2>4, <3>2 DEF Byte
    <3>3. CASE e = 2 BY <2>2, <2>4, <3>3 DEF Byte
    <3>4. CASE e = 3 BY <2>2, <2>4, <3>4 DEF Byte
    <3>5. CASE e = 4 BY <2>2, <2>4, <3>5 DEF Byte
    <3> QED BY <2>4, <3>1, <3>2, <3>3, <3>4, <3>5
  <2> HIDE DEF first, second
  <2> QED BY <2>1, <2>5, ByteIsNat, EightBytes
<1> QED BY <1>1, <1>2

\* ResizeBytes cuts or pads to the size asked for, if it is not negative.
LEMMA ResizedBytes ==
  ASSUME NEW bytes \in Data, NEW size \in Int, NEW pad, pad.byte \in Byte
  PROVE  /\ ResizeBytes(bytes, size, pad) \in Data
         /\ size >= 0 => Len(ResizeBytes(bytes, size, pad)) = size
<1>1. Len(bytes) \in Nat BY LenProperties DEF Data
<1>2. CASE size < 0 BY <1>2 DEF ResizeBytes
<1>3. CASE size >= 0 /\ Len(bytes) >= size
  <2>1. 1 \in 1..(Len(bytes) + 1) /\ size \in (1 - 1)..Len(bytes) /\ size - 1 + 1 = size
    BY <1>1, <1>3
  <2>2. ResizeBytes(bytes, size, pad) = SubSeq(bytes, 1, size)
    BY <1>3 DEF ResizeBytes
  <2> QED BY <2>1, <2>2, PartOfBytes
<1>4. CASE size >= 0 /\ Len(bytes) < size
  <2> DEFINE missing == [i \in 1..(size - Len(bytes)) |-> pad.byte]
  <2>1. size - Len(bytes) \in Nat BY <1>1, <1>4
  <2>2. missing \in Data /\ Len(missing) = size - Len(bytes) BY <2>1 DEF Data
  <2>3. \/ ResizeBytes(bytes, size, pad) = missing \o bytes
        \/ ResizeBytes(bytes, size, pad) = bytes \o missing
    BY <1>1, <1>4 DEF ResizeBytes
  <2> HIDE DEF missing
  <2>4. /\ missing \o bytes \in Data /\ bytes \o missing \in Data
        /\ Len(missing \o bytes) = Len(missing) + Len(bytes)
        /\ Len(bytes \o missing) = Len(bytes) + Len(missing)
    BY <2>2, ConcatProperties DEF Data
  <2>5. Len(missing \o bytes) = size /\ Len(bytes \o missing) = size
    BY <1>1, <1>4, <2>2, <2>4
  <2> QED BY <2>3, <2>4, <2>5
<1> QED BY <1>1, <1>2, <1>3, <1>4

\* A copy into bytes keeps their length.
LEMMA OverwriteTyped ==
  ASSUME NEW b \in Data, NEW at \in Int, NEW data \in Data
  PROVE  Overwrite(b, at, data) \in Data /\ Len(Overwrite(b, at, data)) = Len(b)
<1>1. /\ Len(b) \in Nat /\ DOMAIN b = 1..Len(b) /\ \A i \in DOMAIN b : b[i] \in Byte
      /\ DOMAIN data = 1..Len(data) /\ \A i \in DOMAIN data : data[i] \in Byte
  BY LenProperties, ElementOfSeq DEF Data
<1>2. \A i \in 1..Len(b) : (IF i - at \in DOMAIN data THEN data[i - at] ELSE b[i]) \in Byte
  BY <1>1
<1>3. Overwrite(b, at, data)
        = [i \in 1..Len(b) |-> IF i - at \in DOMAIN data THEN data[i - at] ELSE b[i]]
  BY <1>1 DEF Overwrite
<1> QED BY <1>1, <1>2, <1>3 DEF Data

LEMMA DigitsMakeInt ==
  ASSUME NEW a \in Nat, NEW b \in Nat, NEW c \in Nat, NEW d \in Nat,
         NEW e \in Nat, NEW f \in Nat, NEW g \in Nat, NEW h \in Nat
  PROVE  a + 256 * (b + 256 * (c + 256 * (d + 256 * (e + 256 * (f + 256 * (g + 256 * h)))))) \in Nat
  OBVIOUS

\* Bytes make a number.
LEMMA BytesMakeInt ==
  ASSUME NEW bytes \in Data, NEW order
  PROVE  BytesToInt(bytes, order) \in Nat
<1> DEFINE digit(k) == IF k > Len(bytes) THEN 0
                       ELSE bytes[IF order = "big" THEN Len(bytes) + 1 - k ELSE k]
           a == digit(1)  b == digit(2)  c == digit(3)  d == digit(4)
           e == digit(5)  f == digit(6)  g == digit(7)  h == digit(8)
<1>1. BytesToInt(bytes, order)
        = a + 256 * (b + 256 * (c + 256 * (d + 256 * (e + 256 * (f + 256 * (g + 256 * h))))))
  BY DEF BytesToInt
<1>2. Len(bytes) \in Nat /\ \A i \in 1..Len(bytes) : bytes[i] \in Nat
  BY LenProperties, ElementOfSeq, ByteIsNat DEF Data
<1>3. \A k \in 1..8 : digit(k) \in Nat
  <2> SUFFICES ASSUME NEW k \in 1..8, ~(k > Len(bytes))
               PROVE  bytes[IF order = "big" THEN Len(bytes) + 1 - k ELSE k] \in Nat
    OBVIOUS
  <2>1. (IF order = "big" THEN Len(bytes) + 1 - k ELSE k) \in 1..Len(bytes) BY <1>2
  <2> QED BY <1>2, <2>1
<1>4. /\ a \in Nat /\ b \in Nat /\ c \in Nat /\ d \in Nat
      /\ e \in Nat /\ f \in Nat /\ g \in Nat /\ h \in Nat
  <2> HIDE DEF digit
  <2> QED BY <1>3
<1> HIDE DEF a, b, c, d, e, f, g, h
<1> QED BY <1>1, <1>4, DigitsMakeInt

-----------------------------------------------------------------------------
(* Rounds.                                                                   *)

LEMMA Least ==
  ASSUME NEW S \in SUBSET Nat, S # {}
  PROVE  \E m \in S : \A n \in S : m <= n
<1>1. PICK m \in S : \A n \in S : ~(<<n, m>> \in OpToRel(<, Nat))
  BY NatLessThanWellFounded, WFMin
<1>2. \A n \in S : m <= n
  <2> SUFFICES ASSUME NEW n \in S, n < m PROVE FALSE
    OBVIOUS
  <2>1. <<n, m>> \in Nat \X Nat /\ <<n, m>>[1] < <<n, m>>[2]
    OBVIOUS
  <2>2. <<n, m>> \in OpToRel(<, Nat)
    BY <2>1, Zenon DEF OpToRel
  <2> QED BY <1>1, <2>2
<1> QED BY <1>2

\* The first numbers of a sequence have a greatest one.
LEMMA Greatest ==
  ASSUME NEW s, NEW len \in Nat, \A i \in 1..len : s[i] \in Nat
  PROVE  Max({0} \cup {s[i] : i \in 1..len}) \in Nat
<1> DEFINE First(k) == {0} \cup {s[i] : i \in 1..k}
           Topped(k) == \E m \in First(k) : \A x \in First(k) : m >= x
           Short == {k \in 0..len : ~Topped(k)}
<1>1. \A k \in 0..len : First(k) \subseteq Nat
  OBVIOUS
<1>2. Topped(0)
  <2>1. First(0) = {0} OBVIOUS
  <2> HIDE DEF First
  <2> QED BY <2>1
<1>3. ASSUME NEW k \in 1..len, Topped(k - 1)
      PROVE  Topped(k)
  <2>1. First(k) = First(k - 1) \cup {s[k]}
    OBVIOUS
  <2>2. First(k - 1) \subseteq Nat /\ s[k] \in Nat
    BY <1>1
  <2> HIDE DEF First
  <2>3. PICK m \in First(k - 1) : \A x \in First(k - 1) : m >= x
    BY <1>3
  <2>4. CASE m >= s[k]
    BY <2>1, <2>3, <2>4
  <2>5. CASE ~(m >= s[k])
    <3>1. \A x \in First(k - 1) : s[k] >= x
      BY <2>2, <2>3, <2>5
    <3> QED BY <2>1, <2>2, <3>1
  <2> QED BY <2>4, <2>5
<1>4. Short = {}
  <2> SUFFICES ASSUME Short # {} PROVE FALSE
    OBVIOUS
  <2>1. PICK k \in Short : \A n \in Short : k <= n
    <3>1. Short \in SUBSET Nat OBVIOUS
    <3> HIDE DEF Short
    <3> QED BY <3>1, Least
  <2> HIDE DEF Topped
  <2>2. k \in 1..len
    BY <1>2
  <2>3. k - 1 \in 0..len /\ k - 1 \notin Short
    BY <2>1, <2>2
  <2> QED BY <1>3, <2>2, <2>3
<1>5. Topped(len)
  <2> HIDE DEF Topped
  <2> QED BY <1>4
<1>6. Max(First(len)) \in First(len)
  <2> HIDE DEF First
  <2> QED BY <1>5 DEF Max
<1> QED BY <1>1, <1>6

LEMMA RoundsIsNat ==
  ASSUME protocol \in Protocols
  PROVE  /\ Rounds \in Nat /\ protocol.nodes \in Seq(Nodes)
<1>1. protocol.nodes \in Seq(Nodes)
  BY ProtocolsAssumption
<1>2. /\ Len(protocol.nodes) \in Nat /\ DOMAIN protocol.nodes = 1..Len(protocol.nodes)
      /\ \A i \in 1..Len(protocol.nodes) : protocol.nodes[i] \in Nodes
  BY <1>1, LenProperties, ElementOfSeq
<1> DEFINE s == [i \in 1..Len(protocol.nodes) |-> protocol.nodes[i].round]
<1>3. \A i \in 1..Len(protocol.nodes) : s[i] \in Nat
  BY <1>2, NodesAssumption
<1>4. {protocol.nodes[i].round : i \in DOMAIN protocol.nodes}
        = {s[i] : i \in 1..Len(protocol.nodes)}
  BY <1>2
<1> HIDE DEF s
<1>5. Max({0} \cup {s[i] : i \in 1..Len(protocol.nodes)}) \in Nat
  BY <1>2, <1>3, Greatest
<1> QED BY <1>1, <1>4, <1>5 DEF Rounds

-----------------------------------------------------------------------------
(* Expressions and groups.                                                   *)

\* Values that a Context holds.
Numbered(f) == \A path \in DOMAIN f : f[path].n \in Int
Filled(f) == Numbered(f) /\ \A path \in DOMAIN f : f[path].b \in Data

LEMMA FieldTyped ==
  ASSUME NEW f, Filled(f), NEW path
  PROVE  GetField(f, path).n \in Int /\ GetField(f, path).b \in Data
<1>1. CASE path \in DOMAIN f
  BY <1>1 DEF GetField, Filled, Numbered
<1>2. CASE path \notin DOMAIN f
  <2>1. GetField(f, path).n = 0 /\ GetField(f, path).b = <<>>
    BY <1>2 DEF GetField, Value
  <2> QED BY <2>1 DEF Data
<1> QED BY <1>1, <1>2

\* An expression has a number for its result, or fails.
LEMMA EvalTyped ==
  ASSUME NEW c, Numbered(c.fields), c.packetLen \in Int,
         \A p \in DOMAIN c.marks : c.marks[p] \in Int,
         NEW e \in Optional, e.on # "none"
  PROVE  Eval(e, c) \in [ok : BOOLEAN, n : Int]
<1>1. e.n \in Int /\ (e.on = "field" => e.n > 0) /\ e.on \in Arithmetic
  BY DEF Optional, Exprs, Arithmetic
<1>2. Bad \in [ok : BOOLEAN, n : Int] /\ \A n \in Int : Result(n) \in [ok : BOOLEAN, n : Int]
  BY DEF Bad, Result
<1>3. CASE e.on = "const"
  BY <1>1, <1>2, <1>3 DEF Eval
<1>4. CASE e.on = "field"
  <2>1. CASE e.name \in DOMAIN c.fields /\ IsNumber(c.fields[e.name])
    <3>1. Eval(e, c) = Result(c.fields[e.name].n \div e.n)
      BY <1>4, <2>1 DEF Eval
    <3>2. c.fields[e.name].n \in Int
      BY <2>1 DEF Numbered
    <3>3. c.fields[e.name].n \div e.n \in Int
      BY <1>1, <1>4, <3>2
    <3> QED BY <1>2, <3>1, <3>3
  <2>2. CASE ~(e.name \in DOMAIN c.fields /\ IsNumber(c.fields[e.name]))
    <3>1. Eval(e, c) = Bad
      BY <1>4, <2>2 DEF Eval
    <3> QED BY <1>2, <3>1
  <2> QED BY <2>1, <2>2
<1>5. CASE e.on = "equal"
  <2>1. Eval(e, c) \in {Result(0), Result(1), Bad}
    BY <1>5 DEF Eval
  <2> QED BY <1>2, <2>1
<1>6. CASE e.on = "packetLen"
  <2>1. Eval(e, c) \in {Result(c.packetLen), Bad}
    BY <1>6 DEF Eval
  <2> QED BY <1>2, <2>1
<1>7. CASE e.on = "lenFrom"
  <2>1. CASE c.packetLen >= 0 /\ e.name \in DOMAIN c.marks
    <3>1. Eval(e, c) = Result(c.packetLen - c.marks[e.name])
      BY <1>7, <2>1 DEF Eval
    <3>2. c.packetLen - c.marks[e.name] \in Int
      BY <2>1
    <3> QED BY <1>2, <3>1, <3>2
  <2>2. CASE ~(c.packetLen >= 0 /\ e.name \in DOMAIN c.marks)
    <3>1. Eval(e, c) = Bad
      BY <1>7, <2>2 DEF Eval
    <3> QED BY <1>2, <3>1
  <2> QED BY <2>1, <2>2
<1> QED BY <1>1, <1>3, <1>4, <1>5, <1>6, <1>7 DEF Arithmetic

LEMMA SizeTyped ==
  ASSUME NEW c, Numbered(c.fields), c.packetLen \in Int,
         \A p \in DOMAIN c.marks : c.marks[p] \in Int,
         NEW e \in Optional, NEW size \in Int
  PROVE  GetSize(size, e, c) \in [ok : BOOLEAN, n : Int]
BY EvalTyped DEF GetSize, Result

\* What a walk over the nodes depends on: in the first round, the length of the
\* packet is unknown.
Frozen(f) == [fields |-> f, packetLen |-> -1, marks |-> NoMarks]

LEMMA EvalFrozen ==
  ASSUME NEW c, NEW e \in Optional, e.on # "none",
         c.packetLen = -1 \/ Eval(e, Frozen(c.fields)).ok
  PROVE  Eval(e, c) = Eval(e, Frozen(c.fields))
<1>1. /\ Frozen(c.fields).fields = c.fields /\ Frozen(c.fields).packetLen = -1
  BY DEF Frozen
<1>2. e.on \in Arithmetic
  BY DEF Optional, Exprs, Arithmetic
<1>3. CASE e.on \in {"const", "field", "equal"}
  BY <1>1, <1>3 DEF Eval
<1>4. CASE e.on \in {"packetLen", "lenFrom"}
  <2>1. Eval(e, Frozen(c.fields)) = Bad
    BY <1>1, <1>4 DEF Eval
  <2>2. c.packetLen = -1
    BY <2>1 DEF Bad
  <2>3. Eval(e, c) = Bad
    BY <1>4, <2>2 DEF Eval
  <2> QED BY <2>1, <2>3
<1> QED BY <1>2, <1>3, <1>4 DEF Arithmetic

LEMMA SizeFrozen ==
  ASSUME NEW c, NEW e \in Optional, NEW size,
         c.packetLen = -1 \/ GetSize(size, e, Frozen(c.fields)).ok
  PROVE  GetSize(size, e, c) = GetSize(size, e, Frozen(c.fields))
BY EvalFrozen DEF GetSize

LEMMA RepeatTyped ==
  ASSUME NEW S, NEW nodes \in Seq(S), NEW count \in Nat
  PROVE  Repeat(nodes, count) \in Seq(S)
<1>1. Len(nodes) \in Nat /\ \A i \in 1..Len(nodes) : nodes[i] \in S
  BY LenProperties, ElementOfSeq
<1>2. ASSUME NEW a \in Nat, NEW b \in Nat PROVE a * b \in Nat
  OBVIOUS
<1> DEFINE len == Len(nodes) * count
<1>3. len \in Nat
  BY <1>1, <1>2
<1>4. Len(nodes) = 0 => len = 0
  OBVIOUS
<1> HIDE DEF len
<1>5. ASSUME NEW i \in 1..len PROVE nodes[1 + ((i - 1) % Len(nodes))] \in S
  <2>1. Len(nodes) \in Nat \ {0} /\ i - 1 \in Nat
    BY <1>1, <1>3, <1>4
  <2>2. ASSUME NEW a \in Nat, NEW b \in Nat \ {0} PROVE 1 + (a % b) \in 1..b
    OBVIOUS
  <2> QED BY <1>1, <2>1, <2>2
<1>6. Repeat(nodes, count) = [i \in 1..len |-> nodes[1 + ((i - 1) % Len(nodes))]]
  BY DEF Repeat, len
<1> QED BY <1>3, <1>5, <1>6

\* The greatest of some of the first numbers is one of them: no bound of them
\* all is less.
LEMMA GreatestMember ==
  ASSUME NEW len \in Nat, NEW S \in SUBSET (1..len), S # {}
  PROVE  Max(S) \in S
<1> DEFINE bounds == {u \in Nat : \A x \in S : x <= u}
<1>1. len \in bounds /\ bounds \in SUBSET Nat
  OBVIOUS
<1> HIDE DEF bounds
<1>2. PICK m \in bounds : \A u \in bounds : m <= u
  BY <1>1, Least
<1> USE DEF bounds
<1>3. m \in Nat /\ \A x \in S : x <= m
  BY <1>2
<1>4. m \in S
  <2> SUFFICES ASSUME m \notin S PROVE FALSE
    OBVIOUS
  <2>1. \A x \in S : x \in Nat /\ x <= m - 1 /\ 1 <= x
    BY <1>3
  <2>2. m - 1 \in Nat
    <3>1. PICK x \in S : x \in Nat /\ x <= m - 1 /\ 1 <= x
      BY <2>1
    <3> QED BY <1>3, <3>1
  <2>3. m - 1 \in bounds
    BY <2>1, <2>2
  <2>4. m <= m - 1
    BY <1>2, <2>3
  <2> QED BY <1>3, <2>4
<1>5. m \in S /\ \A x \in S : m >= x
  BY <1>3, <1>4
<1> HIDE DEF bounds
<1> QED BY <1>5 DEF Max

LEMMA AtLeastZero == ASSUME NEW n \in Int PROVE Max({0, n}) \in Nat
<1>1. \E m \in {0, n} : \A x \in {0, n} : m >= x
  OBVIOUS
<1>2. Max({0, n}) \in {0, n} /\ \A x \in {0, n} : Max({0, n}) >= x
  BY <1>1 DEF Max
<1> QED BY <1>2

Groups == {"struct", "if", "switch", "array"}

\* The nodes of a group are nodes, and the same ones in every round.
LEMMA ChildrenTyped ==
  ASSUME NEW c, Numbered(c.fields), c.packetLen \in Int,
         \A p \in DOMAIN c.marks : c.marks[p] \in Int,
         NEW n \in Nodes, n.kind \in Groups
  PROVE  Children(n, c).nodes \in Seq(Nodes)
<1>1. n.then \in Seq(Nodes) /\ <<>> \in Seq(Nodes)
  BY NodesAssumption
<1>2. CASE n.kind = "struct"
  BY <1>1, <1>2 DEF Children, Group
<1>3. CASE n.kind = "if"
  BY <1>1, <1>3 DEF Children, Group
<1>4. CASE n.kind = "array"
  <2> DEFINE length == GetSize(n.size, n.sizeExpr, c)
  <2>1. length.n \in Int
    BY SizeTyped, NodesAssumption
  <2>2. Children(n, c).nodes = Repeat(n.then, Max({0, length.n}))
    BY <1>4 DEF Children, Group
  <2> HIDE DEF length
  <2> QED BY <1>1, <2>1, <2>2, AtLeastZero, RepeatTyped
<1>5. CASE n.kind = "switch"
  <2> DEFINE chosen == {i \in DOMAIN n.cases : n.cases[i].value = GetField(c.fields, n.field)}
  <2>1. \/ Children(n, c).nodes \in {<<>>, n.then}
        \/ chosen # {} /\ Children(n, c).nodes = n.cases[Max(chosen)].then
    BY <1>5 DEF Children, Group
  <2>2. chosen # {} => Max(chosen) \in DOMAIN n.cases
    <3> SUFFICES ASSUME chosen # {} PROVE Max(chosen) \in DOMAIN n.cases
      OBVIOUS
    <3>1. Len(n.cases) \in Nat /\ chosen \in SUBSET (1..Len(n.cases))
      BY NodesAssumption
    <3> HIDE DEF chosen
    <3>2. Max(chosen) \in chosen
      BY <3>1, GreatestMember
    <3> QED BY <3>2 DEF chosen
  <2> HIDE DEF chosen
  <2> QED BY <1>1, <2>1, <2>2, NodesAssumption
<1> QED BY <1>2, <1>3, <1>4, <1>5 DEF Groups

LEMMA ChildrenFrozen ==
  ASSUME NEW c, NEW n \in Nodes, n.kind \in Groups,
         c.packetLen = -1 \/ Children(n, Frozen(c.fields)).ok
  PROVE  Children(n, c) = Children(n, Frozen(c.fields))
<1>1. n.sizeExpr \in Optional /\ n.cond \in Optional /\ (n.kind = "if" => n.cond.on # "none")
  BY NodesAssumption
<1>2. Frozen(c.fields).fields = c.fields
  BY DEF Frozen
<1>3. CASE n.kind \in {"struct", "switch"}
  BY <1>2, <1>3 DEF Children
<1>4. CASE n.kind = "if"
  <2>1. Children(n, Frozen(c.fields)).ok = Eval(n.cond, Frozen(c.fields)).ok
    BY <1>4 DEF Children, Group
  <2>2. Eval(n.cond, c) = Eval(n.cond, Frozen(c.fields))
    BY <1>1, <1>4, <2>1, EvalFrozen
  <2> QED BY <1>4, <2>2 DEF Children
<1>5. CASE n.kind = "array"
  <2>1. Children(n, Frozen(c.fields)).ok = GetSize(n.size, n.sizeExpr, Frozen(c.fields)).ok
    BY <1>5 DEF Children, Group
  <2>2. GetSize(n.size, n.sizeExpr, c) = GetSize(n.size, n.sizeExpr, Frozen(c.fields))
    BY <1>1, <2>1, SizeFrozen
  <2> QED BY <1>5, <2>2 DEF Children
<1> QED BY <1>3, <1>4, <1>5 DEF Groups

-----------------------------------------------------------------------------
(* What a write does to the Context of Encode.                               *)

ContextFields == {"pc", "todo", "fields", "packetLen", "marks", "data", "round", "index",
                  "offsets", "log", "exact", "seen"}
IsContext(c) == c = [f \in ContextFields |-> c[f]]

\* Before any write: the index has an offset.
Ready(c) ==
  /\ IsContext(c) /\ c.data \in Data /\ c.round \in Nat
  /\ c.offsets \in Seq(Nat) /\ c.index \in 1..Len(c.offsets)

Follows(c, d) ==
  /\ IsContext(d) /\ d.todo = c.todo /\ d.fields = c.fields /\ d.packetLen = c.packetLen
  /\ d.marks = c.marks /\ d.round = c.round /\ d.index = c.index /\ d.offsets = c.offsets
  /\ d.seen = c.seen
Stopped(c, d) ==
  Follows(c, d) /\ d.pc \in {"failed", "panicked"} /\ d.data = c.data /\ d.log = c.log
Passed(c, d) == Follows(c, d) /\ d.pc = c.pc /\ d.data = c.data /\ d.log = c.log
Wrote(c, d, n, len, computed) ==
  /\ Follows(c, d) /\ d.pc = c.pc /\ d.data \in Data /\ Len(c.data) <= Len(d.data) /\ len \in Nat
  /\ d.log = c.log \cup {[node |-> n, round |-> c.round, index |-> c.index,
                          at |-> IF c.round = 0 THEN Len(c.data) ELSE c.offsets[c.index],
                          len |-> len, computed |-> computed]}
WroteSized(c, d, n, size, computed) ==
  \/ Stopped(c, d)
  \/ \E len \in Nat : Wrote(c, d, n, len, computed) /\ (size >= 0 => len = size)

LEMMA FailStops ==
  ASSUME NEW c, IsContext(c)
  PROVE  Stopped(c, Fail(c)) /\ Stopped(c, Crash(c))
BY DEF IsContext, ContextFields, Stopped, Follows, Fail, Crash

\* Whether values are exact is written down and nothing else.
LEMMA ExactFollows ==
  ASSUME NEW c, Ready(c), NEW x
  PROVE  Ready([c EXCEPT !.exact = x]) /\ Passed(c, [c EXCEPT !.exact = x])
BY DEF Ready, IsContext, ContextFields, Passed, Follows

LEMMA ExactWrote ==
  ASSUME NEW c, Ready(c), NEW x, NEW d, NEW n, NEW size, NEW computed,
         WroteSized([c EXCEPT !.exact = x], d, n, size, computed)
  PROVE  WroteSized(c, d, n, size, computed)
<1> DEFINE b == [c EXCEPT !.exact = x]
<1>1. Passed(c, b)
  BY ExactFollows
<1> HIDE DEF b
<1>2. Follows(b, d) => Follows(c, d)
  BY <1>1 DEF Passed, Follows
<1>3. Stopped(b, d) => Stopped(c, d)
  BY <1>1, <1>2 DEF Stopped, Passed
<1>4. ASSUME NEW len, Wrote(b, d, n, len, computed)
      PROVE  Wrote(c, d, n, len, computed)
  BY <1>1, <1>2, <1>4 DEF Passed, Follows, Wrote
<1>5. WroteSized(b, d, n, size, computed)
  BY DEF b
<1> QED BY <1>3, <1>4, <1>5 DEF WroteSized

LEMMA BytesWritten ==
  ASSUME NEW c, Ready(c), NEW n, NEW bytes \in Data, NEW computed
  PROVE  Wrote(c, WriteBytes(c, n, bytes, computed), n, Len(bytes), computed)
<1> DEFINE at == IF c.round = 0 THEN Len(c.data) ELSE c.offsets[c.index]
           data == IF c.round = 0 THEN c.data \o bytes ELSE Overwrite(c.data, at, bytes)
           log == c.log \cup {[node |-> n, round |-> c.round, index |-> c.index, at |-> at,
                               len |-> Len(bytes), computed |-> computed]}
           d == [c EXCEPT !.data = data, !.log = log]
<1>1. Len(bytes) \in Nat /\ Len(c.data) \in Nat /\ c.data \in Data
  BY LenProperties DEF Data, Ready
<1>2. WriteBytes(c, n, bytes, computed) = d
  <2>1. c.round \in Nat /\ Len(c.offsets) \in Nat /\ c.index \in 1..Len(c.offsets)
    BY LenProperties DEF Ready
  <2>2. ~(c.round > 0 /\ c.index > Len(c.offsets))
    BY <2>1
  <2> QED BY <2>2 DEF WriteBytes
<1>3. data \in Data /\ Len(c.data) <= Len(data)
  <2>1. CASE c.round = 0
    <3>1. c.data \o bytes \in Data /\ Len(c.data \o bytes) = Len(c.data) + Len(bytes)
      BY <1>1, ConcatProperties DEF Data
    <3> QED BY <1>1, <2>1, <3>1
  <2>2. CASE c.round # 0
    <3>1. at \in Int
      BY <2>2, ElementOfSeq DEF Ready
    <3> HIDE DEF at
    <3> QED BY <1>1, <2>2, <3>1, OverwriteTyped
  <2> QED BY <2>1, <2>2
<1> HIDE DEF data, log
<1>4. /\ Follows(c, d) /\ d.pc = c.pc /\ d.data = data /\ d.log = log
  BY DEF Ready, IsContext, ContextFields, Follows
<1> HIDE DEF d
<1> QED BY <1>1, <1>2, <1>3, <1>4 DEF Wrote, log

LEMMA SizedBytesWritten ==
  ASSUME NEW c, Ready(c), NEW n, NEW bytes \in Data, NEW computed, NEW size \in Int,
         size >= 0 => Len(bytes) = size
  PROVE  WroteSized(c, WriteBytes(c, n, bytes, computed), n, size, computed)
<1>1. Len(bytes) \in Nat
  BY LenProperties DEF Data
<1> QED BY <1>1, BytesWritten DEF WroteSized

LEMMA PlaceholderWritten ==
  ASSUME NEW c, Ready(c), NEW n, NEW size \in Int, NEW computed
  PROVE  LET d == WritePlaceholder(c, n, size, computed)
         IN  Stopped(c, d) \/ (size >= 0 /\ Wrote(c, d, n, size, computed))
<1>1. CASE size < 0
  BY <1>1, FailStops DEF WritePlaceholder, Ready
<1>2. CASE size >= 0
  <2> DEFINE bytes == [i \in 1..size |-> 0]
  <2>1. bytes \in Data /\ Len(bytes) = size
    BY <1>2, ByteIsNat DEF Data
  <2>2. WritePlaceholder(c, n, size, computed) = WriteBytes(c, n, bytes, computed)
    BY <1>2 DEF WritePlaceholder
  <2> HIDE DEF bytes
  <2> QED BY <1>2, <2>1, <2>2, BytesWritten
<1> QED BY <1>1, <1>2

Types == {"hex", "string", "int", "uint", "float"}

\* Write by type: as many bytes as asked for, or none.
LEMMA ValueWritten ==
  ASSUME NEW c, Ready(c), NEW n \in Nodes, NEW type \in Types, NEW size \in Int,
         NEW v, v.n \in Int, v.b \in Data,
         type = "float" /\ IsNumber(v) => v.n \in 0..31
  PROVE  WroteSized(c, Write(c, n, type, v, size), n, size, TRUE)
<1>1. IsContext(c) /\ n.pad.byte \in Byte
  BY NodesAssumption DEF Ready
<1>2. WroteSized(c, Fail(c), n, size, TRUE) /\ WroteSized(c, Crash(c), n, size, TRUE)
  BY <1>1, FailStops DEF WroteSized
<1>3. CASE type \in {"hex", "string"}
  <2> DEFINE bytes == ResizeBytes(v.b, size, n.pad)
             x == c.exact /\ bytes = v.b
  <2>1. bytes \in Data /\ (size >= 0 => Len(bytes) = size)
    BY <1>1, ResizedBytes
  <2>2. \/ Write(c, n, type, v, size) = Fail(c)
        \/ Write(c, n, type, v, size) = WriteBytes([c EXCEPT !.exact = x], n, bytes, TRUE)
    BY <1>3 DEF Write, WriteString
  <2> HIDE DEF bytes, x
  <2>3. WroteSized(c, WriteBytes([c EXCEPT !.exact = x], n, bytes, TRUE), n, size, TRUE)
    <3>1. Ready([c EXCEPT !.exact = x])
      BY ExactFollows
    <3>2. WroteSized([c EXCEPT !.exact = x], WriteBytes([c EXCEPT !.exact = x], n, bytes, TRUE),
                     n, size, TRUE)
      BY <2>1, <3>1, SizedBytesWritten
    <3> QED BY <3>2, ExactWrote
  <2> QED BY <1>2, <2>2, <2>3
<1>4. CASE type \in {"int", "uint"}
  <2> DEFINE bytes == IntBytes(v.n, size, n.order)
             x == c.exact /\ Shifted(v.n)[8 * size] = 0
  <2>1. \/ Write(c, n, type, v, size) \in {Fail(c), Crash(c)}
        \/ /\ size \in 0..8
           /\ Write(c, n, type, v, size) = WriteBytes([c EXCEPT !.exact = x], n, bytes, TRUE)
    BY <1>4 DEF Write, WriteInt
  <2>2. size \in 0..8 => bytes \in Data /\ Len(bytes) = size
    BY IntBytesSized
  <2> HIDE DEF bytes, x
  <2>3. ASSUME size \in 0..8
        PROVE  WroteSized(c, WriteBytes([c EXCEPT !.exact = x], n, bytes, TRUE), n, size, TRUE)
    <3>1. Ready([c EXCEPT !.exact = x])
      BY ExactFollows
    <3>2. WroteSized([c EXCEPT !.exact = x], WriteBytes([c EXCEPT !.exact = x], n, bytes, TRUE),
                     n, size, TRUE)
      BY <2>2, <2>3, <3>1, SizedBytesWritten
    <3> QED BY <3>2, ExactWrote
  <2> QED BY <1>2, <2>1, <2>3
<1>5. CASE type = "float"
  <2> DEFINE whole == FloatBytes(v.n)
             bytes == IF n.order = "big" THEN SubSeq(whole, 9 - size, 8)
                                         ELSE SubSeq(Reverse(whole), 1, size)
  <2>1. \/ Write(c, n, type, v, size) \in {Fail(c), Crash(c)}
        \/ /\ size \in 0..8 /\ IsNumber(v)
           /\ Write(c, n, type, v, size) = WriteBytes(c, n, bytes, TRUE)
    BY <1>5 DEF Write, WriteFloat
  <2>2. size \in 0..8 /\ IsNumber(v) => bytes \in Data /\ Len(bytes) = size
    <3> SUFFICES ASSUME size \in 0..8, IsNumber(v) PROVE bytes \in Data /\ Len(bytes) = size
      OBVIOUS
    <3>1. whole \in Data /\ Len(whole) = 8
      BY <1>5, FloatBytesTyped
    <3> HIDE DEF whole
    <3>2. Reverse(whole) \in Data /\ Len(Reverse(whole)) = 8
      BY <3>1, ReversedBytes
    <3> QED BY <3>1, <3>2, PartOfEight
  <2> HIDE DEF bytes
  <2> QED BY <1>2, <2>1, <2>2, SizedBytesWritten
<1> QED BY <1>3, <1>4, <1>5 DEF Types

-----------------------------------------------------------------------------
(* What a leaf does: nodes with bytes of their own.                          *)

\* The numbers of a Context.
Counted(c) ==
  /\ Filled(c.fields) /\ c.packetLen \in Int /\ \A p \in DOMAIN c.marks : c.marks[p] \in Int

\* A checksum is a number.
LEMMA CrcTyped ==
  ASSUME ChecksumsAreNumbers, NEW c, Numbered(c.fields), c.packetLen \in Int,
         \A p \in DOMAIN c.marks : c.marks[p] \in Int,
         NEW n \in Nodes, HasCrc(n), NEW data \in Data, NEW pos \in Int
  PROVE  FieldCrc(n, c, data, pos).n \in Int
<1> DEFINE from == GetSize(0, n.crcStart, c)
           end == pos - (n.bits \div 8)
           to == GetSize(end, n.crcEnd, c)
           valid == from.ok /\ to.ok /\ 0 <= from.n /\ from.n <= to.n /\ to.n <= Len(data)
           part == SubSeq(data, from.n + 1, to.n)
<1>1. n.bits \in Nat /\ n.crcStart \in Optional /\ n.crcEnd \in Optional
  BY NodesAssumption
<1>2. end \in Int
  BY <1>1
<1>3. FieldCrc(n, c, data, pos) = IF valid THEN Crc16Of(n.crc, part) ELSE Bad
  BY DEF FieldCrc
<1> HIDE DEF end
<1>4. \A size \in Int, e \in Optional : GetSize(size, e, c).n \in Int
  BY SizeTyped
<1>5. from.n \in Int /\ to.n \in Int
  BY <1>1, <1>2, <1>4
<1> HIDE DEF from, to
<1>6. CASE valid
  <2>1. Len(data) \in Nat
    BY LenProperties DEF Data
  <2>2. from.n + 1 \in 1..(Len(data) + 1) /\ to.n \in ((from.n + 1) - 1)..Len(data)
    BY <1>5, <1>6, <2>1
  <2>3. part \in Data
    BY <2>2, PartOfBytes
  <2> HIDE DEF part
  <2>4. n.crc \in KnownCrcs => Checksum(n.crc, part) \in Int
    BY <2>3 DEF ChecksumsAreNumbers
  <2> QED BY <1>3, <1>6, <2>4 DEF Crc16Of, Result, Bad
<1>7. CASE ~valid
  <2> HIDE DEF valid
  <2> QED BY <1>3, <1>7 DEF Bad
<1> QED BY <1>6, <1>7

\* BytesNode.Encode in the round of the node.
LEMMA EncodeValueWrites ==
  ASSUME ChecksumsAreNumbers, protocol \in Protocols,
         NEW c, Ready(c), Counted(c), c.fields \in protocol.inputs,
         NEW n \in Nodes, NEW size \in Int
  PROVE  LET d == EncodeValue(c, n, size)
         IN  \/ Stopped(c, d)
             \/ \E len \in Nat : /\ Wrote(c, d, n, len, TRUE)
                                 /\ size >= 0 /\ (n.hasDefault => size = n.size) => len = size
<1> DEFINE data == IF c.round = 0 THEN <<>> ELSE c.data
           crc == FieldCrc(n, c, data, 0)
           d == EncodeValue(c, n, size)
           v == GetField(c.fields, n.name)
<1>1. /\ IsContext(c) /\ Numbered(c.fields) /\ c.packetLen \in Int
      /\ \A p \in DOMAIN c.marks : c.marks[p] \in Int
  BY DEF Ready, Counted, Filled
<1>2. n.type \in Types /\ n.size \in Int /\ n.default \in Data
  BY NodesAssumption DEF Types, Data
<1>3. SUFFICES \/ Stopped(c, d) \/ WroteSized(c, d, n, size, TRUE)
               \/ n.hasDefault /\ WroteSized(c, d, n, n.size, TRUE)
  BY DEF WroteSized
<1>4. CASE HasCrc(n)
  <2>1. crc.n \in Int
    <3>1. data \in Data
      BY DEF Ready, Data
    <3> HIDE DEF data
    <3> QED BY <1>1, <1>4, <3>1, CrcTyped
  <2>2. d = IF crc.ok THEN Write(c, n, "uint", Uint(crc.n), size) ELSE Fail(c)
    BY <1>4 DEF EncodeValue
  <2> HIDE DEF crc, d
  <2>3. WroteSized(c, Write(c, n, "uint", Uint(crc.n), size), n, size, TRUE)
    <3>1. Uint(crc.n).n = crc.n /\ Uint(crc.n).b = <<>> /\ <<>> \in Data /\ "uint" \in Types
      BY DEF Uint, Value, Data, Types
    <3> QED BY <2>1, <3>1, ValueWritten
  <2> QED BY <1>1, <2>2, <2>3, FailStops
<1>5. CASE ~HasCrc(n) /\ HasField(c.fields, n.name)
  <2>1. d = Write(c, n, TypeOf(n), v, size)
    BY <1>5 DEF EncodeValue
  <2>2. v.n \in Int /\ v.b \in Data
    BY FieldTyped DEF Counted
  <2>3. TypeOf(n) \in Types /\ (TypeOf(n) = "float" => n.type = "float")
    BY <1>2 DEF TypeOf, Types
  <2>4. n.type = "float" /\ IsNumber(v) => v.n \in 0..31
    <3> SUFFICES ASSUME n.type = "float", IsNumber(v) PROVE v.n \in 0..31
      OBVIOUS
    <3>1. n.name \in DOMAIN c.fields
      BY DEF GetField, IsNumber, Value
    <3>2. v = c.fields[n.name]
      BY <3>1 DEF GetField
    <3> QED BY <3>1, <3>2, ProtocolsAssumption
  <2> HIDE DEF d, v
  <2> QED BY <2>1, <2>2, <2>3, <2>4, ValueWritten
<1>6. CASE ~HasCrc(n) /\ ~HasField(c.fields, n.name) /\ n.hasDefault
  <2> DEFINE x == c.exact /\ Len(Default(n)) = size
  <2>1. d = WriteBytes([c EXCEPT !.exact = x], n, Default(n), TRUE)
    BY <1>6 DEF EncodeValue
  <2> HIDE DEF x, d
  <2>2. Default(n) \in Data /\ (n.size >= 0 => Len(Default(n)) = n.size)
    <3>1. [byte |-> 0, left |-> FALSE].byte \in Byte
      BY ByteIsNat
    <3> QED BY <1>2, <3>1, ResizedBytes DEF Default
  <2>3. Ready([c EXCEPT !.exact = x])
    BY ExactFollows
  <2>4. WroteSized([c EXCEPT !.exact = x], d, n, n.size, TRUE)
    BY <1>2, <2>1, <2>2, <2>3, SizedBytesWritten
  <2> QED BY <1>6, <2>4, ExactWrote
<1>7. CASE ~HasCrc(n) /\ ~HasField(c.fields, n.name) /\ ~n.hasDefault
  <2>1. d = WritePlaceholder(c, n, size, TRUE)
    BY <1>7 DEF EncodeValue
  <2> HIDE DEF d
  <2>2. Stopped(c, d) \/ (size >= 0 /\ Wrote(c, d, n, size, TRUE))
    BY <2>1, PlaceholderWritten
  <2>3. size >= 0 => size \in Nat
    OBVIOUS
  <2> QED BY <2>2, <2>3 DEF WroteSized
<1> QED BY <1>4, <1>5, <1>6, <1>7

\* CalcNode.Encode in the round of the node.
LEMMA EncodeFormulaWrites ==
  ASSUME NEW c, Ready(c), Counted(c), NEW n \in Nodes, n.kind = "calc", NEW size \in Int
  PROVE  LET d == EncodeFormula(c, n, size)
         IN  \/ WroteSized(c, d, n, size, TRUE)
             \/ n.formula.on = "equal" /\ Passed(c, d)
<1> DEFINE v == Eval(n.formula, c)
           d == EncodeFormula(c, n, size)
<1>1. /\ IsContext(c) /\ Numbered(c.fields) /\ c.packetLen \in Int
      /\ \A p \in DOMAIN c.marks : c.marks[p] \in Int
  BY DEF Ready, Counted, Filled
<1>2. v.n \in Int
  BY <1>1, EvalTyped, NodesAssumption
<1>3. d = IF ~v.ok THEN Fail(c) ELSE IF n.formula.on = "equal" THEN c
          ELSE Write(c, n, "int", Int64(v.n), size)
  BY DEF EncodeFormula
<1> HIDE DEF v, d
<1>4. WroteSized(c, Fail(c), n, size, TRUE)
  BY <1>1, FailStops DEF WroteSized
<1>5. WroteSized(c, Write(c, n, "int", Int64(v.n), size), n, size, TRUE)
  <2>1. Int64(v.n).n = v.n /\ Int64(v.n).b = <<>> /\ <<>> \in Data /\ "int" \in Types
    BY DEF Int64, Value, Data, Types
  <2> QED BY <1>2, <2>1, ValueWritten
<1>6. Passed(c, c)
  BY <1>1 DEF Passed, Follows
<1> QED BY <1>3, <1>4, <1>5, <1>6 DEF d

\* A leaf stops Encode, leaves everything as it is, reserves its room in a round
\* before its own, or writes its value in its own round.
LeafSize(c, n) == GetSize(SizeOf(n), n.sizeExpr, c)
LeafOutcome(c, d, n) ==
  LET size == LeafSize(c, n) IN
  \/ Stopped(c, d)
  \/ /\ Passed(c, d) /\ (c.round = 0 => size.ok)
     /\ \/ c.round > n.round
        \/ n.kind = "bytes" /\ size = Result(0)
        \/ n.kind = "calc" /\ n.formula.on = "equal" /\ c.round = n.round
  \/ /\ size.ok /\ (n.kind = "bytes" => size # Result(0))
     /\ c.round < n.round /\ size.n >= 0 /\ Wrote(c, d, n, size.n, FALSE)
  \/ /\ size.ok /\ (n.kind = "bytes" => size # Result(0))
     /\ c.round = n.round
     /\ \E len \in Nat : Wrote(c, d, n, len, TRUE) /\ (size.n >= 0 /\ ~Loose(n) => len = size.n)

\* Only fields declared in whole bytes by bits are ever resized.
Resizable == {n \in Nodes : n.kind = "bytes" /\ n.bits > 0 /\ n.bits % 8 = 0}

LEMMA SizeOfTyped ==
  ASSUME NEW n \in Nodes
  PROVE  SizeOf(n) \in Int
<1>1. n.size \in Int /\ n.bits \in Nat
  BY NodesAssumption
<1>2. n.bits \div 8 \in Int
  BY <1>1
<1> QED BY <1>1, <1>2 DEF SizeOf

LEMMA BytesLeaf ==
  ASSUME ChecksumsAreNumbers, protocol \in Protocols, resized \subseteq Resizable,
         NEW c, Ready(c), Counted(c), c.fields \in protocol.inputs,
         NEW n \in Nodes, n.kind = "bytes", NEW x, c.pc = "run"
  PROVE  LET size == GetSize(SizeOf(n), n.sizeExpr, c)
         IN  LeafOutcome(c, IF size = Result(0) THEN [c EXCEPT !.exact = x]
                            ELSE Scheduled(c, n, size, EncodeValue), n)
<1> DEFINE size == GetSize(SizeOf(n), n.sizeExpr, c)
           d == Scheduled(c, n, size, EncodeValue)
           e == EncodeValue(c, n, size.n)
<1>1. size \in [ok : BOOLEAN, n : Int]
  BY SizeOfTyped, SizeTyped, NodesAssumption DEF Counted, Filled
<1>2. IsContext(c) /\ c.round \in Nat /\ n.round \in Nat
  BY NodesAssumption DEF Ready
<1>3. CASE size = Result(0)
  <2>1. Passed(c, [c EXCEPT !.exact = x])
    BY ExactFollows
  <2>2. size.ok
    BY <1>3 DEF Result
  <2> QED BY <1>3, <2>1, <2>2 DEF LeafOutcome, LeafSize
<1>4. CASE size # Result(0)
  <2>1. size = LeafSize(c, n)
    BY DEF LeafSize
  <2>2. CASE ~size.ok
    <3>1. d = Fail(c)
      BY <2>2 DEF Scheduled
    <3> QED BY <1>2, <1>4, <3>1, FailStops DEF LeafOutcome
  <2>3. CASE size.ok /\ c.round > n.round
    <3>1. d = c
      BY <2>3 DEF Scheduled
    <3>2. Passed(c, c)
      BY <1>2 DEF Passed, Follows
    <3> QED BY <1>4, <2>1, <2>3, <3>1, <3>2 DEF LeafOutcome
  <2>4. CASE size.ok /\ c.round < n.round
    <3> HIDE DEF size, d
    <3>0. ~(c.round > n.round)
      BY <1>2, <2>4
    <3>1. d = WritePlaceholder(c, n, size.n, FALSE)
      BY <2>4, <3>0, Zenon DEF Scheduled, d
    <3>2. Stopped(c, d) \/ (size.n >= 0 /\ Wrote(c, d, n, size.n, FALSE))
      BY <1>1, <3>1, PlaceholderWritten
    <3>3. LeafOutcome(c, d, n)
      BY <1>4, <2>1, <2>4, <3>2 DEF LeafOutcome
    <3> QED BY <1>4, <3>3 DEF size, d
  <2>5. CASE size.ok /\ c.round = n.round
    <3>1. d = e
      BY <1>2, <2>5 DEF Scheduled
    <3>2. n.hasDefault /\ ~Loose(n) => size.n = n.size
      <4> SUFFICES ASSUME n.hasDefault, ~Loose(n) PROVE size.n = n.size
        OBVIOUS
      <4>1. n.sizeExpr.on = "none" /\ n \notin resized
        BY NodesAssumption DEF Loose, Resizable
      <4> QED BY <4>1 DEF GetSize, SizeOf, Result
    <3> HIDE DEF size, d
    <3>3. \/ Stopped(c, e)
          \/ \E len \in Nat : /\ Wrote(c, e, n, len, TRUE)
                              /\ size.n >= 0 /\ (n.hasDefault => size.n = n.size) => len = size.n
      BY <1>1, EncodeValueWrites
    <3> HIDE DEF e
    <3>4. LeafOutcome(c, d, n)
      BY <1>4, <2>1, <2>5, <3>1, <3>2, <3>3 DEF LeafOutcome
    <3> QED BY <1>4, <3>4 DEF size, d
  <2> QED BY <1>1, <1>2, <2>2, <2>3, <2>4, <2>5
<1> QED BY <1>3, <1>4

LEMMA CalcLeaf ==
  ASSUME resized \subseteq Resizable,
         NEW c, Ready(c), Counted(c), NEW n \in Nodes, n.kind = "calc", c.pc = "run"
  PROVE  LET size == GetSize(n.size, n.sizeExpr, c)
         IN  LeafOutcome(c, IF c.round > n.round THEN c
                            ELSE Scheduled(c, n, size, EncodeFormula), n)
<1> DEFINE size == GetSize(n.size, n.sizeExpr, c)
           d == Scheduled(c, n, size, EncodeFormula)
           e == EncodeFormula(c, n, size.n)
<1>1. size \in [ok : BOOLEAN, n : Int]
  BY SizeTyped, NodesAssumption DEF Counted, Filled
<1>2. IsContext(c) /\ c.round \in Nat /\ n.round \in Nat
  BY NodesAssumption DEF Ready
<1>3. size = LeafSize(c, n)
  BY DEF LeafSize, SizeOf, Resizable
<1>4. CASE c.round > n.round
  <2>1. Passed(c, c)
    BY <1>2 DEF Passed, Follows
  <2>2. c.round # 0
    BY <1>2, <1>4
  <2>3. LeafOutcome(c, c, n)
    BY <1>4, <2>1, <2>2, Zenon DEF LeafOutcome
  <2> QED BY <1>4, <2>3
<1>5. CASE ~(c.round > n.round) /\ ~size.ok
  <2>1. d = Fail(c)
    BY <1>5 DEF Scheduled
  <2> QED BY <1>2, <1>5, <2>1, FailStops DEF LeafOutcome
<1>6. CASE c.round < n.round /\ size.ok
  <2> HIDE DEF size, d
  <2>0. ~(c.round > n.round)
    BY <1>2, <1>6
  <2>1. d = WritePlaceholder(c, n, size.n, FALSE)
    BY <1>6, <2>0, Zenon DEF Scheduled, d
  <2>2. Stopped(c, d) \/ (size.n >= 0 /\ Wrote(c, d, n, size.n, FALSE))
    BY <1>1, <2>1, PlaceholderWritten
  <2>3. LeafOutcome(c, d, n)
    BY <1>3, <1>6, <2>2 DEF LeafOutcome
  <2> QED BY <1>2, <1>6, <2>3 DEF size, d
<1>7. CASE c.round = n.round /\ size.ok
  <2>1. d = e
    BY <1>2, <1>7 DEF Scheduled
  <2> HIDE DEF size, d
  <2>2. WroteSized(c, e, n, size.n, TRUE) \/ (n.formula.on = "equal" /\ Passed(c, e))
    BY <1>1, EncodeFormulaWrites
  <2> HIDE DEF e
  <2>3. LeafOutcome(c, d, n)
    BY <1>3, <1>7, <2>1, <2>2 DEF LeafOutcome, WroteSized
  <2> QED BY <1>2, <1>7, <2>3 DEF size, d
<1> QED BY <1>1, <1>2, <1>4, <1>5, <1>6, <1>7

-----------------------------------------------------------------------------
(* The walk over the nodes is the same in every round.                       *)

Leaf(n) == n.kind \in {"bytes", "calc"}

LEMMA Kinds == \A n \in Nodes : n.kind \in Groups <=> ~Leaf(n)
  BY NodesAssumption DEF Groups, Leaf

\* Where a walk is: the nodes still to do, and how many it has entered.
Places == [todo : Seq(Nodes), index : Nat]
Here(c) == [todo |-> c.todo, index |-> c.index]

\* From one place to the next, over the fields f and the nodes V in the order in
\* which they are entered.
Moves(f, V, s, t) ==
  /\ s.todo # <<>>
  /\ \/ ~MatchFlow(Head(s.todo), "encode") /\ t.todo = Tail(s.todo) /\ t.index = s.index
     \/ /\ MatchFlow(Head(s.todo), "encode")
        /\ t.index = s.index + 1 /\ t.index <= Len(V) /\ V[t.index] = Head(s.todo)
        /\ \/ Leaf(Head(s.todo)) /\ t.todo = Tail(s.todo)
           \/ /\ ~Leaf(Head(s.todo))
              /\ Children(Head(s.todo), Frozen(f)).ok
              /\ t.todo = Children(Head(s.todo), Frozen(f)).nodes \o Tail(s.todo)

\* T has the places of the first round, which is at the last of them; a later round
\* is at one of them.
Walk(T, V, c, nodes) ==
  /\ T \in Seq(Places) /\ T # <<>> /\ T[1] = [todo |-> nodes, index |-> 0]
  /\ V \in Seq(Nodes) /\ T[Len(T)].index = Len(V) /\ Len(c.offsets) = Len(V)
  /\ \A k \in 1..(Len(T) - 1) : Moves(c.fields, V, T[k], T[k + 1])
  /\ \A k \in 1..Len(T) : T[k].index <= Len(V)
  /\ c.round = 0 => T[Len(T)] = Here(c)
  /\ c.round # 0 => T[Len(T)].todo = <<>> /\ \E k \in 1..Len(T) : T[k] = Here(c)

\* V with what a first round has entered since.
Grown(V, W) ==
  /\ V \in Seq(Nodes) /\ W \in Seq(Nodes) /\ Len(V) <= Len(W)
  /\ \A i \in 1..Len(V) : W[i] = V[i]

\* A step of the first round makes the walk longer.
LEMMA WalkGrows ==
  ASSUME NEW T, NEW V, NEW c, NEW nodes, Walk(T, V, c, nodes), c.round = 0,
         NEW W, Grown(V, W), NEW d, d.round = 0, d.fields = c.fields, Here(d) \in Places,
         Len(d.offsets) = Len(W), d.index = Len(W), Moves(c.fields, W, Here(c), Here(d))
  PROVE  Walk(Append(T, Here(d)), W, d, nodes)
<1> DEFINE t == Here(d)
           S == Append(T, t)
<1>1. T \in Seq(Places) /\ Len(T) \in Nat /\ Len(T) # 0 /\ Len(V) \in Nat /\ Len(W) \in Nat
  BY LenProperties, EmptySeq DEF Walk, Grown
<1>2. /\ S \in Seq(Places) /\ Len(S) = Len(T) + 1 /\ S[Len(T) + 1] = t
      /\ \A k \in 1..Len(T) : S[k] = T[k]
  BY <1>1, AppendProperties
<1>3. S # <<>>
  BY <1>1, <1>2
<1>4. t.index = Len(W) /\ T[Len(T)] = Here(c)
  BY DEF Here, Walk
<1> HIDE DEF S, t
<1>5. S[1] = [todo |-> nodes, index |-> 0]
  BY <1>1, <1>2 DEF Walk
<1>6. ASSUME NEW k \in 1..(Len(S) - 1)
      PROVE  Moves(d.fields, W, S[k], S[k + 1])
  <2>1. CASE k = Len(T)
    BY <1>1, <1>2, <1>4, <2>1 DEF t
  <2>2. CASE k \in 1..(Len(T) - 1)
    <3>1. Moves(c.fields, V, T[k], T[k + 1]) /\ T[k + 1].index <= Len(V) /\ k + 1 \in 1..Len(T)
      BY <1>1, <2>2 DEF Walk
    <3>2. T[k + 1] \in Places /\ T[k] \in Places
      BY <1>1, <2>2, ElementOfSeq
    <3>3. T[k + 1].index \in Nat /\ T[k].index \in Nat
      BY <3>2 DEF Places
    <3>4. T[k + 1].index <= Len(W)
      BY <1>1, <3>1, <3>3 DEF Grown
    <3>5. T[k + 1].index = T[k].index + 1 => W[T[k + 1].index] = V[T[k + 1].index]
      BY <1>1, <3>1, <3>3 DEF Grown
    <3>6. S[k] = T[k] /\ S[k + 1] = T[k + 1]
      BY <1>1, <1>2, <2>2
    <3> QED BY <3>1, <3>4, <3>5, <3>6, Zenon DEF Moves
  <2> QED BY <1>1, <1>2, <2>1, <2>2
<1>7. ASSUME NEW k \in 1..Len(S)
      PROVE  S[k].index <= Len(W)
  <2>1. CASE k = Len(T) + 1
    BY <1>1, <1>2, <1>4, <2>1
  <2>2. CASE k \in 1..Len(T)
    <3>1. T[k].index <= Len(V) /\ T[k] \in Places
      BY <1>1, <2>2, ElementOfSeq DEF Walk
    <3>2. T[k].index \in Nat /\ S[k] = T[k] /\ Len(V) <= Len(W)
      BY <1>2, <2>2, <3>1 DEF Places, Grown
    <3> QED BY <1>1, <3>1, <3>2
  <2> QED BY <1>1, <1>2, <2>1, <2>2
<1>8. S[Len(S)] = t
  BY <1>2
<1>9. W \in Seq(Nodes) /\ d.round = 0
  BY DEF Grown
<1>10. Walk(S, W, d, nodes)
  BY <1>2, <1>3, <1>4, <1>5, <1>6, <1>7, <1>8, <1>9, Zenon DEF Walk, t
<1> QED BY <1>10 DEF S, t

\* A later round has a next place as long as there is a node to do, and none after
\* the last one.
LEMMA WalkGoesOn ==
  ASSUME NEW T, NEW V, NEW c, NEW nodes, Walk(T, V, c, nodes), c.round # 0
  PROVE  /\ c.todo = <<>> => c.index = Len(V)
         /\ c.todo # <<>> =>
              \E t \in Places : /\ Moves(c.fields, V, Here(c), t) /\ t.index <= Len(V)
                                /\ \A d : (/\ d.round = c.round /\ d.fields = c.fields
                                           /\ Len(d.offsets) = Len(V) /\ Here(d) = t)
                                          => Walk(T, V, d, nodes)
<1>1. T \in Seq(Places) /\ Len(T) \in Nat
  BY LenProperties DEF Walk
<1>2. PICK k \in 1..Len(T) : T[k] = Here(c)
  BY DEF Walk
<1>3. T[k].todo = c.todo /\ T[k].index = c.index
  BY <1>2 DEF Here
<1>4. CASE c.todo = <<>>
  <2>1. ~(k \in 1..(Len(T) - 1))
    BY <1>3, <1>4 DEF Walk, Moves
  <2>2. k = Len(T)
    BY <1>1, <2>1
  <2> QED BY <1>3, <1>4, <2>2 DEF Walk
<1>5. CASE c.todo # <<>>
  <2>1. k # Len(T)
    BY <1>3, <1>5 DEF Walk
  <2>2. k \in 1..(Len(T) - 1) /\ k + 1 \in 1..Len(T)
    BY <1>1, <2>1
  <2>3. T[k + 1] \in Places
    BY <1>1, <2>2, ElementOfSeq
  <2>4. Moves(c.fields, V, Here(c), T[k + 1]) /\ T[k + 1].index <= Len(V)
    BY <1>2, <2>2 DEF Walk
  <2>5. ASSUME NEW d, d.round = c.round, d.fields = c.fields, Len(d.offsets) = Len(V),
               Here(d) = T[k + 1]
        PROVE  Walk(T, V, d, nodes)
    BY <2>2, <2>5 DEF Walk
  <2> QED BY <1>5, <2>3, <2>4, <2>5
<1> QED BY <1>4, <1>5

-----------------------------------------------------------------------------
(* What the writes so far were.                                              *)

\* The size of a leaf over the fields f when the nodes in R are resized.
Size(n, f, R) == GetSize(IF n \in R THEN n.bits \div 8 ELSE n.size, n.sizeExpr, Frozen(f))

LEMMA LeafSizeFrozen ==
  ASSUME NEW c, NEW n \in Nodes, c.packetLen = -1 \/ Size(n, c.fields, resized).ok
  PROVE  LeafSize(c, n) = Size(n, c.fields, resized)
BY SizeFrozen, NodesAssumption DEF LeafSize, SizeOf, Size

\* Resizing takes no leaf its size.
LEMMA SizeGrows ==
  ASSUME NEW R, NEW Q \in SUBSET Resizable, R \subseteq Q, NEW n \in Nodes, NEW f
  PROVE  /\ Size(n, f, R).ok => Size(n, f, Q).ok
         /\ Size(n, f, R) # Result(0) => Size(n, f, Q) # Result(0)
<1>1. CASE n.sizeExpr.on # "none"
  BY <1>1 DEF Size, GetSize
<1>2. CASE n.sizeExpr.on = "none"
  <2>1. /\ Size(n, f, Q) = Result(IF n \in Q THEN n.bits \div 8 ELSE n.size)
        /\ Size(n, f, R) = Result(IF n \in R THEN n.bits \div 8 ELSE n.size)
    BY <1>2 DEF Size, GetSize
  <2>2. n \in Q => n.bits \div 8 # 0
    <3> SUFFICES ASSUME n \in Q PROVE n.bits \div 8 # 0
      OBVIOUS
    <3>1. n.bits \in Nat /\ n.bits > 0 /\ n.bits % 8 = 0
      BY NodesAssumption DEF Resizable
    <3> QED BY <3>1
  <2>3. \A x : Result(x).ok /\ Result(x).n = x
    BY DEF Result
  <2> QED BY <2>1, <2>2, <2>3
<1> QED BY <1>1, <1>2

Entries == [node : Nodes, round : Nat, index : Nat, at : Nat, len : Nat, computed : BOOLEAN]

\* Each write is that of one leaf in one round, at the offset of its index; it is the
\* computed one in the round of the leaf and reserves room in the rounds before.
LogOf(V, c, R) ==
  /\ c.log \subseteq Entries
  /\ \A o \in c.log :
       /\ o.index \in 1..Len(V) /\ o.node = V[o.index] /\ Leaf(o.node)
       /\ o.at = c.offsets[o.index]
       /\ o.round <= c.round /\ (o.round = c.round => o.index <= c.index)
       /\ (o.computed => o.round = o.node.round) /\ (~o.computed => o.round < o.node.round)
       /\ o.node.kind = "bytes" => Size(o.node, c.fields, R) # Result(0)
  /\ \A o, p \in c.log : o.index = p.index /\ o.round = p.round => o = p

\* Leaves of later rounds have their room, unless they have no size or a Decode has
\* changed it.
Reserved(V, c, R) ==
  /\ \A i \in 1..Len(V) : Leaf(V[i]) => Size(V[i], c.fields, R).ok
  /\ R = c.seen =>
       \A i \in 1..Len(V) :
         (/\ Leaf(V[i]) /\ V[i].round > 0
          /\ V[i].kind = "bytes" => Size(V[i], c.fields, R) # Result(0)) =>
           \E o \in c.log : o.round = 0 /\ o.index = i /\ o.len = Size(V[i], c.fields, R).n

\* Leaves whose round has come have their value.
Boolean(n) == n.kind = "calc" /\ n.formula.on = "equal"
Valued(c) ==
  \A o \in c.log :
    o.node.round < c.round \/ (o.node.round = c.round /\ o.index <= c.index) =>
      Boolean(o.node) \/ \E p \in c.log : p.index = o.index /\ p.computed

InPlace(c, R) ==
  R = c.seen =>
    \A p \in c.log : p.round > 0 =>
      \E o \in c.log : /\ o.round = 0 /\ o.index = p.index /\ o.at = p.at /\ o.node = p.node
                       /\ (Loose(p.node) \/ p.len <= o.len)

\* A node has been entered, and its offset is there.
Entered(V, W, c, b, n) ==
  /\ Grown(V, W) /\ c.index \in Nat /\ b.index = c.index + 1 /\ b.index \in 1..Len(W)
  /\ n \in Nodes /\ W[b.index] = n
  /\ b.round = c.round /\ c.round \in Nat /\ b.fields = c.fields /\ b.seen = c.seen
  /\ b.log = c.log /\ b.data = c.data /\ c.data \in Data /\ b.packetLen = c.packetLen
  /\ c.round = 0 => c.packetLen = -1
  /\ b.offsets \in Seq(Nat) /\ Len(b.offsets) = Len(W)
  /\ \A i \in 1..Len(V) : b.offsets[i] = c.offsets[i]
  /\ b.round = 0 => b.index = Len(V) + 1 /\ Len(W) = Len(V) + 1 /\ b.offsets[b.index] = Len(b.data)
  /\ b.round # 0 => W = V

\* A context that has moved on, and written nothing or one more entry.
Proceeds(b, d) ==
  /\ d.fields = b.fields /\ d.round = b.round /\ d.index = b.index /\ d.offsets = b.offsets
  /\ d.seen = b.seen

LEMMA LogMovesOn ==
  ASSUME NEW R, NEW V, NEW W, NEW c, NEW b, NEW n, NEW d,
         Entered(V, W, c, b, n), LogOf(V, c, R), Proceeds(b, d), d.log = c.log
  PROVE  LogOf(W, d, R)
<1>1. Len(V) \in Nat /\ Len(W) \in Nat /\ Len(V) <= Len(W)
  BY LenProperties DEF Entered, Grown
<1>2. /\ d.fields = c.fields /\ d.round = c.round /\ d.index = c.index + 1 /\ c.index \in Nat
      /\ \A i \in 1..Len(V) : d.offsets[i] = c.offsets[i] /\ W[i] = V[i]
  BY DEF Entered, Grown, Proceeds
<1>3. ASSUME NEW o \in c.log
      PROVE  /\ o.index \in 1..Len(W) /\ o.node = W[o.index]
             /\ o.at = d.offsets[o.index] /\ (o.round = d.round => o.index <= d.index)
  <2>1. o.index \in 1..Len(V) /\ o.node = V[o.index] /\ o.at = c.offsets[o.index]
        /\ (o.round = c.round => o.index <= c.index)
    BY DEF LogOf
  <2> QED BY <1>1, <1>2, <2>1
<1> QED BY <1>2, <1>3 DEF LogOf

LEMMA EntryAdded ==
  ASSUME NEW R, NEW V, NEW W, NEW c, NEW b, NEW n, NEW d, NEW e \in Entries,
         Entered(V, W, c, b, n), LogOf(V, c, R), Proceeds(b, d), d.log = c.log \cup {e},
         Leaf(n), e.node = n, e.index = b.index, e.round = b.round,
         e.at = b.offsets[b.index],
         e.computed => b.round = n.round, ~e.computed => b.round < n.round,
         n.kind = "bytes" => Size(n, b.fields, R) # Result(0)
  PROVE  LogOf(W, d, R)
<1>1. Len(V) \in Nat /\ Len(W) \in Nat /\ Len(V) <= Len(W)
  BY LenProperties DEF Entered, Grown
<1>2. /\ d.fields = c.fields /\ d.round = c.round /\ d.index = c.index + 1 /\ c.index \in Nat
      /\ \A i \in 1..Len(V) : d.offsets[i] = c.offsets[i] /\ W[i] = V[i]
  BY DEF Entered, Grown, Proceeds
<1>3. ASSUME NEW o \in c.log
      PROVE  /\ o.index \in 1..Len(W) /\ o.node = W[o.index]
             /\ o.at = d.offsets[o.index] /\ (o.round = d.round => o.index <= d.index)
             /\ ~(o.index = e.index /\ o.round = e.round)
  <2>1. o.index \in 1..Len(V) /\ o.node = V[o.index] /\ o.at = c.offsets[o.index]
        /\ (o.round = c.round => o.index <= c.index)
    BY DEF LogOf
  <2>2. e.index = c.index + 1 /\ e.round = c.round
    BY DEF Entered
  <2> QED BY <1>1, <1>2, <2>1, <2>2
<1>4. /\ e.index \in 1..Len(W) /\ e.node = W[e.index] /\ e.at = d.offsets[e.index]
      /\ e.round = d.round /\ e.index = d.index /\ d.round \in Nat /\ d.index \in Int
      /\ d.fields = b.fields
  BY DEF Entered, Proceeds
<1>5. e.round <= d.round /\ e.index <= d.index
  BY <1>4
<1>6. d.log \subseteq Entries
  BY DEF LogOf
<1>7. ASSUME NEW o \in d.log
      PROVE  /\ o.index \in 1..Len(W) /\ o.node = W[o.index] /\ Leaf(o.node)
             /\ o.at = d.offsets[o.index]
             /\ o.round <= d.round /\ (o.round = d.round => o.index <= d.index)
             /\ (o.computed => o.round = o.node.round) /\ (~o.computed => o.round < o.node.round)
             /\ o.node.kind = "bytes" => Size(o.node, d.fields, R) # Result(0)
  <2>1. CASE o \in c.log
    BY <1>2, <1>3, <2>1 DEF LogOf
  <2>2. CASE o = e
    BY <1>4, <1>5, <2>2, Zenon
  <2> QED BY <2>1, <2>2
<1>8. ASSUME NEW o \in d.log, NEW p \in d.log, o.index = p.index, o.round = p.round
      PROVE  o = p
  <2>1. CASE o \in c.log /\ p \in c.log
    BY <1>8, <2>1 DEF LogOf
  <2>2. CASE o = e \/ p = e
    BY <1>3, <1>8, <2>2
  <2> QED BY <2>1, <2>2
<1> QED BY <1>6, <1>7, <1>8, Zenon DEF LogOf

\* The size of a leaf that has been entered is the one it has in every round.
LEMMA SizeKnown ==
  ASSUME NEW V, NEW W, NEW c, NEW b, NEW n,
         Entered(V, W, c, b, n), Reserved(V, c, resized), Leaf(n)
  PROVE  LeafSize(b, n) = Size(n, b.fields, resized)
<1>1. n \in Nodes
  BY DEF Entered
<1>2. CASE b.round = 0
  BY <1>1, <1>2, LeafSizeFrozen DEF Entered
<1>3. CASE b.round # 0
  <2>1. b.index \in 1..Len(V) /\ V[b.index] = n /\ b.fields = c.fields
    BY <1>3 DEF Entered
  <2>2. Size(n, b.fields, resized).ok
    BY <2>1 DEF Reserved
  <2> QED BY <1>1, <2>2, LeafSizeFrozen
<1> QED BY <1>2, <1>3

\* The leaves entered before keep their room.
LEMMA RoomKept ==
  ASSUME NEW R, NEW V, NEW W, NEW c, NEW b, NEW n, NEW d,
         Entered(V, W, c, b, n), Reserved(V, c, R), Proceeds(b, d), c.log \subseteq d.log,
         Leaf(n) => Size(n, b.fields, R).ok,
         Leaf(n) /\ b.round = 0 /\ n.round > 0 =>
           \/ n.kind = "bytes" /\ Size(n, b.fields, R) = Result(0)
           \/ \E o \in d.log : o.round = 0 /\ o.index = b.index /\ o.len = Size(n, b.fields, R).n
  PROVE  Reserved(W, d, R)
<1>1. Len(V) \in Nat /\ Len(W) \in Nat /\ Len(V) <= Len(W) /\ \A i \in 1..Len(V) : W[i] = V[i]
  BY LenProperties DEF Entered, Grown
<1>2. d.fields = c.fields /\ d.fields = b.fields /\ d.seen = c.seen
  BY DEF Entered, Proceeds
<1>3. ASSUME NEW i \in 1..Len(W)
      PROVE  i \in 1..Len(V) \/ (b.round = 0 /\ i = b.index /\ W[i] = n)
  BY <1>1, <1>3 DEF Entered
<1>4. ASSUME NEW i \in 1..Len(W), Leaf(W[i])
      PROVE  Size(W[i], d.fields, R).ok
  <2>1. CASE i \in 1..Len(V)
    BY <1>1, <1>2, <1>4, <2>1 DEF Reserved
  <2>2. CASE W[i] = n
    BY <1>2, <1>4, <2>2
  <2> QED BY <1>3, <1>4, <2>1, <2>2
<1>5. ASSUME R = d.seen, NEW i \in 1..Len(W), Leaf(W[i]), W[i].round > 0,
             W[i].kind = "bytes" => Size(W[i], d.fields, R) # Result(0)
      PROVE  \E o \in d.log : o.round = 0 /\ o.index = i /\ o.len = Size(W[i], d.fields, R).n
  <2>1. CASE i \in 1..Len(V)
    <3>1. W[i] = V[i]
      BY <1>1, <2>1
    <3>2. \E o \in c.log : o.round = 0 /\ o.index = i /\ o.len = Size(V[i], c.fields, R).n
      BY <1>2, <1>5, <2>1, <3>1 DEF Reserved
    <3> QED BY <1>2, <3>1, <3>2
  <2>2. CASE b.round = 0 /\ i = b.index /\ W[i] = n
    BY <1>2, <1>5, <2>2
  <2> QED BY <1>3, <1>5, <2>1, <2>2
<1> QED BY <1>4, <1>5, Zenon DEF Reserved

\* The values written before stay written.
LEMMA ValuesKept ==
  ASSUME NEW R, NEW V, NEW W, NEW c, NEW b, NEW n, NEW d,
         Entered(V, W, c, b, n), LogOf(W, d, R), Valued(c), Proceeds(b, d), c.log \subseteq d.log,
         \A o \in d.log \ c.log : o.index = b.index,
         n.round = b.round =>
           \/ Boolean(n)
           \/ \A o \in d.log : o.index # b.index
           \/ \E p \in d.log : p.index = b.index /\ p.computed,
         \A o \in d.log \ c.log : ~(o.node.round < b.round)
  PROVE  Valued(d)
<1>1. /\ d.round = c.round /\ b.round = c.round /\ d.index = b.index /\ b.index = c.index + 1
      /\ c.index \in Nat /\ W[b.index] = n
  BY DEF Entered, Proceeds
<1> SUFFICES ASSUME NEW o \in d.log,
                    o.node.round < d.round \/ (o.node.round = d.round /\ o.index <= d.index)
             PROVE  Boolean(o.node) \/ \E p \in d.log : p.index = o.index /\ p.computed
  BY DEF Valued
<1>2. o.index \in Nat /\ o.node = W[o.index]
  BY DEF LogOf, Entries
<1>3. CASE o.index = b.index /\ o.node.round = d.round
  BY <1>1, <1>2, <1>3
<1>4. CASE o.index # b.index \/ o.node.round < d.round
  <2>1. o \in c.log
    BY <1>1, <1>4
  <2>2. o.node.round < c.round \/ (o.node.round = c.round /\ o.index <= c.index)
    BY <1>1, <1>2, <1>4
  <2>3. Boolean(o.node) \/ \E p \in c.log : p.index = o.index /\ p.computed
    BY <2>1, <2>2 DEF Valued
  <2> QED BY <2>3
<1> QED BY <1>3, <1>4

\* A leaf that writes nothing.
LEMMA LeafPasses ==
  ASSUME NEW R, NEW V, NEW W, NEW c, NEW b, NEW n, NEW d,
         Entered(V, W, c, b, n), LogOf(V, c, R), Reserved(V, c, R), Valued(c), InPlace(c, R),
         Leaf(n), Proceeds(b, d), d.log = c.log, Size(n, b.fields, R).ok,
         \/ b.round > n.round
         \/ n.kind = "bytes" /\ Size(n, b.fields, R) = Result(0)
         \/ Boolean(n) /\ b.round = n.round
  PROVE  LogOf(W, d, R) /\ Reserved(W, d, R) /\ Valued(d) /\ InPlace(d, R)
<1>1. LogOf(W, d, R)
  BY LogMovesOn
<1>2. n.round \in Nat /\ b.round \in Nat /\ d.fields = b.fields
  BY NodesAssumption DEF Entered, Proceeds
<1>3. Reserved(W, d, R)
  <2>1. b.round = 0 /\ n.round > 0 => n.kind = "bytes" /\ Size(n, b.fields, R) = Result(0)
    BY <1>2
  <2> QED BY <2>1, RoomKept
<1>4. Valued(d)
  <2>1. ASSUME n.round = b.round, NEW o \in d.log, o.index = b.index
        PROVE  Boolean(n)
    <3>1. o.node = n /\ (n.kind = "bytes" => Size(n, b.fields, R) # Result(0))
      BY <1>1, <1>2, <2>1 DEF LogOf, Entered
    <3> QED BY <1>2, <2>1, <3>1
  <2> QED BY <1>1, <2>1, ValuesKept
<1>5. InPlace(d, R)
  BY DEF InPlace, Entered, Proceeds
<1> QED BY <1>1, <1>3, <1>4, <1>5

\* A leaf that reserves its room or writes its value.
LEMMA LeafWrites ==
  ASSUME NEW R, NEW V, NEW W, NEW c, NEW b, NEW n, NEW d, NEW e \in Entries,
         Entered(V, W, c, b, n), LogOf(V, c, R), Reserved(V, c, R), Valued(c), InPlace(c, R),
         Leaf(n), Proceeds(b, d), d.log = c.log \cup {e}, Size(n, b.fields, R).ok,
         n.kind = "bytes" => Size(n, b.fields, R) # Result(0),
         e.node = n, e.index = b.index, e.round = b.round, e.at = b.offsets[b.index],
         e.computed => b.round = n.round, ~e.computed => b.round < n.round,
         b.round < n.round => e.len = Size(n, b.fields, R).n,
         Size(n, b.fields, R).n >= 0 /\ ~Loose(n) => e.len = Size(n, b.fields, R).n
  PROVE  LogOf(W, d, R) /\ Reserved(W, d, R) /\ Valued(d) /\ InPlace(d, R)
<1>1. LogOf(W, d, R)
  BY EntryAdded
<1>2. /\ n.round \in Nat /\ b.round \in Nat /\ d.fields = b.fields /\ c.log \subseteq d.log
      /\ e \in d.log
  BY NodesAssumption DEF Entered, Proceeds
<1>3. Reserved(W, d, R)
  <2>1. b.round = 0 /\ n.round > 0 => e.round = 0 /\ e.len = Size(n, b.fields, R).n
    BY <1>2
  <2> QED BY <1>2, <2>1, RoomKept
<1>4. Valued(d)
  <2>1. n.round = b.round => e.computed
    BY <1>2
  <2>2. \A o \in d.log \ c.log : o = e
    OBVIOUS
  <2>3. ~(n.round < b.round)
    BY <1>2
  <2> QED BY <1>1, <1>2, <2>1, <2>2, <2>3, ValuesKept
<1>5. InPlace(d, R)
  <2> SUFFICES ASSUME R = d.seen, NEW p \in d.log, p.round > 0
               PROVE  \E o \in d.log : /\ o.round = 0 /\ o.index = p.index /\ o.at = p.at
                                       /\ o.node = p.node /\ (Loose(p.node) \/ p.len <= o.len)
    BY DEF InPlace
  <2>1. R = c.seen
    BY DEF Entered, Proceeds
  <2>2. CASE p \in c.log
    BY <1>2, <2>1, <2>2 DEF InPlace
  <2>3. CASE p = e
    <3>1. W = V /\ b.index \in 1..Len(V) /\ V[b.index] = n /\ n.round > 0 /\ b.fields = c.fields
      <4>1. b.round # 0
        BY <1>2, <2>3
      <4>2. W = V /\ b.index \in 1..Len(V) /\ V[b.index] = n /\ b.fields = c.fields
        BY <4>1 DEF Entered
      <4>3. n.round > 0
        BY <1>2, <2>3
      <4> QED BY <4>2, <4>3
    <3>2. PICK o \in c.log : o.round = 0 /\ o.index = b.index /\ o.len = Size(n, b.fields, R).n
      BY <2>1, <3>1 DEF Reserved
    <3>3. o.node = n /\ o.at = c.offsets[b.index] /\ o \in Entries
      BY <3>1, <3>2 DEF LogOf
    <3>4. o.at = e.at
      BY <3>1, <3>3 DEF Entered
    <3>5. o.len \in Nat /\ e.len \in Nat
      BY <3>3 DEF Entries
    <3>6. Loose(n) \/ e.len = o.len
      BY <3>2, <3>5
    <3>7. Loose(n) \/ e.len <= o.len
      BY <3>5, <3>6
    <3> QED BY <1>2, <2>3, <3>2, <3>3, <3>4, <3>7
  <2> QED BY <2>2, <2>3
<1> QED BY <1>1, <1>3, <1>4, <1>5

-----------------------------------------------------------------------------
(* A step of Encode.                                                         *)

\* What holds of the Context of Encode in every state.
Sound(c, R) ==
  /\ IsContext(c) /\ c.pc \in {"idle", "run", "done", "failed", "panicked"}
  /\ c.data \in Data /\ c.round \in Nat
  /\ c.offsets \in Seq(Nat) /\ \A i \in 1..Len(c.offsets) : c.offsets[i] <= Len(c.data)
  /\ c.index \in 0..Len(c.offsets)
  /\ c.seen \subseteq R /\ InPlace(c, R)

\* And what holds of it as long as it runs, over the protocol q.
Tracks(T, V, c, R, nodes) ==
  Walk(T, V, c, nodes) /\ LogOf(V, c, R) /\ Reserved(V, c, R) /\ Valued(c)
Running(c, R, q) ==
  /\ c.fields \in q.inputs /\ Counted(c) /\ (c.round = 0 => c.packetLen = -1)
  /\ \E T, V : Tracks(T, V, c, R, q.nodes)

LEMMA WalkPlace ==
  ASSUME NEW T, NEW V, NEW c, NEW nodes, Walk(T, V, c, nodes), c.round \in Nat
  PROVE  /\ c.todo \in Seq(Nodes) /\ c.index \in Nat /\ (c.round = 0 => c.index = Len(V))
         /\ V \in Seq(Nodes) /\ Len(c.offsets) = Len(V)
<1>1. T \in Seq(Places) /\ Len(T) \in Nat /\ Len(T) # 0
  BY LenProperties, EmptySeq DEF Walk
<1>2. \E k \in 1..Len(T) : T[k] = Here(c)
  <2>1. CASE c.round = 0
    <3>1. Len(T) \in 1..Len(T) BY <1>1
    <3> QED BY <2>1, <3>1 DEF Walk
  <2>2. CASE c.round # 0
    BY <2>2 DEF Walk
  <2> QED BY <2>1, <2>2
<1>3. Here(c) \in Places
  BY <1>1, <1>2, ElementOfSeq
<1>4. c.round = 0 => Here(c).index = Len(V)
  BY DEF Walk
<1> QED BY <1>3, <1>4 DEF Here, Places, Walk

\* What NodeEncode does before the node's own Encode.
LEMMA EnterContext ==
  ASSUME NEW c, IsContext(c), NEW n
  PROVE  LET b == Enter(c, n)
         IN  /\ IsContext(b) /\ b.todo = Tail(c.todo) /\ b.index = c.index + 1
             /\ b.offsets = IF c.round = 0 THEN Append(c.offsets, Len(c.data)) ELSE c.offsets
             /\ b.pc = c.pc /\ b.fields = c.fields /\ b.packetLen = c.packetLen
             /\ b.data = c.data /\ b.round = c.round /\ b.log = c.log /\ b.seen = c.seen
             /\ \A p \in DOMAIN b.marks :
                  \/ b.marks[p] = Len(c.data)
                  \/ p \in DOMAIN c.marks /\ b.marks[p] = c.marks[p]
BY DEF IsContext, ContextFields, Enter

LEMMA EnterReady ==
  ASSUME NEW c, NEW R, Sound(c, R), Counted(c), NEW n,
         NEW V, Len(c.offsets) = Len(V), c.round = 0 => c.index = Len(V),
         c.round # 0 => c.index + 1 \in 1..Len(V)
  PROVE  LET b == Enter(c, n)
         IN  /\ Ready(b) /\ Counted(b)
             /\ \A i \in 1..Len(c.offsets) : b.offsets[i] = c.offsets[i]
             /\ \A i \in 1..Len(b.offsets) : b.offsets[i] <= Len(b.data)
             /\ c.round = 0 => Len(b.offsets) = Len(V) + 1 /\ b.offsets[b.index] = Len(b.data)
<1> DEFINE b == Enter(c, n)
<1>1. /\ IsContext(c) /\ c.data \in Data /\ c.round \in Nat /\ c.offsets \in Seq(Nat)
      /\ c.index \in Nat /\ Len(c.offsets) \in Nat /\ Len(c.data) \in Nat
      /\ \A i \in 1..Len(c.offsets) : c.offsets[i] <= Len(c.data)
  BY LenProperties DEF Sound, Data
<1>2. /\ IsContext(b) /\ b.index = c.index + 1
      /\ b.offsets = IF c.round = 0 THEN Append(c.offsets, Len(c.data)) ELSE c.offsets
      /\ b.fields = c.fields /\ b.packetLen = c.packetLen
      /\ b.data = c.data /\ b.round = c.round
      /\ \A p \in DOMAIN b.marks :
           \/ b.marks[p] = Len(c.data)
           \/ p \in DOMAIN c.marks /\ b.marks[p] = c.marks[p]
  BY <1>1, EnterContext
<1> HIDE DEF b
<1>3. Counted(b)
  BY <1>1, <1>2 DEF Counted
<1>4. CASE c.round = 0
  <2>1. /\ b.offsets \in Seq(Nat) /\ Len(b.offsets) = Len(c.offsets) + 1
        /\ b.offsets[Len(c.offsets) + 1] = Len(c.data)
        /\ \A i \in 1..Len(c.offsets) : b.offsets[i] = c.offsets[i]
    BY <1>1, <1>2, <1>4, AppendProperties
  <2>2. b.index = Len(c.offsets) + 1 /\ b.index \in 1..Len(b.offsets)
    BY <1>1, <1>2, <1>4, <2>1
  <2>3. \A i \in 1..Len(b.offsets) : b.offsets[i] <= Len(b.data)
    <3> SUFFICES ASSUME NEW i \in 1..Len(b.offsets) PROVE b.offsets[i] <= Len(b.data)
      OBVIOUS
    <3>1. i \in 1..Len(c.offsets) \/ i = Len(c.offsets) + 1
      BY <1>1, <2>1
    <3> QED BY <1>1, <1>2, <2>1, <3>1
  <2> QED BY <1>1, <1>2, <1>3, <1>4, <2>1, <2>2, <2>3 DEF Ready, b
<1>5. CASE c.round # 0
  <2>1. b.index \in 1..Len(b.offsets) /\ b.offsets = c.offsets
    BY <1>1, <1>2, <1>5
  <2> QED BY <1>1, <1>2, <1>3, <1>5, <2>1 DEF Ready, b
<1> QED BY <1>4, <1>5

\* Where Encode goes on to after a node is where the walk goes on to.
Onward(c, b, n, todo) ==
  \/ Leaf(n) /\ todo = Tail(c.todo)
  \/ n.kind \in Groups /\ Children(n, b).ok /\ todo = Children(n, b).nodes \o Tail(c.todo)

Arrives(V, c, b, n, todo, nodes) ==
  \E S, W : /\ Entered(V, W, c, b, n)
            /\ \A d : Proceeds(b, d) /\ d.todo = todo => Walk(S, W, d, nodes)

LEMMA EnterStep ==
  ASSUME NEW c, NEW R, Sound(c, R), NEW q, NEW T, NEW V, Tracks(T, V, c, R, q.nodes),
         Counted(c), c.round = 0 => c.packetLen = -1,
         c.todo # <<>>, NEW n, n = Head(c.todo), MatchFlow(n, "encode"),
         NEW b, b = Enter(c, n), NEW todo, Onward(c, b, n, todo)
  PROVE  /\ Ready(b) /\ Counted(b) /\ \A i \in 1..Len(b.offsets) : b.offsets[i] <= Len(b.data)
         /\ Arrives(V, c, b, n, todo, q.nodes)
<1> DEFINE t == [todo |-> todo, index |-> c.index + 1]
<1>1. /\ IsContext(c) /\ c.data \in Data /\ c.round \in Nat /\ c.offsets \in Seq(Nat)
      /\ Walk(T, V, c, q.nodes)
  BY DEF Sound, Tracks
<1>2. /\ c.todo \in Seq(Nodes) /\ c.index \in Nat /\ (c.round = 0 => c.index = Len(V))
      /\ V \in Seq(Nodes) /\ Len(c.offsets) = Len(V) /\ Len(V) \in Nat
  BY <1>1, WalkPlace, LenProperties
<1>3. n \in Nodes /\ Tail(c.todo) \in Seq(Nodes)
  BY <1>2, HeadTailProperties
<1>4. /\ IsContext(b) /\ b.index = c.index + 1 /\ b.fields = c.fields /\ b.packetLen = c.packetLen
      /\ b.data = c.data /\ b.round = c.round /\ b.log = c.log /\ b.seen = c.seen
      /\ b.offsets = IF c.round = 0 THEN Append(c.offsets, Len(c.data)) ELSE c.offsets
  BY <1>1, EnterContext
<1>5. ASSUME c.round # 0
      PROVE  /\ c.index + 1 \in 1..Len(V) /\ V[c.index + 1] = n
             /\ \A d : Proceeds(b, d) /\ d.todo = todo => Walk(T, V, d, q.nodes)
  <2>1. PICK u \in Places : /\ Moves(c.fields, V, Here(c), u) /\ u.index <= Len(V)
                            /\ \A d : (/\ d.round = c.round /\ d.fields = c.fields
                                       /\ Len(d.offsets) = Len(V) /\ Here(d) = u)
                                      => Walk(T, V, d, q.nodes)
    BY <1>1, <1>5, WalkGoesOn
  <2>2. Here(c).todo = c.todo /\ Here(c).index = c.index
    BY DEF Here
  <2>3. /\ u.index = c.index + 1 /\ u.index <= Len(V) /\ V[u.index] = n
        /\ \/ Leaf(n) /\ u.todo = Tail(c.todo)
           \/ /\ ~Leaf(n) /\ Children(n, Frozen(c.fields)).ok
              /\ u.todo = Children(n, Frozen(c.fields)).nodes \o Tail(c.todo)
    BY <2>1, <2>2, Zenon DEF Moves
  <2>4. u.todo = todo
    <3>1. CASE Leaf(n)
      <4>1. ~(n.kind \in Groups)
        BY <1>3, <3>1, Kinds
      <4>2. todo = Tail(c.todo)
        BY <4>1 DEF Onward
      <4> QED BY <2>3, <3>1, <4>2, Zenon
    <3>2. CASE ~Leaf(n)
      <4>1. n.kind \in Groups
        BY <1>3, <3>2, Kinds
      <4>2. Children(n, b) = Children(n, Frozen(b.fields))
        BY <1>3, <1>4, <2>3, <3>2, <4>1, ChildrenFrozen
      <4>3. todo = Children(n, b).nodes \o Tail(c.todo)
        BY <3>2 DEF Onward
      <4>4. u.todo = Children(n, Frozen(c.fields)).nodes \o Tail(c.todo)
        BY <2>3, <3>2, Zenon
      <4> QED BY <1>4, <4>2, <4>3, <4>4
    <3> QED BY <3>1, <3>2
  <2>5. ASSUME NEW d, Proceeds(b, d), d.todo = todo
        PROVE  Walk(T, V, d, q.nodes)
    <3>1. Here(d) = u
      BY <1>4, <2>3, <2>4, <2>5 DEF Here, Proceeds, Places
    <3>2. d.round = c.round /\ d.fields = c.fields /\ Len(d.offsets) = Len(V)
      BY <1>2, <1>4, <1>5, <2>5 DEF Proceeds
    <3> QED BY <2>1, <3>1, <3>2
  <2>6. u.index \in Nat
    BY <2>1 DEF Places
  <2> QED BY <1>2, <2>3, <2>5, <2>6
<1>6. /\ Ready(b) /\ Counted(b) /\ \A i \in 1..Len(c.offsets) : b.offsets[i] = c.offsets[i]
      /\ \A i \in 1..Len(b.offsets) : b.offsets[i] <= Len(b.data)
      /\ c.round = 0 => Len(b.offsets) = Len(V) + 1 /\ b.offsets[b.index] = Len(b.data)
  BY <1>2, <1>5, EnterReady
<1>7. CASE c.round # 0
  <2>1. Grown(V, V)
    BY <1>2 DEF Grown
  <2>2. Entered(V, V, c, b, n)
    BY <1>1, <1>2, <1>3, <1>4, <1>5, <1>6, <1>7, <2>1 DEF Entered, Ready
  <2>3. Arrives(V, c, b, n, todo, q.nodes)
    BY <1>5, <1>7, <2>2 DEF Arrives
  <2> QED BY <1>6, <2>3
<1>8. CASE c.round = 0
  <2> DEFINE W == Append(V, n)
  <2>1. /\ W \in Seq(Nodes) /\ Len(W) = Len(V) + 1 /\ W[Len(V) + 1] = n
        /\ \A i \in 1..Len(V) : W[i] = V[i]
    BY <1>2, <1>3, AppendProperties
  <2> HIDE DEF W
  <2>2. Grown(V, W)
    BY <1>2, <2>1 DEF Grown
  <2>3. b.index = Len(W) /\ b.index \in 1..Len(W) /\ W[b.index] = n
    BY <1>2, <1>4, <1>8, <2>1
  <2>4. Entered(V, W, c, b, n)
    BY <1>1, <1>2, <1>3, <1>4, <1>6, <1>8, <2>1, <2>2, <2>3 DEF Entered, Ready
  <2>5. /\ todo \in Seq(Nodes)
        /\ ~Leaf(n) => /\ Children(n, Frozen(c.fields)).ok
                       /\ Children(n, b) = Children(n, Frozen(c.fields))
    <3>1. CASE Leaf(n)
      BY <1>3, <3>1, Kinds DEF Onward
    <3>2. CASE ~Leaf(n)
      <4>1. n.kind \in Groups /\ b.packetLen = -1
        BY <1>3, <1>4, <1>8, <3>2, Kinds
      <4>2. Children(n, b) = Children(n, Frozen(c.fields))
        BY <1>3, <1>4, <4>1, ChildrenFrozen
      <4>3. Children(n, b).nodes \in Seq(Nodes)
        <5>1. /\ Numbered(b.fields) /\ b.packetLen \in Int
              /\ \A p \in DOMAIN b.marks : b.marks[p] \in Int
          BY <1>6 DEF Counted, Filled
        <5> QED BY <1>3, <4>1, <5>1, ChildrenTyped
      <4>4. todo = Children(n, b).nodes \o Tail(c.todo) /\ Children(n, b).ok
        BY <3>2, <4>1 DEF Onward
      <4> QED BY <1>3, <4>2, <4>3, <4>4, ConcatProperties
    <3> QED BY <3>1, <3>2
  <2>6. Moves(c.fields, W, Here(c), t)
    <3>1. Here(c).todo = c.todo /\ Here(c).index = c.index
      BY DEF Here
    <3>2. t.index = c.index + 1 /\ t.index <= Len(W) /\ W[t.index] = n /\ t.todo = todo
      BY <1>2, <1>4, <2>3
    <3>3. \/ Leaf(n) /\ t.todo = Tail(c.todo)
          \/ /\ ~Leaf(n) /\ Children(n, Frozen(c.fields)).ok
             /\ t.todo = Children(n, Frozen(c.fields)).nodes \o Tail(c.todo)
      <4>1. n.kind \in Groups <=> ~Leaf(n)
        BY <1>3, Kinds
      <4>2. \/ Leaf(n) /\ todo = Tail(c.todo)
            \/ ~Leaf(n) /\ todo = Children(n, b).nodes \o Tail(c.todo)
        BY <4>1, Zenon DEF Onward
      <4> HIDE DEF t
      <4> QED BY <2>5, <3>2, <4>2
    <3> HIDE DEF t
    <3> QED BY <3>1, <3>2, <3>3, Zenon DEF Moves
  <2>7. t \in Places
    BY <1>2, <2>5 DEF Places
  <2>8. ASSUME NEW d, Proceeds(b, d), d.todo = todo
        PROVE  Walk(Append(T, t), W, d, q.nodes)
    <3>1. Here(d) = t
      BY <1>4, <2>8 DEF Here, Proceeds
    <3>2. d.round = 0 /\ d.fields = c.fields /\ Len(d.offsets) = Len(W) /\ d.index = Len(W)
      BY <1>4, <1>8, <2>3, <2>4, <2>8 DEF Proceeds, Entered
    <3> HIDE DEF t
    <3> QED BY <1>1, <1>8, <2>2, <2>6, <2>7, <3>1, <3>2, WalkGrows
  <2>9. Arrives(V, c, b, n, todo, q.nodes)
    BY <2>4, <2>8 DEF Arrives
  <2> QED BY <1>6, <2>9
<1> QED BY <1>7, <1>8

\* What a step makes of the Context.
Sounder(c, d, R, q) ==
  /\ Sound(d, R) /\ d.pc \in {"run", "failed", "panicked"} /\ d.round = c.round
  /\ d.pc = "run" => Running(d, R, q)

\* A node that has been entered, and what is left of the Context when nothing but the
\* data and the log change.
LEMMA FollowsSound ==
  ASSUME NEW b, NEW d, NEW R, Ready(b), \A i \in 1..Len(b.offsets) : b.offsets[i] <= Len(b.data),
         b.seen \subseteq R, Follows(b, d), d.pc \in {"run", "failed", "panicked"},
         d.data \in Data, Len(b.data) <= Len(d.data), InPlace(d, R)
  PROVE  Sound(d, R)
<1>1. Len(b.data) \in Nat /\ Len(d.data) \in Nat /\ Len(b.offsets) \in Nat
  BY LenProperties DEF Ready, Data
<1>2. /\ IsContext(d) /\ d.round = b.round /\ d.index = b.index /\ d.offsets = b.offsets
      /\ d.seen = b.seen
  BY DEF Follows
<1>3. /\ d.offsets \in Seq(Nat) /\ d.round \in Nat /\ d.index \in 0..Len(d.offsets)
  BY <1>1, <1>2 DEF Ready
<1>4. ASSUME NEW i \in 1..Len(d.offsets)
      PROVE  d.offsets[i] <= Len(d.data)
  <2>1. i \in 1..Len(b.offsets) /\ b.offsets \in Seq(Nat)
    BY <1>2 DEF Ready
  <2>2. b.offsets[i] \in Nat /\ b.offsets[i] <= Len(b.data)
    BY <2>1, ElementOfSeq
  <2> QED BY <1>1, <1>2, <2>2
<1> QED BY <1>2, <1>3, <1>4 DEF Sound

LEMMA LeafSound ==
  ASSUME NEW c, Sound(c, resized), NEW q, Running(c, resized, q), c.pc = "run",
         c.todo # <<>>, NEW n, n = Head(c.todo), MatchFlow(n, "encode"), Leaf(n),
         NEW b, b = Enter(c, n), NEW d, LeafOutcome(b, d, n)
  PROVE  Sounder(c, d, resized, q)
<1> DEFINE R == resized
           size == Size(n, b.fields, R)
<1>1. PICK T, V : Tracks(T, V, c, R, q.nodes)
  BY DEF Running
<1>2. Counted(c) /\ (c.round = 0 => c.packetLen = -1) /\ c.fields \in q.inputs
  BY DEF Running
<1>3. Onward(c, b, n, Tail(c.todo))
  BY DEF Onward
<1>4. /\ Ready(b) /\ Counted(b) /\ \A i \in 1..Len(b.offsets) : b.offsets[i] <= Len(b.data)
      /\ Arrives(V, c, b, n, Tail(c.todo), q.nodes)
  <2>1. Sound(c, R) OBVIOUS
  <2> HIDE DEF R
  <2> QED BY <1>1, <1>2, <1>3, <2>1, EnterStep
<1>5. PICK S, W : /\ Entered(V, W, c, b, n)
                  /\ \A e : Proceeds(b, e) /\ e.todo = Tail(c.todo) => Walk(S, W, e, q.nodes)
  BY <1>4 DEF Arrives
<1>6. /\ b.todo = Tail(c.todo) /\ b.pc = "run" /\ b.fields = c.fields /\ b.packetLen = c.packetLen
      /\ b.round = c.round /\ b.log = c.log /\ b.seen = c.seen /\ b.seen \subseteq R
      /\ b.data \in Data /\ c.data = b.data
  BY EnterContext DEF Sound
<1>7. LogOf(V, c, R) /\ Reserved(V, c, R) /\ Valued(c) /\ InPlace(c, R)
  BY <1>1 DEF Tracks, Sound
<1>8. n \in Nodes /\ n.round \in Nat /\ b.round \in Nat
  BY <1>5, NodesAssumption DEF Entered
<1>9. LeafSize(b, n) = size /\ (b.round # 0 => size.ok)
  <2>1. LeafSize(b, n) = size
    BY <1>5, <1>7, SizeKnown
  <2>2. b.round # 0 => size.ok
    <3> SUFFICES ASSUME b.round # 0 PROVE size.ok
      OBVIOUS
    <3>1. b.index \in 1..Len(V) /\ V[b.index] = n /\ b.fields = c.fields
      BY <1>5 DEF Entered
    <3>2. Size(V[b.index], c.fields, R).ok
      BY <1>7, <3>1 DEF Reserved
    <3> QED BY <3>1, <3>2
  <2> QED BY <2>1, <2>2
<1> HIDE DEF size, R
<1>10. ASSUME Follows(b, d)
       PROVE  /\ Proceeds(b, d) /\ Walk(S, W, d, q.nodes) /\ d.round = c.round
              /\ d.fields \in q.inputs /\ Counted(d) /\ (d.round = 0 => d.packetLen = -1)
  <2>1. Proceeds(b, d) /\ d.todo = b.todo /\ d.packetLen = b.packetLen /\ d.marks = b.marks
    BY <1>10 DEF Follows, Proceeds
  <2>2. Walk(S, W, d, q.nodes)
    BY <1>5, <1>6, <2>1
  <2>3. Counted(d)
    BY <1>4, <2>1 DEF Counted, Proceeds
  <2> QED BY <1>2, <1>6, <2>1, <2>2, <2>3 DEF Proceeds
<1>11. ASSUME Follows(b, d), d.pc = b.pc, d.data \in Data, Len(b.data) <= Len(d.data),
              LogOf(W, d, R), Reserved(W, d, R), Valued(d), InPlace(d, R)
       PROVE  Sounder(c, d, R, q)
  <2>1. Sound(d, R)
    BY <1>4, <1>6, <1>11, FollowsSound
  <2>2. Tracks(S, W, d, R, q.nodes)
    BY <1>10, <1>11 DEF Tracks
  <2>3. Running(d, R, q)
    BY <1>10, <1>11, <2>2 DEF Running
  <2> QED BY <1>6, <1>10, <1>11, <2>1, <2>3 DEF Sounder
<1>12. Len(b.data) \in Nat
  BY <1>6, LenProperties DEF Data
<1>13. CASE Stopped(b, d)
  <2>1. InPlace(d, R)
    BY <1>6, <1>7, <1>13 DEF Stopped, Follows, InPlace
  <2>2. Sound(d, R)
    BY <1>4, <1>6, <1>12, <1>13, <2>1, FollowsSound DEF Stopped
  <2> QED BY <1>10, <1>13, <2>2 DEF Stopped, Sounder, R
<1>14. CASE /\ Passed(b, d) /\ (b.round = 0 => size.ok)
            /\ \/ b.round > n.round
               \/ n.kind = "bytes" /\ size = Result(0)
               \/ Boolean(n) /\ b.round = n.round
  <2>1. Follows(b, d) /\ d.pc = b.pc /\ d.data = b.data /\ d.log = c.log
    BY <1>6, <1>14 DEF Passed
  <2>2. size.ok /\ Proceeds(b, d)
    BY <1>9, <1>10, <1>14, <2>1
  <2>3. LogOf(W, d, R) /\ Reserved(W, d, R) /\ Valued(d) /\ InPlace(d, R)
    BY <1>5, <1>7, <1>14, <2>1, <2>2, LeafPasses DEF size
  <2>4. Sounder(c, d, R, q)
    BY <1>6, <1>11, <1>12, <2>1, <2>3
  <2> QED BY <2>4 DEF R
<1>15. ASSUME size.ok, n.kind = "bytes" => size # Result(0), NEW len \in Nat, NEW x \in BOOLEAN,
              Wrote(b, d, n, len, x), x => b.round = n.round, ~x => b.round < n.round,
              b.round < n.round => len = size.n, size.n >= 0 /\ ~Loose(n) => len = size.n
       PROVE  Sounder(c, d, R, q)
  <2> DEFINE at == IF b.round = 0 THEN Len(b.data) ELSE b.offsets[b.index]
             e == [node |-> n, round |-> b.round, index |-> b.index, at |-> at,
                   len |-> len, computed |-> x]
  <2>1. Follows(b, d) /\ d.pc = b.pc /\ d.data \in Data /\ Len(b.data) <= Len(d.data)
    BY <1>15 DEF Wrote
  <2>2. d.log = c.log \cup {e}
    BY <1>6, <1>15 DEF Wrote
  <2>3. at = b.offsets[b.index] /\ at \in Nat /\ b.index \in Nat
    <3>1. b.index \in 1..Len(b.offsets) /\ b.offsets \in Seq(Nat)
      BY <1>4 DEF Ready
    <3>2. b.offsets[b.index] \in Nat /\ b.index \in Nat
      BY <3>1, ElementOfSeq
    <3>3. b.round = 0 => b.offsets[b.index] = Len(b.data)
      BY <1>5 DEF Entered
    <3> QED BY <3>2, <3>3
  <2> HIDE DEF at
  <2>4. /\ e.node = n /\ e.index = b.index /\ e.round = b.round /\ e.at = b.offsets[b.index]
        /\ e.len = len /\ e.computed = x /\ e \in Entries
    BY <1>8, <1>15, <2>3 DEF Entries
  <2> HIDE DEF e
  <2>5. Proceeds(b, d)
    BY <1>10, <2>1
  <2>6. LogOf(W, d, R) /\ Reserved(W, d, R) /\ Valued(d) /\ InPlace(d, R)
    BY <1>5, <1>7, <1>15, <2>2, <2>4, <2>5, LeafWrites DEF size
  <2> QED BY <1>11, <2>1, <2>6
<1>16. CASE /\ size.ok /\ (n.kind = "bytes" => size # Result(0))
            /\ b.round < n.round /\ size.n >= 0 /\ Wrote(b, d, n, size.n, FALSE)
  <2>1. size.n \in Nat
    BY <1>16 DEF Wrote
  <2>2. b.round < n.round /\ size.n = size.n
    BY <1>16
  <2>3. Sounder(c, d, R, q)
    BY <1>15, <1>16, <2>1, <2>2, Zenon
  <2> QED BY <2>3 DEF R
<1>17. CASE /\ size.ok /\ (n.kind = "bytes" => size # Result(0)) /\ b.round = n.round
            /\ \E len \in Nat : /\ Wrote(b, d, n, len, TRUE)
                                /\ size.n >= 0 /\ ~Loose(n) => len = size.n
  <2>1. PICK len \in Nat : /\ Wrote(b, d, n, len, TRUE)
                           /\ size.n >= 0 /\ ~Loose(n) => len = size.n
    BY <1>17
  <2>2. ~(b.round < n.round)
    BY <1>8, <1>17
  <2>3. Sounder(c, d, R, q)
    BY <1>15, <1>17, <2>1, <2>2, Zenon
  <2> QED BY <2>3 DEF R
<1> QED BY <1>9, <1>13, <1>14, <1>16, <1>17 DEF LeafOutcome, Boolean

\* A node of the other flow is left out of the walk.
LEMMA SkipSound ==
  ASSUME NEW c, NEW R, Sound(c, R), NEW q, Running(c, R, q), c.pc = "run", c.todo # <<>>,
         ~MatchFlow(Head(c.todo), "encode"), NEW d, d = [c EXCEPT !.todo = Tail(@)]
  PROVE  Sounder(c, d, R, q)
<1>1. PICK T, V : Tracks(T, V, c, R, q.nodes)
  BY DEF Running
<1>2. /\ IsContext(c) /\ c.round \in Nat /\ Walk(T, V, c, q.nodes)
  BY <1>1 DEF Sound, Tracks
<1>3. /\ c.todo \in Seq(Nodes) /\ c.index \in Nat /\ (c.round = 0 => c.index = Len(V))
      /\ V \in Seq(Nodes) /\ Len(c.offsets) = Len(V) /\ Len(V) \in Nat
  BY <1>2, WalkPlace, LenProperties
<1>4. Tail(c.todo) \in Seq(Nodes)
  BY <1>3, HeadTailProperties
<1>5. /\ IsContext(d) /\ d.todo = Tail(c.todo) /\ d.pc = c.pc /\ d.fields = c.fields
      /\ d.packetLen = c.packetLen /\ d.marks = c.marks /\ d.data = c.data /\ d.round = c.round
      /\ d.index = c.index /\ d.offsets = c.offsets /\ d.log = c.log /\ d.seen = c.seen
  BY <1>2 DEF IsContext, ContextFields
<1>6. /\ Here(c).todo = c.todo /\ Here(c).index = c.index
      /\ Here(d).todo = Tail(c.todo) /\ Here(d).index = c.index
      /\ Here(d) = [todo |-> Tail(c.todo), index |-> c.index] /\ Here(d) \in Places
  BY <1>3, <1>4, <1>5 DEF Here, Places
<1>7. Walk(T, V, d, q.nodes) \/ Walk(Append(T, Here(d)), V, d, q.nodes)
  <2>1. CASE c.round = 0
    <3>1. Grown(V, V)
      BY <1>3 DEF Grown
    <3>2. Moves(c.fields, V, Here(c), Here(d))
      BY <1>6, Zenon DEF Moves
    <3>3. d.round = 0 /\ Len(d.offsets) = Len(V) /\ d.index = Len(V)
      BY <1>3, <1>5, <2>1
    <3> QED BY <1>2, <1>5, <1>6, <2>1, <3>1, <3>2, <3>3, WalkGrows
  <2>2. CASE c.round # 0
    <3>1. PICK u \in Places : /\ Moves(c.fields, V, Here(c), u)
                              /\ \A e : (/\ e.round = c.round /\ e.fields = c.fields
                                         /\ Len(e.offsets) = Len(V) /\ Here(e) = u)
                                        => Walk(T, V, e, q.nodes)
      BY <1>2, <2>2, WalkGoesOn
    <3>2. u.todo = Tail(c.todo) /\ u.index = c.index
      BY <1>6, <3>1, Zenon DEF Moves
    <3>3. u = Here(d)
      BY <1>6, <3>1, <3>2 DEF Places
    <3> QED BY <1>3, <1>5, <3>1, <3>3
  <2> QED BY <2>1, <2>2
<1>8. LogOf(V, d, R)
  BY <1>1, <1>5 DEF Tracks, LogOf
<1>9. Reserved(V, d, R) /\ Valued(d)
  BY <1>1, <1>5 DEF Tracks, Reserved, Valued
<1>10. \E S, W : Tracks(S, W, d, R, q.nodes)
  BY <1>7, <1>8, <1>9 DEF Tracks
<1>11. Counted(d) /\ (d.round = 0 => d.packetLen = -1) /\ d.fields \in q.inputs
  BY <1>5 DEF Running, Counted
<1>12. Running(d, R, q)
  BY <1>10, <1>11 DEF Running
<1>13. InPlace(d, R)
  BY <1>5 DEF Sound, InPlace
<1>14. Sound(d, R)
  BY <1>5, <1>13 DEF Sound
<1> QED BY <1>5, <1>12, <1>14 DEF Sounder

\* A group that fails, or whose nodes come next.
GroupStep(n, b) ==
  IF Children(n, b).ok THEN [b EXCEPT !.todo = Children(n, b).nodes \o @] ELSE Fail(b)

LEMMA GroupSound ==
  ASSUME NEW c, NEW R, Sound(c, R), NEW q, Running(c, R, q), c.pc = "run",
         c.todo # <<>>, NEW n, n = Head(c.todo), MatchFlow(n, "encode"), n.kind \in Groups,
         NEW b, b = Enter(c, n), NEW d, d = GroupStep(n, b)
  PROVE  Sounder(c, d, R, q)
<1>1. PICK T, V : Tracks(T, V, c, R, q.nodes)
  BY DEF Running
<1>2. Counted(c) /\ (c.round = 0 => c.packetLen = -1) /\ c.fields \in q.inputs
  BY DEF Running
<1>3. /\ IsContext(b) /\ b.todo = Tail(c.todo) /\ b.pc = "run" /\ b.fields = c.fields
      /\ b.packetLen = c.packetLen /\ b.round = c.round /\ b.log = c.log /\ b.seen = c.seen
      /\ b.data = c.data
  BY EnterContext DEF Sound
<1>4. /\ c.data \in Data /\ Len(c.data) \in Nat /\ c.seen \subseteq R /\ InPlace(c, R)
  BY LenProperties DEF Sound, Data
<1>5. CASE ~Children(n, b).ok
  <2>1. Walk(T, V, c, q.nodes) /\ c.round \in Nat
    BY <1>1 DEF Tracks, Sound
  <2>2. /\ c.index \in Nat /\ (c.round = 0 => c.index = Len(V)) /\ Len(c.offsets) = Len(V)
        /\ Len(V) \in Nat
    BY <2>1, WalkPlace, LenProperties
  <2>3. c.round # 0 => c.index + 1 \in 1..Len(V)
    <3> SUFFICES ASSUME c.round # 0 PROVE c.index + 1 \in 1..Len(V)
      OBVIOUS
    <3>1. PICK u \in Places : Moves(c.fields, V, Here(c), u) /\ u.index <= Len(V)
      BY <2>1, WalkGoesOn
    <3>2. Here(c).todo = c.todo /\ Here(c).index = c.index
      BY DEF Here
    <3>3. u.index = c.index + 1
      BY <3>1, <3>2, Zenon DEF Moves
    <3> QED BY <2>2, <3>1, <3>3
  <2>4. Ready(b) /\ \A i \in 1..Len(b.offsets) : b.offsets[i] <= Len(b.data)
    BY <1>2, <2>2, <2>3, EnterReady
  <2>5. Stopped(b, d)
    BY <1>3, <1>5, FailStops, Zenon DEF GroupStep
  <2>6. /\ Follows(b, d) /\ d.pc \in {"failed", "panicked"} /\ d.data = c.data /\ d.log = c.log
        /\ d.seen = c.seen /\ d.round = c.round
    BY <1>3, <2>5 DEF Stopped, Follows
  <2>7. InPlace(d, R)
    BY <1>4, <2>6 DEF InPlace
  <2>8. Sound(d, R)
    BY <1>3, <1>4, <2>4, <2>6, <2>7, FollowsSound
  <2> QED BY <2>6, <2>8 DEF Sounder
<1>6. CASE Children(n, b).ok
  <2> DEFINE todo == Children(n, b).nodes \o Tail(c.todo)
  <2>1. Onward(c, b, n, todo)
    BY <1>6 DEF Onward
  <2> HIDE DEF todo
  <2>2. /\ Ready(b) /\ Counted(b) /\ \A i \in 1..Len(b.offsets) : b.offsets[i] <= Len(b.data)
        /\ Arrives(V, c, b, n, todo, q.nodes)
    BY <1>1, <1>2, <2>1, EnterStep
  <2>3. PICK S, W : /\ Entered(V, W, c, b, n)
                    /\ \A e : Proceeds(b, e) /\ e.todo = todo => Walk(S, W, e, q.nodes)
    BY <2>2 DEF Arrives
  <2>4. d = [b EXCEPT !.todo = todo]
    BY <1>3, <1>6, Zenon DEF GroupStep, todo
  <2>5. /\ IsContext(d) /\ d.todo = todo /\ d.pc = "run" /\ d.fields = b.fields
        /\ d.packetLen = b.packetLen /\ d.marks = b.marks /\ d.data = b.data /\ d.round = b.round
        /\ d.index = b.index /\ d.offsets = b.offsets /\ d.log = c.log /\ d.seen = b.seen
    BY <1>3, <2>4 DEF IsContext, ContextFields
  <2>6. Proceeds(b, d)
    BY <2>5 DEF Proceeds
  <2>7. Walk(S, W, d, q.nodes)
    BY <2>3, <2>5, <2>6
  <2>8. ~Leaf(n) /\ n \in Nodes
    BY <2>3, Kinds DEF Entered
  <2>9. LogOf(V, c, R) /\ Reserved(V, c, R) /\ Valued(c)
    BY <1>1 DEF Tracks
  <2>10. LogOf(W, d, R)
    BY <2>3, <2>5, <2>6, <2>9, LogMovesOn
  <2>11. Reserved(W, d, R)
    <3>1. c.log \subseteq d.log
      BY <2>5
    <3> QED BY <2>3, <2>6, <2>8, <2>9, <3>1, RoomKept
  <2>12. \A o \in d.log : o.index # b.index
    <3> SUFFICES ASSUME NEW o \in d.log, o.index = b.index PROVE FALSE
      OBVIOUS
    <3>1. o.node = W[b.index] /\ Leaf(o.node)
      BY <2>10 DEF LogOf
    <3>2. W[b.index] = n
      BY <2>3 DEF Entered
    <3> QED BY <2>8, <3>1, <3>2
  <2>13. Valued(d)
    <3>1. c.log \subseteq d.log /\ d.log \ c.log = {}
      BY <2>5
    <3> QED BY <2>3, <2>6, <2>9, <2>10, <2>12, <3>1, ValuesKept
  <2>14. InPlace(d, R)
    BY <1>3, <1>4, <2>5 DEF InPlace
  <2>15. Counted(d)
    BY <2>2, <2>5 DEF Counted
  <2>16. Tracks(S, W, d, R, q.nodes)
    BY <2>7, <2>10, <2>11, <2>13 DEF Tracks
  <2>17. Running(d, R, q)
    BY <1>2, <1>3, <2>5, <2>15, <2>16 DEF Running
  <2>18. Sound(d, R)
    <3>1. d.round \in Nat /\ d.offsets \in Seq(Nat) /\ d.index \in 0..Len(d.offsets)
      BY <2>2, <2>5 DEF Ready
    <3> QED BY <1>3, <1>4, <2>2, <2>5, <2>14, <3>1 DEF Sound
  <2> QED BY <1>3, <2>5, <2>17, <2>18 DEF Sounder
<1> QED BY <1>5, <1>6

\* At the end of a round every node of the walk has been entered.
LEMMA WalkEnds ==
  ASSUME NEW T, NEW V, NEW c, NEW nodes, Walk(T, V, c, nodes), c.round \in Nat, c.todo = <<>>
  PROVE  c.index = Len(V) /\ T[Len(T)].todo = <<>>
<1>1. CASE c.round = 0
  <2>1. c.index = Len(V)
    BY <1>1, WalkPlace
  <2>2. T[Len(T)] = Here(c)
    BY <1>1 DEF Walk
  <2> QED BY <2>1, <2>2 DEF Here
<1>2. CASE c.round # 0
  <2>1. c.index = Len(V)
    BY <1>2, WalkGoesOn
  <2>2. T[Len(T)].todo = <<>>
    BY <1>2 DEF Walk
  <2> QED BY <2>1, <2>2
<1> QED BY <1>1, <1>2

NextRound(c, q, len) ==
  [c EXCEPT !.round = @ + 1, !.index = 0, !.todo = q.nodes, !.packetLen = len]
LastRound(c, len) == [c EXCEPT !.pc = "done", !.packetLen = len]

LEMMA NextRoundSound ==
  ASSUME NEW c, NEW R, Sound(c, R), NEW q, q.nodes \in Seq(Nodes), Running(c, R, q),
         c.pc = "run", c.todo = <<>>, NEW len \in Int, NEW d,
         d = NextRound(c, q, len)
  PROVE  Sound(d, R) /\ d.pc = "run" /\ Running(d, R, q) /\ d.round = c.round + 1
<1>1. PICK T, V : Tracks(T, V, c, R, q.nodes)
  BY DEF Running
<1>2. /\ IsContext(c) /\ c.round \in Nat /\ Walk(T, V, c, q.nodes) /\ c.offsets \in Seq(Nat)
      /\ Len(c.offsets) \in Nat
  BY <1>1, LenProperties DEF Sound, Tracks
<1>3. c.index = Len(V) /\ T[Len(T)].todo = <<>>
  BY <1>2, WalkEnds
<1>4. T \in Seq(Places) /\ Len(T) \in Nat /\ Len(T) # 0
  BY <1>2, LenProperties, EmptySeq DEF Walk
<1>5. /\ IsContext(d) /\ d.todo = q.nodes /\ d.pc = c.pc /\ d.fields = c.fields
      /\ d.packetLen = len /\ d.marks = c.marks /\ d.data = c.data /\ d.round = c.round + 1
      /\ d.index = 0 /\ d.offsets = c.offsets /\ d.log = c.log /\ d.seen = c.seen
  BY <1>2 DEF NextRound, IsContext, ContextFields
<1>6. d.round \in Nat /\ d.round # 0 /\ Here(d) = [todo |-> q.nodes, index |-> 0]
  BY <1>2, <1>5 DEF Here
<1>7. Walk(T, V, d, q.nodes)
  <2>1. T[1] = Here(d) /\ 1 \in 1..Len(T)
    BY <1>2, <1>4, <1>6 DEF Walk
  <2>2. Len(d.offsets) = Len(V) /\ d.fields = c.fields
    BY <1>2, <1>5 DEF Walk
  <2> QED BY <1>2, <1>3, <1>6, <2>1, <2>2 DEF Walk
<1>8. LogOf(V, d, R)
  <2>1. ASSUME NEW o \in c.log
        PROVE  o.round <= d.round /\ o.round # d.round
    <3>1. o.round \in Nat /\ o.round <= c.round
      BY <1>1 DEF Tracks, LogOf, Entries
    <3> QED BY <1>2, <1>5, <3>1
  <2> QED BY <1>1, <1>5, <2>1 DEF Tracks, LogOf
<1>9. Reserved(V, d, R)
  BY <1>1, <1>5 DEF Tracks, Reserved
<1>10. Valued(d)
  <2> SUFFICES ASSUME NEW o \in d.log,
                      o.node.round < d.round \/ (o.node.round = d.round /\ o.index <= d.index)
               PROVE  Boolean(o.node) \/ \E p \in d.log : p.index = o.index /\ p.computed
    BY DEF Valued
  <2>1. /\ o.index \in 1..Len(V) /\ o.node \in Nodes /\ o \in c.log
    BY <1>1, <1>5 DEF Tracks, LogOf, Entries
  <2>2. o.node.round \in Nat
    BY <2>1, NodesAssumption
  <2>3. o.index \in Int /\ 1 <= o.index /\ o.index <= c.index
    BY <1>3, <2>1
  <2>4. o.node.round < c.round + 1
    BY <1>5, <2>3
  <2>5. o.node.round < c.round \/ (o.node.round = c.round /\ o.index <= c.index)
    BY <1>2, <2>2, <2>3, <2>4
  <2> QED BY <1>1, <1>5, <2>1, <2>5 DEF Tracks, Valued
<1>11. Tracks(T, V, d, R, q.nodes)
  BY <1>7, <1>8, <1>9, <1>10 DEF Tracks
<1>12. Counted(d) /\ d.fields \in q.inputs
  BY <1>5 DEF Running, Counted
<1>13. Running(d, R, q)
  BY <1>6, <1>11, <1>12 DEF Running
<1>14. InPlace(d, R)
  BY <1>5 DEF Sound, InPlace
<1>15. d.index \in 0..Len(d.offsets)
  BY <1>2, <1>5
<1>16. Sound(d, R)
  BY <1>5, <1>6, <1>14, <1>15 DEF Sound
<1> QED BY <1>5, <1>13, <1>16

\* What an Encode has done when it succeeds.
Computed(c, last) ==
  \A o \in c.log : ~Boolean(o.node) /\ ~(o.node.round > last) =>
    \E p \in c.log : /\ p.index = o.index /\ p.computed
                     /\ \A q \in c.log : q.index = o.index /\ q.computed => q = p

LEMMA LastRoundSound ==
  ASSUME NEW c, NEW R, Sound(c, R), NEW q, Running(c, R, q), c.pc = "run", c.todo = <<>>,
         NEW len, NEW d, d = LastRound(c, len)
  PROVE  Sound(d, R) /\ d.pc = "done" /\ d.round = c.round /\ Computed(d, c.round)
<1>1. PICK T, V : Tracks(T, V, c, R, q.nodes)
  BY DEF Running
<1>2. IsContext(c) /\ c.round \in Nat /\ Walk(T, V, c, q.nodes)
  BY <1>1 DEF Sound, Tracks
<1>3. c.index = Len(V)
  BY <1>2, WalkEnds
<1>4. /\ IsContext(d) /\ d.pc = "done" /\ d.data = c.data /\ d.round = c.round
      /\ d.index = c.index /\ d.offsets = c.offsets /\ d.log = c.log /\ d.seen = c.seen
  BY <1>2 DEF LastRound, IsContext, ContextFields
<1>5. Sound(d, R)
  <2>1. InPlace(d, R)
    BY <1>4 DEF Sound, InPlace
  <2> QED BY <1>4, <2>1 DEF Sound
<1>6. ASSUME NEW o \in c.log, ~Boolean(o.node), ~(o.node.round > c.round)
      PROVE  \E p \in c.log : /\ p.index = o.index /\ p.computed
                              /\ \A r \in c.log : r.index = o.index /\ r.computed => r = p
  <2>1. o.index \in 1..Len(V) /\ o.node \in Nodes
    BY <1>1 DEF Tracks, LogOf, Entries
  <2>2. o.node.round \in Nat
    BY <2>1, NodesAssumption
  <2>3. o.node.round < c.round \/ (o.node.round = c.round /\ o.index <= c.index)
    BY <1>2, <1>3, <1>6, <2>1, <2>2
  <2>4. PICK p \in c.log : p.index = o.index /\ p.computed
    BY <1>1, <1>6, <2>3 DEF Tracks, Valued
  <2>5. ASSUME NEW r \in c.log, r.index = o.index, r.computed
        PROVE  r = p
    <3>1. /\ p.node = V[p.index] /\ p.round = p.node.round
          /\ r.node = V[r.index] /\ r.round = r.node.round
      BY <1>1, <2>4, <2>5 DEF Tracks, LogOf
    <3>2. r.index = p.index /\ r.round = p.round
      BY <2>4, <2>5, <3>1
    <3> QED BY <1>1, <3>2 DEF Tracks, LogOf
  <2> QED BY <2>4, <2>5
<1>7. Computed(d, c.round)
  BY <1>4, <1>6 DEF Computed
<1> QED BY <1>4, <1>5, <1>7

\* The first step.
Started(q, input, R) ==
  [NoEncode EXCEPT !.pc = "run", !.todo = q.nodes, !.fields = input, !.seen = R]

LEMMA StartSound ==
  ASSUME NEW q, q.nodes \in Seq(Nodes), NEW input \in q.inputs, Filled(input), NEW R, NEW d,
         d = Started(q, input, R)
  PROVE  Sound(d, R) /\ d.pc = "run" /\ d.round = 0 /\ Running(d, R, q)
<1> DEFINE T == <<[todo |-> q.nodes, index |-> 0]>>
<1>1. /\ IsContext(d) /\ d.pc = "run" /\ d.todo = q.nodes /\ d.fields = input /\ d.seen = R
      /\ d.packetLen = -1 /\ d.marks = NoMarks /\ d.data = <<>> /\ d.round = 0 /\ d.index = 0
      /\ d.offsets = <<>> /\ d.log = {}
  BY DEF Started, NoEncode, IsContext, ContextFields
<1>2. d.data \in Data /\ d.offsets \in Seq(Nat) /\ Len(d.offsets) = 0
  <2>1. <<>> \in Data /\ <<>> \in Seq(Nat) /\ Len(<<>>) = 0
    BY EmptySeq DEF Data
  <2> QED BY <1>1, <2>1, Zenon
<1>3. InPlace(d, R)
  BY <1>1 DEF InPlace
<1>4. Sound(d, R)
  BY <1>1, <1>2, <1>3 DEF Sound
<1>5. Here(d) = [todo |-> q.nodes, index |-> 0] /\ Here(d) \in Places
  BY <1>1 DEF Here, Places
<1>6. T \in Seq(Places) /\ Len(T) = 1 /\ T[1] = Here(d) /\ T # <<>>
  BY <1>5
<1> HIDE DEF T
<1>7. <<>> \in Seq(Nodes) /\ Len(<<>>) = 0 /\ T[1].index = 0
  BY <1>5, <1>6
<1>8. Walk(T, <<>>, d, q.nodes)
  BY <1>1, <1>2, <1>5, <1>6, <1>7 DEF Walk
<1>9. LogOf(<<>>, d, R) /\ Reserved(<<>>, d, R) /\ Valued(d)
  BY <1>1, <1>7 DEF LogOf, Reserved, Valued
<1>10. Tracks(T, <<>>, d, R, q.nodes)
  BY <1>8, <1>9 DEF Tracks
<1>11. Counted(d)
  BY <1>1 DEF Counted, NoMarks
<1> QED BY <1>1, <1>4, <1>10, <1>11 DEF Running

\* A Decode may resize a node while Encode runs.
LEMMA SoundGrows ==
  ASSUME NEW c, NEW R, Sound(c, R), NEW q, c.pc = "run" => Running(c, R, q),
         NEW Q \in SUBSET Resizable, R \subseteq Q
  PROVE  Sound(c, Q) /\ (c.pc = "run" => Running(c, Q, q))
<1>1. Q = c.seen => Q = R
  BY DEF Sound
<1>2. InPlace(c, Q)
  BY <1>1 DEF Sound, InPlace
<1>3. Sound(c, Q)
  BY <1>2 DEF Sound
<1>4. ASSUME c.pc = "run" PROVE Running(c, Q, q)
  <2>1. PICK T, V : Tracks(T, V, c, R, q.nodes)
    BY <1>4 DEF Running
  <2>2. \A n \in Nodes : /\ Size(n, c.fields, R).ok => Size(n, c.fields, Q).ok
                         /\ Size(n, c.fields, R) # Result(0) => Size(n, c.fields, Q) # Result(0)
    BY SizeGrows
  <2>3. V \in Seq(Nodes) /\ \A i \in 1..Len(V) : V[i] \in Nodes
    BY <2>1, ElementOfSeq DEF Tracks, Walk
  <2>4. LogOf(V, c, Q)
    <3>1. \A o \in c.log : o.node \in Nodes
      BY <2>1 DEF Tracks, LogOf, Entries
    <3> QED BY <2>1, <2>2, <3>1 DEF Tracks, LogOf
  <2>5. Reserved(V, c, Q)
    BY <1>1, <2>1, <2>2, <2>3 DEF Tracks, Reserved
  <2>6. Tracks(T, V, c, Q, q.nodes)
    BY <2>1, <2>4, <2>5 DEF Tracks
  <2> QED BY <1>4, <2>6 DEF Running
<1> QED BY <1>3, <1>4

-----------------------------------------------------------------------------
(* What a step of Decode does to its Context.                                *)

DecoderFields == {"pc", "todo", "fields", "packetLen", "marks", "data", "pos", "bit", "arrays",
                  "own", "reads", "used"}
IsDecoder(c) == c = [f \in DecoderFields |-> c[f]]

\* Nodes, and the ends of arrays and their items.
Ends == {[n EXCEPT !.kind = "itemEnd"] : n \in Nodes}
          \cup {[n EXCEPT !.kind = "arrayEnd"] : n \in Nodes}
Steps == Nodes \cup Ends

\* The read position is within the packet and past the bits consumed so far.
Decoder(c) ==
  /\ IsDecoder(c) /\ c.pc \in {"idle", "run", "done", "failed"} /\ c.data \in Data
  /\ c.pos \in 0..Len(c.data) /\ c.bit \in 0..7 /\ 8 * c.pos + c.bit = c.used
  /\ c.todo \in Seq(Steps)
  /\ Numbered(c.fields) /\ c.packetLen \in Int /\ c.marks = NoMarks

LEMMA StepKinds ==
  ASSUME NEW x \in Steps, x.kind \in Groups \/ x.kind \in {"bytes", "calc"}
  PROVE  x \in Nodes
<1>1. ASSUME x \in Ends PROVE FALSE
  <2>1. PICK n \in Nodes : x = [n EXCEPT !.kind = "itemEnd"] \/ x = [n EXCEPT !.kind = "arrayEnd"]
    BY <1>1 DEF Ends
  <2>2. "kind" \in DOMAIN n
    BY NodesAssumption
  <2>3. x.kind \in {"itemEnd", "arrayEnd"}
    BY <2>1, <2>2
  <2> QED BY <2>3 DEF Groups
<1> QED BY <1>1 DEF Steps

LEMMA SetFieldNumbered ==
  ASSUME NEW f, Numbered(f), NEW path, NEW v, v.n \in Int
  PROVE  Numbered(SetField(f, path, v))
<1>1. CASE path = <<>>
  BY <1>1 DEF SetField
<1>2. CASE path # <<>>
  <2> DEFINE kept == {p \in DOMAIN f : ~IsPrefix(p, path) /\ ~IsPrefix(path, p)}
  <2>1. kept \subseteq DOMAIN f
    OBVIOUS
  <2>2. SetField(f, path, v) = [q \in kept \cup {path} |-> IF q = path THEN v ELSE f[q]]
    BY <1>2 DEF SetField
  <2> HIDE DEF kept
  <2> QED BY <2>1, <2>2 DEF Numbered
<1> QED BY <1>1, <1>2

LEMMA Stored ==
  ASSUME NEW c, Decoder(c), NEW n, NEW v, v.n \in Int
  PROVE  Decoder(Store(c, n, v)) /\ Store(c, n, v).pc = c.pc
<1> DEFINE f == SetField(c.fields, n.name, v)
<1>1. Store(c, n, v) = [c EXCEPT !.fields = f]
  BY DEF Store
<1>2. Numbered(f)
  BY SetFieldNumbered DEF Decoder
<1> HIDE DEF f
<1> QED BY <1>1, <1>2 DEF Decoder, IsDecoder, DecoderFields

LEMMA DecoderFails ==
  ASSUME NEW c, Decoder(c)
  PROVE  Decoder(Fail(c)) /\ Fail(c).pc = "failed"
BY DEF Decoder, IsDecoder, DecoderFields, Fail

LEMMA DecoderGoesOn ==
  ASSUME NEW c, Decoder(c), NEW todo \in Seq(Steps)
  PROVE  Decoder([c EXCEPT !.todo = todo]) /\ [c EXCEPT !.todo = todo].pc = c.pc
BY DEF Decoder, IsDecoder, DecoderFields

\* A value that comes from the packet.
LEMMA ReadBitsTyped ==
  ASSUME NEW c, Decoder(c), NEW n \in Nat, ReadBits(c, n).ok
  PROVE  /\ ReadBits(c, n).n \in Int
         /\ c.pos + ((n + c.bit) \div 8) \in 0..Len(c.data)
<1> DEFINE full == (n + c.bit) \div 8
           rest == (n + c.bit) % 8
           whole == BytesToInt(SubSeq(c.data, c.pos + 1, c.pos + full), "big")
           last == c.pos + full + (IF rest > 0 THEN 1 ELSE 0)
           v == IF rest = 0 THEN whole ELSE whole * Pow2(rest) + (c.data[last] \div Pow2(8 - rest))
<1>1. /\ c.pos \in 0..Len(c.data) /\ Len(c.data) \in Nat /\ c.data \in Data /\ c.bit \in 0..7
  BY LenProperties DEF Decoder, Data
<1>2. full \in Nat /\ rest \in 0..7
  <2>1. n + c.bit \in Nat
    BY <1>1
  <2>2. ASSUME NEW a \in Nat PROVE a \div 8 \in Nat /\ a % 8 \in 0..7
    OBVIOUS
  <2> QED BY <2>1, <2>2
<1>3. ~(n > 64 \/ c.pos >= Len(c.data) \/ last > Len(c.data)) /\ ReadBits(c, n) = Result(v)
  BY DEF ReadBits, Bad
<1> HIDE DEF full, rest
<1>4. /\ last \in Int /\ c.pos + full <= last /\ last <= Len(c.data)
      /\ rest > 0 => last \in 1..Len(c.data)
  BY <1>1, <1>2, <1>3
<1>5. c.pos + full \in 0..Len(c.data)
  BY <1>1, <1>2, <1>4
<1>6. SubSeq(c.data, c.pos + 1, c.pos + full) \in Data
  <2>1. c.pos + 1 \in 1..(Len(c.data) + 1) /\ c.pos + full \in ((c.pos + 1) - 1)..Len(c.data)
    BY <1>1, <1>2, <1>5
  <2> QED BY <1>1, <2>1, PartOfBytes
<1>7. whole \in Int
  BY <1>6, BytesMakeInt
<1> HIDE DEF whole, last
<1>8. rest > 0 => c.data[last] \in Int
  <2> SUFFICES ASSUME rest > 0 PROVE c.data[last] \in Int
    OBVIOUS
  <2>1. last \in 1..Len(c.data) /\ c.data \in Seq(Byte)
    BY <1>1, <1>4 DEF Data
  <2>2. c.data[last] \in Byte
    BY <2>1, ElementOfSeq
  <2>3. Byte \subseteq Int
    BY ByteIsNat
  <2> QED BY <2>2, <2>3, Zenon
<1>9. v \in Int
  <2>1. CASE rest = 0
    BY <1>7, <2>1
  <2>2. CASE rest \in 1..7
    <3>1. Pow2(rest) \in {2, 4, 8, 16, 32, 64, 128} /\ Pow2(8 - rest) \in {2, 4, 8, 16, 32, 64, 128}
      BY <2>2 DEF Pow2
    <3>2. ASSUME NEW a \in Int, NEW b \in Int, NEW k \in {2, 4, 8, 16, 32, 64, 128},
                 NEW m \in {2, 4, 8, 16, 32, 64, 128}
          PROVE  a * k + (b \div m) \in Int
      OBVIOUS
    <3>3. whole * Pow2(rest) + (c.data[last] \div Pow2(8 - rest)) \in Int
      BY <1>7, <1>8, <2>2, <3>1, <3>2
    <3> QED BY <2>2, <3>3
  <2> QED BY <1>2, <2>1, <2>2
<1> HIDE DEF v
<1>10. ReadBits(c, n).n = v
  BY <1>3 DEF Result
<1> QED BY <1>5, <1>9, <1>10 DEF full

\* Bits by the byte.
LEMMA BitsMakeBytes ==
  ASSUME NEW pos \in Nat, NEW bit \in 0..7, NEW n \in Nat
  PROVE  /\ (n + bit) % 8 \in 0..7
         /\ 8 * (pos + ((n + bit) \div 8)) + ((n + bit) % 8) = 8 * pos + bit + n
  OBVIOUS

LEMMA BytesMakeBits ==
  ASSUME NEW pos \in Nat, NEW bit \in Nat, NEW count \in Nat
  PROVE  8 * (pos + count) + bit = 8 * pos + bit + 8 * count
  OBVIOUS

LEMMA Within ==
  ASSUME NEW len \in Nat, NEW pos \in 0..len, NEW count \in Nat, pos + count <= len
  PROVE  /\ pos + 1 \in 1..(len + 1) /\ pos + count \in ((pos + 1) - 1)..len
         /\ pos + count \in 0..len /\ pos \in Nat
  OBVIOUS

Consumed(c, n, todo, reads) ==
  [c EXCEPT !.todo = todo, !.used = @ + n, !.pos = @ + ((n + c.bit) \div 8),
            !.bit = (n + @) % 8, !.reads = reads]

LEMMA BitsConsumed ==
  ASSUME NEW c, Decoder(c), NEW n \in Nat, c.pos + ((n + c.bit) \div 8) \in 0..Len(c.data),
         NEW todo \in Seq(Steps), NEW reads
  PROVE  Decoder(Consumed(c, n, todo, reads)) /\ Consumed(c, n, todo, reads).pc = c.pc
<1> DEFINE d == Consumed(c, n, todo, reads)
<1>1. c.pos \in Nat /\ c.bit \in 0..7
  <2>1. c.pos \in 0..Len(c.data) /\ c.bit \in 0..7
    BY DEF Decoder
  <2> QED BY <2>1
<1>2. c.used = 8 * c.pos + c.bit
  BY Zenon DEF Decoder
<1>3. /\ IsDecoder(d) /\ d.pc = c.pc /\ d.todo = todo /\ d.data = c.data /\ d.used = c.used + n
      /\ d.pos = c.pos + ((n + c.bit) \div 8) /\ d.bit = (n + c.bit) % 8
      /\ d.fields = c.fields /\ d.packetLen = c.packetLen /\ d.marks = c.marks
  BY DEF Decoder, IsDecoder, DecoderFields, Consumed
<1> HIDE DEF d
<1>4. /\ (n + c.bit) % 8 \in 0..7
      /\ 8 * (c.pos + ((n + c.bit) \div 8)) + ((n + c.bit) % 8) = 8 * c.pos + c.bit + n
  BY <1>1, BitsMakeBytes, Zenon
<1>5. d.bit \in 0..7 /\ 8 * d.pos + d.bit = d.used
  BY <1>2, <1>3, <1>4, Zenon
<1> QED BY <1>3, <1>5 DEF Decoder, d

LEMMA ReadBytesTyped ==
  ASSUME NEW c, Decoder(c), NEW n, NEW type, NEW size \in Int
  PROVE  LET d == ReadBytes(c, n, type, size)
         IN  Decoder(d) /\ d.pc \in {c.pc, "failed"}
<1> DEFINE count == IF size < 0 THEN Len(c.data) - c.pos ELSE size
           bytes == SubSeq(c.data, c.pos + 1, c.pos + count)
           next == [c EXCEPT !.pos = @ + count, !.used = @ + 8 * count]
           v == IF type = "int" THEN Int64(BytesToInt(bytes, n.order))
                                ELSE Uint(BytesToInt(bytes, n.order))
           d == ReadBytes(c, n, type, size)
<1>1. /\ c.pos \in 0..Len(c.data) /\ Len(c.data) \in Nat /\ c.data \in Data /\ c.bit \in 0..7
  BY LenProperties DEF Decoder, Data
<1>2. count \in Nat
  BY <1>1
<1>3. \/ d = Store(c, n, Str(<<>>))
      \/ d = Fail(c)
      \/ /\ c.pos + count <= Len(c.data)
         /\ \/ d = Store(next, n, Str(bytes))
            \/ d = Fail(next)
            \/ d = Store(next, n, v)
  <2>1. \/ d \in {Store(c, n, Str(<<>>)), Fail(c)}
        \/ /\ ~(c.pos + count > Len(c.data))
           /\ d \in {Store(next, n, Str(bytes)), Fail(next), Store(next, n, v)}
    BY Zenon DEF ReadBytes
  <2> HIDE DEF count, d, next, v, bytes
  <2> QED BY <1>1, <1>2, <2>1
<1>4. Str(<<>>).n = 0 /\ Str(bytes).n = 0
  BY DEF Str, Value
<1>5. Decoder(Store(c, n, Str(<<>>))) /\ Store(c, n, Str(<<>>)).pc = c.pc
  BY <1>4, Stored
<1>6. Decoder(Fail(c)) /\ Fail(c).pc = "failed"
  BY DecoderFails
<1>7. ASSUME c.pos + count <= Len(c.data)
      PROVE  /\ Decoder(next) /\ next.pc = c.pc /\ v.n \in Int
  <2>1. bytes \in Data
    <3> HIDE DEF count, next, v
    <3>1. c.pos + 1 \in 1..(Len(c.data) + 1) /\ c.pos + count \in ((c.pos + 1) - 1)..Len(c.data)
      BY <1>1, <1>2, <1>7, Within, Zenon
    <3> QED BY <1>1, <3>1, PartOfBytes
  <2> HIDE DEF bytes
  <2>2. BytesToInt(bytes, n.order) \in Int
    BY <2>1, BytesMakeInt
  <2>3. v.n \in Int
    BY <2>2 DEF Int64, Uint, Value
  <2> HIDE DEF v, count
  <2>4. /\ IsDecoder(next) /\ next.pc = c.pc /\ next.todo = c.todo /\ next.data = c.data
        /\ next.used = c.used + 8 * count /\ next.pos = c.pos + count /\ next.bit = c.bit
        /\ next.fields = c.fields /\ next.packetLen = c.packetLen /\ next.marks = c.marks
    BY DEF Decoder, IsDecoder, DecoderFields
  <2> HIDE DEF next
  <2>5. next.pos \in 0..Len(next.data) /\ 8 * next.pos + next.bit = next.used
    <3>0. c.bit \in Nat
      BY <1>1
    <3>1. next.pos \in 0..Len(next.data) /\ c.pos \in Nat
      BY <1>1, <1>2, <1>7, <2>4, Within, Zenon
    <3>2. 8 * c.pos + c.bit = c.used
      BY Zenon DEF Decoder
    <3>3. 8 * (c.pos + count) + c.bit = 8 * c.pos + c.bit + 8 * count
      BY <1>2, <3>0, <3>1, BytesMakeBits, Zenon
    <3>4. 8 * next.pos + next.bit = next.used
      BY <2>4, <3>2, <3>3, Zenon
    <3> QED BY <3>1, <3>4
  <2>6. Decoder(next)
    BY <2>4, <2>5 DEF Decoder
  <2> QED BY <2>3, <2>4, <2>6
<1> HIDE DEF count, v, bytes, next, d
<1>8. ASSUME c.pos + count <= Len(c.data)
      PROVE  /\ Decoder(Store(next, n, Str(bytes))) /\ Store(next, n, Str(bytes)).pc = c.pc
             /\ Decoder(Fail(next)) /\ Fail(next).pc = "failed"
             /\ Decoder(Store(next, n, v)) /\ Store(next, n, v).pc = c.pc
  BY <1>4, <1>7, <1>8, Stored, DecoderFails
<1>9. Decoder(d) /\ d.pc \in {c.pc, "failed"}
  BY <1>3, <1>5, <1>6, <1>8
<1> QED BY <1>9 DEF d

-----------------------------------------------------------------------------
(* Bits of numbers.                                                          *)
\* The recursion of Shifted has a function, from its finite approximations.
LEMMA ShiftedSteps ==
  ASSUME NEW v
  PROVE  Shifted(v)[0] = v /\ \A i \in Nat : Shifted(v)[i + 1] = Shifted(v)[i] \div 2
<1> DEFINE Approx(n, h) == h = [i \in 0..n |-> IF i = 0 THEN v ELSE h[i - 1] \div 2]
<1>1. \A n \in Nat : \E h : Approx(n, h)
  <2> DEFINE Missing == {n \in Nat : ~\E h : Approx(n, h)}
  <2> SUFFICES ASSUME Missing # {} PROVE FALSE
    OBVIOUS
  <2>1. PICK n \in Missing : \A m \in Missing : n <= m
    <3>1. Missing \in SUBSET Nat OBVIOUS
    <3> HIDE DEF Missing
    <3> QED BY <3>1, Least
  <2>2. CASE n = 0
    <3> DEFINE h == [i \in 0..0 |-> v]
    <3>1. h = [i \in 0..0 |-> IF i = 0 THEN v ELSE h[i - 1] \div 2]
      <4>1. \A i \in 0..0 : i = 0 OBVIOUS
      <4> QED BY <4>1
    <3> QED BY <2>2, <3>1
  <2>3. CASE n # 0
    <3>1. n \in Nat /\ n - 1 \in Nat /\ n - 1 \notin Missing
      <4>1. n \in Nat
        BY <2>1
      <4>2. n - 1 \in Nat /\ ~(n <= n - 1)
        BY <2>3, <4>1
      <4> HIDE DEF Missing
      <4> QED BY <2>1, <4>1, <4>2
    <3>2. PICK h : Approx(n - 1, h)
      BY <3>1
    <3> DEFINE g == [i \in 0..n |-> IF i = 0 THEN v ELSE h[i - 1] \div 2]
    <3>3. ASSUME NEW e \in 0..(n - 1) PROVE h[e] = g[e]
      <4>1. h[e] = IF e = 0 THEN v ELSE h[e - 1] \div 2
        BY <3>2
      <4>2. e \in 0..n
        BY <3>1
      <4> QED BY <4>1, <4>2
    <3>4. ASSUME NEW i \in 0..n, i # 0 PROVE h[i - 1] = g[i - 1]
      <4>1. i - 1 \in 0..(n - 1)
        BY <3>1, <3>4
      <4> QED BY <3>3, <4>1
    <3>5. g = [i \in 0..n |-> IF i = 0 THEN v ELSE g[i - 1] \div 2]
      <4> DEFINE k == [i \in 0..n |-> IF i = 0 THEN v ELSE g[i - 1] \div 2]
      <4>1. ASSUME NEW i \in 0..n PROVE g[i] = k[i]
        BY <3>4, <4>1
      <4> QED BY <4>1
    <3> QED BY <2>1, <3>5
  <2> QED BY <2>2, <2>3
<1>2. ASSUME NEW n \in Nat, NEW m \in Nat, NEW h, NEW k, Approx(n, h), Approx(m, k)
      PROVE  \A i \in 0..n : i \in 0..m => h[i] = k[i]
  <2> DEFINE Apart == {i \in 0..n : i \in 0..m /\ h[i] # k[i]}
  <2> SUFFICES ASSUME Apart # {} PROVE FALSE
    OBVIOUS
  <2>1. PICK i \in Apart : \A e \in Apart : i <= e
    <3>1. Apart \in SUBSET Nat OBVIOUS
    <3> HIDE DEF Apart
    <3> QED BY <3>1, Least
  <2>2. /\ h[i] = IF i = 0 THEN v ELSE h[i - 1] \div 2
        /\ k[i] = IF i = 0 THEN v ELSE k[i - 1] \div 2
    BY <1>2, <2>1
  <2>3. i # 0 => i - 1 \in 0..n /\ i - 1 \in 0..m /\ i - 1 \notin Apart
    BY <2>1
  <2> QED BY <2>1, <2>2, <2>3
<1> DEFINE h(n) == CHOOSE h : Approx(n, h)
           G == [i \in Nat |-> h(i)[i]]
<1>3. ASSUME NEW n \in Nat PROVE Approx(n, h(n))
  BY <1>1, Zenon
<1>4. G = [i \in Nat |-> IF i = 0 THEN v ELSE G[i - 1] \div 2]
  <2> DEFINE k == [i \in Nat |-> IF i = 0 THEN v ELSE G[i - 1] \div 2]
  <2>1. ASSUME NEW i \in Nat PROVE G[i] = k[i]
    <3> HIDE DEF h
    <3>1. h(i)[i] = IF i = 0 THEN v ELSE h(i)[i - 1] \div 2
      <4>1. Approx(i, h(i))
        BY <1>3
      <4>2. i \in 0..i
        OBVIOUS
      <4> QED BY <4>1, <4>2
    <3>2. CASE i # 0
      <4>1. i - 1 \in Nat /\ i - 1 \in 0..i /\ i - 1 \in 0..(i - 1)
        BY <3>2
      <4>2. Approx(i, h(i)) /\ Approx(i - 1, h(i - 1))
        BY <1>3, <4>1
      <4> HIDE DEF Approx
      <4>3. h(i)[i - 1] = h(i - 1)[i - 1]
        BY <1>2, <4>1, <4>2
      <4> QED BY <3>1, <3>2, <4>1, <4>3
    <3> QED BY <3>1, <3>2
  <2> HIDE DEF h
  <2> QED BY <2>1
<1>5. Shifted(v) = [i \in Nat |-> IF i = 0 THEN v ELSE Shifted(v)[i - 1] \div 2]
  <2> HIDE DEF G
  <2> QED BY <1>4, Zenon DEF Shifted
<1> HIDE DEF Approx, h, G
<1>6. Shifted(v)[0] = v
  BY <1>5
<1>7. ASSUME NEW i \in Nat PROVE Shifted(v)[i + 1] = Shifted(v)[i] \div 2
  <2>1. i + 1 \in Nat /\ i + 1 # 0 /\ (i + 1) - 1 = i
    OBVIOUS
  <2> QED BY <1>5, <2>1
<1> QED BY <1>6, <1>7

LEMMA ShiftedTyped ==
  ASSUME NEW v \in Nat
  PROVE  \A i \in Nat : Shifted(v)[i] \in Nat
<1> DEFINE Not == {i \in Nat : Shifted(v)[i] \notin Nat}
<1> SUFFICES ASSUME Not # {} PROVE FALSE
  OBVIOUS
<1>1. PICK i \in Not : \A e \in Not : i <= e
  <2>1. Not \in SUBSET Nat OBVIOUS
  <2> HIDE DEF Not
  <2> QED BY <2>1, Least
<1>2. i \in Nat /\ Shifted(v)[i] \notin Nat /\ i # 0
  BY <1>1, ShiftedSteps
<1>3. i - 1 \in Nat /\ ~(i <= i - 1) /\ (i - 1) + 1 = i
  BY <1>2
<1>4. Shifted(v)[i - 1] \in Nat
  BY <1>1, <1>3
<1>5. Shifted(v)[i] = Shifted(v)[i - 1] \div 2
  BY <1>3, ShiftedSteps
<1> QED BY <1>2, <1>4, <1>5

\* Shifting further.
LEMMA ShiftFurther ==
  ASSUME NEW v, NEW k \in Nat
  PROVE  \A j \in Nat : Shifted(Shifted(v)[k])[j] = Shifted(v)[k + j]
<1> DEFINE w == Shifted(v)[k]
           Not == {j \in Nat : Shifted(w)[j] # Shifted(v)[k + j]}
<1> SUFFICES ASSUME Not # {} PROVE FALSE
  OBVIOUS
<1>1. PICK j \in Not : \A e \in Not : j <= e
  <2>1. Not \in SUBSET Nat OBVIOUS
  <2> HIDE DEF Not
  <2> QED BY <2>1, Least
<1>2. j \in Nat /\ Shifted(w)[j] # Shifted(v)[k + j]
  BY <1>1
<1>3. j # 0
  <2>1. Shifted(w)[0] = w /\ k + 0 = k
    BY ShiftedSteps
  <2> HIDE DEF Not
  <2> QED BY <1>2, <2>1
<1>4. j - 1 \in Nat /\ ~(j <= j - 1) /\ (j - 1) + 1 = j /\ k + (j - 1) \in Nat
      /\ (k + (j - 1)) + 1 = k + j
  BY <1>2, <1>3
<1>5. Shifted(w)[j - 1] = Shifted(v)[k + (j - 1)]
  BY <1>1, <1>4
<1>6. /\ Shifted(w)[j] = Shifted(w)[j - 1] \div 2
      /\ Shifted(v)[k + j] = Shifted(v)[k + (j - 1)] \div 2
  <2> HIDE DEF w, Not
  <2> QED BY <1>4, ShiftedSteps
<1> HIDE DEF w, Not
<1> QED BY <1>2, <1>5, <1>6

\* Shifts of up to eight bits are divisions.
LEMMA SmallShifts ==
  ASSUME NEW v \in Nat
  PROVE  /\ \A k \in 0..7 : Shifted(v)[k] = v \div Pow2(k)
         /\ Shifted(v)[8] = v \div 256
<1> DEFINE S(k) == Shifted(v)[k]
<1>1. S(0) = v /\ \A k \in Nat : S(k + 1) = S(k) \div 2
  BY ShiftedSteps
<1> HIDE DEF S
<1>2. S(1) = v \div 2
  BY <1>1
<1>3. S(2) = v \div 4
  BY <1>1, <1>2
<1>4. S(3) = v \div 8
  BY <1>1, <1>3
<1>5. S(4) = v \div 16
  BY <1>1, <1>4
<1>6. S(5) = v \div 32
  BY <1>1, <1>5
<1>7. S(6) = v \div 64
  BY <1>1, <1>6
<1>8. S(7) = v \div 128
  BY <1>1, <1>7
<1>9. S(8) = v \div 256
  BY <1>1, <1>8
<1>10. ASSUME NEW k \in 0..7 PROVE S(k) = v \div Pow2(k)
  <2>1. Pow2(0) = 1 /\ Pow2(1) = 2 /\ Pow2(2) = 4 /\ Pow2(3) = 8 /\ Pow2(4) = 16 /\ Pow2(5) = 32
        /\ Pow2(6) = 64 /\ Pow2(7) = 128 /\ v \div 1 = v
    BY DEF Pow2
  <2>2. k \in {0, 1, 2, 3, 4, 5, 6, 7}
    OBVIOUS
  <2> QED BY <1>1, <1>2, <1>3, <1>4, <1>5, <1>6, <1>7, <1>8, <2>1, <2>2
<1> QED BY <1>9, <1>10 DEF S

\* A multiple of a power of two can be taken out of a division by it.
LEMMA DivideMultiple ==
  ASSUME NEW p \in {1, 2, 4, 8, 16, 32, 64}, NEW y \in Nat, NEW e \in Nat
  PROVE  (p * y + e) \div p = y + (e \div p)
<1>1. CASE p = 1 BY <1>1
<1>2. CASE p = 2 BY <1>2
<1>3. CASE p = 4 BY <1>3
<1>4. CASE p = 8 BY <1>4
<1>5. CASE p = 16 BY <1>5
<1>6. CASE p = 32 BY <1>6
<1>7. CASE p = 64 BY <1>7
<1> QED BY <1>1, <1>2, <1>3, <1>4, <1>5, <1>6, <1>7

\* The bits of a number whose lowest k bits are those of e.
LEMMA LowBits ==
  ASSUME NEW k \in 0..7, NEW w \in Nat, NEW e \in Nat, e < Pow2(k),
         NEW v \in Int, v = w * Pow2(k) + e
  PROVE  /\ v \in Nat /\ Shifted(v)[k] = w
         /\ \A i \in 0..(k - 1) : Shifted(v)[i] % 2 = Shifted(e)[i] % 2
<1>1. k \in {0, 1, 2, 3, 4, 5, 6, 7}
  OBVIOUS
<1>2. /\ Pow2(0) = 1 /\ Pow2(1) = 2 /\ Pow2(2) = 4 /\ Pow2(3) = 8 /\ Pow2(4) = 16
      /\ Pow2(5) = 32 /\ Pow2(6) = 64 /\ Pow2(7) = 128
  BY DEF Pow2
<1>3. v \in Nat /\ v \div Pow2(k) = w
  <2>1. Pow2(k) \in {1, 2, 4, 8, 16, 32, 64, 128}
    BY <1>1, <1>2
  <2>2. ASSUME NEW p \in {1, 2, 4, 8, 16, 32, 64, 128}, e < p
        PROVE  w * p + e \in Nat /\ (w * p + e) \div p = w
    BY <2>2
  <2> QED BY <2>1, <2>2
<1>4. ASSUME NEW i \in 0..(k - 1)
      PROVE  (v \div Pow2(i)) % 2 = (e \div Pow2(i)) % 2
  <2>1. k \in 1..7 /\ i \in {0, 1, 2, 3, 4, 5, 6}
    BY <1>4
  <2>2. PICK q \in {1, 2, 4, 8, 16, 32, 64} : Pow2(k) = 2 * q * Pow2(i)
    <3>1. ASSUME NEW a \in 1..7 PROVE a \in {1, 2, 3, 4, 5, 6, 7} OBVIOUS
    <3> QED BY <1>1, <1>2, <1>4, <2>1, <3>1
  <2>3. Pow2(i) \in {1, 2, 4, 8, 16, 32, 64}
    BY <1>2, <2>1
  <2>4. ASSUME NEW p \in {1, 2, 4, 8, 16, 32, 64}
        PROVE  (w * (2 * q * p) + e) \div p = 2 * (w * q) + (e \div p)
    <3>1. 2 * (w * q) \in Nat /\ w * (2 * q * p) = p * (2 * (w * q))
      OBVIOUS
    <3>2. \A y \in Nat : (p * y + e) \div p = y + (e \div p)
      BY DivideMultiple
    <3> QED BY <3>1, <3>2
  <2>5. v \div Pow2(i) = 2 * (w * q) + (e \div Pow2(i))
    BY <2>2, <2>3, <2>4
  <2>6. w * q \in Nat /\ e \div Pow2(i) \in Nat
    BY <2>2, <2>3
  <2>7. ASSUME NEW x \in Nat, NEW y \in Nat PROVE (2 * x + y) % 2 = y % 2
    OBVIOUS
  <2> QED BY <2>5, <2>6, <2>7
<1>5. Shifted(v)[k] = w
  BY <1>3, SmallShifts
<1>6. ASSUME NEW i \in 0..(k - 1) PROVE Shifted(v)[i] % 2 = Shifted(e)[i] % 2
  <2>1. i \in 0..7
    OBVIOUS
  <2>2. Shifted(v)[i] = v \div Pow2(i) /\ Shifted(e)[i] = e \div Pow2(i)
    BY <1>3, <2>1, SmallShifts
  <2> QED BY <1>4, <2>2
<1> QED BY <1>3, <1>5, <1>6

\* The same for a whole byte.
LEMMA LowByte ==
  ASSUME NEW w \in Nat, NEW d \in Byte, NEW v \in Nat, v = d + 256 * w
  PROVE  /\ Shifted(v)[8] = w
         /\ \A i \in 0..7 : Shifted(v)[i] % 2 = Shifted(d)[i] % 2
<1>1. d \in 0..255
  BY DEF Byte
<1>2. d \in Nat /\ v \div 256 = w
  BY <1>1
<1>3. ASSUME NEW i \in 0..7
      PROVE  (v \div Pow2(i)) % 2 = (d \div Pow2(i)) % 2
  <2>1. i \in {0, 1, 2, 3, 4, 5, 6, 7}
    OBVIOUS
  <2>2. Pow2(i) \in {1, 2, 4, 8, 16, 32, 64, 128}
    BY <2>1 DEF Pow2
  <2>3. ASSUME NEW p \in {1, 2, 4, 8, 16, 32, 64, 128}
        PROVE  ((d + 256 * w) \div p) % 2 = (d \div p) % 2
    BY <1>1
  <2> QED BY <2>2, <2>3
<1>4. Shifted(v)[8] = w
  BY <1>2, SmallShifts
<1>5. ASSUME NEW i \in 0..7 PROVE Shifted(v)[i] % 2 = Shifted(d)[i] % 2
  <2>1. Shifted(v)[i] = v \div Pow2(i) /\ Shifted(d)[i] = d \div Pow2(i)
    BY <1>2, SmallShifts
  <2> QED BY <1>3, <2>1
<1> QED BY <1>4, <1>5

\* The number of the bytes from the m-th lowest on, of up to eight.
HighBytes(digit, m) ==
  LET w7 == digit[8]             w6 == digit[7] + 256 * w7  w5 == digit[6] + 256 * w6
      w4 == digit[5] + 256 * w5  w3 == digit[4] + 256 * w4  w2 == digit[3] + 256 * w3
      w1 == digit[2] + 256 * w2
  IN <<digit[1] + 256 * w1, w1, w2, w3, w4, w5, w6, w7, 0>>[m + 1]

LEMMA HighBytesSteps ==
  ASSUME NEW digit \in [1..8 -> Byte]
  PROVE  /\ \A m \in 0..8 : HighBytes(digit, m) \in Nat
         /\ \A m \in 0..7 : HighBytes(digit, m) = digit[m + 1] + 256 * HighBytes(digit, m + 1)
         /\ HighBytes(digit, 8) = 0
<1> DEFINE W(m) == HighBytes(digit, m)
<1>1. /\ W(8) = 0 /\ W(7) = digit[8] /\ W(6) = digit[7] + 256 * W(7)
      /\ W(5) = digit[6] + 256 * W(6) /\ W(4) = digit[5] + 256 * W(5)
      /\ W(3) = digit[4] + 256 * W(4) /\ W(2) = digit[3] + 256 * W(3)
      /\ W(1) = digit[2] + 256 * W(2) /\ W(0) = digit[1] + 256 * W(1)
  BY DEF HighBytes
<1> HIDE DEF W
<1>2. \A i \in 1..8 : digit[i] \in Nat
  BY DEF Byte
<1>3. /\ W(7) \in Nat /\ W(7) = digit[8] + 256 * W(8)
  BY <1>1, <1>2
<1>4. W(6) \in Nat BY <1>1, <1>2, <1>3
<1>5. W(5) \in Nat BY <1>1, <1>2, <1>4
<1>6. W(4) \in Nat BY <1>1, <1>2, <1>5
<1>7. W(3) \in Nat BY <1>1, <1>2, <1>6
<1>8. W(2) \in Nat BY <1>1, <1>2, <1>7
<1>9. W(1) \in Nat BY <1>1, <1>2, <1>8
<1>10. W(0) \in Nat BY <1>1, <1>2, <1>9
<1>11. ASSUME NEW m \in 0..8 PROVE W(m) \in Nat
  BY <1>1, <1>3, <1>4, <1>5, <1>6, <1>7, <1>8, <1>9, <1>10
<1>12. ASSUME NEW m \in 0..7 PROVE W(m) = digit[m + 1] + 256 * W(m + 1)
  <2>1. m \in {0, 1, 2, 3, 4, 5, 6, 7}
    OBVIOUS
  <2> QED BY <1>1, <1>3, <2>1
<1> QED BY <1>1, <1>11, <1>12 DEF W

\* Byte by byte, the bits of the number are those of the bytes.
LEMMA BytesShifted ==
  ASSUME NEW digit \in [1..8 -> Byte]
  PROVE  /\ \A m \in 0..8 : Shifted(HighBytes(digit, 0))[8 * m] = HighBytes(digit, m)
         /\ \A m \in 0..7, j \in 0..7 :
              Shifted(HighBytes(digit, 0))[8 * m + j] % 2 = Shifted(digit[m + 1])[j] % 2
<1> DEFINE W(m) == HighBytes(digit, m)
           S(i) == Shifted(W(0))[i]
<1>1. ASSUME NEW m \in 0..7
      PROVE  /\ Shifted(W(m))[8] = W(m + 1)
             /\ \A j \in 0..7 : Shifted(W(m))[j] % 2 = Shifted(digit[m + 1])[j] % 2
  <2>1. /\ W(m + 1) \in Nat /\ digit[m + 1] \in Byte /\ W(m) \in Nat
        /\ W(m) = digit[m + 1] + 256 * W(m + 1)
    BY HighBytesSteps
  <2> HIDE DEF W
  <2> QED BY <2>1, LowByte
<1>2. ASSUME NEW m \in 0..8, S(8 * m) = W(m), NEW j \in Nat
      PROVE  S(8 * m + j) = Shifted(W(m))[j]
  <2>1. 8 * m \in Nat
    OBVIOUS
  <2>2. Shifted(Shifted(W(0))[8 * m])[j] = Shifted(W(0))[8 * m + j]
    BY <2>1, ShiftFurther
  <2> QED BY <1>2, <2>2
<1>3. S(8 * 0) = W(0)
  <2>1. 8 * 0 = 0
    OBVIOUS
  <2> QED BY <2>1, ShiftedSteps
<1>4. ASSUME NEW m \in 0..7, S(8 * m) = W(m) PROVE S(8 * (m + 1)) = W(m + 1)
  <2>1. S(8 * m + 8) = Shifted(W(m))[8]
    BY <1>2, <1>4
  <2>2. 8 * m + 8 = 8 * (m + 1)
    OBVIOUS
  <2> HIDE DEF S, W
  <2> QED BY <1>1, <2>1, <2>2
<1> DEFINE There(m) == S(8 * m) = W(m)
<1>5. There(0) /\ \A m \in 0..7 : There(m) => There(m + 1)
  BY <1>3, <1>4
<1> HIDE DEF There
<1>6. There(1) /\ There(2) /\ There(3) /\ There(4)
  BY <1>5
<1>7. There(5) /\ There(6) /\ There(7) /\ There(8)
  BY <1>5, <1>6
<1>8. \A m \in 0..8 : There(m)
  BY <1>5, <1>6, <1>7
<1>9. ASSUME NEW m \in 0..7, NEW j \in 0..7
      PROVE  S(8 * m + j) % 2 = Shifted(digit[m + 1])[j] % 2
  <2>1. S(8 * m + j) = Shifted(W(m))[j]
    BY <1>2, <1>8 DEF There
  <2> QED BY <1>1, <2>1
<1>10. \A m \in 0..8 : S(8 * m) = W(m)
  BY <1>8 DEF There
<1> QED BY <1>9, <1>10

\* No more bytes than there are make up the number.
LEMMA HighBytesEnd ==
  ASSUME NEW digit \in [1..8 -> Byte], NEW count \in 0..8,
         \A k \in 1..8 : k > count => digit[k] = 0
  PROVE  HighBytes(digit, count) = 0
<1> DEFINE W(m) == HighBytes(digit, m)
<1>1. W(8) = 0 /\ \A m \in 0..7 : m + 1 > count /\ W(m + 1) = 0 => W(m) = 0
  <2>1. W(8) = 0 /\ \A m \in 0..7 : W(m) = digit[m + 1] + 256 * W(m + 1)
    BY HighBytesSteps
  <2>2. \A m \in 0..7 : m + 1 > count => digit[m + 1] = 0
    OBVIOUS
  <2> HIDE DEF W
  <2> QED BY <2>1, <2>2
<1> HIDE DEF W
<1>2. 7 >= count => W(7) = 0 BY <1>1
<1>3. 6 >= count => W(6) = 0 BY <1>1, <1>2
<1>4. 5 >= count => W(5) = 0 BY <1>1, <1>3
<1>5. 4 >= count => W(4) = 0 BY <1>1, <1>4
<1>6. 3 >= count => W(3) = 0 BY <1>1, <1>5
<1>7. 2 >= count => W(2) = 0 BY <1>1, <1>6
<1>8. 1 >= count => W(1) = 0 BY <1>1, <1>7
<1>9. 0 >= count => W(0) = 0 BY <1>1, <1>8
<1>10. W(count) = 0
  BY <1>1, <1>2, <1>3, <1>4, <1>5, <1>6, <1>7, <1>8, <1>9
<1> QED BY <1>10 DEF W

\* The bits of v are those of the bytes, from the last one on, and nothing beyond the
\* first.
BigEndian(v, bytes, count) ==
  /\ v \in Nat /\ Shifted(v)[8 * count] = 0
  /\ \A m \in 0..(count - 1), j \in 0..7 :
       Shifted(v)[8 * m + j] % 2 = Shifted(bytes[count - m])[j] % 2

LEMMA BigEndianBits ==
  ASSUME NEW count \in 0..8, NEW bytes \in Data, Len(bytes) = count,
         NEW v, v = BytesToInt(bytes, "big")
  PROVE  BigEndian(v, bytes, count)
<1> DEFINE digit == [k \in 1..8 |-> IF k > count THEN 0 ELSE bytes[count + 1 - k]]
<1>1. ASSUME NEW k \in 1..8 PROVE digit[k] \in Byte
  <2>1. CASE k > count
    BY <2>1 DEF Byte
  <2>2. CASE ~(k > count)
    <3>1. count + 1 - k \in 1..Len(bytes)
      BY <2>2
    <3>2. bytes[count + 1 - k] \in Byte
      BY <3>1, ElementOfSeq DEF Data
    <3> QED BY <2>2, <3>2
  <2> QED BY <2>1, <2>2
<1>2. digit \in [1..8 -> Byte]
  <2>1. \A k \in 1..8 : digit[k] \in Byte
    BY <1>1
  <2> QED BY <2>1
<1>3. \A k \in 1..8 : digit[k] = IF k > count THEN 0 ELSE bytes[count + 1 - k]
  OBVIOUS
<1>4. v = HighBytes(digit, 0)
  <2>1. /\ v = digit[1] + 256 * (digit[2] + 256 * (digit[3] + 256 * (digit[4] + 256 *
                (digit[5] + 256 * (digit[6] + 256 * (digit[7] + 256 * digit[8]))))))
    <3> HIDE DEF digit
    <3>1. /\ digit[1] = IF 1 > count THEN 0 ELSE bytes[count + 1 - 1]
          /\ digit[2] = IF 2 > count THEN 0 ELSE bytes[count + 1 - 2]
          /\ digit[3] = IF 3 > count THEN 0 ELSE bytes[count + 1 - 3]
          /\ digit[4] = IF 4 > count THEN 0 ELSE bytes[count + 1 - 4]
          /\ digit[5] = IF 5 > count THEN 0 ELSE bytes[count + 1 - 5]
          /\ digit[6] = IF 6 > count THEN 0 ELSE bytes[count + 1 - 6]
          /\ digit[7] = IF 7 > count THEN 0 ELSE bytes[count + 1 - 7]
          /\ digit[8] = IF 8 > count THEN 0 ELSE bytes[count + 1 - 8]
      BY <1>3
    <3> QED BY <3>1 DEF BytesToInt
  <2> HIDE DEF digit
  <2> QED BY <2>1 DEF HighBytes
<1> HIDE DEF digit
<1>5. v \in Nat
  BY <1>2, <1>4, HighBytesSteps
<1>6. Shifted(v)[8 * count] = 0
  <2>1. count \in 0..8 /\ \A k \in 1..8 : k > count => digit[k] = 0
    BY <1>3
  <2>2. HighBytes(digit, count) = 0
    BY <1>2, <2>1, HighBytesEnd
  <2>3. Shifted(HighBytes(digit, 0))[8 * count] = HighBytes(digit, count)
    BY <1>2, <2>1, BytesShifted, Zenon
  <2> QED BY <1>4, <2>2, <2>3
<1>7. ASSUME NEW m \in 0..(count - 1), NEW j \in 0..7
      PROVE  Shifted(v)[8 * m + j] % 2 = Shifted(bytes[count - m])[j] % 2
  <2>1. m \in 0..7 /\ m + 1 \in 1..8 /\ ~(m + 1 > count) /\ count + 1 - (m + 1) = count - m
    OBVIOUS
  <2>2. digit[m + 1] = bytes[count - m]
    BY <1>3, <2>1
  <2> QED BY <1>2, <1>4, <2>1, <2>2, BytesShifted
<1> QED BY <1>5, <1>6, <1>7 DEF BigEndian

\* The bits of a field of n bits from place `at` on are the low bits of v, and v has
\* no others when the field begins at a byte.
BitsOf(data, at, n, v) ==
  /\ \A i \in 0..(n - 1) : Shifted(v)[i] % 2 = BitAt(data, at + n - 1 - i)
  /\ at % 8 = 0 => Shifted(v)[n] = 0

\* Where a bit is: the byte, and the place in it.
LEMMA PlaceOf ==
  ASSUME NEW data, NEW k \in Nat, NEW j \in 0..7
  PROVE  BitAt(data, 8 * k + (7 - j)) = Shifted(data[k + 1])[j] % 2
<1>1. /\ (8 * k + (7 - j)) \div 8 = k /\ (8 * k + (7 - j)) % 8 = 7 - j /\ 7 - (7 - j) = j
      /\ 1 + k = k + 1
  OBVIOUS
<1> QED BY <1>1 DEF BitAt

\* The bits of v are the first `rest` bits of a byte after those of the whole ones.
BitsAfter(v, whole, last, rest) ==
  /\ v \in Nat
  /\ \A i \in Nat : Shifted(v)[rest + i] = Shifted(whole)[i]
  /\ \A i \in 0..(rest - 1) : Shifted(v)[i] % 2 = Shifted(last)[8 - rest + i] % 2

LEMMA LastBits ==
  ASSUME NEW rest \in 0..7, NEW whole \in Nat, NEW last, rest > 0 => last \in Byte,
         NEW v, v = IF rest = 0 THEN whole ELSE whole * Pow2(rest) + (last \div Pow2(8 - rest))
  PROVE  BitsAfter(v, whole, last, rest)
<1>1. CASE rest = 0
  <2>1. v = whole /\ \A i \in Nat : rest + i = i
    BY <1>1
  <2> QED BY <1>1, <2>1 DEF BitsAfter
<1>2. CASE rest # 0
  <2> DEFINE e == last \div Pow2(8 - rest)
  <2>1. rest \in {1, 2, 3, 4, 5, 6, 7} /\ last \in Nat /\ last < 256
    BY <1>2 DEF Byte
  <2>2. e \in Nat /\ e < Pow2(rest)
    BY <2>1 DEF Pow2
  <2>3. v = whole * Pow2(rest) + e /\ v \in Int
    <3>1. v = whole * Pow2(rest) + e
      BY <1>2
    <3>2. Pow2(rest) \in {2, 4, 8, 16, 32, 64, 128}
      BY <2>1 DEF Pow2
    <3> HIDE DEF e
    <3>3. \A p \in {2, 4, 8, 16, 32, 64, 128} : whole * p + e \in Int
      BY <2>2
    <3> QED BY <3>1, <3>2, <3>3
  <2>4. Shifted(last)[8 - rest] = e
    <3>1. 8 - rest \in 0..7
      BY <2>1
    <3> QED BY <2>1, <3>1, SmallShifts
  <2> HIDE DEF e
  <2>5. /\ v \in Nat /\ Shifted(v)[rest] = whole
        /\ \A i \in 0..(rest - 1) : Shifted(v)[i] % 2 = Shifted(e)[i] % 2
    BY <2>2, <2>3, LowBits
  <2>6. \A i \in Nat : Shifted(v)[rest + i] = Shifted(whole)[i]
    <3>1. rest \in Nat
      OBVIOUS
    <3>2. \A i \in Nat : Shifted(Shifted(v)[rest])[i] = Shifted(v)[rest + i]
      BY <3>1, ShiftFurther, Zenon
    <3> QED BY <2>5, <3>2
  <2>7. \A i \in Nat : Shifted(last)[8 - rest + i] = Shifted(e)[i]
    <3>1. 8 - rest \in Nat
      OBVIOUS
    <3> QED BY <2>4, <3>1, ShiftFurther
  <2> QED BY <2>5, <2>6, <2>7 DEF BitsAfter
<1> QED BY <1>1, <1>2

\* What ReadBits takes from the packet.
LEMMA FieldBits ==
  ASSUME NEW data \in Data, NEW pos \in Nat, NEW bit \in 0..7, NEW n \in Nat,
         NEW full \in 0..8, NEW rest \in 0..7, bit + n = 8 * full + rest,
         pos + full + (IF rest > 0 THEN 1 ELSE 0) <= Len(data),
         NEW whole, whole = BytesToInt(SubSeq(data, pos + 1, pos + full), "big"),
         NEW v,
         v = IF rest = 0 THEN whole
             ELSE whole * Pow2(rest) + (data[pos + full + 1] \div Pow2(8 - rest))
  PROVE  BitsOf(data, 8 * pos + bit, n, v)
<1> DEFINE part == SubSeq(data, pos + 1, pos + full)
           end == data[pos + full + 1]
<1>1. /\ Len(data) \in Nat /\ \A k \in 1..Len(data) : data[k] \in Byte
      /\ rest > 0 => pos + full + 1 \in 1..Len(data)
  BY LenProperties, ElementOfSeq DEF Data
<1>2. /\ part \in Data /\ Len(part) = full
      /\ \A k \in 1..full : part[k] = data[pos + k]
  <2>1. \A k \in (pos + 1)..(pos + full) : data[k] \in Byte
    BY <1>1
  <2>2. /\ part \in Seq(Byte)
        /\ Len(part) = IF pos + 1 <= pos + full THEN (pos + full) - (pos + 1) + 1 ELSE 0
        /\ \A i \in 1..((pos + full) - (pos + 1) + 1) : part[i] = data[pos + 1 + i - 1]
    BY <2>1, SubSeqProperties
  <2> HIDE DEF part
  <2>3. /\ (pos + full) - (pos + 1) + 1 = full /\ (pos + 1 <= pos + full <=> full >= 1)
        /\ \A i \in Nat : pos + 1 + i - 1 = pos + i
    OBVIOUS
  <2> QED BY <2>2, <2>3 DEF Data
<1>3. whole = BytesToInt(part, "big") /\ (rest > 0 => end \in Byte)
  BY <1>1
<1>4. v = IF rest = 0 THEN whole ELSE whole * Pow2(rest) + (end \div Pow2(8 - rest))
  OBVIOUS
<1> HIDE DEF part, end
<1>5. /\ whole \in Nat /\ Shifted(whole)[8 * full] = 0
      /\ \A m \in 0..(full - 1), j \in 0..7 :
           Shifted(whole)[8 * m + j] % 2 = Shifted(part[full - m])[j] % 2
  <2>1. BigEndian(whole, part, full)
    BY <1>2, <1>3, BigEndianBits
  <2> QED BY <2>1 DEF BigEndian
<1>6. /\ v \in Nat
      /\ \A i \in Nat : Shifted(v)[rest + i] = Shifted(whole)[i]
      /\ \A i \in 0..(rest - 1) : Shifted(v)[i] % 2 = Shifted(end)[8 - rest + i] % 2
  <2>1. BitsAfter(v, whole, end, rest)
    BY <1>3, <1>4, <1>5, LastBits
  <2> QED BY <2>1 DEF BitsAfter
<1>7. ASSUME NEW i \in 0..(n - 1), i < rest
      PROVE  Shifted(v)[i] % 2 = BitAt(data, 8 * pos + bit + n - 1 - i)
  <2> DEFINE j == 8 - rest + i
  <2>1. /\ j \in 0..7 /\ pos + full \in Nat /\ i \in 0..(rest - 1)
        /\ 8 * pos + bit + n - 1 - i = 8 * (pos + full) + (7 - j)
    BY <1>7
  <2>2. Shifted(v)[i] % 2 = Shifted(end)[j] % 2
    BY <1>6, <2>1
  <2> HIDE DEF j
  <2>3. BitAt(data, 8 * (pos + full) + (7 - j)) = Shifted(end)[j] % 2
    BY <2>1, PlaceOf DEF end
  <2> QED BY <2>1, <2>2, <2>3
<1>8. ASSUME NEW i \in 0..(n - 1), ~(i < rest)
      PROVE  Shifted(v)[i] % 2 = BitAt(data, 8 * pos + bit + n - 1 - i)
  <2> DEFINE m == (i - rest) \div 8
             j == (i - rest) % 8
             k == pos + full - m - 1
  <2>1. i - rest \in Nat /\ i - rest < 8 * full
    BY <1>8
  <2>2. m \in Nat /\ j \in 0..7 /\ i - rest = 8 * m + j
    BY <2>1
  <2> HIDE DEF m, j
  <2>3. m \in 0..(full - 1) /\ full - m \in 1..full
    BY <2>1, <2>2
  <2>4. /\ k \in Nat /\ k + 1 = pos + (full - m) /\ rest + (8 * m + j) = i /\ 8 * m + j \in Nat
        /\ 8 * pos + bit + n - 1 - i = 8 * k + (7 - j)
    BY <2>2, <2>3
  <2> HIDE DEF k
  <2>5. Shifted(v)[i] = Shifted(whole)[8 * m + j]
    BY <1>6, <2>4
  <2>6. Shifted(whole)[8 * m + j] % 2 = Shifted(data[k + 1])[j] % 2
    <3>1. Shifted(whole)[8 * m + j] % 2 = Shifted(part[full - m])[j] % 2
      BY <1>5, <2>2, <2>3
    <3>2. part[full - m] = data[k + 1]
      BY <1>2, <2>3, <2>4
    <3> QED BY <3>1, <3>2
  <2>7. BitAt(data, 8 * k + (7 - j)) = Shifted(data[k + 1])[j] % 2
    BY <2>2, <2>4, PlaceOf
  <2> QED BY <2>4, <2>5, <2>6, <2>7
<1>9. ASSUME (8 * pos + bit) % 8 = 0 PROVE Shifted(v)[n] = 0
  <2>1. bit = 0 /\ n = rest + 8 * full /\ 8 * full \in Nat
    BY <1>9
  <2> QED BY <1>5, <1>6, <2>1
<1> QED BY <1>7, <1>8, <1>9 DEF BitsOf

LEMMA ReadBitsRight ==
  ASSUME NEW c, Decoder(c), NEW n \in Nat, ReadBits(c, n).ok
  PROVE  BitsOf(c.data, 8 * c.pos + c.bit, n, ReadBits(c, n).n)
<1> DEFINE full == (n + c.bit) \div 8
           rest == (n + c.bit) % 8
           whole == BytesToInt(SubSeq(c.data, c.pos + 1, c.pos + full), "big")
           last == c.pos + full + (IF rest > 0 THEN 1 ELSE 0)
           v == IF rest = 0 THEN whole ELSE whole * Pow2(rest) + (c.data[last] \div Pow2(8 - rest))
<1>1. /\ c.pos \in Nat /\ Len(c.data) \in Nat /\ c.data \in Data /\ c.bit \in 0..7
  BY LenProperties DEF Decoder, Data
<1>2. ~(n > 64 \/ c.pos >= Len(c.data) \/ last > Len(c.data)) /\ ReadBits(c, n) = Result(v)
  BY DEF ReadBits, Bad
<1>3. full \in 0..8 /\ rest \in 0..7 /\ c.bit + n = 8 * full + rest
  <2>1. n + c.bit \in 0..71 /\ c.bit + n = n + c.bit
    <3>1. ~(n > 64)
      BY <1>2, Zenon
    <3>2. \A b \in 0..7 : n + b \in 0..71 /\ b + n = n + b
      BY <3>1
    <3> QED BY <1>1, <3>2, Zenon
  <2>2. \A a \in 0..71 : a \div 8 \in 0..8 /\ a % 8 \in 0..7 /\ a = 8 * (a \div 8) + (a % 8)
    OBVIOUS
  <2> QED BY <2>1, <2>2
<1>4. v = IF rest = 0 THEN whole
          ELSE whole * Pow2(rest) + (c.data[c.pos + full + 1] \div Pow2(8 - rest))
  <2> HIDE DEF whole, full
  <2>1. rest # 0 => last = c.pos + full + 1
    BY <1>3
  <2> HIDE DEF rest, last
  <2> QED BY <2>1
<1>5. c.pos + full + (IF rest > 0 THEN 1 ELSE 0) <= Len(c.data)
  <2>1. ~(last > Len(c.data)) /\ last = c.pos + full + (IF rest > 0 THEN 1 ELSE 0)
    BY <1>2
  <2> HIDE DEF full, rest, last
  <2>2. c.pos + full + (IF rest > 0 THEN 1 ELSE 0) \in Int
    BY <1>1, <1>3
  <2> QED BY <1>1, <2>1, <2>2
<1> HIDE DEF full, rest, last
<1>6. whole = BytesToInt(SubSeq(c.data, c.pos + 1, c.pos + full), "big")
  OBVIOUS
<1> HIDE DEF whole
<1> HIDE DEF v
<1>7. BitsOf(c.data, 8 * c.pos + c.bit, n, v)
  BY <1>1, <1>3, <1>4, <1>5, <1>6, FieldBits
<1> QED BY <1>2, <1>7 DEF Result

-----------------------------------------------------------------------------
(* The inductive invariant of the codec, and the theorems.                   *)

CodecInv ==
  /\ protocol \in Protocols /\ resized \subseteq Resizable
  /\ Sound(enc, resized) /\ (enc.pc = "run" => Running(enc, resized, protocol))
  /\ enc.round <= Rounds /\ FieldsComputed
  /\ Decoder(dec)

LEMMA CodecInit == Init => CodecInv
<1> SUFFICES ASSUME Init PROVE CodecInv
  OBVIOUS
<1>1. /\ protocol \in Protocols /\ resized = {} /\ enc = NoEncode /\ dec = NoDecode
  BY DEF Init
<1>2. /\ IsContext(enc) /\ enc.pc = "idle" /\ enc.data = <<>> /\ enc.round = 0 /\ enc.index = 0
      /\ enc.offsets = <<>> /\ enc.log = {} /\ enc.seen = {}
  BY <1>1 DEF NoEncode, IsContext, ContextFields
<1>3. <<>> \in Data /\ <<>> \in Seq(Nat) /\ <<>> \in Seq(Steps) /\ Len(<<>>) = 0
  BY EmptySeq DEF Data
<1>4. InPlace(enc, resized)
  BY <1>2 DEF InPlace
<1>5. Sound(enc, resized)
  BY <1>2, <1>3, <1>4 DEF Sound
<1>6. Rounds \in Nat
  BY <1>1, RoundsIsNat
<1>7. enc.round <= Rounds /\ FieldsComputed
  BY <1>2, <1>6 DEF FieldsComputed
<1>8. /\ IsDecoder(dec) /\ dec.pc = "idle" /\ dec.data = <<>> /\ dec.pos = 0 /\ dec.bit = 0
      /\ dec.used = 0 /\ dec.todo = <<>> /\ dec.fields = NoFields /\ dec.packetLen = -1
      /\ dec.marks = NoMarks
  BY <1>1 DEF NoDecode, IsDecoder, DecoderFields
<1>9. Numbered(dec.fields)
  BY <1>8 DEF Numbered, NoFields
<1>10. dec.pos \in 0..Len(dec.data) /\ dec.bit \in 0..7 /\ 8 * dec.pos + dec.bit = dec.used
  BY <1>3, <1>8
<1>11. Decoder(dec)
  BY <1>3, <1>8, <1>9, <1>10 DEF Decoder
<1> QED BY <1>1, <1>2, <1>5, <1>7, <1>11 DEF CodecInv

\* Encode: what its Context becomes is enough.
LEMMA EncodeStep ==
  ASSUME CodecInv, UNCHANGED <<protocol, resized, dec>>,
         enc.pc = "run", Sounder(enc, enc', resized, protocol)
  PROVE  CodecInv'
<1>1. /\ Sound(enc', resized') /\ enc'.round = enc.round /\ enc'.pc # "done"
      /\ enc'.pc = "run" => Running(enc', resized', protocol')
  BY DEF Sounder
<1>2. Rounds' = Rounds
  BY DEF Rounds
<1>3. FieldsComputed'
  BY <1>1 DEF FieldsComputed
<1>4. Decoder(dec')
  BY DEF CodecInv
<1> QED BY <1>1, <1>2, <1>3, <1>4 DEF CodecInv

\* Decode: Encode is where it was, and the nodes resized are more.
LEMMA DecodeStep ==
  ASSUME CodecInv, UNCHANGED <<protocol, enc>>, resized \subseteq resized',
         resized' \subseteq Resizable, Decoder(dec')
  PROVE  CodecInv'
<1>1. Sound(enc, resized') /\ (enc.pc = "run" => Running(enc, resized', protocol))
  BY SoundGrows DEF CodecInv
<1>2. Rounds' = Rounds /\ FieldsComputed' = FieldsComputed
  BY DEF Rounds, FieldsComputed, Unwritten
<1> QED BY <1>1, <1>2 DEF CodecInv

LEMMA StartEncodeStep == CodecInv /\ StartEncode => CodecInv'
<1> SUFFICES ASSUME CodecInv, StartEncode PROVE CodecInv'
  OBVIOUS
<1>1. PICK input \in protocol.inputs : enc' = Started(protocol, input, resized)
  BY Zenon DEF StartEncode, Started
<1>2. /\ protocol \in Protocols /\ protocol.nodes \in Seq(Nodes)
      /\ protocol' = protocol /\ resized' = resized /\ dec' = dec
      /\ resized \subseteq Resizable /\ Decoder(dec)
  BY RoundsIsNat DEF CodecInv, StartEncode
<1>3. Filled(input)
  BY <1>2, ProtocolsAssumption DEF Filled, Numbered, Data
<1>4. Sound(enc', resized) /\ enc'.pc = "run" /\ enc'.round = 0 /\ Running(enc', resized, protocol)
  BY <1>1, <1>2, <1>3, StartSound
<1>5. Rounds' = Rounds /\ Rounds \in Nat
  BY <1>2, RoundsIsNat DEF Rounds
<1>6. FieldsComputed'
  BY <1>4 DEF FieldsComputed
<1>7. enc'.round <= Rounds'
  BY <1>4, <1>5
<1> QED BY <1>2, <1>4, <1>6, <1>7 DEF CodecInv

LEMMA EncodeSkipsStep == CodecInv /\ EncodeSkips => CodecInv'
<1> SUFFICES ASSUME CodecInv, EncodeSkips PROVE CodecInv'
  OBVIOUS
<1>1. /\ enc.pc = "run" /\ enc.todo # <<>> /\ ~MatchFlow(Head(enc.todo), "encode")
      /\ enc' = [enc EXCEPT !.todo = Tail(@)] /\ UNCHANGED <<protocol, resized, dec>>
  BY DEF EncodeSkips
<1>2. Sounder(enc, enc', resized, protocol)
  BY <1>1, SkipSound DEF CodecInv
<1> QED BY <1>1, <1>2, EncodeStep

LEMMA EncodeGroupStep == CodecInv /\ EncodeGroup => CodecInv'
<1> SUFFICES ASSUME CodecInv, EncodeGroup PROVE CodecInv'
  OBVIOUS
<1> DEFINE n == Head(enc.todo)
           b == Enter(enc, n)
<1>1. /\ enc.pc = "run" /\ enc.todo # <<>> /\ n.kind \in Groups /\ MatchFlow(n, "encode")
      /\ enc' = GroupStep(n, b) /\ UNCHANGED <<protocol, resized, dec>>
  BY Zenon DEF EncodeGroup, Encoding, GroupStep, Groups
<1>2. Sounder(enc, enc', resized, protocol)
  BY <1>1, GroupSound DEF CodecInv
<1> QED BY <1>1, <1>2, EncodeStep

\* A leaf has been entered.
LEMMA LeafEntered ==
  ASSUME NEW c, NEW R, Sound(c, R), NEW q, Running(c, R, q), c.pc = "run",
         c.todo # <<>>, NEW n, n = Head(c.todo), MatchFlow(n, "encode"), Leaf(n),
         NEW b, b = Enter(c, n)
  PROVE  Ready(b) /\ Counted(b) /\ b.fields \in q.inputs /\ b.pc = "run" /\ n \in Nodes
<1>1. PICK T, V : Tracks(T, V, c, R, q.nodes)
  BY DEF Running
<1>2. Counted(c) /\ (c.round = 0 => c.packetLen = -1) /\ c.fields \in q.inputs
  BY DEF Running
<1>3. Onward(c, b, n, Tail(c.todo))
  BY DEF Onward
<1>4. Ready(b) /\ Counted(b) /\ Arrives(V, c, b, n, Tail(c.todo), q.nodes)
  BY <1>1, <1>2, <1>3, EnterStep
<1>5. n \in Nodes
  BY <1>4 DEF Arrives, Entered
<1>6. b.fields = c.fields /\ b.pc = c.pc
  BY EnterContext DEF Sound
<1> QED BY <1>2, <1>4, <1>5, <1>6

LEMMA EncodeBytesStep == ChecksumsAreNumbers /\ CodecInv /\ EncodeBytes => CodecInv'
<1> SUFFICES ASSUME ChecksumsAreNumbers, CodecInv, EncodeBytes PROVE CodecInv'
  OBVIOUS
<1> DEFINE n == Head(enc.todo)
           b == Enter(enc, n)
           size == GetSize(SizeOf(n), n.sizeExpr, b)
           x == b.exact /\ n.bits = 0 /\ ~HasField(b.fields, n.name)
           d == IF size = Result(0) THEN [b EXCEPT !.exact = x]
                ELSE Scheduled(b, n, size, EncodeValue)
<1>1. /\ enc.pc = "run" /\ enc.todo # <<>> /\ n.kind = "bytes" /\ MatchFlow(n, "encode")
      /\ enc' = d /\ UNCHANGED <<protocol, resized, dec>>
  BY Zenon DEF EncodeBytes, Encoding
<1>2. /\ protocol \in Protocols /\ resized \subseteq Resizable /\ Leaf(n)
      /\ Sound(enc, resized) /\ Running(enc, resized, protocol)
  BY <1>1 DEF CodecInv, Leaf
<1> HIDE DEF x
<1>3. LeafOutcome(b, d, n)
  <2> HIDE DEF n
  <2>1. Ready(b) /\ Counted(b) /\ b.fields \in protocol.inputs /\ b.pc = "run" /\ n \in Nodes
    BY <1>1, <1>2, LeafEntered DEF n
  <2> HIDE DEF b
  <2> QED BY <1>1, <1>2, <2>1, BytesLeaf, Zenon
<1> HIDE DEF d
<1>4. Sounder(enc, enc', resized, protocol)
  BY <1>1, <1>2, <1>3, LeafSound
<1> QED BY <1>1, <1>4, EncodeStep

LEMMA EncodeCalcStep == CodecInv /\ EncodeCalc => CodecInv'
<1> SUFFICES ASSUME CodecInv, EncodeCalc PROVE CodecInv'
  OBVIOUS
<1> DEFINE n == Head(enc.todo)
           b == Enter(enc, n)
           size == GetSize(n.size, n.sizeExpr, b)
           d == IF b.round > n.round THEN b ELSE Scheduled(b, n, size, EncodeFormula)
<1>1. /\ enc.pc = "run" /\ enc.todo # <<>> /\ n.kind = "calc" /\ MatchFlow(n, "encode")
      /\ enc' = d /\ UNCHANGED <<protocol, resized, dec>>
  BY Zenon DEF EncodeCalc, Encoding
<1>2. /\ resized \subseteq Resizable /\ Leaf(n)
      /\ Sound(enc, resized) /\ Running(enc, resized, protocol)
  BY <1>1 DEF CodecInv, Leaf
<1>3. LeafOutcome(b, d, n)
  <2> HIDE DEF n
  <2>1. Ready(b) /\ Counted(b) /\ b.fields \in protocol.inputs /\ b.pc = "run" /\ n \in Nodes
    BY <1>1, <1>2, LeafEntered DEF n
  <2> HIDE DEF b
  <2> QED BY <1>1, <1>2, <2>1, CalcLeaf, Zenon
<1> HIDE DEF d
<1>4. Sounder(enc, enc', resized, protocol)
  BY <1>1, <1>2, <1>3, LeafSound
<1> QED BY <1>1, <1>4, EncodeStep

LEMMA EncodeRoundEndsStep == CodecInv /\ EncodeRoundEnds => CodecInv'
<1> SUFFICES ASSUME CodecInv, EncodeRoundEnds PROVE CodecInv'
  OBVIOUS
<1> DEFINE len == IF enc.packetLen < 0 THEN Len(enc.data) ELSE enc.packetLen
           next == NextRound(enc, protocol, len)
           done == LastRound(enc, len)
<1>1. /\ enc.pc = "run" /\ enc.todo = <<>> /\ UNCHANGED <<protocol, resized, dec>>
      /\ enc' = IF enc.round < Rounds THEN next ELSE done
  BY Zenon DEF EncodeRoundEnds, NextRound, LastRound
<1>2. /\ protocol \in Protocols /\ protocol.nodes \in Seq(Nodes) /\ Rounds \in Nat
      /\ Sound(enc, resized) /\ Running(enc, resized, protocol) /\ Decoder(dec)
      /\ resized \subseteq Resizable /\ enc.round <= Rounds /\ enc.round \in Nat
  BY <1>1, RoundsIsNat DEF CodecInv, Sound
<1>3. len \in Int
  BY <1>2, LenProperties DEF Running, Counted, Sound, Data
<1> HIDE DEF len
<1>4. Rounds' = Rounds
  BY <1>1 DEF Rounds
<1>5. CASE enc.round < Rounds
  <2>1. enc' = next
    BY <1>1, <1>5, Zenon
  <2>2. /\ Sound(enc', resized) /\ enc'.pc = "run" /\ Running(enc', resized, protocol)
        /\ enc'.round = enc.round + 1
    BY <1>1, <1>2, <1>3, <2>1, NextRoundSound
  <2>3. enc'.round <= Rounds'
    BY <1>2, <1>4, <1>5, <2>2
  <2>4. FieldsComputed'
    BY <2>2 DEF FieldsComputed
  <2> QED BY <1>1, <1>2, <2>2, <2>3, <2>4 DEF CodecInv
<1>6. CASE ~(enc.round < Rounds)
  <2>1. enc' = done
    BY <1>1, <1>6, Zenon
  <2>2. enc.round = Rounds
    BY <1>2, <1>6
  <2>3. /\ Sound(enc', resized) /\ enc'.pc = "done" /\ enc'.round = enc.round
        /\ Computed(enc', enc.round)
    BY <1>1, <1>2, <2>1, LastRoundSound
  <2>4. FieldsComputed'
    BY <1>4, <2>2, <2>3 DEF FieldsComputed, Computed, Unwritten, Boolean
  <2>5. enc'.round <= Rounds'
    BY <1>2, <1>4, <2>3
  <2> QED BY <1>1, <1>2, <2>3, <2>4, <2>5 DEF CodecInv
<1> QED BY <1>5, <1>6

\* The node that Decode is at.
LEMMA DecodeAt ==
  ASSUME NEW c, Decoder(c), c.todo # <<>>
  PROVE  /\ Head(c.todo) \in Steps /\ Tail(c.todo) \in Seq(Steps)
         /\ Numbered(c.fields) /\ c.packetLen \in Int
         /\ \A p \in DOMAIN c.marks : c.marks[p] \in Int
         /\ Nodes \subseteq Steps
<1>1. Head(c.todo) \in Steps /\ Tail(c.todo) \in Seq(Steps)
  BY HeadTailProperties DEF Decoder
<1> QED BY <1>1 DEF Decoder, NoMarks, Steps

LEMMA SubSequences ==
  ASSUME NEW s \in Seq(Nodes)
  PROVE  s \in Seq(Steps)
<1>1. \A i \in 1..Len(s) : s[i] \in Steps
  BY ElementOfSeq DEF Steps
<1>2. Len(s) \in Nat /\ s = [i \in 1..Len(s) |-> s[i]]
  BY LenProperties, SeqDef
<1> QED BY <1>1, <1>2, SeqDef

LEMMA StartDecodeStep == CodecInv /\ StartDecode => CodecInv'
<1> SUFFICES ASSUME CodecInv, StartDecode PROVE CodecInv'
  OBVIOUS
<1>1. PICK packet \in protocol.packets \cup (IF enc.pc = "done" THEN {enc.data} ELSE {}),
           own \in BOOLEAN :
        dec' = [NoDecode EXCEPT !.pc = "run", !.todo = protocol.nodes, !.data = packet,
                                !.packetLen = Len(packet), !.own = own]
  BY Zenon DEF StartDecode
<1>2. /\ protocol.nodes \in Seq(Nodes) /\ protocol.packets \subseteq Data /\ enc.data \in Data
      /\ UNCHANGED <<protocol, resized, enc>> /\ resized \subseteq Resizable
  BY ProtocolsAssumption DEF CodecInv, Sound, StartDecode, Data
<1>3. packet \in Data /\ Len(packet) \in Nat
  BY <1>2, LenProperties DEF Data
<1>4. protocol.nodes \in Seq(Steps)
  BY <1>2, SubSequences
<1>5. /\ IsDecoder(dec') /\ dec'.pc = "run" /\ dec'.todo = protocol.nodes /\ dec'.data = packet
      /\ dec'.packetLen = Len(packet) /\ dec'.pos = 0 /\ dec'.bit = 0 /\ dec'.used = 0
      /\ dec'.fields = NoFields /\ dec'.marks = NoMarks
  BY <1>1 DEF NoDecode, IsDecoder, DecoderFields
<1>6. Numbered(dec'.fields)
  BY <1>5 DEF Numbered, NoFields
<1>7. /\ dec'.pos \in 0..Len(dec'.data) /\ dec'.bit \in 0..7
      /\ 8 * dec'.pos + dec'.bit = dec'.used
  BY <1>3, <1>5
<1>8. Decoder(dec')
  BY <1>3, <1>4, <1>5, <1>6, <1>7 DEF Decoder
<1> QED BY <1>2, <1>8, DecodeStep

LEMMA DecodeSkipsStep == CodecInv /\ DecodeSkips => CodecInv'
<1> SUFFICES ASSUME CodecInv, DecodeSkips PROVE CodecInv'
  OBVIOUS
<1>1. /\ dec.todo # <<>> /\ dec' = [dec EXCEPT !.todo = Tail(dec.todo)]
      /\ UNCHANGED <<protocol, resized, enc>> /\ Decoder(dec) /\ resized \subseteq Resizable
  BY DEF CodecInv, DecodeSkips
<1>2. Decoder(dec')
  BY <1>1, DecodeAt, DecoderGoesOn
<1> QED BY <1>1, <1>2, DecodeStep

LEMMA DecodeGroupStep == CodecInv /\ DecodeGroup => CodecInv'
<1> SUFFICES ASSUME CodecInv, DecodeGroup PROVE CodecInv'
  OBVIOUS
<1> DEFINE n == Head(dec.todo)
           group == Children(n, dec)
           todo == group.nodes \o Tail(dec.todo)
<1>1. /\ dec.todo # <<>> /\ n.kind \in Groups /\ UNCHANGED <<protocol, resized, enc>>
      /\ dec' = IF group.ok THEN [dec EXCEPT !.todo = todo] ELSE Fail(dec)
  BY Zenon DEF DecodeGroup, Decoding, Groups
<1>2. Decoder(dec) /\ resized \subseteq Resizable
  BY DEF CodecInv
<1>3. n \in Nodes /\ Tail(dec.todo) \in Seq(Steps)
  BY <1>1, <1>2, DecodeAt, StepKinds
<1>4. todo \in Seq(Steps)
  <2>1. group.nodes \in Seq(Nodes)
    BY <1>1, <1>2, <1>3, DecodeAt, ChildrenTyped
  <2>2. group.nodes \in Seq(Steps)
    BY <2>1, SubSequences
  <2> QED BY <1>3, <2>2, ConcatProperties
<1> HIDE DEF todo, group
<1>5. Decoder(dec')
  BY <1>1, <1>2, <1>4, DecoderGoesOn, DecoderFails
<1> QED BY <1>1, <1>2, <1>5, DecodeStep

\* Items that an array repeats are nodes and the end of an item.
LEMMA DecodeArrayStep == CodecInv /\ DecodeArray => CodecInv'
<1> SUFFICES ASSUME CodecInv, DecodeArray PROVE CodecInv'
  OBVIOUS
<1> DEFINE n == Head(dec.todo)
           length == GetSize(n.size, n.sizeExpr, dec)
           item == Append(n.then, [n EXCEPT !.kind = "itemEnd"])
           todo == Repeat(item, Max({0, length.n})) \o <<[n EXCEPT !.kind = "arrayEnd"]>>
                     \o Tail(dec.todo)
           arrays == Append(dec.arrays, <<>>)
<1>1. /\ dec.todo # <<>> /\ n.kind = "array" /\ UNCHANGED <<protocol, resized, enc>>
      /\ dec' = IF length.ok THEN [dec EXCEPT !.todo = todo, !.arrays = arrays] ELSE Fail(dec)
  BY Zenon DEF DecodeArray, Decoding
<1>2. Decoder(dec) /\ resized \subseteq Resizable
  BY DEF CodecInv
<1>3. n \in Nodes /\ Tail(dec.todo) \in Seq(Steps)
  BY <1>1, <1>2, DecodeAt, StepKinds DEF Groups
<1>4. /\ [n EXCEPT !.kind = "itemEnd"] \in Steps /\ [n EXCEPT !.kind = "arrayEnd"] \in Steps
  <2>1. ASSUME NEW m \in Nodes
        PROVE  [m EXCEPT !.kind = "itemEnd"] \in Ends /\ [m EXCEPT !.kind = "arrayEnd"] \in Ends
    BY DEF Ends
  <2> QED BY <1>3, <2>1, Zenon DEF Steps
<1>5. length.n \in Int /\ n.then \in Seq(Steps)
  <2>1. n.then \in Seq(Nodes) /\ n.size \in Int /\ n.sizeExpr \in Optional
    BY <1>3, NodesAssumption
  <2>2. length.n \in Int
    BY <1>1, <1>2, <2>1, DecodeAt, SizeTyped
  <2> QED BY <2>1, <2>2, SubSequences
<1> HIDE DEF length
<1>6. Repeat(item, Max({0, length.n})) \in Seq(Steps)
  <2>1. item \in Seq(Steps)
    BY <1>4, <1>5, AppendProperties
  <2> HIDE DEF item
  <2> QED BY <1>5, <2>1, AtLeastZero, RepeatTyped
<1>7. <<[n EXCEPT !.kind = "arrayEnd"]>> \in Seq(Steps)
  BY <1>4
<1>8. todo \in Seq(Steps)
  <2> HIDE DEF item, n
  <2>1. ASSUME NEW r \in Seq(Steps), NEW s \in Seq(Steps), NEW t \in Seq(Steps)
        PROVE  r \o s \o t \in Seq(Steps)
    BY ConcatProperties
  <2> QED BY <1>3, <1>6, <1>7, <2>1, Zenon
<1> HIDE DEF todo, arrays
<1>9. Decoder([dec EXCEPT !.todo = todo, !.arrays = arrays])
  BY <1>2, <1>8 DEF Decoder, IsDecoder, DecoderFields
<1>10. Decoder(dec')
  BY <1>1, <1>2, <1>9, DecoderFails
<1> QED BY <1>1, <1>2, <1>10, DecodeStep

\* The ends of items and arrays store a value without a number.
Ended(c, path, v, arrays) ==
  [c EXCEPT !.todo = Tail(c.todo), !.fields = SetField(c.fields, path, v), !.arrays = arrays]

LEMMA EndsOfArrays ==
  ASSUME DecodeItemEnds \/ DecodeArrayEnds
  PROVE  /\ dec.todo # <<>> /\ UNCHANGED <<protocol, resized, enc>>
         /\ \E v, arrays : dec' = Ended(dec, Head(dec.todo).name, v, arrays) /\ v.n = 0
<1> DEFINE n == Head(dec.todo)
<1>1. Nil.n = 0 /\ \A items : Array(items).n = 0
  BY DEF Nil, Array, Value
<1>2. CASE DecodeItemEnds
  <2> DEFINE element == IF HasField(dec.fields, n.name)
                          THEN <<GetField(dec.fields, n.name)>> ELSE <<>>
             arrays == [dec.arrays EXCEPT ![Len(dec.arrays)] = @ \o element]
  <2>1. /\ dec.todo # <<>> /\ UNCHANGED <<protocol, resized, enc>>
        /\ dec' = [dec EXCEPT !.todo = Tail(@), !.fields = SetField(@, n.name, Nil),
                              !.arrays[Len(dec.arrays)] = @ \o element]
    BY <1>2, Zenon DEF DecodeItemEnds, Decoding
  <2> HIDE DEF element
  <2>2. dec' = Ended(dec, n.name, Nil, arrays)
    BY <2>1 DEF Ended
  <2> HIDE DEF arrays
  <2> QED BY <1>1, <2>1, <2>2, Zenon
<1>3. CASE DecodeArrayEnds
  <2> DEFINE v == Array(Last(dec.arrays))
             arrays == Front(dec.arrays)
  <2>1. /\ dec.todo # <<>> /\ UNCHANGED <<protocol, resized, enc>>
        /\ dec' = [dec EXCEPT !.todo = Tail(dec.todo), !.arrays = arrays,
                              !.fields = SetField(dec.fields, n.name, v)]
    BY <1>3, Zenon DEF DecodeArrayEnds, Decoding
  <2>2. v.n = 0
    BY <1>1
  <2> HIDE DEF v, arrays
  <2>3. dec' = Ended(dec, n.name, v, arrays)
    BY <2>1 DEF Ended
  <2> QED BY <2>1, <2>2, <2>3, Zenon
<1> QED BY <1>2, <1>3

LEMMA DecodeEndSteps == CodecInv /\ (DecodeItemEnds \/ DecodeArrayEnds) => CodecInv'
<1> SUFFICES ASSUME CodecInv, DecodeItemEnds \/ DecodeArrayEnds PROVE CodecInv'
  OBVIOUS
<1> DEFINE n == Head(dec.todo)
<1>1. /\ dec.todo # <<>> /\ UNCHANGED <<protocol, resized, enc>>
      /\ \E v, arrays : dec' = Ended(dec, n.name, v, arrays) /\ v.n = 0
  BY EndsOfArrays
<1>2. PICK v, arrays : dec' = Ended(dec, n.name, v, arrays) /\ v.n = 0
  BY <1>1, Zenon
<1>3. Decoder(dec) /\ resized \subseteq Resizable
  BY DEF CodecInv
<1>4. Tail(dec.todo) \in Seq(Steps) /\ Numbered(SetField(dec.fields, n.name, v))
  BY <1>1, <1>2, <1>3, DecodeAt, SetFieldNumbered
<1>5. Decoder(dec')
  <2> DEFINE f == SetField(dec.fields, n.name, v)
             todo == Tail(dec.todo)
  <2> HIDE DEF f, todo
  <2>1. dec' = [dec EXCEPT !.todo = todo, !.fields = f, !.arrays = arrays]
    BY <1>2 DEF Ended, f, todo
  <2>2. todo \in Seq(Steps) /\ Numbered(f)
    BY <1>4 DEF f, todo
  <2> QED BY <1>3, <2>1, <2>2 DEF Decoder, IsDecoder, DecoderFields
<1> QED BY <1>1, <1>3, <1>5, DecodeStep

LEMMA DecodeBitsStep == CodecInv /\ DecodeBits => CodecInv'
<1> SUFFICES ASSUME CodecInv, DecodeBits PROVE CodecInv'
  OBVIOUS
<1> DEFINE n == Head(dec.todo)
           at == 8 * dec.pos + dec.bit
           v == ReadBits(dec, n.bits)
           reads == dec.reads \cup {[at |-> at, n |-> n.bits, value |-> v.n]}
           c == Consumed(dec, n.bits, Tail(dec.todo), reads)
<1>1. /\ dec.todo # <<>> /\ n.kind = "bytes" /\ UNCHANGED <<protocol, resized, enc>>
      /\ dec' = IF v.ok THEN Store(c, n, Uint(v.n)) ELSE Fail(dec)
  BY Zenon DEF DecodeBits, Decoding, Consumed
<1>2. Decoder(dec) /\ resized \subseteq Resizable
  BY DEF CodecInv
<1>3. n \in Nodes /\ Tail(dec.todo) \in Seq(Steps)
  BY <1>1, <1>2, DecodeAt, StepKinds
<1>4. n.bits \in Nat
  BY <1>3, NodesAssumption
<1> HIDE DEF reads, n
<1>5. ASSUME v.ok
      PROVE  Decoder(Store(c, n, Uint(v.n)))
  <2>1. v.n \in Int /\ dec.pos + ((n.bits + dec.bit) \div 8) \in 0..Len(dec.data)
    BY <1>2, <1>4, <1>5, ReadBitsTyped
  <2>2. Decoder(c)
    BY <1>2, <1>3, <1>4, <2>1, BitsConsumed
  <2>3. Uint(v.n).n \in Int
    BY <2>1 DEF Uint, Value
  <2> HIDE DEF c, v
  <2> QED BY <2>2, <2>3, Stored
<1> HIDE DEF c, v
<1>6. Decoder(dec')
  BY <1>1, <1>2, <1>5, DecoderFails
<1> QED BY <1>1, <1>2, <1>6, DecodeStep

LEMMA DecodeBytesStep == CodecInv /\ DecodeBytes => CodecInv'
<1> SUFFICES ASSUME CodecInv, DecodeBytes PROVE CodecInv'
  OBVIOUS
<1> DEFINE n == Head(dec.todo)
           whole == n.bits > 0
           type == IF HasCrc(n) \/ whole THEN "uint" ELSE n.type
           declared == IF whole THEN n.bits \div 8 ELSE SizeOf(n)
           size == GetSize(declared, n.sizeExpr, dec)
           next == [dec EXCEPT !.todo = Tail(dec.todo)]
           c == ReadBytes(next, n, type, size.n)
<1>1. /\ dec.todo # <<>> /\ n.kind = "bytes" /\ ~IsBitField(n) /\ UNCHANGED <<protocol, enc>>
      /\ resized' = IF whole THEN resized \cup {n} ELSE resized
      /\ dec' \in {Fail(dec), c, Fail(c)}
  BY Zenon DEF DecodeBytes, Decoding
<1>2. Decoder(dec) /\ resized \subseteq Resizable
  BY DEF CodecInv
<1>3. n \in Nodes /\ Tail(dec.todo) \in Seq(Steps)
  BY <1>1, <1>2, DecodeAt, StepKinds
<1>4. n.bits \in Nat /\ n.sizeExpr \in Optional
  BY <1>3, NodesAssumption
<1>5. resized \subseteq resized' /\ resized' \subseteq Resizable
  <2>1. whole => n \in Resizable
    BY <1>1, <1>3, <1>4 DEF IsBitField, Resizable
  <2> QED BY <1>1, <1>2, <2>1
<1>6. size.n \in Int
  <2>1. declared \in Int
    BY <1>3, <1>4, SizeOfTyped
  <2> HIDE DEF declared
  <2> QED BY <1>1, <1>2, <1>4, <2>1, DecodeAt, SizeTyped
<1>7. Decoder(next)
  BY <1>2, <1>3, DecoderGoesOn
<1> HIDE DEF size, next, type
<1>8. Decoder(c)
  BY <1>6, <1>7, ReadBytesTyped
<1> HIDE DEF c
<1>9. Decoder(dec')
  BY <1>1, <1>2, <1>8, DecoderFails
<1> QED BY <1>1, <1>5, <1>9, DecodeStep

LEMMA DecodeCalcStep == CodecInv /\ DecodeCalc => CodecInv'
<1> SUFFICES ASSUME CodecInv, DecodeCalc PROVE CodecInv'
  OBVIOUS
<1> DEFINE n == Head(dec.todo)
           v == Eval(n.formula, dec)
           next == [dec EXCEPT !.todo = Tail(dec.todo)]
<1>1. /\ dec.todo # <<>> /\ n.kind = "calc" /\ UNCHANGED <<protocol, resized, enc>>
      /\ dec' = IF v.ok THEN Store(next, n, Int64(v.n)) ELSE Fail(dec)
  BY Zenon DEF DecodeCalc, Decoding
<1>2. Decoder(dec) /\ resized \subseteq Resizable
  BY DEF CodecInv
<1>3. n \in Nodes /\ Tail(dec.todo) \in Seq(Steps)
  BY <1>1, <1>2, DecodeAt, StepKinds
<1>4. n.formula \in Optional /\ n.formula.on # "none"
  BY <1>1, <1>3, NodesAssumption
<1>5. v.n \in Int
  BY <1>1, <1>2, <1>4, DecodeAt, EvalTyped
<1>6. Decoder(next)
  BY <1>2, <1>3, DecoderGoesOn
<1>7. Int64(v.n).n \in Int
  BY <1>5 DEF Int64, Value
<1> HIDE DEF next, v
<1>8. Decoder(dec')
  BY <1>1, <1>2, <1>6, <1>7, Stored, DecoderFails
<1> QED BY <1>1, <1>2, <1>8, DecodeStep

LEMMA DecodeEndsStep == CodecInv /\ DecodeEnds => CodecInv'
<1> SUFFICES ASSUME CodecInv, DecodeEnds PROVE CodecInv'
  OBVIOUS
<1>1. /\ dec' = [dec EXCEPT !.pc = "done"] /\ UNCHANGED <<protocol, resized, enc>>
      /\ Decoder(dec) /\ resized \subseteq Resizable
  BY DEF CodecInv, DecodeEnds
<1>2. Decoder(dec')
  BY <1>1 DEF Decoder, IsDecoder, DecoderFields
<1> QED BY <1>1, <1>2, DecodeStep

LEMMA CodecStep == ChecksumsAreNumbers /\ CodecInv /\ [Next]_vars => CodecInv'
<1> SUFFICES ASSUME ChecksumsAreNumbers, CodecInv, [Next]_vars PROVE CodecInv'
  OBVIOUS
<1>1. CASE UNCHANGED vars
  <2>1. UNCHANGED <<protocol, resized, enc, dec>>
    BY <1>1 DEF vars
  <2>2. Decoder(dec') /\ resized \subseteq resized' /\ resized' \subseteq Resizable
    BY <2>1 DEF CodecInv
  <2> QED BY <2>1, <2>2, DecodeStep
<1>2. CASE StartEncode BY <1>2, StartEncodeStep
<1>3. CASE EncodeSkips BY <1>3, EncodeSkipsStep
<1>4. CASE EncodeGroup BY <1>4, EncodeGroupStep
<1>5. CASE EncodeBytes BY <1>5, EncodeBytesStep
<1>6. CASE EncodeCalc BY <1>6, EncodeCalcStep
<1>7. CASE EncodeRoundEnds BY <1>7, EncodeRoundEndsStep
<1>8. CASE StartDecode BY <1>8, StartDecodeStep
<1>9. CASE DecodeSkips BY <1>9, DecodeSkipsStep
<1>10. CASE DecodeGroup BY <1>10, DecodeGroupStep
<1>11. CASE DecodeArray BY <1>11, DecodeArrayStep
<1>12. CASE DecodeItemEnds BY <1>12, DecodeEndSteps
<1>13. CASE DecodeArrayEnds BY <1>13, DecodeEndSteps
<1>14. CASE DecodeBits BY <1>14, DecodeBitsStep
<1>15. CASE DecodeBytes BY <1>15, DecodeBytesStep
<1>16. CASE DecodeCalc BY <1>16, DecodeCalcStep
<1>17. CASE DecodeEnds BY <1>17, DecodeEndsStep
<1> QED BY <1>1, <1>2, <1>3, <1>4, <1>5, <1>6, <1>7, <1>8, <1>9, <1>10, <1>11, <1>12, <1>13,
           <1>14, <1>15, <1>16, <1>17 DEF Next

\* The inductive invariant holds as long as crc16.Crc returns numbers.
THEOREM CodecInvariant == ChecksumsAreNumbers => (Spec => []CodecInv)
<1> SUFFICES ASSUME ChecksumsAreNumbers PROVE Spec => []CodecInv
  OBVIOUS
<1>1. Init => CodecInv
  BY CodecInit
<1>2. CodecInv /\ [Next]_vars => CodecInv'
  BY CodecStep
<1> QED BY <1>1, <1>2, PTL DEF Spec

LEMMA CodecInvTyped == CodecInv => TypeOK
<1> SUFFICES ASSUME CodecInv PROVE TypeOK
  OBVIOUS
<1>1. /\ protocol \in Protocols /\ resized \subseteq Nodes
      /\ enc.pc \in {"idle", "run", "done", "failed", "panicked"}
      /\ dec.pc \in {"idle", "run", "done", "failed"}
      /\ enc.index \in 0..Len(enc.offsets) /\ enc.data \in Seq(Byte) /\ dec.data \in Seq(Byte)
      /\ dec.pos \in 0..Len(dec.data) /\ dec.bit \in 0..7
  BY DEF CodecInv, Sound, Decoder, Resizable, Data
<1>2. enc.round \in 0..Rounds
  <2>1. Rounds \in Nat /\ enc.round \in Nat /\ enc.round <= Rounds
    BY RoundsIsNat DEF CodecInv, Sound
  <2> QED BY <2>1
<1>3. ASSUME NEW i \in DOMAIN enc.offsets PROVE enc.offsets[i] \in 0..Len(enc.data)
  <2>1. /\ enc.offsets \in Seq(Nat) /\ Len(enc.data) \in Nat
        /\ \A k \in 1..Len(enc.offsets) : enc.offsets[k] <= Len(enc.data)
    BY LenProperties DEF CodecInv, Sound, Data
  <2>2. i \in 1..Len(enc.offsets)
    BY <2>1, LenProperties
  <2>3. enc.offsets[i] \in Nat /\ enc.offsets[i] <= Len(enc.data)
    BY <2>1, <2>2, ElementOfSeq
  <2> QED BY <2>1, <2>3
<1> QED BY <1>1, <1>2, <1>3, Zenon DEF TypeOK

\* Encode and Decode stay within what they work on, in any protocol that Compile
\* accepts and whatever is received: the round within the rounds of the protocol, the
\* node index within the offsets recorded (core/node.go:178-190), these within the
\* packet (core/ctx.go), and the read position within the bytes received.
THEOREM CodecTypes == ChecksumsAreNumbers => (Spec => []TypeOK)
<1> SUFFICES ASSUME ChecksumsAreNumbers PROVE Spec => []TypeOK
  OBVIOUS
<1>1. Spec => []CodecInv
  BY CodecInvariant
<1>2. CodecInv => TypeOK
  BY CodecInvTyped
<1> QED BY <1>1, <1>2, PTL

\* Every later round of Encode writes where its first round reserved room for the same
\* node, whatever groups, branches, arrays and nodes of the other flow lie between
\* them, unless a Decode resizes a shared node in the meantime.
THEOREM PatchesAreInPlace == ChecksumsAreNumbers => (Spec => []PatchesStayInPlace)
<1> SUFFICES ASSUME ChecksumsAreNumbers PROVE Spec => []PatchesStayInPlace
  OBVIOUS
<1>1. Spec => []CodecInv
  BY CodecInvariant
<1>2. CodecInv => PatchesStayInPlace
  BY CodecInvTyped DEF CodecInv, Sound, InPlace, PatchesStayInPlace, Steady
<1> QED BY <1>1, <1>2, PTL

\* An Encode that succeeds has written the value of every node it made room for exactly
\* once, checksums and formulas of later rounds included: for any number of rounds,
\* whatever a Decode does to the shared nodes meanwhile.
THEOREM AllFieldsComputed == ChecksumsAreNumbers => (Spec => []FieldsComputed)
<1> SUFFICES ASSUME ChecksumsAreNumbers PROVE Spec => []FieldsComputed
  OBVIOUS
<1>1. Spec => []CodecInv
  BY CodecInvariant
<1>2. CodecInv => FieldsComputed
  BY DEF CodecInv
<1> QED BY <1>1, <1>2, PTL

\* Every field of bits that a Decode has read so far has the bits of its place.
ReadsRight == \A r \in dec.reads : BitsOf(dec.data, r.at, r.n, r.value)

\* Storing, failing and reading whole bytes leave the bit fields alone.
SameReads(c, d) == IsDecoder(d) /\ d.data = c.data /\ d.own = c.own /\ d.reads = c.reads

LEMMA StoredReads ==
  ASSUME NEW c, NEW d, SameReads(c, d), NEW n, NEW v
  PROVE  SameReads(c, Store(d, n, v)) /\ SameReads(c, Fail(d))
BY DEF SameReads, Store, Fail, IsDecoder, DecoderFields

LEMMA BytesReads ==
  ASSUME NEW c, NEW d, SameReads(c, d), NEW n, NEW type, NEW size
  PROVE  SameReads(c, ReadBytes(d, n, type, size))
<1> DEFINE count == IF size < 0 THEN Len(d.data) - d.pos ELSE size
           next == [d EXCEPT !.pos = @ + count, !.used = @ + 8 * count]
           bytes == SubSeq(d.data, d.pos + 1, d.pos + count)
           v == IF type = "int" THEN Int64(BytesToInt(bytes, n.order))
                                ELSE Uint(BytesToInt(bytes, n.order))
           e == ReadBytes(d, n, type, size)
<1>1. SameReads(c, next)
  <2> HIDE DEF count
  <2> QED BY DEF SameReads, IsDecoder, DecoderFields
<1>2. e \in {Store(d, n, Str(<<>>)), Fail(d), Store(next, n, Str(bytes)), Fail(next),
             Store(next, n, v)}
  BY Zenon DEF ReadBytes
<1> HIDE DEF next, bytes, v, e
<1>3. SameReads(c, e)
  BY <1>1, <1>2, StoredReads
<1> QED BY <1>3 DEF e

\* What a step of Decode adds to what it has read.
ReadsOn(c, d) ==
  /\ IsDecoder(d) /\ d.data = c.data /\ d.own = c.own
  /\ \/ d.reads = c.reads
     \/ \E r : BitsOf(c.data, r.at, r.n, r.value) /\ d.reads = c.reads \cup {r}

LEMMA DecodeReads ==
  ASSUME CodecInv,
         \/ DecodeSkips \/ DecodeGroup \/ DecodeArray \/ DecodeItemEnds \/ DecodeArrayEnds
         \/ DecodeBits \/ DecodeBytes \/ DecodeCalc \/ DecodeEnds
  PROVE  ReadsOn(dec, dec')
<1>1. Decoder(dec) /\ IsDecoder(dec) /\ SameReads(dec, dec)
  BY DEF CodecInv, Decoder, SameReads
<1>2. ASSUME SameReads(dec, dec') PROVE ReadsOn(dec, dec')
  BY <1>2 DEF SameReads, ReadsOn
<1>3. CASE DecodeSkips
  <2>1. dec' = [dec EXCEPT !.todo = Tail(dec.todo)]
    BY <1>3 DEF DecodeSkips
  <2> QED BY <1>1, <1>2, <2>1 DEF SameReads, IsDecoder, DecoderFields
<1>4. CASE DecodeGroup
  <2>1. dec' = Fail(dec) \/ \E todo : dec' = [dec EXCEPT !.todo = todo]
    BY <1>4, Zenon DEF DecodeGroup
  <2>2. \A todo : SameReads(dec, [dec EXCEPT !.todo = todo])
    BY <1>1 DEF SameReads, IsDecoder, DecoderFields
  <2> QED BY <1>1, <1>2, <2>1, <2>2, StoredReads
<1>5. CASE DecodeArray
  <2>1. dec' = Fail(dec) \/ \E todo, arrays : dec' = [dec EXCEPT !.todo = todo, !.arrays = arrays]
    BY <1>5, Zenon DEF DecodeArray
  <2>2. ASSUME NEW todo, NEW arrays, dec' = [dec EXCEPT !.todo = todo, !.arrays = arrays]
        PROVE  SameReads(dec, dec')
    BY <1>1, <2>2 DEF SameReads, IsDecoder, DecoderFields
  <2>3. SameReads(dec, Fail(dec))
    BY <1>1, StoredReads
  <2>4. SameReads(dec, dec')
    BY <2>1, <2>2, <2>3, Zenon
  <2> QED BY <1>2, <2>4
<1>6. CASE DecodeItemEnds \/ DecodeArrayEnds
  <2>1. PICK path, v, arrays : dec' = Ended(dec, path, v, arrays)
    BY <1>6, EndsOfArrays
  <2> QED BY <1>1, <1>2, <2>1 DEF Ended, SameReads, IsDecoder, DecoderFields
<1>7. CASE DecodeBits
  <2> DEFINE n == Head(dec.todo)
             at == 8 * dec.pos + dec.bit
             v == ReadBits(dec, n.bits)
             read == [at |-> at, n |-> n.bits, value |-> v.n]
             c == Consumed(dec, n.bits, Tail(dec.todo), dec.reads \cup {read})
  <2>1. /\ dec.todo # <<>> /\ n.kind = "bytes"
        /\ dec' = IF v.ok THEN Store(c, n, Uint(v.n)) ELSE Fail(dec)
    BY <1>7, Zenon DEF DecodeBits, Decoding, Consumed
  <2>2. n.bits \in Nat
    BY <1>1, <2>1, DecodeAt, StepKinds, NodesAssumption
  <2>3. CASE ~v.ok
    BY <1>1, <1>2, <2>1, <2>3, StoredReads
  <2>4. CASE v.ok
    <3>1. BitsOf(dec.data, at, n.bits, v.n)
      BY <1>1, <2>2, <2>4, ReadBitsRight
    <3>2. read.at = at /\ read.n = n.bits /\ read.value = v.n
      OBVIOUS
    <3>3. IsDecoder(c) /\ c.data = dec.data /\ c.own = dec.own /\ c.reads = dec.reads \cup {read}
      <4> HIDE DEF read, n
      <4> QED BY <1>1 DEF Consumed, IsDecoder, DecoderFields
    <3> HIDE DEF c, read, v, at, n
    <3>4. SameReads(c, dec')
      BY <2>1, <2>4, <3>3, StoredReads DEF SameReads
    <3> QED BY <3>1, <3>2, <3>3, <3>4 DEF ReadsOn, SameReads
  <2> QED BY <2>3, <2>4
<1>8. CASE DecodeBytes
  <2> DEFINE n == Head(dec.todo)
             whole == n.bits > 0
             type == IF HasCrc(n) \/ whole THEN "uint" ELSE n.type
             size == GetSize(IF whole THEN n.bits \div 8 ELSE SizeOf(n), n.sizeExpr, dec)
             next == [dec EXCEPT !.todo = Tail(dec.todo)]
             c == ReadBytes(next, n, type, size.n)
  <2>1. dec' \in {Fail(dec), c, Fail(c)}
    BY <1>8, Zenon DEF DecodeBytes
  <2>2. SameReads(dec, next)
    BY <1>1 DEF SameReads, IsDecoder, DecoderFields
  <2> HIDE DEF n, type, size, next
  <2>3. SameReads(dec, c)
    BY <2>2, BytesReads
  <2> HIDE DEF c
  <2> QED BY <1>1, <1>2, <2>1, <2>3, StoredReads
<1>9. CASE DecodeCalc
  <2> DEFINE next == [dec EXCEPT !.todo = Tail(dec.todo)]
  <2>1. dec' = Fail(dec) \/ \E n, v : dec' = Store(next, n, v)
    BY <1>9, Zenon DEF DecodeCalc
  <2>2. SameReads(dec, next)
    BY <1>1 DEF SameReads, IsDecoder, DecoderFields
  <2> HIDE DEF next
  <2> QED BY <1>1, <1>2, <2>1, <2>2, StoredReads
<1>10. CASE DecodeEnds
  <2>1. dec' = [dec EXCEPT !.pc = "done"]
    BY <1>10 DEF DecodeEnds
  <2> QED BY <1>1, <1>2, <2>1 DEF SameReads, IsDecoder, DecoderFields
<1> QED BY <1>3, <1>4, <1>5, <1>6, <1>7, <1>8, <1>9, <1>10

LEMMA ReadsStep == CodecInv /\ ReadsRight /\ [Next]_vars => ReadsRight'
<1> SUFFICES ASSUME CodecInv, ReadsRight, [Next]_vars PROVE ReadsRight'
  OBVIOUS
<1>1. CASE StartEncode \/ EncodeSkips \/ EncodeGroup \/ EncodeBytes \/ EncodeCalc
             \/ EncodeRoundEnds \/ UNCHANGED vars
  <2>1. UNCHANGED dec
    BY <1>1, Zenon DEF StartEncode, EncodeSkips, EncodeGroup, EncodeBytes, EncodeCalc,
                       EncodeRoundEnds, vars
  <2> QED BY <2>1 DEF ReadsRight
<1>2. CASE StartDecode
  <2>1. PICK packet, own :
          dec' = [NoDecode EXCEPT !.pc = "run", !.todo = protocol.nodes, !.data = packet,
                                  !.packetLen = Len(packet), !.own = own]
    BY <1>2, Zenon DEF StartDecode
  <2>2. dec'.reads = {}
    BY <2>1 DEF NoDecode
  <2> QED BY <2>2 DEF ReadsRight
<1>3. CASE \/ DecodeSkips \/ DecodeGroup \/ DecodeArray \/ DecodeItemEnds \/ DecodeArrayEnds
           \/ DecodeBits \/ DecodeBytes \/ DecodeCalc \/ DecodeEnds
  <2>1. ReadsOn(dec, dec')
    BY <1>3, DecodeReads
  <2> QED BY <2>1 DEF ReadsOn, ReadsRight
<1> QED BY <1>1, <1>2, <1>3 DEF Next

\* Bit fields, whole bytes and empty fields in any mixture: the read position, in bytes
\* and bits, is always exactly the bits that the fields read so far have consumed, and
\* the value of a bit field has the bits of its place in the packet, and no others
\* when it begins at a byte (core/ctx.go:203-216); for fields of any width up to 64
\* bits.
THEOREM BitsAreDecoded == ChecksumsAreNumbers => (Spec => []BitFieldsDecode)
<1> SUFFICES ASSUME ChecksumsAreNumbers PROVE Spec => []BitFieldsDecode
  OBVIOUS
<1>1. Spec => []CodecInv
  BY CodecInvariant
<1>2. Init => ReadsRight
  BY DEF Init, NoDecode, ReadsRight
<1>3. CodecInv /\ ReadsRight /\ [Next]_vars => ReadsRight'
  BY ReadsStep
<1>4. CodecInv /\ ReadsRight => BitFieldsDecode
  <2>1. CodecInv => 8 * dec.pos + dec.bit = dec.used
    BY Zenon DEF CodecInv, Decoder
  <2> QED BY <2>1, Zenon DEF ReadsRight, BitsOf, BitFieldsDecode
<1> QED BY <1>1, <1>2, <1>3, <1>4, PTL DEF Spec


-----------------------------------------------------------------------------
(* Numbers read back.                                                        *)

LEMMA EightHalves ==
  ASSUME NEW x \in Int
  PROVE  (((((((x \div 2) \div 2) \div 2) \div 2) \div 2) \div 2) \div 2) \div 2 = x \div 256
<1>1. ASSUME NEW y \in Int PROVE (y \div 2) \div 2 = y \div 4 /\ y \div 4 \in Int
  OBVIOUS
<1>2. ASSUME NEW y \in Int PROVE (y \div 4) \div 4 = y \div 16 /\ y \div 16 \in Int
  OBVIOUS
<1>3. ASSUME NEW y \in Int PROVE (y \div 16) \div 16 = y \div 256
  OBVIOUS
<1> QED BY <1>1, <1>2, <1>3

\* Eight shifts take off a byte.
LEMMA ByteShift ==
  ASSUME NEW v, NEW i \in Nat, Shifted(v)[i] \in Int
  PROVE  /\ Shifted(v)[i + 8] = Shifted(v)[i] \div 256 /\ Shifted(v)[i + 8] \in Int
         /\ Shifted(v)[i] = (Shifted(v)[i] % 256) + 256 * Shifted(v)[i + 8]
<1> DEFINE S(k) == Shifted(v)[i + k]
<1>1. \A k \in Nat : S(k + 1) = S(k) \div 2
  <2> SUFFICES ASSUME NEW k \in Nat PROVE S(k + 1) = S(k) \div 2
    OBVIOUS
  <2>1. i + k \in Nat /\ i + (k + 1) = (i + k) + 1
    OBVIOUS
  <2> QED BY <2>1, ShiftedSteps
<1>2. S(0) = Shifted(v)[i]
  <2>1. i + 0 = i OBVIOUS
  <2> QED BY <2>1
<1>3. PICK x \in Int : x = Shifted(v)[i]
  OBVIOUS
<1> HIDE DEF S
<1>4. /\ S(1) = S(0) \div 2 /\ S(2) = S(1) \div 2 /\ S(3) = S(2) \div 2 /\ S(4) = S(3) \div 2
      /\ S(5) = S(4) \div 2 /\ S(6) = S(5) \div 2 /\ S(7) = S(6) \div 2 /\ S(8) = S(7) \div 2
  <2>1. /\ 0 + 1 = 1 /\ 1 + 1 = 2 /\ 2 + 1 = 3 /\ 3 + 1 = 4
        /\ 4 + 1 = 5 /\ 5 + 1 = 6 /\ 6 + 1 = 7 /\ 7 + 1 = 8
    OBVIOUS
  <2>2. \A k \in {0, 1, 2, 3, 4, 5, 6, 7} : S(k + 1) = S(k) \div 2
    BY <1>1
  <2> QED BY <2>1, <2>2
<1>5. S(8) = x \div 256
  BY <1>2, <1>3, <1>4, EightHalves
<1>6. x \div 256 \in Int /\ x = (x % 256) + 256 * (x \div 256)
  OBVIOUS
<1> QED BY <1>3, <1>5, <1>6 DEF S

\* The number with these octets, the least significant first.
Made(a, b, c, d, e, f, g, h) ==
  a + 256 * (b + 256 * (c + 256 * (d + 256 * (e + 256 * (f + 256 * (g + 256 * h))))))

\* A number of at most eight bytes is made of its octets.
LEMMA OctetsMake ==
  ASSUME NEW v \in Int, NEW size \in 1..8, Shifted(v)[8 * size] = 0
  PROVE  LET o == Octets(v)
         IN  /\ v = Made(o[1], o[2], o[3], o[4], o[5], o[6], o[7], o[8])
             /\ \A k \in 1..8 : k > size => o[k] = 0
<1> DEFINE W(k) == Shifted(v)[8 * k]
           o == Octets(v)
<1>1. W(0) = v
  <2>1. 8 * 0 = 0 OBVIOUS
  <2> QED BY <2>1, ShiftedSteps
<1>2. ASSUME NEW k \in 0..7, W(k) \in Int
      PROVE  W(k + 1) = W(k) \div 256 /\ W(k + 1) \in Int /\ W(k) = (W(k) % 256) + 256 * W(k + 1)
  <2>1. 8 * k \in Nat /\ 8 * (k + 1) = 8 * k + 8
    OBVIOUS
  <2> QED BY <1>2, <2>1, ByteShift
<1>3. W(size) = 0
  OBVIOUS
<1> HIDE DEF W
<1>4. /\ W(1) = W(0) \div 256 /\ W(1) \in Int /\ W(0) = (W(0) % 256) + 256 * W(1)
  <2>1. 0 + 1 = 1 OBVIOUS
  <2> QED BY <1>1, <1>2, <2>1
<1>5. W(2) = W(1) \div 256 /\ W(2) \in Int /\ W(1) = (W(1) % 256) + 256 * W(2)
  <2>1. 1 + 1 = 2 OBVIOUS
  <2> QED BY <1>2, <1>4, <2>1
<1>6. W(3) = W(2) \div 256 /\ W(3) \in Int /\ W(2) = (W(2) % 256) + 256 * W(3)
  <2>1. 2 + 1 = 3 OBVIOUS
  <2> QED BY <1>2, <1>5, <2>1
<1>7. W(4) = W(3) \div 256 /\ W(4) \in Int /\ W(3) = (W(3) % 256) + 256 * W(4)
  <2>1. 3 + 1 = 4 OBVIOUS
  <2> QED BY <1>2, <1>6, <2>1
<1>8. W(5) = W(4) \div 256 /\ W(5) \in Int /\ W(4) = (W(4) % 256) + 256 * W(5)
  <2>1. 4 + 1 = 5 OBVIOUS
  <2> QED BY <1>2, <1>7, <2>1
<1>9. W(6) = W(5) \div 256 /\ W(6) \in Int /\ W(5) = (W(5) % 256) + 256 * W(6)
  <2>1. 5 + 1 = 6 OBVIOUS
  <2> QED BY <1>2, <1>8, <2>1
<1>10. W(7) = W(6) \div 256 /\ W(7) \in Int /\ W(6) = (W(6) % 256) + 256 * W(7)
  <2>1. 6 + 1 = 7 OBVIOUS
  <2> QED BY <1>2, <1>9, <2>1
<1>11. W(8) = W(7) \div 256 /\ W(8) \in Int /\ W(7) = (W(7) % 256) + 256 * W(8)
  <2>1. 7 + 1 = 8 OBVIOUS
  <2> QED BY <1>2, <1>10, <2>1
<1>12. o = <<W(0) % 256, W(1) % 256, W(2) % 256, W(3) % 256,
             W(4) % 256, W(5) % 256, W(6) % 256, W(7) % 256>>
  <2> DEFINE v1 == v \div 256   v2 == v1 \div 256  v3 == v2 \div 256  v4 == v3 \div 256
             v5 == v4 \div 256  v6 == v5 \div 256  v7 == v6 \div 256
  <2>1. o = <<v % 256, v1 % 256, v2 % 256, v3 % 256, v4 % 256, v5 % 256, v6 % 256, v7 % 256>>
    BY DEF Octets
  <2> HIDE DEF o
  <2>2. v1 = W(1) BY <1>1, <1>4
  <2> HIDE DEF v1
  <2>3. v2 = W(2) BY <1>5, <2>2
  <2> HIDE DEF v2
  <2>4. v3 = W(3) BY <1>6, <2>3
  <2> HIDE DEF v3
  <2>5. v4 = W(4) BY <1>7, <2>4
  <2> HIDE DEF v4
  <2>6. v5 = W(5) BY <1>8, <2>5
  <2> HIDE DEF v5
  <2>7. v6 = W(6) BY <1>9, <2>6
  <2> HIDE DEF v6
  <2>8. v7 = W(7) BY <1>10, <2>7
  <2> HIDE DEF v7
  <2> QED BY <1>1, <2>1, <2>2, <2>3, <2>4, <2>5, <2>6, <2>7, <2>8
<1>13. \A k \in 1..8 : o[k] = W(k - 1) % 256
  <2>1. /\ o[1] = W(0) % 256 /\ o[2] = W(1) % 256 /\ o[3] = W(2) % 256 /\ o[4] = W(3) % 256
        /\ o[5] = W(4) % 256 /\ o[6] = W(5) % 256 /\ o[7] = W(6) % 256 /\ o[8] = W(7) % 256
    BY <1>12
  <2>2. \A k \in 1..8 : k \in {1, 2, 3, 4, 5, 6, 7, 8}
    OBVIOUS
  <2>3. /\ 1 - 1 = 0 /\ 2 - 1 = 1 /\ 3 - 1 = 2 /\ 4 - 1 = 3
        /\ 5 - 1 = 4 /\ 6 - 1 = 5 /\ 7 - 1 = 6 /\ 8 - 1 = 7
    OBVIOUS
  <2> HIDE DEF o
  <2>4. \A k \in {1, 2, 3, 4, 5, 6, 7, 8} : o[k] = W(k - 1) % 256
    BY <2>1, <2>3
  <2> QED BY <2>2, <2>4
<1> HIDE DEF o
<1>14. \A k \in 0..7 : k >= size /\ W(k) = 0 => W(k + 1) = 0
  <2> SUFFICES ASSUME NEW k \in 0..7, W(k) = 0 PROVE W(k + 1) = 0
    OBVIOUS
  <2>0. W(k) \in Int
    OBVIOUS
  <2>1. W(k + 1) = W(k) \div 256
    BY <1>2, <2>0
  <2> QED BY <2>1
<1>15. \A k \in 1..8 : k >= size => W(k) = 0
  <2>1. size \in {1, 2, 3, 4, 5, 6, 7, 8} OBVIOUS
  <2>2. /\ 1 >= size => W(1) = 0
    BY <1>3
  <2>3. 2 >= size => W(2) = 0
    <3>1. CASE size = 2 BY <1>3, <3>1
    <3>2. CASE size # 2 /\ 2 >= size
      <4>1. 1 \in 0..7 /\ 1 >= size /\ 1 + 1 = 2 BY <3>2
      <4> QED BY <1>14, <2>2, <4>1
    <3> QED BY <3>1, <3>2
  <2>4. 3 >= size => W(3) = 0
    <3>1. CASE size = 3 BY <1>3, <3>1
    <3>2. CASE size # 3 /\ 3 >= size
      <4>1. 2 \in 0..7 /\ 2 >= size /\ 2 + 1 = 3 BY <3>2
      <4> QED BY <1>14, <2>3, <4>1
    <3> QED BY <3>1, <3>2
  <2>5. 4 >= size => W(4) = 0
    <3>1. CASE size = 4 BY <1>3, <3>1
    <3>2. CASE size # 4 /\ 4 >= size
      <4>1. 3 \in 0..7 /\ 3 >= size /\ 3 + 1 = 4 BY <3>2
      <4> QED BY <1>14, <2>4, <4>1
    <3> QED BY <3>1, <3>2
  <2>6. 5 >= size => W(5) = 0
    <3>1. CASE size = 5 BY <1>3, <3>1
    <3>2. CASE size # 5 /\ 5 >= size
      <4>1. 4 \in 0..7 /\ 4 >= size /\ 4 + 1 = 5 BY <3>2
      <4> QED BY <1>14, <2>5, <4>1
    <3> QED BY <3>1, <3>2
  <2>7. 6 >= size => W(6) = 0
    <3>1. CASE size = 6 BY <1>3, <3>1
    <3>2. CASE size # 6 /\ 6 >= size
      <4>1. 5 \in 0..7 /\ 5 >= size /\ 5 + 1 = 6 BY <3>2
      <4> QED BY <1>14, <2>6, <4>1
    <3> QED BY <3>1, <3>2
  <2>8. 7 >= size => W(7) = 0
    <3>1. CASE size = 7 BY <1>3, <3>1
    <3>2. CASE size # 7 /\ 7 >= size
      <4>1. 6 \in 0..7 /\ 6 >= size /\ 6 + 1 = 7 BY <3>2
      <4> QED BY <1>14, <2>7, <4>1
    <3> QED BY <3>1, <3>2
  <2>9. W(8) = 0
    <3>1. CASE size = 8 BY <1>3, <3>1
    <3>2. CASE size # 8
      <4>1. 7 \in 0..7 /\ 7 >= size /\ 7 + 1 = 8 BY <3>2
      <4> QED BY <1>14, <2>8, <4>1
    <3> QED BY <3>1, <3>2
  <2>10. \A k \in 1..8 : k \in {1, 2, 3, 4, 5, 6, 7, 8}
    OBVIOUS
  <2> QED BY <2>2, <2>3, <2>4, <2>5, <2>6, <2>7, <2>8, <2>9, <2>10
<1>16. \A k \in 1..8 : k > size => o[k] = 0
  <2> SUFFICES ASSUME NEW k \in 1..8, k > size PROVE o[k] = 0
    OBVIOUS
  <2>1. k - 1 \in 1..8 /\ k - 1 >= size
    OBVIOUS
  <2>2. o[k] = 0 % 256
    BY <1>13, <1>15, <2>1
  <2> QED BY <2>2
<1>17. /\ W(0) = o[1] + 256 * W(1) /\ W(1) = o[2] + 256 * W(2) /\ W(2) = o[3] + 256 * W(3)
       /\ W(3) = o[4] + 256 * W(4) /\ W(4) = o[5] + 256 * W(5) /\ W(5) = o[6] + 256 * W(6)
       /\ W(6) = o[7] + 256 * W(7) /\ W(7) = o[8]
  <2>1. /\ o[1] = W(0) % 256 /\ o[2] = W(1) % 256 /\ o[3] = W(2) % 256 /\ o[4] = W(3) % 256
        /\ o[5] = W(4) % 256 /\ o[6] = W(5) % 256 /\ o[7] = W(6) % 256 /\ o[8] = W(7) % 256
    BY <1>13
  <2>2. W(8) = 0
    BY <1>15
  <2>3. W(7) % 256 \in Int
    BY <1>10
  <2>4. W(7) = o[8]
    BY <1>11, <2>1, <2>2, <2>3
  <2>5. W(0) = o[1] + 256 * W(1) /\ W(1) = o[2] + 256 * W(2)
    BY <1>4, <1>5, <2>1, Zenon
  <2>6. W(2) = o[3] + 256 * W(3) /\ W(3) = o[4] + 256 * W(4)
    BY <1>6, <1>7, <2>1, Zenon
  <2>7. W(4) = o[5] + 256 * W(5) /\ W(5) = o[6] + 256 * W(6)
    BY <1>8, <1>9, <2>1, Zenon
  <2>8. W(6) = o[7] + 256 * W(7)
    BY <1>10, <2>1, Zenon
  <2> QED BY <2>4, <2>5, <2>6, <2>7, <2>8, Zenon
<1>18. v = Made(o[1], o[2], o[3], o[4], o[5], o[6], o[7], o[8])
  <2> DEFINE x6 == o[7] + 256 * o[8]  x5 == o[6] + 256 * x6  x4 == o[5] + 256 * x5
             x3 == o[4] + 256 * x4    x2 == o[3] + 256 * x3  x1 == o[2] + 256 * x2
  <2>1. o[1] + 256 * x1 = Made(o[1], o[2], o[3], o[4], o[5], o[6], o[7], o[8])
    BY DEF Made
  <2>2. W(6) = x6 BY <1>17, Zenon
  <2> HIDE DEF x6
  <2>3. W(5) = x5 BY <1>17, <2>2, Zenon
  <2> HIDE DEF x5
  <2>4. W(4) = x4 BY <1>17, <2>3, Zenon
  <2> HIDE DEF x4
  <2>5. W(3) = x3 BY <1>17, <2>4, Zenon
  <2> HIDE DEF x3
  <2>6. W(2) = x2 BY <1>17, <2>5, Zenon
  <2> HIDE DEF x2
  <2>7. W(1) = x1 BY <1>17, <2>6, Zenon
  <2> HIDE DEF x1
  <2> QED BY <1>1, <1>17, <2>1, <2>7, Zenon
<1> QED BY <1>16, <1>18 DEF o

\* What Encode writes of a number that fits its field (node/bytes.go, WriteInt) Decode
\* reads back as that number (utils.BytesToInt): for every number of at most 64 bits, every
\* size from one to eight bytes and both byte orders.
THEOREM NumbersReadBack ==
  ASSUME NEW v \in Int, NEW size \in 1..8, Shifted(v)[8 * size] = 0,
         NEW order \in {"big", "little"}
  PROVE  BytesToInt(IntBytes(v, size, order), order) = v
<1> DEFINE o == Octets(v)
           bytes == IntBytes(v, size, order)
           digit(k) == IF k > Len(bytes) THEN 0
                       ELSE bytes[IF order = "big" THEN Len(bytes) + 1 - k ELSE k]
<1>1. o \in Data /\ Len(o) = 8
  BY OctetsAreBytes
<1>2. bytes \in Data /\ Len(bytes) = size
  <2>1. size \in 0..8 OBVIOUS
  <2> QED BY <2>1, IntBytesSized
<1>3. \A k \in 1..8 : k > size => o[k] = 0
  BY OctetsMake
<1>4. v = Made(o[1], o[2], o[3], o[4], o[5], o[6], o[7], o[8])
  BY OctetsMake
<1>5. BytesToInt(bytes, order)
        = Made(digit(1), digit(2), digit(3), digit(4), digit(5), digit(6), digit(7), digit(8))
  BY DEF BytesToInt, Made
<1>6. \A k \in 1..size :
        o[k] = bytes[IF order = "big" THEN size + 1 - k ELSE k]
  <2> SUFFICES ASSUME NEW k \in 1..size
               PROVE  o[k] = bytes[IF order = "big" THEN size + 1 - k ELSE k]
    OBVIOUS
  <2>1. CASE order = "big"
    <3> DEFINE r == Reverse(o)
    <3>1. r \in Data /\ Len(r) = 8 /\ r = [i \in 1..8 |-> o[(8 - i) + 1]]
      BY <1>1, ReversedBytes DEF Reverse
    <3>2. bytes = SubSeq(r, 9 - size, 8)
      BY <2>1 DEF IntBytes
    <3> HIDE DEF r, bytes, o
    <3>3. 9 - size \in 1..9 /\ 8 \in ((9 - size) - 1)..8 /\ size + 1 - k \in 1..size
          /\ 8 - (9 - size) + 1 = size
      OBVIOUS
    <3>4. \A i \in 1..size : bytes[i] = r[(9 - size) + i - 1]
      BY <3>1, <3>2, <3>3, SubSeqProperties DEF Data
    <3>5. bytes[size + 1 - k] = r[(9 - size) + (size + 1 - k) - 1]
      BY <3>3, <3>4
    <3>6. (9 - size) + (size + 1 - k) - 1 = 9 - k /\ 9 - k \in 1..8 /\ (8 - (9 - k)) + 1 = k
      OBVIOUS
    <3>7. r[9 - k] = o[(8 - (9 - k)) + 1]
      BY <3>1, <3>6
    <3> QED BY <2>1, <3>5, <3>6, <3>7
  <2>2. CASE order = "little"
    <3>1. bytes = SubSeq(o, 1, size)
      BY <2>2 DEF IntBytes
    <3> HIDE DEF bytes, o
    <3>2. 1 \in 1..9 /\ size \in (1 - 1)..8 /\ size - 1 + 1 = size /\ 1 + k - 1 = k
      OBVIOUS
    <3>3. bytes[k] = o[1 + k - 1]
      BY <1>1, <3>1, <3>2, SubSeqProperties DEF Data
    <3> QED BY <2>2, <3>2, <3>3
  <2> QED BY <2>1, <2>2
<1> HIDE DEF o, bytes
<1>7. \A k \in 1..8 : digit(k) = o[k]
  <2> SUFFICES ASSUME NEW k \in 1..8 PROVE digit(k) = o[k]
    OBVIOUS
  <2>1. CASE k > size
    BY <1>2, <1>3, <2>1
  <2>2. CASE ~(k > size)
    <3>1. k \in 1..size
      BY <2>2
    <3> QED BY <1>2, <1>6, <2>2, <3>1
  <2> QED BY <2>1, <2>2
<1> HIDE DEF digit
<1>8. /\ digit(1) = o[1] /\ digit(2) = o[2] /\ digit(3) = o[3] /\ digit(4) = o[4]
      /\ digit(5) = o[5] /\ digit(6) = o[6] /\ digit(7) = o[7] /\ digit(8) = o[8]
  BY <1>7
<1> QED BY <1>4, <1>5, <1>8 DEF bytes

-----------------------------------------------------------------------------
(* Protocols whose fields have fixed sizes: where the first round puts them. *)

Text(n) == n.type \in {"hex", "string"}

\* A field of fixed size that is written in a round of the protocol, or a structure of
\* the nodes in S.
FixedNode(n, S) ==
  /\ n.flow = ""
  /\ \/ n.kind = "struct" /\ n.then \in Seq(S)
     \/ /\ n.kind = "bytes" /\ n.size > 0 /\ n.bits = 0 /\ n.sizeExpr.on = "none"
        /\ Text(n) \/ (n.type \in {"int", "uint"} /\ n.size <= 8)
        /\ ~HasCrc(n) /\ n.check.on = "none" /\ n.round <= Rounds

FixedNodes(S) ==
  S \subseteq Nodes /\ protocol.nodes \in Seq(S) /\ \A n \in S : FixedNode(n, S)

Width(n) == IF n.kind = "bytes" THEN n.size ELSE 0
Spots(S) == [todo : Seq(S), at : Nat]
After(s) ==
  [todo |-> IF Head(s.todo).kind = "bytes" THEN Tail(s.todo)
            ELSE Head(s.todo).then \o Tail(s.todo),
   at |-> s.at + Width(Head(s.todo))]

\* The k-th node is entered at the spot L[k]; no field begins before one that was
\* entered earlier has ended.
Laid(L, S, nodes) ==
  /\ L \in Seq(Spots(S)) /\ L # <<>> /\ L[1] = [todo |-> nodes, at |-> 0]
  /\ \A k \in 1..(Len(L) - 1) : L[k].todo # <<>> /\ L[k + 1] = After(L[k])
  /\ \A j, k \in 1..Len(L) : j < k => L[j].at + Width(Head(L[j].todo)) <= L[k].at

\* A Context of Encode on its way over the spots.
On(L, c) ==
  /\ Len(c.offsets) = Len(L) - 1 /\ \A k \in 1..(Len(L) - 1) : c.offsets[k] = L[k].at
  /\ L[Len(L)].at = Len(c.data)
  /\ c.index \in 0..(Len(L) - 1) /\ c.todo = L[c.index + 1].todo
  /\ c.round = 0 => c.index = Len(L) - 1
  /\ c.round # 0 => L[Len(L)].todo = <<>>

LEMMA WidthTyped ==
  ASSUME NEW S \in SUBSET Nodes, \A n \in S : FixedNode(n, S), NEW n \in S
  PROVE  Width(n) \in Nat /\ (n.kind = "bytes" => Width(n) = n.size /\ Width(n) > 0)
<1>1. n.size \in Int
  BY NodesAssumption
<1>2. n.kind = "bytes" => n.size > 0
  BY DEF FixedNode
<1>3. Width(n) = IF n.kind = "bytes" THEN n.size ELSE 0
  BY DEF Width
<1> HIDE DEF Width
<1>4. CASE n.kind = "bytes"
  BY <1>1, <1>2, <1>3, <1>4
<1>5. CASE n.kind # "bytes"
  BY <1>3, <1>5
<1> QED BY <1>4, <1>5

LEMMA AfterTyped ==
  ASSUME NEW S \in SUBSET Nodes, \A n \in S : FixedNode(n, S),
         NEW s \in Spots(S), s.todo # <<>>
  PROVE  After(s) \in Spots(S) /\ Head(s.todo) \in S /\ After(s).at >= s.at
<1> DEFINE n == Head(s.todo)
<1>1. n \in S /\ Tail(s.todo) \in Seq(S) /\ s.at \in Nat
  BY HeadTailProperties DEF Spots
<1> HIDE DEF n
<1>2. Width(n) \in Nat
  BY <1>1, WidthTyped
<1>3. n.kind # "bytes" => n.then \o Tail(s.todo) \in Seq(S)
  <2>1. n.kind # "bytes" => n.then \in Seq(S)
    BY <1>1 DEF FixedNode
  <2> QED BY <1>1, <2>1, ConcatProperties
<1>4. (IF n.kind = "bytes" THEN Tail(s.todo) ELSE n.then \o Tail(s.todo)) \in Seq(S)
  BY <1>1, <1>3
<1>5. s.at + Width(n) \in Nat /\ s.at + Width(n) >= s.at
  BY <1>1, <1>2
<1>6. After(s) = [todo |-> IF n.kind = "bytes" THEN Tail(s.todo) ELSE n.then \o Tail(s.todo),
                  at |-> s.at + Width(n)]
  BY DEF After, n
<1> QED BY <1>1, <1>4, <1>5, <1>6 DEF Spots, n

\* The first round goes on to one more spot.
LEMMA LaidGrows ==
  ASSUME NEW S \in SUBSET Nodes, \A n \in S : FixedNode(n, S), NEW nodes,
         NEW L, Laid(L, S, nodes), L[Len(L)].todo # <<>>
  PROVE  LET M == Append(L, After(L[Len(L)]))
         IN  /\ Laid(M, S, nodes) /\ Len(M) = Len(L) + 1
             /\ M[Len(M)] = After(L[Len(L)]) /\ \A k \in 1..Len(L) : M[k] = L[k]
<1> DEFINE s == L[Len(L)]
           M == Append(L, After(s))
<1>1. L \in Seq(Spots(S)) /\ Len(L) \in Nat /\ Len(L) # 0
  BY LenProperties, EmptySeq DEF Laid
<1>2. Len(L) \in 1..Len(L)
  BY <1>1
<1>3. s \in Spots(S)
  BY <1>1, <1>2, ElementOfSeq
<1>4. After(s) \in Spots(S) /\ Head(s.todo) \in S
  BY <1>3, AfterTyped
<1>5. /\ M \in Seq(Spots(S)) /\ Len(M) = Len(L) + 1 /\ M[Len(L) + 1] = After(s)
      /\ \A k \in 1..Len(L) : M[k] = L[k]
  <2> HIDE DEF s
  <2> QED BY <1>1, <1>4, AppendProperties
<1> HIDE DEF M
<1>6. M # <<>>
  BY <1>1, <1>5
<1>7. M[1] = [todo |-> nodes, at |-> 0]
  BY <1>1, <1>5 DEF Laid
<1>8. ASSUME NEW k \in 1..(Len(M) - 1)
      PROVE  M[k].todo # <<>> /\ M[k + 1] = After(M[k])
  <2>1. CASE k = Len(L)
    BY <1>1, <1>5, <2>1
  <2>2. CASE k \in 1..(Len(L) - 1)
    <3>1. k \in 1..Len(L) /\ k + 1 \in 1..Len(L)
      BY <1>1, <2>2
    <3> QED BY <1>5, <2>2, <3>1 DEF Laid
  <2> QED BY <1>1, <1>5, <2>1, <2>2
<1>9. ASSUME NEW j \in 1..Len(M), NEW k \in 1..Len(M), j < k
      PROVE  M[j].at + Width(Head(M[j].todo)) <= M[k].at
  <2>1. j \in 1..Len(L) /\ M[j] = L[j]
    BY <1>1, <1>5, <1>9
  <2>2. CASE k \in 1..Len(L)
    BY <1>5, <1>9, <2>1, <2>2 DEF Laid
  <2>3. CASE k = Len(L) + 1
    <3>1. M[k] = After(s)
      BY <1>5, <2>3
    <3>2. After(s).at = s.at + Width(Head(s.todo)) /\ s.at \in Nat /\ Width(Head(s.todo)) \in Nat
      BY <1>3, <1>4, WidthTyped DEF After, Spots
    <3>3. CASE j = Len(L)
      BY <2>1, <3>1, <3>2, <3>3
    <3>4. CASE j # Len(L)
      <4>1. j < Len(L)
        BY <1>1, <2>1, <3>4
      <4>2. L[j].at + Width(Head(L[j].todo)) <= s.at
        BY <1>2, <2>1, <4>1 DEF Laid
      <4>3. L[j] \in Spots(S) /\ L[j].todo # <<>>
        <5>1. j \in 1..(Len(L) - 1)
          BY <1>1, <2>1, <4>1
        <5> QED BY <1>1, <2>1, <5>1, ElementOfSeq DEF Laid
      <4>4. L[j].at \in Nat /\ Width(Head(L[j].todo)) \in Nat
        BY <4>3, AfterTyped, WidthTyped DEF Spots
      <4> QED BY <2>1, <3>1, <3>2, <4>2, <4>4
    <3> QED BY <3>3, <3>4
  <2> QED BY <1>1, <1>5, <2>2, <2>3
<1>10. Laid(M, S, nodes)
  BY <1>5, <1>6, <1>7, <1>8, <1>9, Zenon DEF Laid
<1> QED BY <1>5, <1>10 DEF M, s

\* What entering a node does to the way, when the data grows by its width in the first
\* round and keeps its length in the others.
Entering(c, d, n) ==
  /\ d.round = c.round /\ d.index = c.index + 1 /\ d.fields = c.fields
  /\ d.offsets = IF c.round = 0 THEN Append(c.offsets, Len(c.data)) ELSE c.offsets
  /\ d.todo = IF n.kind = "bytes" THEN Tail(c.todo) ELSE n.then \o Tail(c.todo)
  /\ Len(d.data) = IF c.round = 0 THEN Len(c.data) + Width(n) ELSE Len(c.data)

\* The spots M that are known after that step.
GoesOn(L, M, S, nodes, c, d) ==
  /\ Laid(M, S, nodes) /\ On(M, d)
  /\ c.index + 1 \in 1..(Len(M) - 1) /\ M[c.index + 1].todo = c.todo
  /\ \A k \in 1..(Len(M) - 1) : k # c.index + 1 => k \in 1..(Len(L) - 1) /\ M[k] = L[k]
  /\ c.round = 0 => M[c.index + 1].at = Len(c.data)
  /\ c.round # 0 => M = L

LEMMA OnStep ==
  ASSUME NEW S \in SUBSET Nodes, \A n \in S : FixedNode(n, S), NEW nodes,
         NEW L, Laid(L, S, nodes), NEW c, On(L, c), c.offsets \in Seq(Nat), c.data \in Data,
         c.todo # <<>>, NEW n, n = Head(c.todo), NEW d, Entering(c, d, n)
  PROVE  \E M : GoesOn(L, M, S, nodes, c, d)
<1> DEFINE s == L[c.index + 1]
<1>1. L \in Seq(Spots(S)) /\ Len(L) \in Nat /\ Len(L) # 0 /\ c.index \in 0..(Len(L) - 1)
      /\ Len(c.data) \in Nat /\ Len(c.offsets) = Len(L) - 1
  BY LenProperties, EmptySeq DEF Laid, On, Data
<1>2. c.index \in Nat /\ c.index + 1 \in 1..Len(L) /\ s.todo = c.todo
  BY <1>1 DEF On
<1>3. After(s).todo = d.todo /\ After(s).at = s.at + Width(n)
  <2> HIDE DEF s
  <2> QED BY <1>2 DEF After, Entering
<1> HIDE DEF s
<1>4. CASE c.round # 0
  <2>1. d.index = c.index + 1 /\ d.offsets = c.offsets /\ Len(d.data) = Len(c.data) /\ d.round # 0
    BY <1>4 DEF Entering
  <2>2. L[Len(L)].todo = <<>>
    BY <1>4 DEF On
  <2>3. c.index + 1 # Len(L)
    BY <1>2, <2>2 DEF s
  <2>4. c.index + 1 \in 1..(Len(L) - 1) /\ c.index + 1 \in 0..(Len(L) - 1)
    BY <1>1, <1>2, <2>3
  <2>5. L[(c.index + 1) + 1] = After(s)
    BY <2>4 DEF Laid, s
  <2>6. On(L, d)
    BY <1>3, <1>4, <2>1, <2>2, <2>4, <2>5 DEF On
  <2>7. GoesOn(L, L, S, nodes, c, d)
    BY <1>2, <1>4, <2>4, <2>6 DEF s, GoesOn
  <2> QED BY <2>7
<1>5. CASE c.round = 0
  <2>1. c.index + 1 = Len(L) /\ d.round = 0 /\ d.index = c.index + 1
    BY <1>1, <1>5 DEF On, Entering
  <2>2. s = L[Len(L)] /\ s.at = Len(c.data) /\ s.todo # <<>>
    BY <1>2, <2>1 DEF s, On
  <2> DEFINE M == Append(L, After(s))
  <2>3. /\ Laid(M, S, nodes) /\ Len(M) = Len(L) + 1
        /\ M[Len(M)] = After(s) /\ \A k \in 1..Len(L) : M[k] = L[k]
    BY <2>2, LaidGrows
  <2> HIDE DEF M
  <2>4. /\ Len(d.offsets) = Len(c.offsets) + 1 /\ d.offsets[Len(c.offsets) + 1] = Len(c.data)
        /\ \A k \in 1..Len(c.offsets) : d.offsets[k] = c.offsets[k]
    <3>1. d.offsets = Append(c.offsets, Len(c.data))
      BY <1>5 DEF Entering
    <3> QED BY <1>1, <3>1, AppendProperties
  <2>5. Len(d.offsets) = Len(M) - 1
    BY <1>1, <2>3, <2>4
  <2>6. ASSUME NEW k \in 1..(Len(M) - 1) PROVE d.offsets[k] = M[k].at
    <3>1. CASE k = Len(L)
      <4>1. k = Len(c.offsets) + 1 /\ k \in 1..Len(L)
        BY <1>1, <3>1
      <4> QED BY <2>2, <2>3, <2>4, <3>1, <4>1
    <3>2. CASE k # Len(L)
      <4>1. k \in 1..Len(c.offsets) /\ k \in 1..Len(L) /\ k \in 1..(Len(L) - 1)
        BY <1>1, <2>3, <3>2
      <4> QED BY <2>3, <2>4, <4>1 DEF On
    <3> QED BY <3>1, <3>2
  <2>7. Len(d.data) = Len(c.data) + Width(n) /\ M[Len(M)].at = Len(d.data)
    BY <1>3, <1>5, <2>2, <2>3 DEF Entering
  <2>8. d.index \in 0..(Len(M) - 1) /\ d.index + 1 = Len(M) /\ d.index = Len(M) - 1
    BY <1>1, <2>1, <2>3
  <2>9. On(M, d)
    BY <1>3, <2>1, <2>3, <2>5, <2>6, <2>7, <2>8 DEF On
  <2>10. /\ c.index + 1 \in 1..(Len(M) - 1) /\ M[c.index + 1] = s
         /\ \A k \in 1..(Len(M) - 1) : k # c.index + 1 => k \in 1..(Len(L) - 1) /\ M[k] = L[k]
    BY <1>1, <1>2, <2>1, <2>2, <2>3
  <2>11. GoesOn(L, M, S, nodes, c, d)
    BY <1>2, <1>5, <2>2, <2>3, <2>9, <2>10 DEF GoesOn
  <2> QED BY <2>11
<1> QED BY <1>4, <1>5

-----------------------------------------------------------------------------
(* What Encode puts into a field of fixed size.                              *)

\* A value that a field of its type and size holds, and its bytes.
Suits(n, v) ==
  IF Text(n) THEN v.t = "string" /\ Len(v.b) = n.size
             ELSE IsNumber(v) /\ Shifted(v.n)[8 * n.size] = 0
Image(n, v) == IF Text(n) THEN v.b ELSE IntBytes(v.n, n.size, n.order)

Put(c, d, bytes) ==
  /\ Follows(c, d) /\ d.pc = c.pc /\ (d.exact => c.exact) /\ bytes \in Data
  /\ d.data = IF c.round = 0 THEN c.data \o bytes
                             ELSE Overwrite(c.data, c.offsets[c.index], bytes)

\* What is known of a field.
LEMMA FixedField ==
  ASSUME NEW S \in SUBSET Nodes, \A m \in S : FixedNode(m, S), NEW n \in S, n.kind = "bytes"
  PROVE  /\ n \in Nodes /\ n.flow = "" /\ n.size \in Nat /\ n.size > 0 /\ n.bits = 0
         /\ n.sizeExpr.on = "none" /\ n.check.on = "none" /\ ~HasCrc(n) /\ n \notin Resizable
         /\ n.round \in Nat /\ n.round <= Rounds /\ n.type \in {"hex", "string", "int", "uint"}
         /\ (~Text(n) => n.type \in {"int", "uint"} /\ n.size \in 1..8)
<1>1. FixedNode(n, S) /\ n \in Nodes
  OBVIOUS
<1>2. n.size \in Int /\ n.round \in Nat
  BY <1>1, NodesAssumption
<1>3. /\ n.flow = "" /\ n.size > 0 /\ n.bits = 0 /\ n.sizeExpr.on = "none" /\ n.check.on = "none"
      /\ ~HasCrc(n) /\ n.round <= Rounds
      /\ Text(n) \/ (n.type \in {"int", "uint"} /\ n.size <= 8)
  BY <1>1 DEF FixedNode
<1>4. n \notin Resizable
  <2>1. n.bits = 0
    BY <1>3, Zenon
  <2>2. ~(n.bits > 0)
    BY <2>1
  <2> QED BY <2>2, Zenon DEF Resizable
<1>5. n.size \in Nat /\ (n.size <= 8 => n.size \in 1..8)
  <2>1. n.size \in Int /\ n.size > 0
    BY <1>2, <1>3, Zenon
  <2> QED BY <2>1
<1>6. n.type \in {"hex", "string", "int", "uint"}
  BY <1>3 DEF Text
<1> QED BY <1>1, <1>2, <1>3, <1>4, <1>5, <1>6

LEMMA ImageTyped ==
  ASSUME NEW S \in SUBSET Nodes, \A n \in S : FixedNode(n, S), NEW n \in S, n.kind = "bytes",
         NEW v, v.n \in Int, v.b \in Data, Suits(n, v)
  PROVE  Image(n, v) \in Data /\ Len(Image(n, v)) = n.size
<1>1. CASE Text(n)
  BY <1>1 DEF Image, Suits
<1>2. CASE ~Text(n)
  <2>1. n.size \in Int
    BY NodesAssumption
  <2>2. n.size > 0 /\ n.size <= 8
    BY <1>2 DEF FixedNode
  <2>3. n.size \in 0..8
    BY <2>1, <2>2
  <2> QED BY <1>2, <2>3, IntBytesSized DEF Image
<1> QED BY <1>1, <1>2

LEMMA BytesPut ==
  ASSUME NEW c, Ready(c), NEW n, NEW bytes \in Data, NEW computed
  PROVE  LET d == WriteBytes(c, n, bytes, computed)
         IN  Put(c, d, bytes) /\ d.exact = c.exact
<1> DEFINE at == IF c.round = 0 THEN Len(c.data) ELSE c.offsets[c.index]
           data == IF c.round = 0 THEN c.data \o bytes
                   ELSE Overwrite(c.data, c.offsets[c.index], bytes)
           log == c.log \cup {[node |-> n, round |-> c.round, index |-> c.index, at |-> at,
                               len |-> Len(bytes), computed |-> computed]}
           d == WriteBytes(c, n, bytes, computed)
<1>1. c.round \in Nat /\ Len(c.offsets) \in Nat /\ c.index \in 1..Len(c.offsets)
  BY LenProperties DEF Ready
<1>2. ~(c.round > 0 /\ c.index > Len(c.offsets))
  BY <1>1
<1>3. d = [c EXCEPT !.data = IF c.round = 0 THEN @ \o bytes ELSE Overwrite(@, at, bytes),
                    !.log = log]
  BY <1>2 DEF WriteBytes
<1> HIDE DEF log, d
<1>4. d = [c EXCEPT !.data = data, !.log = log]
  <2>1. CASE c.round = 0
    BY <1>3, <2>1
  <2>2. CASE c.round # 0
    BY <1>3, <2>2
  <2> QED BY <2>1, <2>2
<1> HIDE DEF data
<1>5. /\ IsContext(d) /\ d.todo = c.todo /\ d.fields = c.fields /\ d.packetLen = c.packetLen
      /\ d.marks = c.marks /\ d.round = c.round /\ d.index = c.index /\ d.offsets = c.offsets
      /\ d.seen = c.seen /\ d.pc = c.pc /\ d.exact = c.exact /\ d.data = data
  BY <1>4 DEF Ready, IsContext, ContextFields
<1>6. Put(c, d, bytes)
  BY <1>5 DEF Put, Follows, data
<1> QED BY <1>5, <1>6 DEF d

\* A value that may not be exact.
LEMMA ValuePut ==
  ASSUME NEW c, Ready(c), NEW n, NEW bytes \in Data, NEW computed, NEW x
  PROVE  LET d == WriteBytes([c EXCEPT !.exact = c.exact /\ x], n, bytes, computed)
         IN  Put(c, d, bytes) /\ (d.exact => x)
<1> DEFINE exact == c.exact /\ x
           b == [c EXCEPT !.exact = exact]
           d == WriteBytes(b, n, bytes, computed)
<1>1. (exact => c.exact) /\ (exact => x)
  OBVIOUS
<1>2. b.exact = exact /\ Passed(c, b) /\ Ready(b)
  <2> HIDE DEF exact
  <2> QED BY ExactFollows DEF Ready, IsContext, ContextFields
<1> HIDE DEF exact, b
<1>3. Put(b, d, bytes) /\ d.exact = b.exact
  BY <1>2, BytesPut
<1> HIDE DEF d
<1>4. Put(c, d, bytes)
  BY <1>1, <1>2, <1>3 DEF Passed, Follows, Put
<1> QED BY <1>1, <1>2, <1>3, <1>4 DEF d, b, exact

\* BytesNode.Encode on such a field.
Filling(c, d, n) ==
  \/ Stopped(c, d)
  \/ c.round > n.round /\ d = c
  \/ /\ ~(c.round > n.round)
     /\ \E bytes : /\ Put(c, d, bytes) /\ Len(bytes) = n.size
                   /\ c.round = n.round /\ d.exact /\ n.name \in DOMAIN c.fields =>
                        Suits(n, c.fields[n.name]) /\ bytes = Image(n, c.fields[n.name])

LEMMA FixedValue ==
  ASSUME NEW S \in SUBSET Nodes, \A n \in S : FixedNode(n, S), NEW n \in S, n.kind = "bytes",
         resized \subseteq Resizable,
         NEW c, Ready(c), Counted(c), c.round = n.round,
         NEW d, d = EncodeValue(c, n, n.size)
  PROVE  Filling(c, d, n)
<1> DEFINE v == c.fields[n.name]
<1>0. /\ n.size \in Nat /\ n.size > 0 /\ ~HasCrc(n) /\ n.round \in Nat /\ n \notin Resizable
      /\ n.type \in {"hex", "string", "int", "uint"} /\ n \in Nodes
      /\ (~Text(n) => n.type \in {"int", "uint"} /\ n.size \in 1..8)
  BY FixedField
<1>1. n.pad.byte \in Byte /\ n.default \in Data /\ n.name \in Seq(STRING)
  BY <1>0, NodesAssumption DEF Data
<1> DEFINE yes == TRUE
<1> HIDE DEF yes
<1>2. TypeOf(n) = n.type
  BY <1>0 DEF TypeOf
<1>3. ~(c.round > n.round) /\ IsContext(c)
  BY <1>0 DEF Ready
<1>4. SUFFICES \/ Stopped(c, d)
               \/ \E bytes : /\ Put(c, d, bytes) /\ Len(bytes) = n.size
                             /\ d.exact /\ n.name \in DOMAIN c.fields =>
                                  Suits(n, v) /\ bytes = Image(n, v)
  BY <1>3 DEF Filling
<1>5. CASE n.name \in DOMAIN c.fields
  <2>1. HasField(c.fields, n.name) /\ GetField(c.fields, n.name) = v
    <3>1. IsPrefix(n.name, n.name)
      BY <1>1, LenProperties DEF IsPrefix
    <3> QED BY <1>5, <3>1 DEF HasField, GetField
  <2>2. d = Write(c, n, n.type, v, n.size)
    BY <1>0, <1>2, <2>1 DEF EncodeValue
  <2>3. v.n \in Int /\ v.b \in Data
    BY <1>5 DEF Counted, Filled, Numbered
  <2>4. CASE Text(n)
    <3> DEFINE bytes == ResizeBytes(v.b, n.size, n.pad)
               x == bytes = v.b
    <3>1. d = IF v.t # "string" THEN Fail(c)
              ELSE WriteBytes([c EXCEPT !.exact = c.exact /\ x], n, bytes, yes)
      BY <2>2, <2>4 DEF yes, Write, WriteString, Text
    <3>2. bytes \in Data /\ Len(bytes) = n.size
      BY <1>0, <1>1, <2>3, ResizedBytes
    <3> HIDE DEF bytes, x
    <3>3. CASE v.t # "string"
      BY <1>3, <3>1, <3>3, FailStops
    <3>4. CASE v.t = "string"
      <4>1. Put(c, d, bytes) /\ (d.exact => x)
        BY <3>1, <3>2, <3>4, ValuePut
      <4>2. d.exact => Suits(n, v) /\ bytes = Image(n, v)
        BY <2>4, <3>2, <3>4, <4>1 DEF x, Suits, Image
      <4> QED BY <3>2, <4>1, <4>2
    <3> QED BY <3>3, <3>4
  <2>5. CASE ~Text(n)
    <3> DEFINE bytes == IntBytes(v.n, n.size, n.order)
               x == Shifted(v.n)[8 * n.size] = 0
    <3>0. n.type \in {"int", "uint"}
      BY <1>0, <2>5
    <3>1. n.size \in 0..8
      BY <1>0, <2>5
    <3>2. d = IF ~IsNumber(v) THEN Fail(c)
              ELSE WriteBytes([c EXCEPT !.exact = c.exact /\ x], n, bytes, yes)
      BY <2>2, <3>0, <3>1 DEF yes, Write, WriteInt
    <3>3. bytes \in Data /\ Len(bytes) = n.size
      BY <2>3, <3>1, IntBytesSized
    <3> HIDE DEF bytes, x
    <3>4. CASE ~IsNumber(v)
      BY <1>3, <3>2, <3>4, FailStops
    <3>5. CASE IsNumber(v)
      <4>1. Put(c, d, bytes) /\ (d.exact => x)
        BY <3>2, <3>3, <3>5, ValuePut
      <4>2. d.exact => Suits(n, v) /\ bytes = Image(n, v)
        BY <2>5, <3>5, <4>1 DEF x, bytes, Suits, Image
      <4> QED BY <3>3, <4>1, <4>2
    <3> QED BY <3>4, <3>5
  <2> QED BY <2>4, <2>5
<1>6. CASE n.name \notin DOMAIN c.fields /\ HasField(c.fields, n.name)
  <2> DEFINE w == GetField(c.fields, n.name)
  <2>1. w.t = "map"
    BY <1>6 DEF GetField, Value
  <2>2. d = Write(c, n, n.type, w, n.size)
    BY <1>0, <1>2, <1>6 DEF EncodeValue
  <2> HIDE DEF w
  <2>3. n.type \in {"hex", "string", "int", "uint"}
    BY <1>0
  <2>4. d = Fail(c)
    BY <2>1, <2>2, <2>3 DEF Write, WriteString, WriteInt, IsNumber
  <2> QED BY <1>3, <2>4, FailStops
<1>7. CASE ~HasField(c.fields, n.name) /\ n.name \notin DOMAIN c.fields /\ n.hasDefault
  <2> DEFINE x == Len(Default(n)) = n.size
  <2>1. d = WriteBytes([c EXCEPT !.exact = c.exact /\ x], n, Default(n), yes)
    BY <1>0, <1>7 DEF yes, EncodeValue
  <2>2. Default(n) \in Data /\ Len(Default(n)) = n.size
    <3>1. [byte |-> 0, left |-> FALSE].byte \in Byte
      BY ByteIsNat
    <3> QED BY <1>0, <1>1, <3>1, ResizedBytes DEF Default
  <2> HIDE DEF x
  <2>3. Put(c, d, Default(n))
    BY <2>1, <2>2, ValuePut
  <2> QED BY <1>7, <2>2, <2>3
<1>8. CASE ~HasField(c.fields, n.name) /\ n.name \notin DOMAIN c.fields /\ ~n.hasDefault
  <2> DEFINE bytes == [i \in 1..n.size |-> 0]
  <2>1. bytes \in Data /\ Len(bytes) = n.size
    BY <1>0, ByteIsNat DEF Data
  <2>2. d = WriteBytes(c, n, bytes, yes)
    <3>1. ~(n.size < 0)
      BY <1>0
    <3>2. d = WritePlaceholder(c, n, n.size, yes)
      BY <1>0, <1>8 DEF yes, EncodeValue
    <3> QED BY <3>1, <3>2 DEF WritePlaceholder
  <2> HIDE DEF bytes
  <2>3. Put(c, d, bytes)
    BY <2>1, <2>2, BytesPut
  <2> QED BY <1>8, <2>1, <2>3
<1> QED BY <1>5, <1>6, <1>7, <1>8

LEMMA FixedWrite ==
  ASSUME NEW S \in SUBSET Nodes, \A n \in S : FixedNode(n, S), NEW n \in S, n.kind = "bytes",
         resized \subseteq Resizable,
         NEW c, Ready(c), Counted(c), NEW x,
         NEW d, LET size == GetSize(SizeOf(n), n.sizeExpr, c)
                IN  d = IF size = Result(0) THEN [c EXCEPT !.exact = x]
                        ELSE Scheduled(c, n, size, EncodeValue)
  PROVE  Filling(c, d, n)
<1> DEFINE size == GetSize(SizeOf(n), n.sizeExpr, c)
<1>0. /\ n.size \in Nat /\ n.size > 0 /\ n.round \in Nat /\ n \notin Resizable
      /\ n.sizeExpr.on = "none"
  BY FixedField
<1>1. n.size \in Nat /\ n.size > 0 /\ n.round \in Nat /\ c.round \in Nat /\ ~(n.size < 0)
  BY <1>0 DEF Ready
<1> DEFINE no == FALSE
<1> HIDE DEF no
<1>2. size = Result(n.size)
  BY <1>0 DEF GetSize, SizeOf
<1>3. size # Result(0) /\ size.ok /\ size.n = n.size
  BY <1>1, <1>2 DEF Result
<1> HIDE DEF size
<1>4. d = Scheduled(c, n, size, EncodeValue)
  BY <1>3 DEF size
<1>5. CASE c.round > n.round
  <2>1. d = c
    BY <1>3, <1>4, <1>5 DEF Scheduled
  <2> QED BY <1>5, <2>1 DEF Filling
<1>6. CASE c.round < n.round
  <2> DEFINE bytes == [i \in 1..n.size |-> 0]
  <2>1. bytes \in Data /\ Len(bytes) = n.size
    BY <1>1, ByteIsNat DEF Data
  <2>2. ~(c.round > n.round) /\ c.round # n.round
    BY <1>1, <1>6
  <2>3. d = WriteBytes(c, n, bytes, no)
    BY <1>1, <1>3, <1>4, <1>6, <2>2 DEF no, Scheduled, WritePlaceholder
  <2> HIDE DEF bytes
  <2>4. Put(c, d, bytes)
    BY <2>1, <2>3, BytesPut
  <2> QED BY <2>1, <2>2, <2>4 DEF Filling
<1>7. CASE c.round = n.round
  <2>1. d = EncodeValue(c, n, n.size)
    BY <1>1, <1>3, <1>4, <1>7 DEF Scheduled
  <2> QED BY <1>7, <2>1, FixedValue
<1> QED BY <1>1, <1>5, <1>6, <1>7

-----------------------------------------------------------------------------
(* What has been written stays.                                              *)

Lies(data, at, bytes) == \A i \in 1..Len(bytes) : data[at + i] = bytes[i]
Touches(c, d, at, width) ==
  \A i \in 1..Len(c.data) : i \notin (at + 1)..(at + width) => d.data[i] = c.data[i]

\* A field holds the value of its name, if there is one.
Carries(n, f, data, at) ==
  n.kind = "bytes" /\ n.name \in DOMAIN f =>
    Suits(n, f[n.name]) /\ Lies(data, at, Image(n, f[n.name]))
Due(c, k, n) == n.round < c.round \/ (n.round = c.round /\ k <= c.index)
Kept(L, c) ==
  c.exact => \A k \in 1..(Len(L) - 1) :
               Due(c, k, Head(L[k].todo)) => Carries(Head(L[k].todo), c.fields, c.data, L[k].at)

\* Bytes are put at a place, and nowhere else.
LEMMA PutWithin ==
  ASSUME NEW c, Ready(c), NEW d, NEW bytes, Put(c, d, bytes),
         NEW at \in Nat, c.round = 0 => at = Len(c.data),
         c.round # 0 => at = c.offsets[c.index] /\ at + Len(bytes) <= Len(c.data)
  PROVE  /\ Lies(d.data, at, bytes) /\ Touches(c, d, at, Len(bytes)) /\ d.data \in Data
         /\ Len(d.data) = IF c.round = 0 THEN Len(c.data) + Len(bytes) ELSE Len(c.data)
<1>1. /\ c.data \in Data /\ bytes \in Data /\ Len(c.data) \in Nat /\ Len(bytes) \in Nat
      /\ DOMAIN c.data = 1..Len(c.data) /\ DOMAIN bytes = 1..Len(bytes)
  BY LenProperties DEF Ready, Put, Data
<1>2. CASE c.round = 0
  <2>1. d.data = c.data \o bytes /\ at = Len(c.data)
    BY <1>2 DEF Put
  <2>2. /\ d.data \in Data /\ Len(d.data) = Len(c.data) + Len(bytes)
        /\ \A i \in 1..Len(d.data) : d.data[i] = IF i <= Len(c.data) THEN c.data[i]
                                                 ELSE bytes[i - Len(c.data)]
    BY <1>1, <2>1, ConcatProperties DEF Data
  <2>3. Lies(d.data, at, bytes)
    <3> SUFFICES ASSUME NEW i \in 1..Len(bytes) PROVE d.data[at + i] = bytes[i]
      BY DEF Lies
    <3>1. at + i \in 1..Len(d.data) /\ ~(at + i <= Len(c.data)) /\ (at + i) - Len(c.data) = i
      BY <1>1, <2>1, <2>2
    <3> QED BY <2>2, <3>1
  <2>4. Touches(c, d, at, Len(bytes))
    <3> SUFFICES ASSUME NEW i \in 1..Len(c.data) PROVE d.data[i] = c.data[i]
      BY DEF Touches
    <3>1. i \in 1..Len(d.data) /\ i <= Len(c.data)
      BY <1>1, <2>2
    <3> QED BY <2>2, <3>1
  <2> QED BY <1>2, <2>2, <2>3, <2>4
<1>3. CASE c.round # 0
  <2>1. d.data = Overwrite(c.data, at, bytes)
    BY <1>3 DEF Put
  <2>2. d.data \in Data /\ Len(d.data) = Len(c.data)
    BY <1>1, <2>1, OverwriteTyped
  <2>3. \A i \in 1..Len(c.data) : d.data[i] = IF i - at \in 1..Len(bytes) THEN bytes[i - at]
                                              ELSE c.data[i]
    BY <1>1, <2>1 DEF Overwrite
  <2>4. Lies(d.data, at, bytes)
    <3> SUFFICES ASSUME NEW i \in 1..Len(bytes) PROVE d.data[at + i] = bytes[i]
      BY DEF Lies
    <3>1. at + i \in 1..Len(c.data) /\ (at + i) - at = i
      BY <1>1, <1>3
    <3> QED BY <2>3, <3>1
  <2>5. Touches(c, d, at, Len(bytes))
    <3> SUFFICES ASSUME NEW i \in 1..Len(c.data), i \notin (at + 1)..(at + Len(bytes))
                 PROVE  d.data[i] = c.data[i]
      BY DEF Touches
    <3>1. i - at \notin 1..Len(bytes)
      BY <1>1
    <3> QED BY <2>3, <3>1
  <2> QED BY <1>3, <2>2, <2>4, <2>5
<1> QED BY <1>2, <1>3

\* A spot that has been left: its field is there, and ends before the end.
LEMMA SpotTyped ==
  ASSUME NEW S \in SUBSET Nodes, \A m \in S : FixedNode(m, S), NEW nodes,
         NEW L, Laid(L, S, nodes), NEW k \in 1..(Len(L) - 1)
  PROVE  /\ Len(L) \in Nat /\ k \in 1..Len(L) /\ k + 1 \in 1..Len(L) /\ Len(L) \in 1..Len(L)
         /\ L[k].todo # <<>> /\ L[k] \in Spots(S) /\ Head(L[k].todo) \in S
         /\ L[k].at \in Nat /\ L[Len(L)].at \in Nat /\ Width(Head(L[k].todo)) \in Nat
         /\ L[k].at + Width(Head(L[k].todo)) <= L[Len(L)].at
         /\ L[k + 1] = After(L[k])
<1>1. L \in Seq(Spots(S)) /\ Len(L) \in Nat
  BY LenProperties DEF Laid
<1>2. k \in 1..Len(L) /\ k + 1 \in 1..Len(L) /\ Len(L) \in 1..Len(L) /\ k < Len(L)
  BY <1>1
<1>3. L[k] \in Spots(S) /\ L[Len(L)] \in Spots(S)
  BY <1>1, <1>2, ElementOfSeq
<1>4. L[k].todo # <<>> /\ L[k + 1] = After(L[k])
  BY DEF Laid
<1>5. Head(L[k].todo) \in S
  BY <1>3, <1>4, AfterTyped
<1>6. Width(Head(L[k].todo)) \in Nat
  BY <1>5, WidthTyped
<1>7. L[k].at + Width(Head(L[k].todo)) <= L[Len(L)].at
  BY <1>2 DEF Laid
<1> QED BY <1>1, <1>2, <1>3, <1>4, <1>5, <1>6, <1>7 DEF Spots

LEMMA KeptGoesOn ==
  ASSUME NEW S \in SUBSET Nodes, \A m \in S : FixedNode(m, S), NEW nodes,
         NEW L, Laid(L, S, nodes), NEW c, On(L, c), Kept(L, c), Filled(c.fields), c.data \in Data,
         c.round \in Nat, NEW M, NEW d, GoesOn(L, M, S, nodes, c, d), NEW n, n = Head(c.todo),
         d.round = c.round, d.index = c.index + 1, d.fields = c.fields, d.exact => c.exact,
         Touches(c, d, M[c.index + 1].at, Width(n)),
         d.exact /\ n.kind = "bytes" /\ n.round = c.round =>
           Carries(n, c.fields, d.data, M[c.index + 1].at),
         n.kind = "bytes" /\ n.round < c.round => d.data = c.data
  PROVE  Kept(M, d)
<1>0. /\ Laid(M, S, nodes) /\ c.index + 1 \in 1..(Len(M) - 1) /\ M[c.index + 1].todo = c.todo
      /\ \A k \in 1..(Len(M) - 1) : k # c.index + 1 => k \in 1..(Len(L) - 1) /\ M[k] = L[k]
      /\ (c.round # 0 => M = L)
  BY DEF GoesOn
<1>1. c.index \in Nat /\ Len(L) \in Nat /\ Len(M) \in Nat
  BY <1>0, LenProperties DEF On, Laid
<1>2. SUFFICES ASSUME d.exact, NEW k \in 1..(Len(M) - 1), NEW m, m = Head(M[k].todo),
                      Due(d, k, m), m.kind = "bytes", m.name \in DOMAIN c.fields
               PROVE  Suits(m, c.fields[m.name])
                        /\ Lies(d.data, M[k].at, Image(m, c.fields[m.name]))
  BY DEF Kept, Carries
<1>3. m \in S /\ m \in Nodes /\ m.round \in Nat
  BY <1>0, <1>2, SpotTyped, NodesAssumption
<1>4. CASE k = c.index + 1
  <2>1. m = n
    BY <1>0, <1>2, <1>4
  <2>2. CASE m.round < c.round
    <3>1. c.round # 0
      BY <1>3, <2>2
    <3>2. M = L /\ d.data = c.data
      BY <1>0, <1>2, <2>1, <2>2, <3>1
    <3>3. Due(c, k, m)
      BY <2>2 DEF Due
    <3>4. Carries(m, c.fields, c.data, L[k].at)
      BY <1>2, <3>2, <3>3 DEF Kept
    <3> QED BY <1>2, <3>2, <3>4 DEF Carries
  <2>3. CASE m.round = c.round
    <3>1. Carries(m, c.fields, d.data, M[k].at)
      BY <1>2, <1>4, <2>1, <2>3
    <3> QED BY <1>2, <3>1 DEF Carries
  <2> QED BY <1>2, <2>2, <2>3 DEF Due
<1>5. CASE k # c.index + 1
  <2>1. k \in 1..(Len(L) - 1) /\ M[k] = L[k]
    BY <1>0, <1>5
  <2>2. Due(c, k, m)
    <3>1. k <= c.index + 1 => k <= c.index
      BY <1>1, <1>5
    <3> QED BY <1>2, <3>1 DEF Due
  <2>3. Carries(m, c.fields, c.data, L[k].at)
    BY <1>2, <2>1, <2>2 DEF Kept
  <2> DEFINE bytes == Image(m, c.fields[m.name])
             at == L[k].at
  <2>4. Suits(m, c.fields[m.name]) /\ Lies(c.data, at, bytes)
    BY <1>2, <2>3 DEF Carries
  <2>5. c.fields[m.name].n \in Int /\ c.fields[m.name].b \in Data
    <3>1. Filled(c.fields) /\ m.name \in DOMAIN c.fields
      BY <1>2
    <3> QED BY ONLY <3>1 DEF Filled, Numbered
  <2>6. Len(bytes) = m.size /\ Width(m) = m.size /\ Width(m) \in Nat
    BY <1>2, <1>3, <2>4, <2>5, ImageTyped, WidthTyped
  <2>7. at \in Nat /\ at + Width(m) <= Len(c.data) /\ Len(c.data) \in Nat
    <3>1. at \in Nat /\ at + Width(Head(L[k].todo)) <= L[Len(L)].at
      BY <2>1, SpotTyped
    <3> QED BY <1>2, <2>1, <3>1, LenProperties DEF On, Data
  <2>8. M[c.index + 1].at \in Nat /\ Width(n) \in Nat
    <3>1. M[c.index + 1].at \in Nat /\ Width(Head(M[c.index + 1].todo)) \in Nat
      BY <1>0, SpotTyped
    <3> QED BY <1>0, <3>1
  <2>9. at + Width(m) <= M[c.index + 1].at \/ M[c.index + 1].at + Width(n) <= at
    <3>1. k \in 1..Len(M) /\ c.index + 1 \in 1..Len(M) /\ (k < c.index + 1 \/ c.index + 1 < k)
      BY <1>0, <1>1, <1>5
    <3>2. k < c.index + 1 => M[k].at + Width(Head(M[k].todo)) <= M[c.index + 1].at
      BY <1>0, <3>1 DEF Laid
    <3>3. c.index + 1 < k => M[c.index + 1].at + Width(Head(M[c.index + 1].todo)) <= M[k].at
      BY <1>0, <3>1 DEF Laid
    <3> QED BY <1>0, <1>2, <2>1, <3>1, <3>2, <3>3
  <2> DEFINE there == M[c.index + 1].at
             width == Width(n)
             size == Width(m)
  <2>10. Lies(d.data, at, bytes)
    <3> SUFFICES ASSUME NEW i \in 1..Len(bytes) PROVE d.data[at + i] = bytes[i]
      BY DEF Lies
    <3>1. i \in 1..size /\ at \in Nat /\ there \in Nat /\ width \in Nat /\ size \in Nat
          /\ (at + size <= there \/ there + width <= at) /\ at + size <= Len(c.data)
      BY <2>6, <2>7, <2>8, <2>9
    <3>2. Touches(c, d, there, width)
      OBVIOUS
    <3> HIDE DEF there, width, size, at, bytes
    <3>3. at + i \in 1..Len(c.data) /\ at + i \notin (there + 1)..(there + width)
      BY <2>7, <3>1
    <3>4. d.data[at + i] = c.data[at + i]
      BY <3>2, <3>3 DEF Touches
    <3> QED BY <2>4, <3>4 DEF Lies
  <2> QED BY <2>1, <2>4, <2>10
<1> QED BY <1>4, <1>5

-----------------------------------------------------------------------------
(* Encode keeps the fields where the first round has put them.               *)

Written(L, S, nodes, c) == Laid(L, S, nodes) /\ On(L, c) /\ Kept(L, c)

\* The node that Encode or Decode is at.
LEMMA AtSpot ==
  ASSUME NEW S \in SUBSET Nodes, NEW nodes, NEW L, Laid(L, S, nodes), NEW k \in 1..Len(L),
         NEW todo, todo = L[k].todo, todo # <<>>
  PROVE  Head(todo) \in S /\ Tail(todo) \in Seq(S) /\ L[k].at \in Nat
<1>1. L[k] \in Spots(S)
  BY ElementOfSeq DEF Laid
<1>2. todo \in Seq(S) /\ L[k].at \in Nat
  BY <1>1 DEF Spots
<1> QED BY <1>2, HeadTailProperties

LEMMA EnterExact == ASSUME NEW c, IsContext(c), NEW n PROVE Enter(c, n).exact = c.exact
  BY DEF IsContext, ContextFields, Enter

LEMMA PutLength ==
  ASSUME NEW c, Ready(c), NEW d, NEW bytes, Put(c, d, bytes)
  PROVE  Len(d.data) = IF c.round = 0 THEN Len(c.data) + Len(bytes) ELSE Len(c.data)
<1>1. c.data \in Data /\ bytes \in Data
  BY DEF Ready, Put
<1>2. CASE c.round = 0
  BY <1>1, <1>2, ConcatProperties DEF Put, Data
<1>3. CASE c.round # 0
  <2>1. c.offsets[c.index] \in Int
    BY ElementOfSeq DEF Ready
  <2> QED BY <1>1, <1>3, <2>1, OverwriteTyped DEF Put
<1> QED BY <1>2, <1>3

\* A field has been passed, reserved or written.
LEMMA FieldWritten ==
  ASSUME NEW S \in SUBSET Nodes, FixedNodes(S), NEW c, NEW R, Sound(c, R), NEW q, Running(c, R, q),
         c.pc = "run", NEW L, Written(L, S, protocol.nodes, c), c.todo # <<>>,
         NEW n, n = Head(c.todo), n.kind = "bytes", NEW b, b = Enter(c, n),
         NEW d, Filling(b, d, n)
  PROVE  \/ d.pc \in {"failed", "panicked"}
         \/ d.pc = "run" /\ d.fields = c.fields /\ \E M : Written(M, S, protocol.nodes, d)
<1> DEFINE k == c.index + 1
<1>1. /\ IsContext(c) /\ c.data \in Data /\ c.round \in Nat /\ c.offsets \in Seq(Nat)
      /\ Filled(c.fields) /\ Laid(L, S, protocol.nodes) /\ On(L, c) /\ Kept(L, c)
      /\ \A m \in S : FixedNode(m, S)
  BY DEF Sound, Running, Counted, Written, FixedNodes
<1>2. n \in S
  <2>1. c.index + 1 \in 1..Len(L) /\ c.todo = L[c.index + 1].todo
    BY <1>1, LenProperties DEF On, Laid
  <2> QED BY <1>1, <2>1, AtSpot
<1>3. n.size \in Nat /\ n.round \in Nat /\ n.flow = "" /\ Width(n) = n.size
  BY <1>1, <1>2, FixedField DEF Width
<1>4. Ready(b) /\ Counted(b)
  <2>1. MatchFlow(n, "encode") /\ Leaf(n)
    BY <1>3 DEF MatchFlow, Leaf
  <2> QED BY <2>1, LeafEntered
<1>5. /\ b.todo = Tail(c.todo) /\ b.index = c.index + 1 /\ b.pc = "run" /\ b.fields = c.fields
      /\ b.data = c.data /\ b.round = c.round /\ b.exact = c.exact
      /\ b.offsets = IF c.round = 0 THEN Append(c.offsets, Len(c.data)) ELSE c.offsets
  BY <1>1, EnterContext, EnterExact
<1>6. CASE Stopped(b, d)
  BY <1>6 DEF Stopped
<1>7. CASE b.round > n.round /\ d = b
  <2>1. c.round # 0
    <3>1. n.round \in Nat /\ c.round > n.round
      BY <1>3, <1>5, <1>7, Zenon
    <3> QED BY <3>1
  <2>2. Entering(c, d, n)
    BY <1>5, <1>7, <2>1 DEF Entering
  <2>3. PICK M : GoesOn(L, M, S, protocol.nodes, c, d)
    BY <1>1, <2>2, OnStep
  <2>4. Touches(c, d, M[c.index + 1].at, Width(n)) /\ ~(n.round = c.round) /\ d.data = c.data
    <3>1. d.data = c.data /\ n.round \in Nat /\ c.round > n.round
      BY <1>3, <1>5, <1>7, Zenon
    <3>2. ~(n.round = c.round)
      BY <3>1
    <3> QED BY <3>1, <3>2 DEF Touches
  <2>5. d.round = c.round /\ d.index = c.index + 1 /\ d.fields = c.fields /\ d.exact = c.exact
    BY <1>5, <1>7
  <2>6. Kept(M, d)
    BY <1>1, <2>3, <2>4, <2>5, KeptGoesOn
  <2> QED BY <1>5, <1>7, <2>3, <2>6 DEF Written, GoesOn
<1>8. CASE /\ ~(b.round > n.round)
           /\ \E bytes : /\ Put(b, d, bytes) /\ Len(bytes) = n.size
                         /\ b.round = n.round /\ d.exact /\ n.name \in DOMAIN b.fields =>
                              Suits(n, b.fields[n.name]) /\ bytes = Image(n, b.fields[n.name])
  <2>1. PICK bytes :
          /\ Put(b, d, bytes) /\ Len(bytes) = n.size
          /\ b.round = n.round /\ d.exact /\ n.name \in DOMAIN b.fields =>
               Suits(n, b.fields[n.name]) /\ bytes = Image(n, b.fields[n.name])
    BY <1>8
  <2>2. /\ d.todo = b.todo /\ d.fields = c.fields /\ d.round = c.round /\ d.index = c.index + 1
        /\ d.offsets = b.offsets /\ d.pc = "run" /\ (d.exact => c.exact)
    BY <1>5, <2>1 DEF Put, Follows
  <2>3. Len(d.data) = IF c.round = 0 THEN Len(c.data) + Width(n) ELSE Len(c.data)
    <3>1. Len(d.data) = IF b.round = 0 THEN Len(b.data) + Len(bytes) ELSE Len(b.data)
      BY <1>4, <2>1, PutLength
    <3>2. Len(bytes) = Width(n) /\ b.round = c.round /\ b.data = c.data
      BY <1>3, <1>5, <2>1
    <3> QED BY <3>1, <3>2, Zenon
  <2>4. Entering(c, d, n)
    BY <1>5, <2>2, <2>3 DEF Entering
  <2>5. PICK M : GoesOn(L, M, S, protocol.nodes, c, d)
    BY <1>1, <2>4, OnStep
  <2> DEFINE at == M[c.index + 1].at
  <2>6. at \in Nat /\ at + Width(n) <= Len(d.data)
    <3>1. /\ M[c.index + 1].at \in Nat
          /\ M[c.index + 1].at + Width(Head(M[c.index + 1].todo)) <= M[Len(M)].at
      BY <1>1, <2>5, SpotTyped DEF GoesOn
    <3>2. M[Len(M)].at = Len(d.data)
      BY <2>5 DEF GoesOn, On
    <3>3. Head(M[c.index + 1].todo) = n
      BY <2>5 DEF GoesOn
    <3> QED BY <3>1, <3>2, <3>3
  <2>7. at = b.offsets[b.index]
    BY <1>5, <2>2, <2>5 DEF GoesOn, On
  <2>8. /\ b.round = 0 => at = Len(b.data)
        /\ b.round # 0 => at = b.offsets[b.index] /\ at + Len(bytes) <= Len(b.data)
    BY <1>3, <1>5, <2>1, <2>3, <2>5, <2>6, <2>7 DEF GoesOn
  <2>9. Lies(d.data, at, bytes) /\ Touches(b, d, at, Len(bytes))
    <3> HIDE DEF at
    <3> QED BY <1>4, <2>1, <2>6, <2>8, PutWithin
  <2>10. Touches(c, d, at, Width(n))
    BY <1>3, <1>5, <2>1, <2>9 DEF Touches
  <2>11. d.exact /\ n.kind = "bytes" /\ n.round = c.round => Carries(n, c.fields, d.data, at)
    BY <1>5, <2>1, <2>9 DEF Carries
  <2>12. ~(n.round < c.round)
    BY <1>3, <1>5, <1>8
  <2>13. Kept(M, d)
    BY <1>1, <2>2, <2>5, <2>10, <2>11, <2>12, KeptGoesOn
  <2> QED BY <2>2, <2>5, <2>13 DEF Written, GoesOn
<1> QED BY <1>6, <1>7, <1>8 DEF Filling

\* The nodes of a structure come next.
LEMMA StructureEntered ==
  ASSUME NEW S \in SUBSET Nodes, FixedNodes(S), NEW c, NEW R, Sound(c, R), NEW q, Running(c, R, q),
         c.pc = "run", NEW L, Written(L, S, protocol.nodes, c), c.todo # <<>>,
         NEW n, n = Head(c.todo), n.kind = "struct", NEW b, b = Enter(c, n),
         NEW d, d = GroupStep(n, b)
  PROVE  d.pc = "run" /\ d.fields = c.fields /\ \E M : Written(M, S, protocol.nodes, d)
<1>1. /\ IsContext(c) /\ c.data \in Data /\ c.round \in Nat /\ c.offsets \in Seq(Nat)
      /\ Filled(c.fields) /\ Laid(L, S, protocol.nodes) /\ On(L, c) /\ Kept(L, c)
      /\ \A m \in S : FixedNode(m, S)
  BY DEF Sound, Running, Counted, Written, FixedNodes
<1>2. /\ b.todo = Tail(c.todo) /\ b.index = c.index + 1 /\ b.pc = "run" /\ b.fields = c.fields
      /\ b.data = c.data /\ b.round = c.round /\ b.exact = c.exact /\ IsContext(b)
      /\ b.offsets = IF c.round = 0 THEN Append(c.offsets, Len(c.data)) ELSE c.offsets
  BY <1>1, EnterContext, EnterExact
<1>3. d = [b EXCEPT !.todo = n.then \o Tail(c.todo)]
  <2>1. Children(n, b) = [ok |-> TRUE, nodes |-> n.then]
    BY DEF Children, Group
  <2>2. Children(n, b).ok /\ Children(n, b).nodes = n.then
    BY <2>1
  <2> QED BY <1>2, <2>2 DEF GroupStep
<1>4. /\ d.todo = n.then \o Tail(c.todo) /\ d.index = c.index + 1 /\ d.pc = "run"
      /\ d.fields = c.fields /\ d.data = c.data /\ d.round = c.round /\ d.exact = c.exact
      /\ d.offsets = IF c.round = 0 THEN Append(c.offsets, Len(c.data)) ELSE c.offsets
  BY <1>2, <1>3 DEF IsContext, ContextFields
<1>5. Len(c.data) \in Nat
  BY <1>1, LenProperties DEF Data
<1>6. Entering(c, d, n)
  <2>1. Width(n) = 0 /\ n.kind # "bytes"
    BY DEF Width
  <2>2. Len(d.data) = IF c.round = 0 THEN Len(c.data) + Width(n) ELSE Len(c.data)
    BY <1>4, <1>5, <2>1
  <2> QED BY <1>4, <2>1, <2>2 DEF Entering
<1>7. PICK M : GoesOn(L, M, S, protocol.nodes, c, d)
  BY <1>1, <1>6, OnStep
<1>8. Touches(c, d, M[c.index + 1].at, Width(n)) /\ n.kind # "bytes"
  BY <1>4 DEF Touches
<1>9. Kept(M, d)
  BY <1>1, <1>4, <1>7, <1>8, KeptGoesOn
<1> QED BY <1>4, <1>7, <1>9 DEF Written, GoesOn

\* At the end of a round every spot has been passed; the next round begins again.
LEMMA RoundPassed ==
  ASSUME NEW S \in SUBSET Nodes, FixedNodes(S), NEW L, NEW c,
         Written(L, S, protocol.nodes, c), c.todo = <<>>,
         c.round \in Nat
  PROVE  c.index = Len(L) - 1 /\ L[Len(L)].todo = <<>> /\ Len(L) \in Nat /\ Len(L) # 0
<1>1. L \in Seq(Spots(S)) /\ Len(L) \in Nat /\ Len(L) # 0 /\ c.index \in 0..(Len(L) - 1)
      /\ L[c.index + 1].todo = <<>>
  BY LenProperties, EmptySeq DEF Written, Laid, On
<1>2. c.index + 1 \notin 1..(Len(L) - 1)
  BY <1>1 DEF Written, Laid
<1>3. c.index = Len(L) - 1 /\ c.index + 1 = Len(L)
  BY <1>1, <1>2
<1> QED BY <1>1, <1>3

LEMMA NextRoundWritten ==
  ASSUME NEW S \in SUBSET Nodes, FixedNodes(S), NEW L, NEW c,
         Written(L, S, protocol.nodes, c), c.todo = <<>>,
         c.round \in Nat, IsContext(c), NEW len, NEW d, d = NextRound(c, protocol, len)
  PROVE  Written(L, S, protocol.nodes, d) /\ d.fields = c.fields
<1>1. c.index = Len(L) - 1 /\ L[Len(L)].todo = <<>> /\ Len(L) \in Nat /\ Len(L) # 0
  BY RoundPassed
<1>2. /\ d.todo = protocol.nodes /\ d.fields = c.fields /\ d.data = c.data
      /\ d.round = c.round + 1 /\ d.index = 0 /\ d.offsets = c.offsets /\ d.exact = c.exact
  BY DEF NextRound, IsContext, ContextFields
<1>3. On(L, d)
  <2>1. L[0 + 1].todo = protocol.nodes /\ 0 \in 0..(Len(L) - 1) /\ d.round # 0
    BY <1>1, <1>2 DEF Written, Laid
  <2> QED BY <1>1, <1>2, <2>1 DEF Written, On
<1>4. Kept(L, d)
  <2> SUFFICES ASSUME d.exact, NEW k \in 1..(Len(L) - 1), NEW m, m = Head(L[k].todo), Due(d, k, m)
               PROVE  Carries(m, d.fields, d.data, L[k].at)
    BY DEF Kept
  <2>1. m \in Nodes
    BY SpotTyped DEF Written, FixedNodes
  <2>2. m.round \in Nat
    BY <2>1, NodesAssumption
  <2>3. Due(c, k, m)
    <3>1. m.round < c.round + 1
      BY <1>1, <1>2 DEF Due
    <3>2. k <= c.index
      BY <1>1
    <3> QED BY <2>2, <3>1, <3>2 DEF Due
  <2> QED BY <1>2, <2>3 DEF Written, Kept
<1> QED BY <1>2, <1>3, <1>4 DEF Written

LEMMA FirstSpot ==
  ASSUME NEW S \in SUBSET Nodes, FixedNodes(S), NEW input, NEW R, NEW d,
         d = Started(protocol, input, R)
  PROVE  d.pc = "run" /\ d.fields = input /\ \E L : Written(L, S, protocol.nodes, d)
<1> DEFINE s == [todo |-> protocol.nodes, at |-> 0]
           L == <<s>>
<1>1. /\ d.pc = "run" /\ d.todo = protocol.nodes /\ d.fields = input
      /\ d.data = <<>> /\ d.round = 0 /\ d.index = 0 /\ d.offsets = <<>>
  BY DEF Started, NoEncode
<1>2. s \in Spots(S) /\ s.todo = protocol.nodes /\ s.at = 0
  BY DEF FixedNodes, Spots
<1> HIDE DEF s
<1>3. L \in Seq(Spots(S)) /\ Len(L) = 1 /\ L[1] = s /\ L # <<>>
  BY <1>2
<1> HIDE DEF L
<1>4. ~(\E k \in 1..(Len(L) - 1) : TRUE) /\ \A j, k \in 1..Len(L) : ~(j < k)
  BY <1>3
<1>5. Laid(L, S, protocol.nodes)
  <2>1. L[1] = [todo |-> protocol.nodes, at |-> 0]
    BY <1>3 DEF s
  <2>2. /\ \A k \in 1..(Len(L) - 1) : L[k].todo # <<>> /\ L[k + 1] = After(L[k])
        /\ \A j, k \in 1..Len(L) : j < k => L[j].at + Width(Head(L[j].todo)) <= L[k].at
    BY <1>4, Zenon
  <2> QED BY <1>3, <2>1, <2>2 DEF Laid
<1>6. On(L, d)
  <2>1. Len(<<>>) = 0 /\ Len(L) - 1 = 0 /\ 0 \in 0..0 /\ 0 + 1 = 1
    BY <1>3
  <2>2. L[Len(L)].at = 0 /\ L[0 + 1].todo = protocol.nodes
    BY <1>2, <1>3, <2>1
  <2>3. \A k \in 1..(Len(L) - 1) : d.offsets[k] = L[k].at
    BY <1>4, Zenon
  <2> QED BY <1>1, <2>1, <2>2, <2>3 DEF On
<1>7. Kept(L, d)
  BY <1>4, Zenon DEF Kept
<1> QED BY <1>1, <1>5, <1>6, <1>7 DEF Written

-----------------------------------------------------------------------------
(* Decode takes the fields where they are.                                   *)

Agree(f, g) == \A path \in DOMAIN f \cap DOMAIN g : f[path].n = g[path].n /\ f[path].b = g[path].b

\* A number has no bytes, and a string no number.
Proper(f) ==
  \A path \in DOMAIN f : /\ IsNumber(f[path]) => f[path].b = <<>>
                         /\ f[path].t = "string" => f[path].n = 0

LEMMA SetAgrees ==
  ASSUME NEW f, NEW g, Agree(f, g), NEW path, NEW v,
         path \in DOMAIN g => v.n = g[path].n /\ v.b = g[path].b
  PROVE  Agree(SetField(f, path, v), g)
<1>1. CASE path = <<>>
  BY <1>1 DEF SetField
<1>2. CASE path # <<>>
  <2> DEFINE kept == {p \in DOMAIN f : ~IsPrefix(p, path) /\ ~IsPrefix(path, p)}
  <2>1. kept \subseteq DOMAIN f
    OBVIOUS
  <2>2. SetField(f, path, v) = [q \in kept \cup {path} |-> IF q = path THEN v ELSE f[q]]
    BY <1>2 DEF SetField
  <2> HIDE DEF kept
  <2> QED BY <2>1, <2>2 DEF Agree
<1> QED BY <1>1, <1>2

\* The bytes that lie at a place.
LEMMA LyingBytes ==
  ASSUME NEW data \in Data, NEW at \in Nat, NEW bytes \in Data, Lies(data, at, bytes),
         NEW size \in Nat, Len(bytes) = size, at + size <= Len(data)
  PROVE  SubSeq(data, at + 1, at + size) = bytes
<1> DEFINE part == SubSeq(data, at + 1, at + size)
<1>1. Len(data) \in Nat
  BY LenProperties DEF Data
<1>2. /\ at + 1 \in 1..(Len(data) + 1) /\ at + size \in ((at + 1) - 1)..Len(data)
      /\ (at + size) - (at + 1) + 1 = size
  BY <1>1
<1>3. /\ part \in Data /\ Len(part) = size
      /\ \A i \in 1..size : part[i] = data[(at + 1) + i - 1]
  BY <1>2, SubSeqProperties DEF Data
<1>4. \A i \in 1..size : part[i] = bytes[i]
  <2> SUFFICES ASSUME NEW i \in 1..size PROVE part[i] = bytes[i]
    OBVIOUS
  <2>1. (at + 1) + i - 1 = at + i
    OBVIOUS
  <2> HIDE DEF part
  <2> QED BY <1>3, <2>1 DEF Lies
<1> HIDE DEF part
<1>5. part = bytes
  BY <1>3, <1>4, SeqEqual DEF Data
<1> QED BY <1>5 DEF part

\* What is read of a field that holds a value has that value.
FieldValue(n, bytes) ==
  IF Text(n) THEN Str(bytes)
  ELSE IF n.type = "int" THEN Int64(BytesToInt(bytes, n.order))
  ELSE Uint(BytesToInt(bytes, n.order))

LEMMA ValueBack ==
  ASSUME NEW S \in SUBSET Nodes, \A m \in S : FixedNode(m, S), NEW n \in S, n.kind = "bytes",
         NEW f, Filled(f), Proper(f), n.name \in DOMAIN f, Suits(n, f[n.name]),
         NEW bytes, bytes = Image(n, f[n.name])
  PROVE  FieldValue(n, bytes).n = f[n.name].n /\ FieldValue(n, bytes).b = f[n.name].b
<1> DEFINE w == f[n.name]
<1>1. w.n \in Int
  BY DEF Filled, Numbered
<1>2. CASE Text(n)
  <2>1. w.t = "string" /\ bytes = w.b
    BY <1>2 DEF Suits, Image
  <2>2. w.n = 0
    BY <2>1 DEF Proper
  <2>3. FieldValue(n, bytes).n = 0 /\ FieldValue(n, bytes).b = bytes
    BY <1>2 DEF FieldValue, Str, Value
  <2> QED BY <2>1, <2>2, <2>3
<1>3. CASE ~Text(n)
  <2>1. IsNumber(w) /\ Shifted(w.n)[8 * n.size] = 0 /\ bytes = IntBytes(w.n, n.size, n.order)
    BY <1>3 DEF Suits, Image
  <2>2. w.b = <<>>
    BY <2>1 DEF Proper
  <2>3. n.size \in 1..8 /\ n.order \in {"big", "little"}
    BY <1>3, FixedField, NodesAssumption
  <2> HIDE DEF w
  <2>4. BytesToInt(bytes, n.order) = w.n
    BY <1>1, <2>1, <2>3, NumbersReadBack
  <2>5. /\ FieldValue(n, bytes).n = BytesToInt(bytes, n.order)
        /\ FieldValue(n, bytes).b = <<>>
    BY <1>3 DEF FieldValue, Int64, Uint, Value
  <2> QED BY <2>2, <2>4, <2>5 DEF w
<1> QED BY <1>2, <1>3

\* BytesNode.Decode on such a field.
Taken(c, d, n) ==
  /\ d.pc = c.pc /\ d.data = c.data /\ d.bit = 0 /\ d.own = c.own /\ d.todo = c.todo
  /\ d.pos = c.pos + n.size
  /\ d.fields = SetField(c.fields, n.name,
                         FieldValue(n, SubSeq(c.data, c.pos + 1, c.pos + n.size)))

LEMMA FieldRead ==
  ASSUME NEW S \in SUBSET Nodes, \A m \in S : FixedNode(m, S), NEW n \in S, n.kind = "bytes",
         NEW c, Decoder(c), c.bit = 0, c.pos + n.size <= Len(c.data),
         NEW d, d = ReadBytes(c, n, n.type, n.size)
  PROVE  Taken(c, d, n)
<1> DEFINE count == IF n.size < 0 THEN Len(c.data) - c.pos ELSE n.size
           size == n.size
           bytes == SubSeq(c.data, c.pos + 1, c.pos + count)
           next == [c EXCEPT !.pos = @ + count, !.used = @ + 8 * count]
           v == IF n.type = "int" THEN Int64(BytesToInt(bytes, n.order))
                                  ELSE Uint(BytesToInt(bytes, n.order))
<1>1. /\ size \in Nat /\ size > 0 /\ n.type \in {"hex", "string", "int", "uint"}
      /\ (~Text(n) => n.type \in {"int", "uint"} /\ size \in 1..8)
  BY FixedField
<1>2. size \in Nat /\ size > 0
  BY <1>1, Zenon
<1>3. count = size /\ ~(size = 0) /\ ~(size < 0)
  BY <1>2
<1>4. ~(c.bit # 0 \/ c.pos + count > Len(c.data))
  <2>1. c.pos \in Nat /\ Len(c.data) \in Nat /\ c.pos + size <= Len(c.data)
    BY LenProperties DEF Decoder, Data
  <2>2. ~(c.pos + size > Len(c.data))
    BY <1>2, <2>1
  <2> QED BY <1>3, <2>2
<1>5. d = IF n.type \in {"hex", "string"} THEN Store(next, n, Str(bytes))
          ELSE IF n.type = "float" \/ count \notin 1..8 THEN Fail(next) ELSE Store(next, n, v)
  BY <1>3, <1>4, Zenon DEF ReadBytes
<1>6. d = Store(next, n, FieldValue(n, bytes))
  <2>1. CASE Text(n)
    <3>1. n.type \in {"hex", "string"} /\ FieldValue(n, bytes) = Str(bytes)
      BY <2>1 DEF Text, FieldValue
    <3> HIDE DEF next, bytes, v, count
    <3> QED BY <1>5, <3>1
  <2>2. CASE ~Text(n)
    <3>1. n.type \notin {"hex", "string"} /\ FieldValue(n, bytes) = v
      BY <2>2 DEF Text, FieldValue
    <3>2. n.type # "float" /\ count \in 1..8
      BY <1>1, <1>3, <2>2
    <3> HIDE DEF next, bytes, v, count
    <3> QED BY <1>5, <3>1, <3>2
  <2> QED BY <2>1, <2>2
<1>7. /\ IsDecoder(next) /\ next.pc = c.pc /\ next.data = c.data /\ next.bit = c.bit
      /\ next.own = c.own /\ next.todo = c.todo /\ next.pos = c.pos + count
      /\ next.fields = c.fields
  <2> HIDE DEF count
  <2> QED BY DEF Decoder, IsDecoder, DecoderFields
<1> DEFINE w == FieldValue(n, bytes)
<1> HIDE DEF next, w
<1>8. /\ d.pc = next.pc /\ d.data = next.data /\ d.bit = next.bit /\ d.own = next.own
      /\ d.todo = next.todo /\ d.pos = next.pos /\ d.fields = SetField(next.fields, n.name, w)
  <2>1. d = [next EXCEPT !.fields = SetField(@, n.name, w)]
    BY <1>6 DEF Store, w
  <2> QED BY <1>7, <2>1 DEF IsDecoder, DecoderFields
<1> HIDE DEF count
<1> QED BY <1>3, <1>7, <1>8 DEF w, Taken

-----------------------------------------------------------------------------
(* A packet of fixed fields comes back.                                      *)

\* What holds of the Context e of Encode, over the protocol q with this last round.
EncodeKept(S, q, last, e) ==
  e.pc \in {"run", "done"} =>
    /\ e.fields \in q.inputs
    /\ \E L : Written(L, S, q.nodes, e)
    /\ e.pc = "done" => e.todo = <<>> /\ last <= e.round

\* And of the Context c of a Decode of what Encode has made.
DecodeKept(S, q, e, c) ==
  c.own =>
    /\ e.pc = "done" /\ c.data = e.data /\ c.bit = 0 /\ c.pc \in {"run", "done"}
    /\ \E L : /\ Written(L, S, q.nodes, e)
              /\ c.pc = "run" => \E k \in 1..Len(L) : c.todo = L[k].todo /\ c.pos = L[k].at
    /\ e.exact => Agree(c.fields, e.fields)

ProperInputs == \A input \in protocol.inputs : Proper(input)

TripKept(S) == EncodeKept(S, protocol, Rounds, enc) /\ DecodeKept(S, protocol, enc, dec)
TripInv == \A S \in SUBSET Nodes : FixedNodes(S) /\ ProperInputs => TripKept(S)

LEMMA SpotLeft ==
  ASSUME NEW S \in SUBSET Nodes, \A m \in S : FixedNode(m, S),
         NEW L, Laid(L, S, protocol.nodes), NEW k \in 1..(Len(L) - 1)
  PROVE  /\ k + 1 \in 1..Len(L) /\ Head(L[k].todo) \in S /\ L[k].at \in Nat
         /\ L[k].at + Width(Head(L[k].todo)) <= L[Len(L)].at /\ L[k + 1] = After(L[k])
<1> DEFINE p == protocol.nodes
<1>1. Laid(L, S, p)
  OBVIOUS
<1> HIDE DEF p
<1>2. k + 1 \in 1..Len(L)
  BY <1>1, SpotTyped
<1>3. Head(L[k].todo) \in S
  BY <1>1, SpotTyped
<1>4. L[k].at \in Nat
  BY <1>1, SpotTyped
<1>5. L[k].at + Width(Head(L[k].todo)) <= L[Len(L)].at
  BY <1>1, SpotTyped
<1>6. L[k + 1] = After(L[k])
  BY DEF Laid
<1> QED BY <1>2, <1>3, <1>4, <1>5, <1>6

\* What the code gives of one field, inside a packet.
FieldIsBack(L, k, e, c, d) ==
  /\ d.pc = c.pc /\ d.data = c.data /\ d.bit = 0
  /\ k + 1 \in 1..Len(L) /\ d.todo = L[k + 1].todo /\ d.pos = L[k + 1].at
  /\ e.exact /\ Agree(c.fields, e.fields) => Agree(d.fields, e.fields)

LEMMA FieldBack ==
  ASSUME NEW S \in SUBSET Nodes, FixedNodes(S), protocol \in Protocols, ProperInputs,
         NEW e, IsContext(e), e.round \in Nat, e.data \in Data, e.pc = "done",
         EncodeKept(S, protocol, Rounds, e), NEW L, Written(L, S, protocol.nodes, e),
         NEW c, Decoder(c), c.data = e.data, c.bit = 0, NEW k \in 1..Len(L),
         c.pos = L[k].at, L[k].todo # <<>>,
         NEW n, n = Head(L[k].todo), n.kind = "bytes", c.todo = Tail(L[k].todo),
         NEW d, d = ReadBytes(c, n, n.type, n.size)
  PROVE  FieldIsBack(L, k, e, c, d)
<1>1. /\ e.fields \in protocol.inputs /\ e.todo = <<>> /\ Rounds <= e.round
      /\ \A m \in S : FixedNode(m, S)
      /\ Laid(L, S, protocol.nodes) /\ On(L, e) /\ Kept(L, e)
  BY DEF EncodeKept, FixedNodes, Written
<1>2. /\ e.index = Len(L) - 1 /\ L[Len(L)].todo = <<>> /\ Len(L) \in Nat
      /\ Rounds \in Nat
  BY <1>1, RoundPassed, RoundsIsNat
<1>3. k \in 1..(Len(L) - 1)
  <2>1. k # Len(L)
    BY <1>2
  <2> QED BY <1>2, <2>1
<1>4. /\ k + 1 \in 1..Len(L) /\ n \in S /\ L[k].at \in Nat
      /\ L[k].at + Width(n) <= L[Len(L)].at /\ L[k + 1] = After(L[k])
  <2>1. /\ k + 1 \in 1..Len(L) /\ Head(L[k].todo) \in S /\ L[k].at \in Nat
        /\ L[k].at + Width(Head(L[k].todo)) <= L[Len(L)].at /\ L[k + 1] = After(L[k])
    BY <1>1, <1>3, SpotLeft
  <2> QED BY <2>1
<1>5. n.size \in Nat /\ n.round \in Nat /\ n.round <= Rounds /\ Width(n) = n.size
  BY <1>1, <1>4, FixedField DEF Width
<1>6. c.pos + n.size <= Len(c.data) /\ Len(c.data) \in Nat /\ c.data \in Data
  BY <1>1, <1>4, <1>5, LenProperties DEF On, Data
<1> DEFINE bytes == SubSeq(c.data, c.pos + 1, c.pos + n.size)
<1>7. /\ d.pc = c.pc /\ d.data = c.data /\ d.bit = 0 /\ d.own = c.own /\ d.todo = c.todo
      /\ d.pos = c.pos + n.size /\ d.fields = SetField(c.fields, n.name, FieldValue(n, bytes))
  <2>1. Taken(c, d, n)
    BY <1>1, <1>4, <1>6, FieldRead
  <2> QED BY <2>1 DEF Taken
<1>8. d.todo = L[k + 1].todo /\ d.pos = L[k + 1].at
  BY <1>4, <1>5, <1>7 DEF After
<1>9. ASSUME e.exact, Agree(c.fields, e.fields)
      PROVE  Agree(d.fields, e.fields)
  <2> DEFINE w == e.fields[n.name]
             v == FieldValue(n, bytes)
  <2>1. ASSUME n.name \in DOMAIN e.fields
        PROVE  v.n = w.n /\ v.b = w.b
    <3>1. Due(e, k, n)
      <4>1. n.round < e.round \/ n.round = e.round
        BY <1>1, <1>2, <1>5
      <4>2. k <= e.index
        BY <1>2, <1>3
      <4> QED BY <4>1, <4>2 DEF Due
    <3>2. Carries(n, e.fields, e.data, L[k].at)
      BY <1>1, <1>3, <1>9, <3>1 DEF Kept
    <3>3. Suits(n, w) /\ Lies(e.data, L[k].at, Image(n, w))
      BY <2>1, <3>2 DEF Carries
    <3>4. Proper(e.fields) /\ Filled(e.fields)
      BY <1>1, ProtocolsAssumption DEF ProperInputs, Filled, Numbered, Data
    <3>5. Image(n, w) \in Data /\ Len(Image(n, w)) = n.size
      <4>1. w.n \in Int /\ w.b \in Data
        BY <2>1, <3>4 DEF Filled, Numbered
      <4> HIDE DEF w
      <4> QED BY <1>1, <1>4, <3>3, <4>1, ImageTyped
    <3>6. bytes = Image(n, w)
      <4> HIDE DEF w
      <4> QED BY <1>4, <1>5, <1>6, <3>3, <3>5, LyingBytes
    <3>7. /\ S \in SUBSET Nodes /\ (\A m \in S : FixedNode(m, S)) /\ n \in S /\ n.kind = "bytes"
          /\ Filled(e.fields) /\ Proper(e.fields) /\ n.name \in DOMAIN e.fields
          /\ Suits(n, e.fields[n.name]) /\ bytes = Image(n, e.fields[n.name])
      BY <1>1, <1>4, <2>1, <3>3, <3>4, <3>6 DEF FixedNodes
    <3> HIDE DEF bytes
    <3>8. /\ FieldValue(n, bytes).n = e.fields[n.name].n
          /\ FieldValue(n, bytes).b = e.fields[n.name].b
      BY ONLY <3>7, ValueBack
    <3> QED BY <3>8
  <2> HIDE DEF v
  <2>2. Agree(SetField(c.fields, n.name, v), e.fields)
    BY <1>9, <2>1, SetAgrees
  <2>3. d.fields = SetField(c.fields, n.name, v)
    <3> HIDE DEF bytes
    <3> QED BY <1>7 DEF v
  <2> QED BY <2>2, <2>3, Zenon
<1> QED BY <1>4, <1>7, <1>8, <1>9 DEF FieldIsBack

-----------------------------------------------------------------------------
(* The steps of Encode.                                                      *)

\* The node that Encode is at.
LEMMA EncodeSpot ==
  ASSUME NEW S \in SUBSET Nodes, FixedNodes(S), NEW L, NEW c, Written(L, S, protocol.nodes, c),
         c.todo # <<>>
  PROVE  FixedNode(Head(c.todo), S) /\ MatchFlow(Head(c.todo), "encode")
         /\ Head(c.todo).kind \in {"struct", "bytes"} /\ Head(c.todo) \in S
<1> DEFINE n == Head(c.todo)
           nodes == protocol.nodes
           k == c.index + 1
<1>1. Laid(L, S, nodes) /\ On(L, c) /\ \A m \in S : FixedNode(m, S)
  BY DEF Written, FixedNodes
<1>2. k \in 1..Len(L) /\ c.todo = L[k].todo
  <2>1. Len(L) \in Nat /\ c.index \in 0..(Len(L) - 1) /\ c.todo = L[c.index + 1].todo
    BY <1>1, LenProperties DEF Laid, On
  <2> QED BY <2>1
<1> HIDE DEF nodes, k
<1>3. n \in S
  BY <1>1, <1>2, AtSpot, Zenon
<1>4. n.flow = "" /\ n.kind \in {"struct", "bytes"} /\ FixedNode(n, S)
  BY <1>1, <1>3 DEF FixedNode
<1> QED BY <1>3, <1>4 DEF MatchFlow

\* What a step of Encode keeps, it keeps of the protocol.
EncodeOn(S) ==
  /\ enc'.pc \in {"run", "done"} =>
       /\ enc'.fields \in protocol.inputs
       /\ \E L : Written(L, S, protocol.nodes, enc')
       /\ enc'.pc = "done" => enc'.todo = <<>> /\ Rounds <= enc'.round

LEMMA StartEncodeKeeps ==
  ASSUME CodecInv, NEW S \in SUBSET Nodes, FixedNodes(S), StartEncode
  PROVE  EncodeOn(S)
<1>1. PICK input \in protocol.inputs : enc' = Started(protocol, input, resized)
  BY Zenon DEF StartEncode, Started
<1>2. /\ enc'.pc = "run" /\ enc'.fields = input
      /\ \E L : Written(L, S, protocol.nodes, enc')
  BY <1>1, FirstSpot
<1> QED BY <1>2 DEF EncodeOn

LEMMA EncodeGroupKeeps ==
  ASSUME CodecInv, NEW S \in SUBSET Nodes, FixedNodes(S),
         EncodeKept(S, protocol, Rounds, enc), EncodeGroup
  PROVE  EncodeOn(S)
<1> DEFINE n == Head(enc.todo)
           b == Enter(enc, n)
<1>1. /\ enc.pc = "run" /\ enc.todo # <<>> /\ n.kind \in Groups
      /\ enc' = GroupStep(n, b)
  BY Zenon DEF EncodeGroup, Encoding, GroupStep, Groups
<1>2. /\ Sound(enc, resized) /\ Running(enc, resized, protocol)
      /\ enc.fields \in protocol.inputs
  BY <1>1 DEF CodecInv, EncodeKept
<1>3. PICK L : Written(L, S, protocol.nodes, enc)
  BY <1>1 DEF EncodeKept
<1>4. n.kind = "struct"
  BY <1>1, <1>3, EncodeSpot DEF Groups
<1>5. /\ enc'.pc = "run" /\ enc'.fields = enc.fields
      /\ \E M : Written(M, S, protocol.nodes, enc')
  BY <1>1, <1>2, <1>3, <1>4, StructureEntered
<1> QED BY <1>2, <1>5 DEF EncodeOn

LEMMA EncodeBytesKeeps ==
  ASSUME CodecInv, NEW S \in SUBSET Nodes, FixedNodes(S),
         EncodeKept(S, protocol, Rounds, enc), EncodeBytes
  PROVE  EncodeOn(S)
<1> DEFINE n == Head(enc.todo)
           b == Enter(enc, n)
           size == GetSize(SizeOf(n), n.sizeExpr, b)
           x == b.exact /\ n.bits = 0 /\ ~HasField(b.fields, n.name)
           d == IF size = Result(0) THEN [b EXCEPT !.exact = x]
                ELSE Scheduled(b, n, size, EncodeValue)
<1>1. /\ enc.pc = "run" /\ enc.todo # <<>> /\ n.kind = "bytes" /\ MatchFlow(n, "encode")
      /\ enc' = d
  BY Zenon DEF EncodeBytes, Encoding
<1>2. /\ resized \subseteq Resizable /\ Leaf(n) /\ enc.fields \in protocol.inputs
      /\ Sound(enc, resized) /\ Running(enc, resized, protocol)
  BY <1>1 DEF CodecInv, Leaf, EncodeKept
<1>3. PICK L : Written(L, S, protocol.nodes, enc)
  BY <1>1 DEF EncodeKept
<1>4. n \in S /\ \A m \in S : FixedNode(m, S)
  BY <1>1, <1>3, EncodeSpot DEF FixedNodes
<1> HIDE DEF x
<1>5. Filling(b, d, n)
  <2> HIDE DEF n
  <2>1. Ready(b) /\ Counted(b)
    BY <1>1, <1>2, LeafEntered DEF n
  <2> HIDE DEF b
  <2> QED BY <1>1, <1>2, <1>4, <2>1, FixedWrite, Zenon
<1> HIDE DEF d
<1>6. \/ enc'.pc \in {"failed", "panicked"}
      \/ enc'.pc = "run" /\ enc'.fields = enc.fields
         /\ \E M : Written(M, S, protocol.nodes, enc')
  BY <1>1, <1>2, <1>3, <1>5, FieldWritten
<1> QED BY <1>2, <1>6 DEF EncodeOn

LEMMA EncodeRoundEndsKeeps ==
  ASSUME CodecInv, NEW S \in SUBSET Nodes, FixedNodes(S),
         EncodeKept(S, protocol, Rounds, enc), EncodeRoundEnds
  PROVE  EncodeOn(S)
<1> DEFINE len == IF enc.packetLen < 0 THEN Len(enc.data) ELSE enc.packetLen
           next == NextRound(enc, protocol, len)
           last == LastRound(enc, len)
<1>1. /\ enc.pc = "run" /\ enc.todo = <<>>
      /\ enc' = IF enc.round < Rounds THEN next ELSE last
  BY Zenon DEF EncodeRoundEnds, NextRound, LastRound
<1>2. /\ enc.fields \in protocol.inputs /\ IsContext(enc) /\ enc.round \in Nat /\ Rounds \in Nat
  BY <1>1, RoundsIsNat DEF CodecInv, Sound, EncodeKept
<1>3. PICK L : Written(L, S, protocol.nodes, enc)
  BY <1>1 DEF EncodeKept
<1> HIDE DEF len
<1>4. CASE enc.round < Rounds
  <2>1. enc' = next
    BY <1>1, <1>4, Zenon
  <2>2. Written(L, S, protocol.nodes, enc') /\ enc'.fields = enc.fields
    BY <1>1, <1>2, <1>3, <2>1, NextRoundWritten
  <2>3. enc'.pc = "run"
    BY <1>1, <1>2, <2>1 DEF NextRound, IsContext, ContextFields
  <2> QED BY <1>2, <2>2, <2>3 DEF EncodeOn
<1>5. CASE ~(enc.round < Rounds)
  <2>1. enc' = last
    BY <1>1, <1>5, Zenon
  <2>2. /\ enc'.todo = enc.todo /\ enc'.fields = enc.fields /\ enc'.round = enc.round
        /\ enc'.data = enc.data /\ enc'.index = enc.index /\ enc'.offsets = enc.offsets
        /\ enc'.exact = enc.exact
    BY <1>2, <2>1 DEF LastRound, IsContext, ContextFields
  <2>3. Written(L, S, protocol.nodes, enc')
    BY <1>3, <2>2 DEF Written, On, Kept, Due
  <2>4. Rounds <= enc'.round
    BY <1>2, <1>5, <2>2
  <2> QED BY <1>1, <1>2, <2>2, <2>3, <2>4 DEF EncodeOn
<1> QED BY <1>4, <1>5

LEMMA EncodeKeeps ==
  ASSUME CodecInv, NEW S \in SUBSET Nodes, FixedNodes(S), TripKept(S),
         \/ StartEncode \/ EncodeSkips \/ EncodeGroup \/ EncodeBytes \/ EncodeCalc
         \/ EncodeRoundEnds
  PROVE  TripKept(S)'
<1>1. EncodeKept(S, protocol, Rounds, enc) /\ DecodeKept(S, protocol, enc, dec)
  BY DEF TripKept
<1>2. UNCHANGED <<protocol, dec>> /\ enc.pc \in {"idle", "run"}
  BY Zenon DEF StartEncode, EncodeSkips, EncodeGroup, EncodeBytes, EncodeCalc,
               EncodeRoundEnds, Encoding
<1>3. ASSUME enc.pc = "run", enc.todo # <<>>
      PROVE  MatchFlow(Head(enc.todo), "encode") /\ Head(enc.todo).kind # "calc"
  <2>1. PICK L : Written(L, S, protocol.nodes, enc)
    BY <1>1, <1>3 DEF EncodeKept
  <2> QED BY <1>3, <2>1, EncodeSpot
<1>4. ~EncodeSkips /\ ~EncodeCalc
  BY <1>3, Zenon DEF EncodeSkips, EncodeCalc, Encoding
<1>5. EncodeOn(S)
  BY <1>1, <1>4, StartEncodeKeeps, EncodeGroupKeeps, EncodeBytesKeeps, EncodeRoundEndsKeeps
<1>6. EncodeKept(S, protocol, Rounds, enc)'
  <2>1. Rounds' = Rounds
    BY <1>2 DEF Rounds
  <2> QED BY <1>2, <1>5, <2>1 DEF EncodeOn, EncodeKept
<1>7. DecodeKept(S, protocol, enc, dec)'
  <2>1. ~dec'.own
    BY <1>1, <1>2 DEF DecodeKept
  <2> QED BY <2>1 DEF DecodeKept
<1> QED BY <1>6, <1>7 DEF TripKept

-----------------------------------------------------------------------------
(* The steps of Decode.                                                      *)

\* Decode is at the k-th spot of L.
DecodeAtSpot(S, L, k) ==
  /\ enc.pc = "done" /\ dec.data = enc.data /\ dec.bit = 0
  /\ Written(L, S, protocol.nodes, enc)
  /\ k \in 1..Len(L) /\ dec.todo = L[k].todo /\ dec.pos = L[k].at
  /\ enc.exact => Agree(dec.fields, enc.fields)

LEMMA DecodeSpot ==
  ASSUME CodecInv, NEW S \in SUBSET Nodes, FixedNodes(S), NEW L, NEW k, DecodeAtSpot(S, L, k),
         dec.todo # <<>>
  PROVE  /\ Head(dec.todo) \in S /\ FixedNode(Head(dec.todo), S)
         /\ MatchFlow(Head(dec.todo), "decode") /\ Head(dec.todo).kind \in {"struct", "bytes"}
         /\ (Head(dec.todo).kind = "bytes" => ~IsBitField(Head(dec.todo)))
<1> DEFINE n == Head(dec.todo)
           nodes == protocol.nodes
<1>1. /\ Laid(L, S, nodes) /\ k \in 1..Len(L) /\ dec.todo = L[k].todo
      /\ \A m \in S : FixedNode(m, S)
  BY DEF DecodeAtSpot, Written, FixedNodes
<1> HIDE DEF nodes
<1>2. n \in S
  BY <1>1, AtSpot, Zenon
<1>3. n.flow = "" /\ n.kind \in {"struct", "bytes"} /\ FixedNode(n, S)
  BY <1>1, <1>2 DEF FixedNode
<1>4. n.kind = "bytes" => ~IsBitField(n)
  <2> SUFFICES ASSUME n.kind = "bytes" PROVE ~IsBitField(n)
    OBVIOUS
  <2>1. n.bits = 0
    BY <1>1, <1>2, FixedField
  <2>2. ~(n.bits > 0)
    BY <2>1
  <2> QED BY <2>2, Zenon DEF IsBitField
<1> QED BY <1>2, <1>3, <1>4 DEF MatchFlow

LEMMA StartDecodeKeeps ==
  ASSUME CodecInv, NEW S \in SUBSET Nodes, FixedNodes(S),
         EncodeKept(S, protocol, Rounds, enc), StartDecode
  PROVE  DecodeKept(S, protocol, enc, dec')
<1>1. PICK packet : dec' = [NoDecode EXCEPT !.pc = "run", !.todo = protocol.nodes, !.data = packet,
                                            !.packetLen = Len(packet),
                                            !.own = enc.pc = "done" /\ packet = enc.data]
  BY Zenon DEF StartDecode
<1>2. /\ dec'.pc = "run" /\ dec'.todo = protocol.nodes /\ dec'.data = packet /\ dec'.pos = 0
      /\ dec'.bit = 0 /\ dec'.fields = NoFields
      /\ (dec'.own => enc.pc = "done" /\ packet = enc.data)
  BY <1>1 DEF NoDecode
<1> SUFFICES ASSUME dec'.own PROVE DecodeKept(S, protocol, enc, dec')
  BY DEF DecodeKept
<1>3. PICK L : Written(L, S, protocol.nodes, enc)
  BY <1>2 DEF EncodeKept
<1>4. 1 \in 1..Len(L) /\ L[1].todo = protocol.nodes /\ L[1].at = 0
  <2>1. L \in Seq(Spots(S)) /\ L # <<>> /\ L[1] = [todo |-> protocol.nodes, at |-> 0]
    BY <1>3 DEF Written, Laid
  <2>2. Len(L) \in Nat /\ Len(L) # 0
    BY <2>1, LenProperties, EmptySeq
  <2> QED BY <2>1, <2>2
<1>5. Agree(dec'.fields, enc.fields)
  BY <1>2 DEF Agree, NoFields
<1> QED BY <1>2, <1>3, <1>4, <1>5 DEF DecodeKept

\* The next spot is enough.
LEMMA NextSpot ==
  ASSUME NEW S, NEW L, NEW k, DecodeAtSpot(S, L, k),
         dec'.pc = "run", dec'.data = dec.data, dec'.bit = 0,
         k + 1 \in 1..Len(L), dec'.todo = L[k + 1].todo, dec'.pos = L[k + 1].at,
         enc.exact => Agree(dec'.fields, enc.fields)
  PROVE  DecodeKept(S, protocol, enc, dec')
BY DEF DecodeAtSpot, DecodeKept

LEMMA DecodeGroupKeeps ==
  ASSUME CodecInv, NEW S \in SUBSET Nodes, FixedNodes(S), EncodeKept(S, protocol, Rounds, enc),
         NEW L, NEW k, DecodeAtSpot(S, L, k), DecodeGroup
  PROVE  DecodeKept(S, protocol, enc, dec')
<1> DEFINE n == Head(dec.todo)
           group == Children(n, dec)
           todo == group.nodes \o Tail(dec.todo)
<1>1. /\ dec.pc = "run" /\ dec.todo # <<>> /\ n.kind \in Groups
      /\ dec' = IF group.ok THEN [dec EXCEPT !.todo = todo] ELSE Fail(dec)
  BY Zenon DEF DecodeGroup, Decoding, Groups
<1>2. n.kind = "struct"
  BY <1>1, DecodeSpot DEF Groups
<1>3. group.ok /\ group.nodes = n.then
  BY <1>2 DEF Children, Group
<1> HIDE DEF group
<1>4. dec' = [dec EXCEPT !.todo = n.then \o Tail(dec.todo)]
  BY <1>1, <1>3
<1>5. IsDecoder(dec)
  BY DEF CodecInv, Decoder
<1>6. /\ dec'.pc = "run" /\ dec'.data = dec.data /\ dec'.bit = dec.bit /\ dec'.pos = dec.pos
      /\ dec'.fields = dec.fields /\ dec'.todo = n.then \o Tail(dec.todo)
  BY <1>1, <1>4, <1>5 DEF IsDecoder, DecoderFields
<1>7. /\ Written(L, S, protocol.nodes, enc) /\ enc.todo = <<>> /\ enc.round \in Nat
      /\ k \in 1..Len(L) /\ dec.todo = L[k].todo /\ dec.pos = L[k].at /\ dec.bit = 0
  BY DEF DecodeAtSpot, EncodeKept, CodecInv, Sound
<1>8. L[Len(L)].todo = <<>> /\ Len(L) \in Nat
  BY <1>7, RoundPassed
<1>9. k \in 1..(Len(L) - 1)
  <2>1. k # Len(L)
    BY <1>1, <1>7, <1>8
  <2> QED BY <1>7, <1>8, <2>1
<1>10. k + 1 \in 1..Len(L)
  BY <1>8, <1>9
<1>11. L[k + 1] = After(L[k])
  BY <1>7, <1>9 DEF Written, Laid
<1>12. L[k].at \in Nat
  <2>1. L[k] \in Spots(S)
    BY <1>7, ElementOfSeq DEF Written, Laid
  <2> QED BY <2>1 DEF Spots
<1>13. dec'.todo = L[k + 1].todo
  <2>1. Head(L[k].todo).kind # "bytes" /\ n = Head(L[k].todo)
    BY <1>2, <1>7
  <2>2. L[k + 1].todo = n.then \o Tail(L[k].todo)
    <3> DEFINE s == L[k]
    <3> HIDE DEF s
    <3>1. Head(s.todo).kind # "bytes" => After(s).todo = Head(s.todo).then \o Tail(s.todo)
      BY DEF After
    <3>2. s = L[k]
      BY DEF s
    <3> QED BY <1>11, <2>1, <3>1, <3>2
  <2> QED BY <1>6, <1>7, <2>2
<1>14. dec'.pos = L[k + 1].at
  <2>1. Width(n) = 0
    BY <1>2 DEF Width
  <2>2. L[k + 1].at = L[k].at + Width(n)
    BY <1>7, <1>11 DEF After
  <2> HIDE DEF n
  <2> QED BY <1>6, <1>7, <1>12, <2>1, <2>2
<1>15. enc.exact => Agree(dec'.fields, enc.fields)
  BY <1>6 DEF DecodeAtSpot
<1> QED BY <1>6, <1>7, <1>10, <1>13, <1>14, <1>15, NextSpot

LEMMA DecodeBytesKeeps ==
  ASSUME CodecInv, NEW S \in SUBSET Nodes, FixedNodes(S), ProperInputs,
         EncodeKept(S, protocol, Rounds, enc),
         NEW L, NEW k, DecodeAtSpot(S, L, k), DecodeBytes
  PROVE  DecodeKept(S, protocol, enc, dec')
<1> DEFINE field == Head(dec.todo)
           whole == field.bits > 0
           type == IF HasCrc(field) \/ whole THEN "uint" ELSE field.type
           declared == IF whole THEN field.bits \div 8 ELSE SizeOf(field)
           size == GetSize(declared, field.sizeExpr, dec)
           next == [dec EXCEPT !.todo = Tail(dec.todo)]
           made == ReadBytes(next, field, type, size.n)
           back == ReadBytes(next, field, field.type, field.size)
<1>1. /\ dec.pc = "run" /\ dec.todo # <<>> /\ field.kind = "bytes"
      /\ dec' = IF ~size.ok \/ (size.n = 0 /\ field.sizeExpr.on = "none") THEN Fail(dec)
                ELSE IF made.pc = "failed" \/ Verified(made, field) THEN made ELSE Fail(made)
  BY Zenon DEF DecodeBytes, Decoding
<1>2. field \in S /\ \A m \in S : FixedNode(m, S)
  BY <1>1, DecodeSpot DEF FixedNodes
<1>3. /\ field.size \in Nat /\ field.size > 0 /\ field.bits = 0 /\ field.sizeExpr.on = "none"
      /\ field.check.on = "none" /\ ~HasCrc(field) /\ field \notin Resizable
  BY <1>1, <1>2, FixedField
<1>4. ~whole /\ type = field.type
  <2>1. field.bits = 0
    BY <1>3, Zenon
  <2>2. ~whole
    BY <2>1
  <2> QED BY <1>3, <2>2, Zenon
<1>5. size = Result(field.size)
  <2>1. field \notin resized
    BY <1>3 DEF CodecInv
  <2>2. declared = field.size
    BY <1>4, <2>1, Zenon DEF SizeOf
  <2> HIDE DEF declared
  <2> QED BY <1>3, <2>2, Zenon DEF GetSize
<1>6. size.ok /\ size.n = field.size /\ size.n # 0
  <2>1. field.size # 0
    BY <1>3
  <2> HIDE DEF size
  <2> QED BY <1>5, <2>1 DEF Result
<1>7. made = back
  <2> HIDE DEF size, type, next
  <2> QED BY <1>4, <1>6, Zenon
<1>8. Verified(back, field)
  BY <1>3, Zenon DEF Verified
<1>9. dec' = back
  <2> HIDE DEF size, made, back
  <2> QED BY <1>1, <1>6, <1>7, <1>8, Zenon
<1>10. Decoder(dec) /\ IsDecoder(dec) /\ field \in Nodes /\ Tail(dec.todo) \in Seq(Steps)
  BY <1>1, <1>2, DecodeAt DEF CodecInv, Decoder
<1>11. /\ Decoder(next) /\ next.pc = "run" /\ next.data = dec.data /\ next.bit = dec.bit
       /\ next.pos = dec.pos /\ next.fields = dec.fields /\ next.todo = Tail(dec.todo)
  <2>1. Decoder(next)
    BY <1>10, DecoderGoesOn
  <2> QED BY <1>1, <1>10, <2>1 DEF IsDecoder, DecoderFields
<1> HIDE DEF next
<1>12. /\ IsContext(enc) /\ enc.round \in Nat /\ enc.data \in Data /\ protocol \in Protocols
       /\ enc.pc = "done" /\ Written(L, S, protocol.nodes, enc)
  BY DEF CodecInv, Sound, DecodeAtSpot
<1>13. /\ k \in 1..Len(L) /\ dec.todo = L[k].todo /\ dec.pos = L[k].at /\ dec.bit = 0
       /\ dec.data = enc.data /\ (enc.exact => Agree(dec.fields, enc.fields))
  BY DEF DecodeAtSpot
<1>14. /\ field = Head(L[k].todo) /\ L[k].todo # <<>> /\ next.todo = Tail(L[k].todo)
       /\ next.pos = L[k].at /\ next.data = enc.data /\ next.bit = 0
  BY <1>1, <1>11, <1>13
<1> HIDE DEF field, back
<1>15. back = ReadBytes(next, field, field.type, field.size)
  BY DEF back
<1>16. FieldIsBack(L, k, enc, next, back)
  <2> HIDE DEF size, type, made, whole, declared
  <2> QED BY <1>1, <1>11, <1>12, <1>13, <1>14, <1>15, FieldBack, Zenon
<1>17. /\ back.pc = next.pc /\ back.data = next.data /\ back.bit = 0
       /\ k + 1 \in 1..Len(L) /\ back.todo = L[k + 1].todo /\ back.pos = L[k + 1].at
       /\ enc.exact /\ Agree(next.fields, enc.fields) => Agree(back.fields, enc.fields)
  BY <1>16, Zenon DEF FieldIsBack
<1> QED BY <1>9, <1>11, <1>13, <1>17, NextSpot

LEMMA DecodeKeeps ==
  ASSUME CodecInv, NEW S \in SUBSET Nodes, FixedNodes(S), ProperInputs, TripKept(S),
         \/ StartDecode \/ DecodeSkips \/ DecodeGroup \/ DecodeArray \/ DecodeItemEnds
         \/ DecodeArrayEnds \/ DecodeBits \/ DecodeBytes \/ DecodeCalc \/ DecodeEnds
  PROVE  TripKept(S)'
<1>1. EncodeKept(S, protocol, Rounds, enc) /\ DecodeKept(S, protocol, enc, dec)
  BY DEF TripKept
<1>2. UNCHANGED <<protocol, enc>>
  BY Zenon DEF StartDecode, DecodeSkips, DecodeGroup, DecodeArray, DecodeItemEnds,
               DecodeArrayEnds, DecodeBits, DecodeBytes, DecodeCalc, DecodeEnds
<1>3. DecodeKept(S, protocol, enc, dec')
  <2>1. CASE StartDecode
    BY <1>1, <2>1, StartDecodeKeeps
  <2>2. CASE ~StartDecode
    <3>1. ReadsOn(dec, dec')
      BY <2>2, DecodeReads
    <3>2. dec'.own = dec.own /\ dec'.data = dec.data
      BY <3>1 DEF ReadsOn
    <3> SUFFICES ASSUME dec.own PROVE DecodeKept(S, protocol, enc, dec')
      BY <3>2 DEF DecodeKept
    <3>3. dec.pc = "run"
      BY <2>2, Zenon DEF DecodeSkips, DecodeGroup, DecodeArray, DecodeItemEnds, DecodeArrayEnds,
                         DecodeBits, DecodeBytes, DecodeCalc, DecodeEnds, Decoding
    <3>4. PICK L, k : DecodeAtSpot(S, L, k)
      BY <1>1, <3>3 DEF DecodeKept, DecodeAtSpot
    <3>5. CASE DecodeEnds
      <4>1. dec' = [dec EXCEPT !.pc = "done"] /\ IsDecoder(dec)
        BY <3>5 DEF DecodeEnds, CodecInv, Decoder
      <4>2. dec'.pc = "done" /\ dec'.bit = dec.bit /\ dec'.fields = dec.fields
        BY <4>1 DEF IsDecoder, DecoderFields
      <4> QED BY <3>2, <3>4, <4>2 DEF DecodeAtSpot, DecodeKept
    <3>6. CASE dec.todo # <<>> /\ ~DecodeEnds
      <4>1. /\ MatchFlow(Head(dec.todo), "decode") /\ Head(dec.todo).kind \in {"struct", "bytes"}
            /\ (Head(dec.todo).kind = "bytes" => ~IsBitField(Head(dec.todo)))
        BY <3>4, <3>6, DecodeSpot
      <4>2. DecodeGroup \/ DecodeBytes
        BY <2>2, <3>6, <4>1 DEF DecodeSkips, DecodeArray, DecodeItemEnds, DecodeArrayEnds,
                                DecodeBits, DecodeCalc, Decoding
      <4> QED BY <1>1, <3>4, <4>2, DecodeGroupKeeps, DecodeBytesKeeps
    <3>7. dec.todo # <<>> \/ DecodeEnds
      BY <2>2, Zenon DEF DecodeSkips, DecodeGroup, DecodeArray, DecodeItemEnds, DecodeArrayEnds,
                         DecodeBits, DecodeBytes, DecodeCalc, Decoding
    <3> QED BY <3>5, <3>6, <3>7
  <2> QED BY <2>1, <2>2
<1>4. Rounds' = Rounds
  BY <1>2 DEF Rounds
<1>5. EncodeKept(S, protocol, Rounds, enc)' /\ DecodeKept(S, protocol, enc, dec)'
  BY <1>1, <1>2, <1>3, <1>4
<1> QED BY <1>5 DEF TripKept

-----------------------------------------------------------------------------
(* The theorem.                                                              *)

LEMMA TripStep == CodecInv /\ TripInv /\ [Next]_vars => TripInv'
<1> SUFFICES ASSUME CodecInv, TripInv, [Next]_vars,
                    NEW S \in SUBSET Nodes, FixedNodes(S)', ProperInputs'
             PROVE  TripKept(S)'
  BY DEF TripInv
<1>1. UNCHANGED protocol
  BY Zenon DEF Next, vars, StartEncode, EncodeSkips, EncodeGroup, EncodeBytes, EncodeCalc,
     EncodeRoundEnds, StartDecode, DecodeSkips, DecodeGroup, DecodeArray, DecodeItemEnds,
     DecodeArrayEnds, DecodeBits, DecodeBytes, DecodeCalc, DecodeEnds
<1>2. FixedNodes(S) /\ ProperInputs
  BY <1>1 DEF FixedNodes, FixedNode, Rounds, ProperInputs
<1>3. TripKept(S)
  BY <1>2 DEF TripInv
<1>4. CASE UNCHANGED vars
  BY <1>3, <1>4 DEF TripKept, vars, Rounds, EncodeKept, DecodeKept
<1>5. CASE \/ StartEncode \/ EncodeSkips \/ EncodeGroup \/ EncodeBytes \/ EncodeCalc
           \/ EncodeRoundEnds
  BY <1>2, <1>3, <1>5, EncodeKeeps
<1>6. CASE \/ StartDecode \/ DecodeSkips \/ DecodeGroup \/ DecodeArray \/ DecodeItemEnds
           \/ DecodeArrayEnds \/ DecodeBits \/ DecodeBytes \/ DecodeCalc \/ DecodeEnds
  BY <1>2, <1>3, <1>6, DecodeKeeps
<1> QED BY <1>4, <1>5, <1>6 DEF Next

\* Protocols of fields of fixed size: numbers of at most eight bytes and strings, with or
\* without a default, of any round, in any structures; and inputs of scalars.
FixedSizes == ProperInputs /\ \E S \in SUBSET Nodes : FixedNodes(S)

\* Over such a protocol a Decode never refuses a packet that Encode has made, and gives
\* back the values it was made of, if they fitted their fields: whatever the order of the
\* rounds in which the fields were written, the nesting of the structures and the packets
\* that other Decodes read meanwhile (core/node.go:55-104, node/bytes.go).
THEOREM FixedSizesRoundTrip == ChecksumsAreNumbers => (Spec => [](FixedSizes => RoundTrip))
<1> SUFFICES ASSUME ChecksumsAreNumbers PROVE Spec => [](FixedSizes => RoundTrip)
  OBVIOUS
<1>1. Spec => []CodecInv
  BY CodecInvariant
<1>2. Init => TripInv
  <2> SUFFICES ASSUME Init, NEW S \in SUBSET Nodes PROVE TripKept(S)
    BY DEF TripInv
  <2>1. enc.pc = "idle" /\ ~dec.own
    BY DEF Init, NoEncode, NoDecode
  <2> QED BY <2>1 DEF TripKept, EncodeKept, DecodeKept
<1>3. CodecInv /\ TripInv /\ [Next]_vars => TripInv'
  BY TripStep
<1>4. TripInv => (FixedSizes => RoundTrip)
  <2> SUFFICES ASSUME TripInv, FixedSizes, dec.own, dec.pc \in {"done", "failed"}, enc.exact
               PROVE  /\ dec.pc = "done"
                      /\ \A path \in DOMAIN enc.fields \cap DOMAIN dec.fields :
                           dec.fields[path].n = enc.fields[path].n
                           /\ dec.fields[path].b = enc.fields[path].b
    BY Zenon DEF RoundTrip
  <2>1. PICK S \in SUBSET Nodes : FixedNodes(S)
    BY DEF FixedSizes
  <2>2. TripKept(S)
    BY <2>1 DEF TripInv, FixedSizes
  <2>3. dec.pc \in {"run", "done"} /\ Agree(dec.fields, enc.fields)
    BY <2>2 DEF TripKept, DecodeKept
  <2> QED BY <2>3 DEF Agree
<1> QED BY <1>1, <1>2, <1>3, <1>4, PTL DEF Spec

=============================================================================
