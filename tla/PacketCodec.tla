------------------------------ MODULE PacketCodec ------------------------------
(* The packet interpreter: Protocol.Encode and Protocol.Decode walk a tree of *)
(* nodes (core/protocol.go, core/node.go, node/) with a Context of their own  *)
(* (core/ctx.go).  The nodes belong to the Scheme, which every connection and *)
(* every SendCommand share; one Encode and one Decode run side by side.  The  *)
(* recursion over groups is a list of nodes still to do.                      *)
EXTENDS Integers, SequencesExt

CONSTANTS Nodes,          \* the nodes of all protocols, nested ones included
          Protocols,      \* [nodes, inputs, packets]: fields, what a caller may
                          \* encode, what may be received
          CrcNames,       \* names of the form crc16_key
          KnownCrcs,      \* those whose key is in Crc16Map
          Checksum(_, _)  \* crc16.Checksum: name, data

Byte == 0..255
Exprs(forms) == {e \in [on : forms, name : Seq(STRING), n : Int] : e.on = "field" => e.n > 0}
Arithmetic == {"const", "field", "equal", "packetLen", "lenFrom"}
Optional == Exprs(Arithmetic \cup {"none"})

\* What Compile accepts, and of the types the five that are modelled: kinds with
\* what they need, sizes and bytes in range.
ASSUME NodesAssumption ==
  \A n \in Nodes :
    /\ "kind" \in DOMAIN n /\ n.kind \in {"struct", "if", "switch", "array", "bytes", "calc"}
    /\ n.name \in Seq(STRING) /\ n.round \in Nat /\ n.bits \in Nat /\ n.size \in Int
    /\ n.type \in {"hex", "string", "int", "uint", "float"} /\ n.order \in {"big", "little"}
    /\ n.pad.byte \in Byte /\ n.pad.left \in BOOLEAN
    /\ n.hasDefault \in BOOLEAN /\ n.default \in Seq(Byte)
    /\ {n.sizeExpr, n.crcStart, n.crcEnd, n.check, n.cond, n.formula} \subseteq Optional
    /\ n.kind = "if" => n.cond.on # "none"
    /\ n.kind = "calc" => n.formula.on # "none"
    /\ n.then \in Seq(Nodes)
    /\ Len(n.cases) \in Nat /\ DOMAIN n.cases = 1..Len(n.cases)
    /\ \A i \in DOMAIN n.cases : n.cases[i].then \in Seq(Nodes)

\* Floats here are whole and below 32.
ASSUME ProtocolsAssumption ==
  \A p \in Protocols :
    /\ p.nodes \in Seq(Nodes) /\ p.packets \subseteq Seq(Byte)
    /\ \A input \in p.inputs : \A path \in DOMAIN input :
         /\ input[path].n \in Int /\ input[path].b \in Seq(Byte)
         /\ (\E n \in Nodes : n.type = "float" /\ n.name = path) => input[path].n \in 0..31

VARIABLES protocol,  \* the protocol in use
          resized,   \* bytes nodes whose Size and Type a Decode has set from Bits
          enc,       \* the Context of Encode and its progress
          dec        \* the Context of Decode and its progress

vars == <<protocol, resized, enc, dec>>

-----------------------------------------------------------------------------
(* Values, and the nested maps of ctx.Fields as functions from paths.        *)
Value(t, n, b, items) == [t |-> t, n |-> n, b |-> b, items |-> items]
Uint(n) == Value("uint", n, <<>>, <<>>)
Int64(n) == Value("int", n, <<>>, <<>>)
Float(n) == Value("float", n, <<>>, <<>>)
Str(b) == Value("string", 0, b, <<>>)
Array(items) == Value("array", 0, <<>>, items)
Nil == Value("nil", 0, <<>>, <<>>)
IsNumber(v) == v.t \in {"uint", "int", "float"}

\* A path replaces what it leads through and all that is below it.
SetField(f, path, v) ==
  IF path = <<>> THEN f
  ELSE [q \in {p \in DOMAIN f : ~IsPrefix(p, path) /\ ~IsPrefix(path, p)} \cup {path} |->
          IF q = path THEN v ELSE f[q]]
HasField(f, path) == \E p \in DOMAIN f : IsPrefix(path, p)
GetField(f, path) ==
  IF path \in DOMAIN f THEN f[path]
  ELSE Value("map", 0, <<>>, <<[p \in {q \in DOMAIN f : IsPrefix(path, q)} |-> f[p]]>>)

\* CEL expressions over vars.packetLen, fields and offsets; what is not there
\* is an evaluation error.
Result(n) == [ok |-> TRUE, n |-> n]
Bad == [ok |-> FALSE, n |-> 0]
Eval(e, c) ==
  LET known == e.name \in DOMAIN c.fields IN
  CASE e.on = "const" -> Result(e.n)
    [] e.on = "field" -> IF known /\ IsNumber(c.fields[e.name])
                           THEN Result(c.fields[e.name].n \div e.n) ELSE Bad
    [] e.on = "equal" -> IF known /\ IsNumber(c.fields[e.name])
                           THEN Result(IF c.fields[e.name].n = e.n THEN 1 ELSE 0) ELSE Bad
    [] e.on = "packetLen" -> IF c.packetLen >= 0 THEN Result(c.packetLen) ELSE Bad
    [] e.on = "lenFrom" -> IF c.packetLen >= 0 /\ e.name \in DOMAIN c.marks
                             THEN Result(c.packetLen - c.marks[e.name]) ELSE Bad
GetSize(size, e, c) == IF e.on = "none" THEN Result(size) ELSE Eval(e, c)

\* The fields of a node that Decode assigns to.
SizeOf(n) == IF n \in resized THEN n.bits \div 8 ELSE n.size
TypeOf(n) == IF n \in resized THEN "uint" ELSE n.type

MatchFlow(n, flow) == n.flow \in {"", flow}
Rounds == Max({0} \cup {protocol.nodes[i].round : i \in DOMAIN protocol.nodes})

\* The nodes that a group hands to NodeEncode or NodeDecode.
Repeat(nodes, count) ==
  [i \in 1..(Len(nodes) * count) |-> nodes[1 + ((i - 1) % Len(nodes))]]
Group(ok, nodes) == [ok |-> ok, nodes |-> nodes]
\* A switch keeps its cases in a map: of equal ones the last.
Children(n, c) ==
  LET test == Eval(n.cond, c)
      length == GetSize(n.size, n.sizeExpr, c)
      chosen == {i \in DOMAIN n.cases : n.cases[i].value = GetField(c.fields, n.field)}
  IN CASE n.kind = "struct" -> Group(TRUE, n.then)
       [] n.kind = "if" -> Group(test.ok, IF test.n = 1 THEN n.then ELSE <<>>)
       [] n.kind = "array" -> Group(length.ok, Repeat(n.then, Max({0, length.n})))
       [] n.kind = "switch" ->
            IF ~HasField(c.fields, n.field) THEN Group(FALSE, <<>>)
            ELSE IF chosen # {} THEN Group(TRUE, n.cases[Max(chosen)].then)
            ELSE Group(n.then # <<>>, n.then)

HasCrc(n) == n.crc # ""

\* core.Crc: no data have the checksum 0, whatever the key.
Crc16Of(name, data) ==
  IF name \notin CrcNames THEN Bad
  ELSE IF data = <<>> THEN Result(0)
  ELSE IF name \in KnownCrcs THEN Result(Checksum(name, data))
  ELSE Bad

\* BytesNode.crc: the range may come from expressions, and by default runs from
\* the start to the read position less Bits / 8.
FieldCrc(n, c, data, pos) ==
  LET from == GetSize(0, n.crcStart, c)
      to == GetSize(pos - (n.bits \div 8), n.crcEnd, c)
      valid == from.ok /\ to.ok /\ 0 <= from.n /\ from.n <= to.n /\ to.n <= Len(data)
  IN IF valid THEN Crc16Of(n.crc, SubSeq(data, from.n + 1, to.n)) ELSE Bad

-----------------------------------------------------------------------------
(* Encode.                                                                   *)
NoFields == [p \in {} |-> Nil]
NoMarks == [p \in {} |-> 0]
\* log, exact and seen are history: the writes, whether each value fitted its
\* field, and the nodes that were resized at the start.
NoEncode == [pc |-> "idle", todo |-> <<>>, fields |-> NoFields, packetLen |-> -1,
             marks |-> NoMarks, data |-> <<>>, round |-> 0, index |-> 0, offsets |-> <<>>,
             log |-> {}, exact |-> TRUE, seen |-> {}]
\* own, reads and used are history: the packet is one that Encode made, the bit
\* fields read, the bits consumed.
NoDecode == [pc |-> "idle", todo |-> <<>>, fields |-> NoFields, packetLen |-> -1,
             marks |-> NoMarks, data |-> <<>>, pos |-> 0, bit |-> 0, arrays |-> <<>>,
             own |-> FALSE, reads |-> {}, used |-> 0]

Fail(c) == [c EXCEPT !.pc = "failed"]
Crash(c) == [c EXCEPT !.pc = "panicked"]

\* copy(b[at:], data): what does not fit is dropped.
Overwrite(b, at, data) ==
  [i \in DOMAIN b |-> IF i - at \in DOMAIN data THEN data[i - at] ELSE b[i]]

\* Mutation: the entry of the next node is used.
WriteBytesNextOffset(c, n, bytes, computed) ==
  LET at == IF c.round = 0 THEN Len(c.data) ELSE c.offsets[Min({c.index + 1, Len(c.offsets)})]
  IN [c EXCEPT !.data = IF c.round = 0 THEN @ \o bytes ELSE Overwrite(@, at, bytes),
               !.log = @ \cup {[node |-> n, round |-> c.round, index |-> c.index, at |-> at,
                                len |-> Len(bytes), computed |-> computed]}]

\* The first round appends; a later one writes where the first has put the node
\* of the same index.
WriteBytes(c, n, bytes, computed) ==
  LET at == IF c.round = 0 THEN Len(c.data) ELSE c.offsets[c.index]
  IN IF c.round > 0 /\ c.index > Len(c.offsets) THEN Fail(c)
     ELSE [c EXCEPT !.data = IF c.round = 0 THEN @ \o bytes ELSE Overwrite(@, at, bytes),
                    !.log = @ \cup {[node |-> n, round |-> c.round, index |-> c.index, at |-> at,
                                     len |-> Len(bytes), computed |-> computed]}]

\* bytes.Repeat panics on a negative count.
WritePlaceholder(c, n, size, computed) ==
  IF size < 0 THEN Crash(c) ELSE WriteBytes(c, n, [i \in 1..size |-> 0], computed)

ResizeBytes(bytes, size, pad) ==
  IF size < 0 THEN bytes
  ELSE LET missing == [i \in 1..(size - Len(bytes)) |-> pad.byte]
       IN IF Len(bytes) >= size THEN SubSeq(bytes, 1, size)
          ELSE IF pad.left THEN missing \o bytes ELSE bytes \o missing

\* The eight bytes of a 64 bit word, the least significant first.
Octets(v) ==
  LET v1 == v \div 256   v2 == v1 \div 256  v3 == v2 \div 256  v4 == v3 \div 256
      v5 == v4 \div 256  v6 == v5 \div 256  v7 == v6 \div 256
  IN <<v % 256, v1 % 256, v2 % 256, v3 % 256, v4 % 256, v5 % 256, v6 % 256, v7 % 256>>

\* Mutation: the bytes are taken from the wrong end of the word.
IntBytesHigh(v, size, order) ==
  IF order = "big" THEN SubSeq(Reverse(Octets(v)), 1, size) ELSE SubSeq(Octets(v), 9 - size, 8)
IntBytes(v, size, order) ==
  IF order = "big" THEN SubSeq(Reverse(Octets(v)), 9 - size, 8) ELSE SubSeq(Octets(v), 1, size)

\* Eight bytes at most.
BytesToInt(bytes, order) ==
  LET digit(k) == IF k > Len(bytes) THEN 0
                  ELSE bytes[IF order = "big" THEN Len(bytes) + 1 - k ELSE k]
      high == digit(5) + 256 * (digit(6) + 256 * (digit(7) + 256 * digit(8)))
  IN digit(1) + 256 * (digit(2) + 256 * (digit(3) + 256 * (digit(4) + 256 * high)))
Pow2(k) == <<1, 2, 4, 8, 16, 32, 64, 128>>[k + 1]

\* What is left of v when the i lowest bits are shifted out.
Shifted(v) == LET shift[i \in Nat] == IF i = 0 THEN v ELSE shift[i - 1] \div 2 IN shift

\* Write by type.  (A string of decimal digits would pass for a number too.)
WriteString(c, n, v, size) ==
  LET bytes == ResizeBytes(v.b, size, n.pad)
  IN IF v.t # "string" THEN Fail(c)
     ELSE WriteBytes([c EXCEPT !.exact = @ /\ bytes = v.b], n, bytes, TRUE)
WriteInt(c, n, v, size) ==
  LET bytes == IntBytes(v.n, size, n.order)
  IN IF ~IsNumber(v) THEN Fail(c)
     ELSE IF size \notin 0..8 THEN Crash(c)
     ELSE WriteBytes([c EXCEPT !.exact = @ /\ Shifted(v.n)[8 * size] = 0], n, bytes, TRUE)

\* The eight bytes of a 64 bit float: exponent and fraction.
FloatBytes(v) ==
  LET e == CHOOSE k \in 0..4 : Pow2(k) <= v /\ v < 2 * Pow2(k)
      fraction == ((v - Pow2(e)) * 16) \div Pow2(e)
  IN IF v = 0 THEN [i \in 1..8 |-> 0]
     ELSE <<(1023 + e) \div 16, 16 * ((1023 + e) % 16) + fraction, 0, 0, 0, 0, 0, 0>>

\* Whatever the size, bytes of a 64 bit float: in big endian order the last ones.
WriteFloat(c, n, v, size) ==
  LET bytes == FloatBytes(v.n)
  IN IF ~IsNumber(v) THEN Fail(c)
     ELSE IF size \notin 0..8 THEN Crash(c)
     ELSE WriteBytes(c, n, IF n.order = "big" THEN SubSeq(bytes, 9 - size, 8)
                                              ELSE SubSeq(Reverse(bytes), 1, size), TRUE)
Write(c, n, type, v, size) ==
  CASE type \in {"hex", "string"} -> WriteString(c, n, v, size)
    [] type \in {"int", "uint"} -> WriteInt(c, n, v, size)
    [] type = "float" -> WriteFloat(c, n, v, size)

\* The default was resized when the node was compiled.
Default(n) == ResizeBytes(n.default, n.size, [byte |-> 0, left |-> FALSE])

\* ctx.Data is empty until the first round is over.
EncodeValue(c, n, size) ==
  LET crc == FieldCrc(n, c, IF c.round = 0 THEN <<>> ELSE c.data, 0)
  IN IF HasCrc(n)
       THEN IF crc.ok THEN Write(c, n, "uint", Uint(crc.n), size) ELSE Fail(c)
     ELSE IF HasField(c.fields, n.name)
       THEN Write(c, n, TypeOf(n), GetField(c.fields, n.name), size)
     ELSE IF n.hasDefault
       THEN WriteBytes([c EXCEPT !.exact = @ /\ Len(Default(n)) = size], n, Default(n), TRUE)
     ELSE WritePlaceholder(c, n, size, TRUE)

\* Formulas over lengths give integers; a Boolean is not written at all.
EncodeFormula(c, n, size) ==
  LET v == Eval(n.formula, c)
  IN IF ~v.ok THEN Fail(c)
     ELSE IF n.formula.on = "equal" THEN c
     ELSE Write(c, n, "int", Int64(v.n), size)

\* A node is skipped in the rounds after its own, reserved in those before.
Scheduled(c, n, size, EncodeIt(_, _, _)) ==
  IF ~size.ok THEN Fail(c)
  ELSE IF c.round > n.round THEN c
  ELSE IF c.round < n.round THEN WritePlaceholder(c, n, size.n, FALSE)
  ELSE EncodeIt(c, n, size.n)

\* NodeEncode: the index counts the nodes of the flow, groups included, and the
\* first round records where each begins.
Enter(c, n) ==
  [c EXCEPT !.todo = Tail(@), !.index = @ + 1,
            !.offsets = IF c.round = 0 THEN Append(@, Len(c.data)) ELSE @,
            !.marks = IF c.round = 0 /\ n.track
                        THEN [p \in DOMAIN @ \cup {n.name} |->
                                IF p = n.name THEN Len(c.data) ELSE @[p]] ELSE @]

Encoding(kinds) ==
  /\ enc.pc = "run" /\ enc.todo # <<>>
  /\ Head(enc.todo).kind \in kinds

StartEncode ==
  /\ enc.pc = "idle"
  /\ \E input \in protocol.inputs :
       enc' = [NoEncode EXCEPT !.pc = "run", !.todo = protocol.nodes, !.fields = input,
                               !.seen = resized]
  /\ UNCHANGED <<protocol, resized, dec>>

EncodeSkips ==
  /\ enc.pc = "run" /\ enc.todo # <<>>
  /\ ~MatchFlow(Head(enc.todo), "encode")
  /\ enc' = [enc EXCEPT !.todo = Tail(@)]
  /\ UNCHANGED <<protocol, resized, dec>>

EncodeGroup ==
  /\ Encoding({"struct", "if", "switch", "array"})
  /\ LET n == Head(enc.todo)
         c == Enter(enc, n)
         group == Children(n, c)
     IN /\ MatchFlow(n, "encode")
        /\ enc' = IF group.ok THEN [c EXCEPT !.todo = group.nodes \o @] ELSE Fail(c)
  /\ UNCHANGED <<protocol, resized, dec>>

EncodeBytes ==
  /\ Encoding({"bytes"})
  /\ LET n == Head(enc.todo)
         c == Enter(enc, n)
         size == GetSize(SizeOf(n), n.sizeExpr, c)
     IN /\ MatchFlow(n, "encode")
        /\ enc' = IF size = Result(0)
                    THEN [c EXCEPT !.exact = @ /\ n.bits = 0 /\ ~HasField(c.fields, n.name)]
                    ELSE Scheduled(c, n, size, EncodeValue)
  /\ UNCHANGED <<protocol, resized, dec>>

EncodeCalc ==
  /\ Encoding({"calc"})
  /\ LET n == Head(enc.todo)
         c == Enter(enc, n)
     IN /\ MatchFlow(n, "encode")
        /\ enc' = IF c.round > n.round THEN c
                  ELSE Scheduled(c, n, GetSize(n.size, n.sizeExpr, c), EncodeFormula)
  /\ UNCHANGED <<protocol, resized, dec>>

\* Mutation: the last round is left out.
EncodeRoundEndsEarly ==
  /\ enc.pc = "run" /\ enc.todo = <<>>
  /\ enc' = IF enc.round + 1 < Rounds
              THEN [enc EXCEPT !.round = @ + 1, !.index = 0, !.todo = protocol.nodes,
                               !.packetLen = IF @ < 0 THEN Len(enc.data) ELSE @]
              ELSE [enc EXCEPT !.pc = "done", !.packetLen = IF @ < 0 THEN Len(enc.data) ELSE @]
  /\ UNCHANGED <<protocol, resized, dec>>

\* The length of the packet is known once the first round is over.
EncodeRoundEnds ==
  /\ enc.pc = "run" /\ enc.todo = <<>>
  /\ enc' = IF enc.round < Rounds
              THEN [enc EXCEPT !.round = @ + 1, !.index = 0, !.todo = protocol.nodes,
                               !.packetLen = IF @ < 0 THEN Len(enc.data) ELSE @]
              ELSE [enc EXCEPT !.pc = "done", !.packetLen = IF @ < 0 THEN Len(enc.data) ELSE @]
  /\ UNCHANGED <<protocol, resized, dec>>

-----------------------------------------------------------------------------
(* Decode.                                                                   *)
\* Mutation: the bits left over are not shifted down.
ReadBitsUnshifted(c, n) ==
  LET full == (n + c.bit) \div 8
      rest == (n + c.bit) % 8
      whole == BytesToInt(SubSeq(c.data, c.pos + 1, c.pos + full), "big")
      last == c.pos + full + (IF rest > 0 THEN 1 ELSE 0)
  IN IF n > 64 \/ c.pos >= Len(c.data) \/ last > Len(c.data) THEN Bad
     ELSE Result(IF rest = 0 THEN whole ELSE whole * Pow2(rest) + c.data[last])

\* Whole bytes are taken from the read position on, those bits included that an
\* earlier field has read of the first of them.
ReadBits(c, n) ==
  LET full == (n + c.bit) \div 8
      rest == (n + c.bit) % 8
      whole == BytesToInt(SubSeq(c.data, c.pos + 1, c.pos + full), "big")
      last == c.pos + full + (IF rest > 0 THEN 1 ELSE 0)
  IN IF n > 64 \/ c.pos >= Len(c.data) \/ last > Len(c.data) THEN Bad
     ELSE Result(IF rest = 0 THEN whole ELSE whole * Pow2(rest) + (c.data[last] \div Pow2(8 - rest)))

Store(c, n, v) == [c EXCEPT !.fields = SetField(@, n.name, v)]

\* readBytes: the value a bytes node stores, by its type.  A float is refused
\* unless it has 32 or 64 bytes, which no packet here has.
ReadBytes(c, n, type, size) ==
  LET count == IF size < 0 THEN Len(c.data) - c.pos ELSE size
      bytes == SubSeq(c.data, c.pos + 1, c.pos + count)
      next == [c EXCEPT !.pos = @ + count, !.used = @ + 8 * count]
  IN IF size = 0 THEN Store(c, n, Str(<<>>))
     ELSE IF c.bit # 0 \/ c.pos + count > Len(c.data) THEN Fail(c)
     ELSE IF type \in {"hex", "string"} THEN Store(next, n, Str(bytes))
     ELSE IF type = "float" \/ count \notin 1..8 THEN Fail(next)
     ELSE Store(next, n, IF type = "int" THEN Int64(BytesToInt(bytes, n.order))
                                         ELSE Uint(BytesToInt(bytes, n.order)))

\* The crc and the check of a field that has just been stored.
Verified(c, n) ==
  LET crc == FieldCrc(n, c, c.data, c.pos)
      test == Eval(n.check, c)
  IN /\ HasCrc(n) => crc.ok /\ Uint(crc.n) = GetField(c.fields, n.name)
     /\ n.check.on # "none" => test.ok /\ test.n = 1

Decoding(kinds) ==
  /\ dec.pc = "run" /\ dec.todo # <<>>
  /\ Head(dec.todo).kind \in kinds

\* A packet arrives: one that Encode has made, or any other.
StartDecode ==
  /\ dec.pc \in {"idle", "done", "failed"}
  /\ \E packet \in protocol.packets \cup (IF enc.pc = "done" THEN {enc.data} ELSE {}) :
       dec' = [NoDecode EXCEPT !.pc = "run", !.todo = protocol.nodes, !.data = packet,
                               !.packetLen = Len(packet),
                               !.own = enc.pc = "done" /\ packet = enc.data]
  /\ UNCHANGED <<protocol, resized, enc>>

DecodeSkips ==
  /\ dec.pc = "run" /\ dec.todo # <<>>
  /\ ~MatchFlow(Head(dec.todo), "decode")
  /\ dec' = [dec EXCEPT !.todo = Tail(@)]
  /\ UNCHANGED <<protocol, resized, enc>>

\* Groups other than arrays: their nodes come next.
DecodeGroup ==
  /\ Decoding({"struct", "if", "switch"})
  /\ LET n == Head(dec.todo)
         group == Children(n, dec)
     IN /\ MatchFlow(n, "decode")
        /\ dec' = IF group.ok THEN [dec EXCEPT !.todo = group.nodes \o Tail(@)] ELSE Fail(dec)
  /\ UNCHANGED <<protocol, resized, enc>>

\* An array: its nodes as often as it is long, each time followed by the end of
\* an item, and at last by its own end.
DecodeArray ==
  /\ Decoding({"array"})
  /\ LET n == Head(dec.todo)
         length == GetSize(n.size, n.sizeExpr, dec)
         item == Append(n.then, [n EXCEPT !.kind = "itemEnd"])
     IN /\ MatchFlow(n, "decode")
        /\ dec' = IF length.ok
                    THEN [dec EXCEPT
                            !.todo = Repeat(item, Max({0, length.n}))
                                       \o <<[n EXCEPT !.kind = "arrayEnd"]>> \o Tail(@),
                            !.arrays = Append(@, <<>>)]
                    ELSE Fail(dec)
  /\ UNCHANGED <<protocol, resized, enc>>

\* What the item has stored under the name of the array becomes an element, and
\* is replaced by nil.
DecodeItemEnds ==
  /\ Decoding({"itemEnd"})
  /\ LET n == Head(dec.todo)
         element == IF HasField(dec.fields, n.name) THEN <<GetField(dec.fields, n.name)>> ELSE <<>>
     IN dec' = [dec EXCEPT !.todo = Tail(@), !.fields = SetField(@, n.name, Nil),
                           !.arrays[Len(dec.arrays)] = @ \o element]
  /\ UNCHANGED <<protocol, resized, enc>>

DecodeArrayEnds ==
  /\ Decoding({"arrayEnd"})
  /\ LET n == Head(dec.todo)
     IN dec' = [dec EXCEPT !.todo = Tail(@), !.arrays = Front(@),
                           !.fields = SetField(@, n.name, Array(Last(dec.arrays)))]
  /\ UNCHANGED <<protocol, resized, enc>>

IsBitField(n) == n.bits > 0 /\ n.bits % 8 # 0

DecodeBits ==
  /\ Decoding({"bytes"})
  /\ LET n == Head(dec.todo)
         at == 8 * dec.pos + dec.bit
         v == ReadBits(dec, n.bits)
         c == [dec EXCEPT !.todo = Tail(@), !.used = @ + n.bits,
                          !.pos = @ + ((n.bits + dec.bit) \div 8), !.bit = (n.bits + @) % 8,
                          !.reads = @ \cup {[at |-> at, n |-> n.bits, value |-> v.n]}]
     IN /\ MatchFlow(n, "decode") /\ IsBitField(n)
        /\ dec' = IF v.ok THEN Store(c, n, Uint(v.n)) ELSE Fail(dec)
  /\ UNCHANGED <<protocol, resized, enc>>

\* A number of bits that makes whole bytes turns the node into a uint of that
\* size, for every later Decode and Encode too.
DecodeBytes ==
  /\ Decoding({"bytes"})
  /\ LET n == Head(dec.todo)
         whole == n.bits > 0
         type == IF HasCrc(n) \/ whole THEN "uint" ELSE n.type
         size == GetSize(IF whole THEN n.bits \div 8 ELSE SizeOf(n), n.sizeExpr, dec)
         next == [dec EXCEPT !.todo = Tail(@)]
         c == ReadBytes(next, n, type, size.n)
     IN /\ MatchFlow(n, "decode") /\ ~IsBitField(n)
        /\ resized' = IF whole THEN resized \cup {n} ELSE resized
        /\ dec' = IF ~size.ok \/ (size.n = 0 /\ n.sizeExpr.on = "none") THEN Fail(dec)
                  ELSE IF c.pc = "failed" \/ Verified(c, n) THEN c ELSE Fail(c)
  /\ UNCHANGED <<protocol, enc>>

DecodeCalc ==
  /\ Decoding({"calc"})
  /\ LET n == Head(dec.todo)
         v == Eval(n.formula, dec)
     IN /\ MatchFlow(n, "decode")
        /\ dec' = IF v.ok THEN Store([dec EXCEPT !.todo = Tail(@)], n, Int64(v.n)) ELSE Fail(dec)
  /\ UNCHANGED <<protocol, resized, enc>>

DecodeEnds ==
  /\ dec.pc = "run" /\ dec.todo = <<>>
  /\ dec' = [dec EXCEPT !.pc = "done"]
  /\ UNCHANGED <<protocol, resized, enc>>

-----------------------------------------------------------------------------
Init ==
  /\ protocol \in Protocols
  /\ resized = {}
  /\ enc = NoEncode /\ dec = NoDecode

Next ==
  \/ StartEncode \/ EncodeSkips \/ EncodeGroup \/ EncodeBytes \/ EncodeCalc \/ EncodeRoundEnds
  \/ StartDecode \/ DecodeSkips \/ DecodeGroup \/ DecodeArray \/ DecodeItemEnds
  \/ DecodeArrayEnds \/ DecodeBits \/ DecodeBytes \/ DecodeCalc \/ DecodeEnds

Spec == Init /\ [][Next]_vars

\* The node index stays within the offsets recorded, which stay within the
\* packet; so do the read positions.
TypeOK ==
  /\ protocol \in Protocols /\ resized \subseteq Nodes
  /\ enc.pc \in {"idle", "run", "done", "failed", "panicked"}
  /\ dec.pc \in {"idle", "run", "done", "failed"}
  /\ enc.round \in 0..Rounds /\ enc.index \in 0..Len(enc.offsets)
  /\ enc.data \in Seq(Byte) /\ dec.data \in Seq(Byte)
  /\ \A i \in DOMAIN enc.offsets : enc.offsets[i] \in 0..Len(enc.data)
  /\ dec.pos \in 0..Len(dec.data) /\ dec.bit \in 0..7

(* ----------------------------- Properties -------------------------------- *)
\* No Decode has resized a node since the Encode began.
Steady == resized = enc.seen

\* A default written at its own length, whatever the size that was asked for: it was
\* cut to the size declared, and an expression or bits give another.
Loose(n) == n.hasDefault /\ (n.sizeExpr.on # "none" \/ n.bits > 0)

\* A later round writes where the first round reserved bytes for the same node, and
\* inside them unless it is a loose default: groups, branches and the skipped nodes
\* of the other flow never shift the index, nor lead it out of the offsets.  A
\* Decode that resizes a shared node in between does.
PatchesStayInPlace ==
  /\ TypeOK
  /\ Steady =>
       \A p \in enc.log : p.round > 0 =>
         \E o \in enc.log : /\ o.round = 0 /\ o.index = p.index /\ o.at = p.at
                           /\ o.node = p.node
                           /\ (Loose(p.node) \/ p.len <= o.len)

\* Nodes that get room and never a value: those of a round that no top-level node
\* has, and formulas that give a Boolean.
Unwritten(n) == n.round > Rounds \/ (n.kind = "calc" /\ n.formula.on = "equal")

\* An Encode that succeeds has written the own value of every node it made room for,
\* and once, whatever its round.
FieldsComputed ==
  enc.pc = "done" =>
    \A o \in enc.log : ~Unwritten(o.node) =>
      \E p \in enc.log : /\ p.index = o.index /\ p.computed
                        /\ \A q \in enc.log : q.index = o.index /\ q.computed => q = p

\* What Encode writes and no Decode reads back: floats, of which it asks 32 or 64
\* bytes (bytes.go:183), and a checksum whose default end is taken for the end of
\* its own field (bytes.go:234).
Unreadable(n) == n.type = "float" \/ (HasCrc(n) /\ n.crcEnd.on = "none" /\ n.bits = 0)

\* A packet that Encode made is accepted by Decode, checksum and length included,
\* and gives back the values that fitted their fields.  Left out: unreadable
\* fields; arrays, whose elements Encode never finds and writes as zeros; fields
\* declared by bits, which Encode writes only once a Decode has given them a size,
\* and an Encode during which, or since which, a Decode has done so.
RoundTrip ==
  (/\ dec.own /\ dec.pc \in {"done", "failed"} /\ enc.exact /\ Steady
   /\ \A i \in DOMAIN protocol.nodes : ~Unreadable(protocol.nodes[i])) =>
    /\ dec.pc = "done"
    /\ \A path \in DOMAIN enc.fields \cap DOMAIN dec.fields : enc.fields[path].t # "array" =>
         /\ dec.fields[path].n = enc.fields[path].n
         /\ dec.fields[path].b = enc.fields[path].b

\* Every bit of a packet, from the most significant of its first byte.
BitAt(data, i) == Shifted(data[1 + (i \div 8)])[7 - (i % 8)] % 2

\* Bit fields of any width, one after the other, consume exactly their bits; the
\* low bits of each value are those bits of the packet, and it is nothing else
\* when it begins at a byte (ctx.go:203-216).
BitFieldsDecode ==
  /\ 8 * dec.pos + dec.bit = dec.used
  /\ \A r \in dec.reads :
       /\ \A i \in 0..(r.n - 1) :
            Shifted(r.value)[i] % 2 = BitAt(dec.data, r.at + r.n - 1 - i)
       /\ r.at % 8 = 0 => Shifted(r.value)[r.n] = 0
================================================================================
