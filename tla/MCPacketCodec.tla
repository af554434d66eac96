----------------------------- MODULE MCPacketCodec -----------------------------
(* Small protocols in the shapes of resources/protocols.yaml; a case value that *)
(* is written twice counts as written last.                                    *)
EXTENDS PacketCodec, Crc16

CrcKey == [crc16_modbus |-> "modbus", crc16_xmodem |-> "xmodem", crc16_other |-> "other"]
Names == DOMAIN CrcKey
Keyed == {name \in Names : CrcKey[name] \in DOMAIN Algorithms}
Checksum16(name, data) == Crc(CrcKey[name], data)

None == [on |-> "none", name |-> <<>>, n |-> 0]
Const(k) == [on |-> "const", name |-> <<>>, n |-> k]
Field(name, by) == [on |-> "field", name |-> name, n |-> by]
Equal(name, k) == [on |-> "equal", name |-> name, n |-> k]
PacketLen == [on |-> "packetLen", name |-> <<>>, n |-> 0]
LenFrom(mark) == [on |-> "lenFrom", name |-> mark, n |-> 0]

Node(id, kind, name) ==
  [id |-> id, kind |-> kind, name |-> name, flow |-> "", round |-> 0, track |-> FALSE,
   type |-> "hex", size |-> 0, sizeExpr |-> None, bits |-> 0, order |-> "big",
   pad |-> [byte |-> 0, left |-> FALSE], hasDefault |-> FALSE, default |-> <<>>,
   crc |-> "", crcStart |-> None, crcEnd |-> None, check |-> None,
   formula |-> None, cond |-> None, field |-> <<>>, cases |-> <<>>, then |-> <<>>]
Hex(id, name, size) == [Node(id, "bytes", name) EXCEPT !.size = size]
UintField(id, name, size) == [Hex(id, name, size) EXCEPT !.type = "uint"]
Bits(id, name, bits) == [Node(id, "bytes", name) EXCEPT !.bits = bits]
Calc(name, formula) == [Node(0, "calc", name) EXCEPT !.formula = formula]
Decoded(n) == [n EXCEPT !.flow = "decode"]
Encoded(n) == [n EXCEPT !.flow = "encode"]

Cmd == <<"command">>
\* A board packet: magic, command, length, checksum, payload by command.
Board ==
  <<[Hex(1, <<"magic">>, 1) EXCEPT !.hasDefault = TRUE, !.default = <<114>>],
    Hex(2, Cmd, 1),
    Decoded([UintField(3, <<"dataLen">>, 1) EXCEPT !.type = "int"]),
    Encoded([Calc(<<"dataLen">>, LenFrom(<<"dataStart">>)) EXCEPT !.size = 1, !.round = 1]),
    [Hex(4, <<"dataCrc">>, 2) EXCEPT !.crc = "crc16_modbus", !.crcStart = Const(5),
                                     !.crcEnd = PacketLen, !.round = 1],
    [Node(0, "switch", <<"dataStart">>) EXCEPT
       !.field = Cmd, !.track = TRUE,
       !.cases = <<[value |-> Str(<<1>>),
                    then |-> <<UintField(5, <<"data", "index">>, 1),
                               Hex(6, <<"data", "content">>, -1)>>],
                   [value |-> Str(<<2>>), then |-> <<Hex(10, <<"data", "old">>, 2)>>],
                   [value |-> Str(<<2>>),
                    then |-> <<Decoded(UintField(7, <<"data", "code">>, 1)),
                               Decoded(Calc(<<"data", "success">>, Equal(<<"data", "code">>, 0))),
                               Encoded([Hex(8, <<"data", "code">>, 1) EXCEPT
                                          !.type = "uint"])>>]>>,
       !.then = <<[Node(9, "bytes", <<"raw">>) EXCEPT !.sizeExpr = Field(<<"dataLen">>, 1)]>>]>>
BoardInputs ==
  {Cmd :> Str(<<1>>) @@ <<"data", "index">> :> Float(7) @@ <<"data", "content">> :> Str(<<8, 9>>),
   Cmd :> Str(<<1>>) @@ <<"data", "index">> :> Float(300) @@ <<"data", "content">> :> Str(<<8>>),
   Cmd :> Str(<<1>>) @@ <<"data", "index">> :> Float(7),
   Cmd :> Str(<<2>>) @@ <<"data", "code">> :> Float(0),
   Cmd :> Str(<<9>>) @@ <<"raw">> :> Str(<<5>>) @@ <<"dataLen">> :> Float(1),
   Cmd :> Float(1)}

\* Optional and counted parts: an if, a struct, an array and a computed size.
Parts ==
  <<UintField(1, <<"flag">>, 1),
    [Node(0, "if", <<"if">>) EXCEPT
       !.cond = Equal(<<"flag">>, 1),
       !.then = <<UintField(2, <<"len">>, 1),
                  [Node(3, "bytes", <<"text">>) EXCEPT !.type = "string",
                     !.sizeExpr = Field(<<"len">>, 1), !.pad = [byte |-> 32, left |-> TRUE]]>>],
    [Node(0, "struct", <<"tail">>) EXCEPT
       !.then = <<[UintField(4, <<"port">>, 2) EXCEPT !.order = "little"]>>],
    Encoded([Calc(<<"total">>, PacketLen) EXCEPT !.size = 1, !.round = 1]),
    Decoded(UintField(5, <<"total">>, 1)),
    [Node(0, "array", <<"io">>) EXCEPT
       !.sizeExpr = Field(<<"flag">>, 1),
       !.then = <<UintField(6, <<"io", "port">>, 1), UintField(7, <<"io", "value">>, 1)>>]>>
PartsInputs ==
  {<<"flag">> :> Float(0) @@ <<"port">> :> Float(258),
   <<"flag">> :> Float(1) @@ <<"len">> :> Float(2) @@ <<"text">> :> Str(<<65>>)
     @@ <<"port">> :> Float(513),
   <<"flag">> :> Float(1) @@ <<"len">> :> Float(1) @@ <<"text">> :> Str(<<65>>)
     @@ <<"port">> :> Float(1) @@ <<"io">> :> Array(<<Float(9)>>),
   <<"flag">> :> Float(1)}

\* Bit fields, and a field of sixteen bits in a later round.
Flags ==
  <<Bits(1, <<"a">>, 3), Bits(2, <<"b">>, 5), Bits(3, <<"c">>, 9), Bits(4, <<"d">>, 7),
    [Bits(5, <<"e">>, 16) EXCEPT !.round = 1], [UintField(6, <<"f">>, 1) EXCEPT !.round = 1],
    [UintField(7, <<"g">>, 1) EXCEPT !.check = Equal(<<"g">>, 3)]>>

\* A nested round that no top-level node has, and one of a hex field of any size.
Nested ==
  <<[Node(0, "struct", <<"s">>) EXCEPT
       !.then = <<Encoded([Calc(<<"len">>, PacketLen) EXCEPT !.size = 1, !.round = 1]),
                  Decoded(UintField(2, <<"len">>, 1))>>],
    Hex(1, <<"x">>, 1)>>
Open == <<UintField(1, <<"n">>, 1), [Hex(2, <<"x">>, -1) EXCEPT !.round = 1]>>

\* Fields that Encode writes and Decode refuses: floats, and a checksum that is
\* declared by its size and has no end.
FloatField(id, name, size) == [Hex(id, name, size) EXCEPT !.type = "float"]
Floats == <<FloatField(1, <<"x">>, 4), [FloatField(2, <<"y">>, 8) EXCEPT !.order = "little"]>>
OpenCrc == <<Hex(1, <<"a">>, 2), [Hex(2, <<"crc">>, 2) EXCEPT !.crc = "crc16_xmodem", !.round = 1]>>

\* Checksums whose name is no name, and whose key is none, with data and without.
Unnamed == <<Hex(1, <<"a">>, 1), [Hex(2, <<"crc">>, 2) EXCEPT !.crc = "modbus"]>>
Unkeyed == <<Hex(1, <<"a">>, 1),
             [Hex(2, <<"crc">>, 2) EXCEPT !.crc = "crc16_other", !.crcEnd = Const(0)],
             [Hex(3, <<"all">>, 2) EXCEPT !.crc = "crc16_other", !.round = 1,
                                          !.crcEnd = Const(1)]>>

\* A Boolean formula that is due in a later round, and a default that is longer than
\* the room its expression asks for.
Verdict == <<Encoded([Calc(<<"ok">>, Equal(<<"x">>, 1)) EXCEPT !.size = 1, !.round = 1]),
             Decoded(UintField(1, <<"ok">>, 1)), UintField(2, <<"x">>, 1)>>
Long == <<UintField(1, <<"n">>, 1),
          [Hex(2, <<"y">>, 3) EXCEPT !.sizeExpr = Field(<<"n">>, 1), !.round = 1,
                                     !.hasDefault = TRUE, !.default = <<7, 7, 7>>],
          Hex(3, <<"z">>, 1)>>

\* Fields of fixed sizes, of two rounds, one of them with a default.
Record ==
  <<[UintField(1, <<"seq">>, 2) EXCEPT !.order = "little", !.round = 1],
    [Node(0, "struct", <<"unit">>) EXCEPT
       !.then = <<Hex(2, <<"id">>, 2), [UintField(3, <<"port">>, 1) EXCEPT !.round = 1]>>],
    [Hex(4, <<"end">>, 2) EXCEPT !.hasDefault = TRUE, !.default = <<13, 10>>]>>
RecordInputs ==
  {<<"seq">> :> Float(seq) @@ <<"id">> :> Str(<<1, 2>>) @@ <<"port">> :> Float(7) :
     seq \in {258, 70000}}

MCProtocols ==
  {[nodes |-> Board, inputs |-> BoardInputs,
    packets |-> {<<114, 2, 1, 191, 64, 0>>, <<114, 2, 1, 0, 0, 0>>, <<114, 1>>}],
   [nodes |-> Parts, inputs |-> PartsInputs,
    packets |-> {<<2, 1, 0, 0, 7, 8, 9, 10>>, <<0, 1, 0, 9>>, <<1, 9, 1>>}],
   [nodes |-> Flags, inputs |-> {<<"e">> :> Float(513) @@ <<"f">> :> Float(4) @@ <<"g">> :> Float(3)},
    packets |-> {<<181, 42, 200, 1, 2, 4, 3>>, <<181, 42, 200, 1, 2, 4, 5>>, <<181, 42>>}],
   [nodes |-> Nested, inputs |-> {<<"x">> :> Str(<<1>>)}, packets |-> {}],
   [nodes |-> Open, inputs |-> {<<"n">> :> Float(1)}, packets |-> {<<1, 2, 3>>}],
   [nodes |-> Floats, inputs |-> {<<"x">> :> Float(2) @@ <<"y">> :> Float(31)}, packets |-> {}],
   [nodes |-> OpenCrc, inputs |-> {<<"a">> :> Str(<<1, 2>>)},
    packets |-> {<<1, 2>> \o IntBytes(Crc("xmodem", <<1, 2>>), 2, "big")}],
   [nodes |-> Unnamed, inputs |-> {<<"a">> :> Str(<<1>>)}, packets |-> {<<1, 0, 0>>}],
   [nodes |-> Unkeyed, inputs |-> {<<"a">> :> Str(<<1>>)}, packets |-> {<<1, 0, 0, 0, 0>>}],
   [nodes |-> Verdict, inputs |-> {<<"x">> :> Float(k) : k \in {0, 1}}, packets |-> {}],
   [nodes |-> Long, inputs |-> {<<"n">> :> Float(1) @@ <<"z">> :> Str(<<9>>)},
    packets |-> {<<2, 3, 4, 5>>}],
   [nodes |-> Record, inputs |-> RecordInputs, packets |-> {<<1, 2, 3, 4, 5, 6, 7>>, <<1, 2>>}]}

\* The nodes of these protocols.
RECURSIVE Within(_)
Within(nodes) ==
  UNION {{n} \cup Within(n.then) \cup UNION {Within(n.cases[i].then) : i \in DOMAIN n.cases} :
           n \in Range(nodes)}
MCNodes == UNION {Within(p.nodes) : p \in MCProtocols}
================================================================================
