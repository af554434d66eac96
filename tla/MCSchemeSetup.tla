---------------------------- MODULE MCSchemeSetup ----------------------------
(* Schemes of two data structures, which may refer to each other, and of one  *)
(* or two protocols.  A structure or a case that is null in the YAML is one   *)
(* whose only field is null: both are dereferenced.                           *)
EXTENDS SchemeExpansion

Bytes(b) == [type |-> "bytes", valid |-> TRUE, bytes |-> b, n |-> 0]
Number(n) == [type |-> "number", valid |-> TRUE, bytes |-> <<>>, n |-> n]
EvalLiteral == [type |-> "eval", valid |-> TRUE, bytes |-> <<>>, n |-> 0]
Invalid == [type |-> "bytes", valid |-> FALSE, bytes |-> <<>>, n |-> 0]

Field(kind) ==
  [kind |-> kind, ref |-> "", fields |-> <<>>, cases |-> <<>>, round |-> 0, size |-> 1,
   sizeExpr |-> "", expr |-> "", endian |-> "", pad |-> Bytes(<<>>),
   hasDefault |-> FALSE, default |-> Bytes(<<>>)]
WithDefault(size, literal, endian) ==
  [Field("bytes") EXCEPT !.size = size, !.hasDefault = TRUE, !.default = literal,
                         !.endian = endian]
Struct(ref) == [Field("struct") EXCEPT !.ref = ref]
ArrayOf(ref, fields) == [Field("array") EXCEPT !.ref = ref, !.fields = fields]
If(fields) == [Field("if") EXCEPT !.expr = "good", !.fields = fields]
Case(ref, fields) == [ref |-> ref, fields |-> fields]
Switch(cases, ref, fields) ==
  [Field("switch") EXCEPT !.cases = cases, !.ref = ref, !.fields = fields]

Plain == Field("bytes")
Null == Field("null")
Late == [Field("calc") EXCEPT !.expr = "good", !.round = 1]

\* What a data structure may hold.
StructureFields ==
  {<<>>, <<Plain>>, <<Null>>, <<[Plain EXCEPT !.expr = "bad"]>>,
   <<Struct("t")>>, <<Plain, Struct("s")>>, <<If(<<Late>>)>>,
   <<Switch(<<Case("t", <<Plain>>)>>, "", <<>>), Late>>, <<ArrayOf("t", <<>>)>>,
   <<Struct("t"), [Plain EXCEPT !.expr = "bad"]>>}

\* What a protocol may hold: all ways to refer to structures, and leaves that
\* compile, fail or panic.
ProtocolFields ==
  {<<>>, <<Plain, Late>>, <<Struct("s"), Struct("t")>>, <<Struct("u")>>, <<Struct("")>>,
   <<ArrayOf("s", <<Late>>)>>, <<ArrayOf("", <<>>)>>,
   <<[ArrayOf("", <<Plain>>) EXCEPT !.sizeExpr = "bad"]>>,
   <<If(<<Struct("s")>>), Plain>>, <<[If(<<>>) EXCEPT !.expr = "bad"]>>,
   <<Switch(<<Case("", <<Plain>>), Case("s", <<>>)>>, "t", <<Late>>)>>,
   <<Switch(<<Case("", <<>>)>>, "", <<>>)>>,
   <<Switch(<<Case("", <<Plain>>)>>, "u", <<>>)>>,
   <<Switch(<<>>, "", <<Struct("t")>>)>>,
   <<Field("calc")>>, <<[Plain EXCEPT !.pad = EvalLiteral]>>, <<[Plain EXCEPT !.pad = Invalid]>>,
   <<[Plain EXCEPT !.pad = Number(300), !.sizeExpr = "good"]>>,
   <<WithDefault(2, Number(258), "litter"), WithDefault(2, Number(-2), "")>>,
   <<WithDefault(3, Bytes(<<7>>), ""), WithDefault(1, Bytes(<<7, 8>>), "")>>,
   <<WithDefault(-1, Bytes(<<7, 8>>), ""), WithDefault(8, Number(-3), "")>>,
   <<WithDefault(9, Number(1), "")>>, <<WithDefault(-1, Number(1), "")>>,
   <<WithDefault(1, EvalLiteral, "")>>, <<WithDefault(1, Invalid, "")>>}

Rule(kind, complete, start, end) ==
  [kind |-> kind, complete |-> complete, start |-> start, end |-> end]
GoodRule == Rule("binary", TRUE, Bytes(<<126>>), Bytes(<<>>))
MCRules ==
  {GoodRule, Rule("text", TRUE, Bytes(<<42>>), Bytes(<<>>)),
   Rule("no protocol", TRUE, Bytes(<<>>), Bytes(<<>>)), Rule("", TRUE, Bytes(<<>>), Bytes(<<>>)),
   Rule("binary", FALSE, Bytes(<<126>>), Bytes(<<>>)),
   Rule("binary", TRUE, Number(126), Bytes(<<>>)),
   Rule("text", TRUE, Invalid, Number(1)), Rule("text", TRUE, Bytes(<<42>>), Number(1))}

\* The fields above and those in them, two levels down.
MCFields ==
  LET nested(fields) ==
        UNION {ToSet(f.fields) \cup UNION {ToSet(c.fields) : c \in ToSet(f.cases)} : f \in fields}
      outer == UNION {ToSet(s) : s \in ProtocolFields \cup StructureFields \cup {<<Struct("s"), Late>>}}
  IN outer \cup nested(outer) \cup nested(nested(outer))

MCSchemes ==
  LET two == {[protocols |-> <<[rule |-> GoodRule, fields |-> f]>>,
               structures |-> [n \in {"s", "t"} |-> IF n = "s" THEN s ELSE t]] :
                f \in ProtocolFields, s \in StructureFields, t \in StructureFields}
      one == {[protocols |-> <<[rule |-> GoodRule, fields |-> <<Struct("s"), Late>>],
                               [rule |-> r, fields |-> f]>>,
               structures |-> [n \in {"s"} |-> <<Plain>>]] :
                r \in MCRules, f \in ProtocolFields}
  IN two \cup one
==============================================================================
