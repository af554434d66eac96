------------------------------ MODULE SchemeSetup ------------------------------
(* Scheme.Setup: every protocol's framing rule is set up and its fields are   *)
(* compiled into nodes (core/schema.go, core/protocol.go, core/node.go and    *)
(* the Compile methods of node/).  Compile recurses through references to     *)
(* data structures; the recursion is a list of what is still to compile, each *)
(* with the depth of its call, and the nodes are listed in the order in which *)
(* their compilation begins.                                                  *)
EXTENDS Integers, SequencesExt

CONSTANTS Fields,     \* all fields of all schemes, nested ones included
          Schemes,    \* [protocols, structures], as read from YAML
          MaxDepth,   \* bound: nested calls of NodeCompile that the stack holds
          MaxSetups   \* bound: calls of Setup on a scheme

ASSUME BoundsAssumption == MaxDepth \in Nat \ {0} /\ MaxSetups \in Nat

Composites == {"if", "struct", "array", "switch"}
Literals == [type : {"number", "bytes", "eval"}, valid : BOOLEAN, bytes : Seq(0..255), n : Int]

\* What YAML gives: any kind of field with what it may hold, and schemes of them.
ASSUME FieldsAssumption ==
  \A f \in Fields :
    /\ f.kind \in Composites \cup {"bytes", "calc", "null"}
    /\ f.ref \in STRING /\ f.fields \in Seq(Fields)
    /\ f.cases \in Seq([ref : STRING, fields : Seq(Fields)])
    /\ f.size \in Int /\ f.hasDefault \in BOOLEAN /\ {f.pad, f.default} \subseteq Literals

Rules == [kind : STRING, complete : BOOLEAN, start : Literals, end : Literals]
ASSUME SchemesAssumption ==
  \A s \in Schemes :
    /\ s.protocols \in Seq([rule : Rules, fields : Seq(Fields)])
    /\ \A name \in DOMAIN s.structures : s.structures[name] \in Seq(Fields)

VARIABLES scheme,
          registered,  \* vpacket.Setup has registered the rules and the nodes
          pc,          \* idle, rule, compile, ok, error, panic or overflow
          at,          \* the protocol that Setup is at
          todo,        \* fields and groups still to compile for it
          nodes,       \* the nodes compiled for it
          parsed,      \* of each protocol: ParsedFramingRule and ParsedFields
          setups

vars == <<scheme, registered, pc, at, todo, nodes, parsed, setups>>

-----------------------------------------------------------------------------
(* Literals T'xxx'.                                                          *)
Parsed(bytes) == [is |-> "ok", bytes |-> bytes]
Refused == [is |-> "error", bytes |-> <<>>]
Panic == [is |-> "panic", bytes |-> <<>>]

\* 256 to the e, for the low bytes.
Power(e) == <<1, 256, 256 * 256, 256 * 256 * 256>>[e + 1]

\* Mutation: the bytes are taken from the other end.
Uint64ToBytesHigh(n, size, order) ==
  [i \in 1..size |-> LET e == IF order = "little" THEN 8 - i ELSE i - 1
                     IN IF e < 4 THEN (n \div Power(e)) % 256 ELSE IF n < 0 THEN 255 ELSE 0]

\* The low bytes of a 64 bit two's complement; numbers here have 31 bits.
Uint64ToBytes(n, size, order) ==
  [i \in 1..size |-> LET e == IF order = "little" THEN i - 1 ELSE size - i
                     IN IF e < 4 THEN (n \div Power(e)) % 256 ELSE IF n < 0 THEN 255 ELSE 0]

\* Cut, or filled with zeros on the right.
ResizeBytes(bytes, size) ==
  [i \in 1..size |-> IF i \in DOMAIN bytes THEN bytes[i] ELSE 0]

\* A number needs a byte order and a size of at most 8; an eval literal has no
\* bytes yet.
ParseTValue(literal, size, order) ==
  IF ~literal.valid THEN Refused
  ELSE CASE literal.type = "number" -> IF order = "none" \/ size \notin 0..8 THEN Panic
                                       ELSE Parsed(Uint64ToBytes(literal.n, size, order))
         [] literal.type = "bytes" -> Parsed(IF size < 0 THEN literal.bytes
                                                         ELSE ResizeBytes(literal.bytes, size))
         [] literal.type = "eval" -> Parsed(<<>>)

GetByteOrder(endian) == IF endian = "litter" THEN "little" ELSE "big"

-----------------------------------------------------------------------------
(* Framing rules.  "" is a rule that is not set.                             *)
Both(first, second) == IF first.is = "ok" THEN second.is ELSE first.is
RuleSetup(rule) ==
  IF rule.kind = "no protocol" THEN "panic"
  ELSE IF rule.kind \notin {"binary", "text"} \/ ~registered \/ ~rule.complete THEN "error"
  ELSE IF rule.kind = "binary" THEN ParseTValue(rule.start, -1, "none").is
  ELSE Both(ParseTValue(rule.start, -1, "none"), ParseTValue(rule.end, -1, "none"))

(* Fields without fields in them.                                            *)
Default(f) == ParseTValue(f.default, f.size, GetByteOrder(f.endian))

EncodableCompile(f) ==
  LET pad == ParseTValue(f.pad, 1, GetByteOrder(f.endian))
  IN IF pad = Parsed(<<>>) THEN "panic" ELSE pad.is

BytesCompile(f) ==
  IF EncodableCompile(f) # "ok" THEN EncodableCompile(f)
  ELSE IF "bad" \in {f.sizeExpr, f.expr} THEN "error"
  ELSE IF f.hasDefault THEN Default(f).is ELSE "ok"

CalcCompile(f) ==
  IF EncodableCompile(f) # "ok" THEN EncodableCompile(f)
  ELSE IF f.sizeExpr # "bad" /\ f.expr = "good" THEN "ok" ELSE "error"

\* What a composite field checks before it compiles the fields in it.
IfCompile(f) == IF f.expr = "good" THEN "ok" ELSE "error"
StructCompile(f) == IF f.ref # "" THEN "ok" ELSE "error"
ArrayCompile(f) == IF f.sizeExpr # "bad" THEN "ok" ELSE "error"
CompositeCompile(f) ==
  CASE f.kind = "if" -> IfCompile(f)
    [] f.kind = "struct" -> StructCompile(f)
    [] f.kind = "array" -> ArrayCompile(f)
    [] f.kind = "switch" -> "ok"

(* Groups of fields, given by reference or inline.                           *)
Group(ref, fields, required) ==
  [kind |-> "group", ref |-> ref, fields |-> fields, required |-> required]
Groups(f) ==
  CASE f.kind = "if" -> <<Group("", f.fields, FALSE)>>
    [] f.kind = "struct" -> <<Group(f.ref, <<>>, FALSE)>>
    [] f.kind = "array" -> <<Group(f.ref, f.fields, TRUE)>>
    [] f.kind = "switch" ->
         [i \in DOMAIN f.cases |-> Group(f.cases[i].ref, f.cases[i].fields, TRUE)]
           \o (IF f.ref # "" \/ f.fields # <<>> THEN <<Group(f.ref, f.fields, FALSE)>>
               ELSE <<>>)

\* Mutation: inline fields come first.
DefinitionInlineFirst(g) ==
  IF g.fields # <<>> THEN g.fields
  ELSE IF g.ref \in DOMAIN scheme.structures THEN scheme.structures[g.ref] ELSE <<>>

\* A reference comes before inline fields.
Definition(g) == IF g.ref = "" THEN g.fields ELSE scheme.structures[g.ref]

\* Mutation: what is required may be empty.
ResolvedEvenEmpty(g) == IF g.ref \notin DOMAIN scheme.structures \cup {""} THEN "error" ELSE "ok"

\* Mutation: an empty reference is looked up too.
ResolvedAlwaysLooks(g) ==
  IF g.ref \notin DOMAIN scheme.structures THEN "error"
  ELSE IF g.required /\ Definition(g) = <<>> THEN "error" ELSE "ok"

Resolved(g) ==
  IF g.ref \notin DOMAIN scheme.structures \cup {""} THEN "error"
  ELSE IF g.required /\ Definition(g) = <<>> THEN "error" ELSE "ok"

-----------------------------------------------------------------------------
Setting == pc \in {"rule", "compile"}
Protocol == scheme.protocols[at]
Items(fields, depth) == [i \in DOMAIN fields |-> [of |-> fields[i], depth |-> depth]]
Unset == [rule |-> FALSE, set |-> FALSE, nodes |-> <<>>, round |-> 0]

Init ==
  /\ scheme \in Schemes
  /\ registered = FALSE /\ pc = "idle" /\ at = 0
  /\ todo = <<>> /\ nodes = <<>> /\ setups = 0
  /\ parsed = [i \in DOMAIN scheme.protocols |-> Unset]

\* vpacket.Setup, which the program may call late, after a first error.
Register ==
  /\ ~registered /\ pc \in {"idle", "error"}
  /\ registered' = TRUE /\ pc' = "idle"
  /\ UNCHANGED <<scheme, at, todo, nodes, parsed, setups>>

\* Setup, also of a scheme whose Setup has ended with or without an error.
StartSetup ==
  /\ pc \in {"idle", "ok", "error"} /\ setups < MaxSetups
  /\ pc' = "rule" /\ at' = 1 /\ setups' = setups + 1
  /\ UNCHANGED <<scheme, registered, todo, nodes, parsed>>

\* Protocol.Setup keeps the rule also when the fields fail.
SetupRule ==
  /\ pc = "rule" /\ at <= Len(scheme.protocols)
  /\ IF RuleSetup(Protocol.rule) = "ok"
       THEN /\ pc' = "compile"
            /\ parsed' = [parsed EXCEPT ![at].rule = TRUE]
            /\ todo' = Items(Protocol.fields, 1)
       ELSE pc' = RuleSetup(Protocol.rule) /\ UNCHANGED <<parsed, todo>>
  /\ nodes' = <<>>
  /\ UNCHANGED <<scheme, registered, at, setups>>

Compiling(kinds) == pc = "compile" /\ todo # <<>> /\ Head(todo).of.kind \in kinds
Node(f, depth) ==
  [field |-> f, depth |-> depth, order |-> GetByteOrder(f.endian),
   default |-> IF f.kind = "bytes" /\ f.hasDefault THEN Default(f).bytes ELSE <<>>]

\* An attempt that ends in another outcome than ok leaves the nodes unused.
Outcome(is, items, compiled) ==
  IF is = "ok"
    THEN todo' = items \o Tail(todo) /\ nodes' = nodes \o compiled /\ UNCHANGED pc
    ELSE pc' = is /\ UNCHANGED <<todo, nodes>>

\* A type that no compiler has is that of bytes; a null field is dereferenced.
CompileLeaf ==
  /\ Compiling({"bytes", "calc", "null"})
  /\ LET f == Head(todo).of
     IN Outcome(CASE f.kind = "null" -> "panic"
                  [] f.kind = "bytes" -> BytesCompile(f)
                  [] f.kind = "calc" -> CalcCompile(f),
                <<>>, <<Node(f, Head(todo).depth)>>)
  /\ UNCHANGED <<scheme, registered, at, parsed, setups>>

CompileComposite ==
  /\ Compiling(Composites)
  /\ LET f == Head(todo).of
     IN Outcome(CompositeCompile(f), Items(Groups(f), Head(todo).depth),
                <<Node(f, Head(todo).depth)>>)
  /\ UNCHANGED <<scheme, registered, at, parsed, setups>>

\* NodeCompileWithRef: a call of NodeCompile, for which the stack must suffice.
NodeCompileWithRef ==
  /\ Compiling({"group"})
  /\ LET g == Head(todo).of
     IN IF Head(todo).depth >= MaxDepth
          THEN pc' = "overflow" /\ UNCHANGED <<todo, nodes>>
          ELSE Outcome(Resolved(g),
                       IF Resolved(g) = "ok" THEN Items(Definition(g), Head(todo).depth + 1)
                                             ELSE <<>>, <<>>)
  /\ UNCHANGED <<scheme, registered, at, parsed, setups>>

\* The round of a protocol is the largest of its own nodes, not of nodes in them.
ProtocolEnds ==
  /\ pc = "compile" /\ todo = <<>>
  /\ parsed' = [parsed EXCEPT
       ![at].set = TRUE, ![at].nodes = nodes,
       ![at].round = Max({@} \cup {nodes[i].field.round :
                                     i \in {j \in DOMAIN nodes : nodes[j].depth = 1}})]
  /\ pc' = "rule" /\ at' = at + 1
  /\ UNCHANGED <<scheme, registered, todo, nodes, setups>>

SetupEnds ==
  /\ pc = "rule" /\ at > Len(scheme.protocols)
  /\ pc' = "ok"
  /\ UNCHANGED <<scheme, registered, at, todo, nodes, parsed, setups>>

Next ==
  \/ Register \/ StartSetup \/ SetupRule
  \/ CompileLeaf \/ CompileComposite \/ NodeCompileWithRef \/ ProtocolEnds \/ SetupEnds

Spec == Init /\ [][Next]_vars

-----------------------------------------------------------------------------
(* What a scheme means, without an order: the fields that a field leads to,   *)
(* level by level as deep as calls may go, and whether each of them is sound.  *)
Names == DOMAIN scheme.structures
Inside(f) ==
  IF f.kind \notin Composites THEN {}
  ELSE UNION {IF g.ref = "" THEN ToSet(g.fields)
              ELSE IF g.ref \in Names THEN ToSet(scheme.structures[g.ref]) ELSE {} :
                g \in ToSet(Groups(f))}
Levels(fields) ==
  LET level[d \in Nat] == IF d = 0 THEN fields ELSE UNION {Inside(f) : f \in level[d - 1]}
  IN level
Whole(fields) == UNION {Levels(fields)[d] : d \in 0..MaxDepth}
Cyclic(f) == f \in Whole(Inside(f))

FieldSound(f) ==
  CASE f.kind = "null" -> FALSE
    [] f.kind = "bytes" -> BytesCompile(f) = "ok"
    [] f.kind = "calc" -> CalcCompile(f) = "ok"
    [] f.kind \in Composites ->
         /\ CompositeCompile(f) = "ok"
         /\ \A g \in ToSet(Groups(f)) :
              /\ g.ref # "" => g.ref \in Names
              /\ g.required => IF g.ref # "" THEN scheme.structures[g.ref] # <<>>
                                             ELSE g.fields # <<>>

Sound(p) ==
  /\ registered /\ RuleSetup(p.rule) = "ok"
  /\ \A f \in Whole(ToSet(p.fields)) : FieldSound(f) /\ ~Cyclic(f)

TypeOK ==
  /\ registered \in BOOLEAN
  /\ pc \in {"idle", "rule", "compile", "ok", "error", "panic", "overflow"}
  /\ at \in 0..(Len(scheme.protocols) + 1) /\ setups \in 0..MaxSetups
  /\ \A i \in DOMAIN todo : todo[i].depth \in 1..MaxDepth
  /\ DOMAIN parsed = DOMAIN scheme.protocols
  /\ \A i \in DOMAIN parsed : parsed[i].set => parsed[i].rule

(* ----------------------------- Properties -------------------------------- *)
\* A scheme that Setup accepts is sound as a whole: whatever a switch, an array
\* or a structure could lead to at run time has been checked (node.go:154-171,
\* struct.go:14-31, switch.go:15-46).
SetupChecksAll ==
  /\ TypeOK
  /\ pc = "ok" => \A i \in DOMAIN parsed : parsed[i].set /\ Sound(scheme.protocols[i])

\* Setup stops only at a protocol that is not sound, and the stack overflows only
\* where a field leads to itself, at whatever distance, or where the definition has
\* more different fields than the stack has room for calls.
StopsForAReason ==
  /\ pc \in {"error", "panic", "overflow"} => at > 0
  /\ pc \in {"error", "panic"} => ~Sound(Protocol)
  /\ pc = "overflow" =>
       LET fields == Whole(ToSet(Protocol.fields))
       IN Cardinality(fields) >= MaxDepth \/ \E f \in fields : Cyclic(f)

\* Up to three bytes, as Decode reads them.
Value(bytes, order) ==
  LET digit(k) == IF k > Len(bytes) THEN 0
                  ELSE bytes[IF order = "big" THEN Len(bytes) + 1 - k ELSE k]
  IN digit(1) + 256 * (digit(2) + 256 * digit(3))
Defaults == {n \in UNION {ToSet(parsed[i].nodes) : i \in DOMAIN parsed} :
               n.field.kind = "bytes" /\ n.field.hasDefault}

\* A default of a field with a size takes that many bytes, and a number in it is
\* read back by Decode as it was, modulo its size.
DefaultsReadBack ==
  \A n \in Defaults :
    /\ n.field.size > 0 /\ n.field.default.type # "eval" => Len(n.default) = n.field.size
    /\ n.field.size \in 1..3 /\ n.field.default.type = "number" =>
         Value(n.default, n.order) = n.field.default.n % Power(n.field.size)
================================================================================
