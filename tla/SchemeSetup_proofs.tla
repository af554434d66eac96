-------------------------- MODULE SchemeSetup_proofs --------------------------
(* What Scheme.Setup accepts and why it stops, for any schemes.               *)
EXTENDS SchemeExpansion, FiniteSetTheorems, WellFoundedInduction, SequenceTheorems, TLAPS

-----------------------------------------------------------------------------
(* Defaults.                                                                 *)

LEMMA RemainderOfSum ==
  ASSUME NEW n \in Int, NEW m \in Nat \ {0}, NEW s \in Int, s >= 0, s < m, NEW q \in Int,
         n = m * q + s
  PROVE  n % m = s /\ n \div m = q
  BY SMT

\* The low digits of a number make up its remainder.
LEMMA DigitsMakeRemainder ==
  ASSUME NEW n \in Int
  PROVE  /\ (n % 256) + 256 * ((n \div 256) % 256) = n % (256 * 256)
         /\ (n % 256) + 256 * (((n \div 256) % 256) + 256 * ((n \div (256 * 256)) % 256))
              = n % (256 * 256 * 256)
<1> DEFINE p == n \div 256   q == p \div 256   r == q \div 256
           a == n % 256   b == p % 256   c == q % 256
<1>1. n = 256 * p + a /\ a \in 0..255 /\ p \in Int
  BY SMT
<1>2. p = 256 * q + b /\ b \in 0..255 /\ q \in Int
  <2> HIDE DEF p
  <2> QED BY <1>1, SMT
<1>3. q = 256 * r + c /\ c \in 0..255 /\ r \in Int
  <2> HIDE DEF q
  <2> QED BY <1>2, SMT
<1> HIDE DEF a, b, c, p, q, r
<1> DEFINE s == 256 * b + a
           t == 256 * (256 * c + b) + a
<1>4. /\ n % 65536 = 256 * b + a /\ n \div 65536 = q
      /\ n % 16777216 = 256 * (256 * c + b) + a
  <2>1. /\ s \in Int /\ s >= 0 /\ s < 65536 /\ n = 65536 * q + s
        /\ t \in Int /\ t >= 0 /\ t < 16777216 /\ n = 16777216 * r + t
    BY <1>1, <1>2, <1>3, SMT
  <2>2. 65536 \in Nat \ {0} /\ 16777216 \in Nat \ {0}
    BY SMT
  <2> HIDE DEF s, t
  <2>3. n % 65536 = s /\ n \div 65536 = q
    BY <1>2, <2>1, <2>2, RemainderOfSum, SMT
  <2>4. n % 16777216 = t
    BY <1>3, <2>1, <2>2, RemainderOfSum, SMT
  <2> QED BY <2>3, <2>4, SMT DEF s, t
<1>5. 256 * 256 = 65536 /\ 256 * 256 * 256 = 16777216
  BY SMT
<1>6. a = n % 256 /\ b = (n \div 256) % 256 /\ c = q % 256
  BY DEF a, b, c, p
<1> QED BY <1>1, <1>2, <1>3, <1>4, <1>5, <1>6, SMT

\* What is read of the bytes of a number, in either order.
LEMMA NumberReads ==
  ASSUME NEW n \in Int, NEW size \in 1..3, NEW order \in {"big", "little"}
  PROVE  Value(Uint64ToBytes(n, size, order), order) = n % Power(size)
<1> DEFINE b == Uint64ToBytes(n, size, order)
           e(i) == IF order = "little" THEN i - 1 ELSE size - i
           digit(k) == IF k > Len(b) THEN 0
                       ELSE b[IF order = "big" THEN Len(b) + 1 - k ELSE k]
<1>1. /\ Power(0) = 1 /\ Power(1) = 256 /\ Power(2) = 256 * 256 /\ Power(3) = 256 * 256 * 256
  BY SMT DEF Power
<1>2. ASSUME NEW i \in 1..size PROVE b[i] = (n \div Power(e(i))) % 256
  BY DEF Uint64ToBytes
<1>3. Len(b) = size
  <2>1. \A i \in 1..size : b[i] \in Int \/ b[i] \notin Int OBVIOUS
  <2>2. DOMAIN b = 1..size
    BY DEF Uint64ToBytes
  <2>3. b = [i \in 1..size |-> b[i]]
    BY <2>2 DEF Uint64ToBytes
  <2> HIDE DEF b
  <2> QED BY <2>2, <2>3
<1>4. ASSUME NEW k \in 1..size PROVE digit(k) = (n \div Power(k - 1)) % 256
  <2>1. CASE order = "big"
    <3>1. size + 1 - k \in 1..size /\ e(size + 1 - k) = k - 1
      BY <2>1
    <3> QED BY <1>2, <1>3, <2>1, <3>1
  <2>2. CASE order = "little"
    BY <1>2, <1>3, <2>2
  <2> QED BY <2>1, <2>2
<1>5. ASSUME NEW k \in Int, k > size PROVE digit(k) = 0
  BY <1>3, <1>5
<1>6. Value(b, order) = digit(1) + 256 * (digit(2) + 256 * digit(3))
  BY DEF Value
<1> HIDE DEF b, digit
<1>7. (n \div 1) % 256 = n % 256
  OBVIOUS
<1>8. CASE size = 1
  BY <1>1, <1>4, <1>5, <1>6, <1>7, <1>8 DEF b
<1>9. CASE size = 2
  <2>1. digit(1) = n % 256 /\ digit(2) = (n \div 256) % 256 /\ digit(3) = 0
    BY <1>1, <1>4, <1>5, <1>7, <1>9
  <2>2. Value(b, order) = (n % 256) + 256 * ((n \div 256) % 256)
    BY <1>6, <2>1
  <2> QED BY <1>1, <1>9, <2>2, DigitsMakeRemainder DEF b
<1>10. CASE size = 3
  <2>1. /\ digit(1) = n % 256 /\ digit(2) = (n \div 256) % 256
        /\ digit(3) = (n \div (256 * 256)) % 256
    BY <1>1, <1>4, <1>5, <1>7, <1>10
  <2>2. Value(b, order)
          = (n % 256) + 256 * (((n \div 256) % 256) + 256 * ((n \div (256 * 256)) % 256))
    BY <1>6, <2>1
  <2> QED BY <1>1, <1>10, <2>2, DigitsMakeRemainder DEF b
<1> QED BY <1>8, <1>9, <1>10

LEMMA SizedSequence ==
  ASSUME NEW size \in Nat, NEW s, DOMAIN s = 1..size, s = [i \in 1..size |-> s[i]]
  PROVE  Len(s) = size
  OBVIOUS

\* A default that compiles has the size of its field, and its number is read back.
LEMMA DefaultReads ==
  ASSUME NEW f \in Fields, Default(f).is = "ok"
  PROVE  /\ f.size > 0 /\ f.default.type # "eval" => Len(Default(f).bytes) = f.size
         /\ f.size \in 1..3 /\ f.default.type = "number" =>
              Value(Default(f).bytes, GetByteOrder(f.endian)) = f.default.n % Power(f.size)
<1> DEFINE literal == f.default
           order == GetByteOrder(f.endian)
           b == Default(f).bytes
<1>1. /\ f.size \in Int /\ literal \in Literals
  BY FieldsAssumption
<1>2. order \in {"big", "little"}
  BY DEF GetByteOrder
<1>3. literal.type \in {"number", "bytes", "eval"} /\ literal.n \in Int /\ literal.valid \in BOOLEAN
  BY <1>1 DEF Literals
<1>4. literal.valid
  <2> SUFFICES ASSUME ~literal.valid PROVE FALSE
    OBVIOUS
  <2>1. Default(f) = Refused
    BY Zenon DEF Default, ParseTValue
  <2> QED BY <2>1 DEF Refused
<1>5. CASE literal.type = "number"
  <2>1. f.size \in 0..8 /\ b = Uint64ToBytes(literal.n, f.size, order)
    <3>1. Default(f) = IF order = "none" \/ f.size \notin 0..8 THEN Panic
                       ELSE Parsed(Uint64ToBytes(literal.n, f.size, order))
      BY <1>4, <1>5, Zenon DEF Default, ParseTValue
    <3> QED BY <3>1 DEF Panic, Parsed
  <2>2. Len(b) = f.size
    <3>1. f.size \in Nat BY <2>1
    <3>2. DOMAIN b = 1..f.size /\ b = [i \in 1..f.size |-> b[i]]
      BY <2>1, Zenon DEF Uint64ToBytes
    <3> HIDE DEF b
    <3> QED BY <3>1, <3>2, SizedSequence
  <2>3. f.size \in 1..3 => Value(b, order) = literal.n % Power(f.size)
    <3> HIDE DEF b, order
    <3> QED BY <1>2, <1>3, <2>1, NumberReads
  <2> QED BY <2>2, <2>3
<1>6. CASE literal.type = "bytes" /\ f.size > 0
  <2>1. b = ResizeBytes(literal.bytes, f.size)
    <3>1. Default(f) = Parsed(IF f.size < 0 THEN literal.bytes
                               ELSE ResizeBytes(literal.bytes, f.size))
      BY <1>4, <1>6, Zenon DEF Default, ParseTValue
    <3> QED BY <1>1, <1>6, <3>1 DEF Parsed
  <2>2. f.size \in Nat BY <1>1, <1>6
  <2>3. DOMAIN b = 1..f.size /\ b = [i \in 1..f.size |-> b[i]]
    BY <2>1, Zenon DEF ResizeBytes
  <2>4. Len(b) = f.size
    <3> HIDE DEF b
    <3> QED BY <2>2, <2>3, SizedSequence
  <2> QED BY <1>6, <2>4
<1> QED BY <1>3, <1>5, <1>6

-----------------------------------------------------------------------------
(* Levels of a definition.                                                   *)
Deeper(fields) == UNION {Inside(f) : f \in fields}

LEMMA Least ==
  ASSUME NEW S \in SUBSET Nat, S # {}
  PROVE  \E m \in S : \A n \in S : m <= n
<1>1. PICK m \in S : \A n \in S : ~(<<n, m>> \in OpToRel(<, Nat))
  BY NatLessThanWellFounded, WFMin
<1>2. \A n \in S : m <= n
  <2> SUFFICES ASSUME NEW n \in S, n < m PROVE FALSE
    OBVIOUS
  <2>1. <<n, m>> \in Nat \X Nat /\ <<n, m>>[1] < <<n, m>>[2]
    OBVIOUS
  <2>2. <<n, m>> \in OpToRel(<, Nat)
    BY <2>1, Zenon DEF OpToRel
  <2> QED BY <1>1, <2>2
<1> QED BY <1>2

\* The recursive function Levels exists: its values up to a level are those of any
\* function that goes as far.
LEMMA LevelsSteps ==
  ASSUME NEW fields
  PROVE  /\ Levels(fields)[0] = fields
         /\ \A d \in Nat : Levels(fields)[d + 1] = Deeper(Levels(fields)[d])
<1> DEFINE Approx(n, h) == h = [d \in 0..n |-> IF d = 0 THEN fields ELSE Deeper(h[d - 1])]
<1>1. \A n \in Nat : \E h : Approx(n, h)
  <2> DEFINE Bad == {n \in Nat : ~\E h : Approx(n, h)}
  <2> SUFFICES ASSUME Bad # {} PROVE FALSE
    OBVIOUS
  <2>1. PICK n \in Bad : \A m \in Bad : n <= m
    <3>1. Bad \in SUBSET Nat OBVIOUS
    <3> HIDE DEF Bad
    <3> QED BY <3>1, Least
  <2>2. CASE n = 0
    <3> DEFINE h == [d \in 0..0 |-> fields]
    <3>1. h = [d \in 0..0 |-> IF d = 0 THEN fields ELSE Deeper(h[d - 1])]
      <4>1. \A d \in 0..0 : d = 0 OBVIOUS
      <4> QED BY <4>1
    <3> QED BY <2>2, <3>1
  <2>3. CASE n # 0
    <3>1. n \in Nat /\ n - 1 \in Nat /\ n - 1 \notin Bad
      <4>1. n \in Nat
        BY <2>1
      <4>2. n - 1 \in Nat /\ ~(n <= n - 1)
        BY <2>3, <4>1
      <4> HIDE DEF Bad
      <4> QED BY <2>1, <4>1, <4>2
    <3>2. PICK h : Approx(n - 1, h)
      BY <3>1
    <3> DEFINE g == [d \in 0..n |-> IF d = 0 THEN fields ELSE Deeper(h[d - 1])]
    <3>3. ASSUME NEW e \in 0..(n - 1) PROVE h[e] = g[e]
      <4>1. h[e] = IF e = 0 THEN fields ELSE Deeper(h[e - 1])
        BY <3>2
      <4>2. e \in 0..n
        BY <3>1
      <4> QED BY <4>1, <4>2
    <3>4. ASSUME NEW d \in 0..n, d # 0 PROVE h[d - 1] = g[d - 1]
      <4>1. d - 1 \in 0..(n - 1)
        BY <3>1, <3>4
      <4> QED BY <3>3, <4>1
    <3>5. g = [d \in 0..n |-> IF d = 0 THEN fields ELSE Deeper(g[d - 1])]
      <4> DEFINE k == [d \in 0..n |-> IF d = 0 THEN fields ELSE Deeper(g[d - 1])]
      <4>1. ASSUME NEW d \in 0..n PROVE g[d] = k[d]
        BY <3>4, <4>1
      <4> QED BY <4>1
    <3> QED BY <2>1, <3>5
  <2> QED BY <2>2, <2>3
<1>2. ASSUME NEW n \in Nat, NEW m \in Nat, NEW h, NEW k, Approx(n, h), Approx(m, k)
      PROVE  \A d \in 0..n : d \in 0..m => h[d] = k[d]
  <2> DEFINE Bad == {d \in 0..n : d \in 0..m /\ h[d] # k[d]}
  <2> SUFFICES ASSUME Bad # {} PROVE FALSE
    OBVIOUS
  <2>1. PICK d \in Bad : \A e \in Bad : d <= e
    <3>1. Bad \in SUBSET Nat OBVIOUS
    <3> HIDE DEF Bad
    <3> QED BY <3>1, Least
  <2>2. /\ h[d] = IF d = 0 THEN fields ELSE Deeper(h[d - 1])
        /\ k[d] = IF d = 0 THEN fields ELSE Deeper(k[d - 1])
    BY <1>2, <2>1
  <2>3. d # 0 => d - 1 \in 0..n /\ d - 1 \in 0..m /\ d - 1 \notin Bad
    BY <2>1
  <2> QED BY <2>1, <2>2, <2>3
<1> DEFINE h(n) == CHOOSE h : Approx(n, h)
           G == [d \in Nat |-> h(d)[d]]
<1>3. ASSUME NEW n \in Nat PROVE Approx(n, h(n))
  BY <1>1, Zenon
<1>4. G = [d \in Nat |-> IF d = 0 THEN fields ELSE Deeper(G[d - 1])]
  <2> DEFINE k == [d \in Nat |-> IF d = 0 THEN fields ELSE Deeper(G[d - 1])]
  <2>1. ASSUME NEW d \in Nat PROVE G[d] = k[d]
    <3> HIDE DEF h
    <3>1. h(d)[d] = IF d = 0 THEN fields ELSE Deeper(h(d)[d - 1])
      <4>1. Approx(d, h(d))
        BY <1>3
      <4>2. d \in 0..d
        OBVIOUS
      <4> QED BY <4>1, <4>2
    <3>2. CASE d # 0
      <4>1. d - 1 \in Nat /\ d - 1 \in 0..d /\ d - 1 \in 0..(d - 1)
        BY <3>2
      <4>2. Approx(d, h(d)) /\ Approx(d - 1, h(d - 1))
        BY <1>3, <4>1
      <4> HIDE DEF Approx
      <4>3. h(d)[d - 1] = h(d - 1)[d - 1]
        BY <1>2, <4>1, <4>2
      <4> QED BY <3>1, <3>2, <4>1, <4>3
    <3> QED BY <3>1, <3>2
  <2> HIDE DEF h
  <2> QED BY <2>1
<1>5. Levels(fields) = [d \in Nat |-> IF d = 0 THEN fields ELSE Deeper(Levels(fields)[d - 1])]
  <2> HIDE DEF G
  <2> QED BY <1>4, Zenon DEF Levels, Deeper
<1> HIDE DEF Approx, h, G
<1>6. Levels(fields)[0] = fields
  BY <1>5
<1>7. ASSUME NEW d \in Nat PROVE Levels(fields)[d + 1] = Deeper(Levels(fields)[d])
  <2>1. d + 1 \in Nat /\ d + 1 # 0 /\ (d + 1) - 1 = d
    OBVIOUS
  <2> QED BY <1>5, <2>1
<1> QED BY <1>6, <1>7

\* What a level leads to is in the next one.
LEMMA NextLevel ==
  ASSUME NEW S, NEW d \in Nat, NEW f \in Levels(S)[d], NEW g \in Inside(f)
  PROVE  g \in Levels(S)[d + 1]
  BY LevelsSteps DEF Deeper

Chain(c, S, n) == c[0] \in S /\ \A k \in 0..(n - 1) : c[k + 1] \in Inside(c[k])

\* The fields of a chain lie in one level after the other.
LEMMA ChainLevels ==
  ASSUME NEW S, NEW n \in Nat, NEW c, Chain(c, S, n)
  PROVE  \A k \in 0..n : c[k] \in Levels(S)[k]
<1> DEFINE Bad == {k \in 0..n : c[k] \notin Levels(S)[k]}
<1> SUFFICES ASSUME Bad # {} PROVE FALSE
  OBVIOUS
<1>1. PICK k \in Bad : \A e \in Bad : k <= e
  <2>1. Bad \in SUBSET Nat OBVIOUS
  <2> HIDE DEF Bad
  <2> QED BY <2>1, Least
<1>2. CASE k = 0
  BY <1>1, <1>2, LevelsSteps DEF Chain
<1>3. CASE k # 0
  <2>1. k - 1 \in 0..(n - 1) /\ k - 1 \in Nat /\ k - 1 \notin Bad /\ (k - 1) + 1 = k
    BY <1>1, <1>3
  <2>2. c[k - 1] \in Levels(S)[k - 1] /\ c[k] \in Inside(c[k - 1])
    BY <2>1 DEF Chain
  <2> QED BY <1>1, <2>1, <2>2, NextLevel
<1> QED BY <1>2, <1>3

\* A chain leads to every field of a level.
LEMMA LevelHasChain ==
  ASSUME NEW S
  PROVE  \A n \in Nat : \A f \in Levels(S)[n] :
           \E c : Chain(c, S, n) /\ DOMAIN c = 0..n /\ c = [k \in 0..n |-> c[k]] /\ c[n] = f
<1> DEFINE Ends(n, f) ==
             \E c : Chain(c, S, n) /\ DOMAIN c = 0..n /\ c = [k \in 0..n |-> c[k]] /\ c[n] = f
           Bad == {n \in Nat : \E f \in Levels(S)[n] : ~Ends(n, f)}
<1> SUFFICES ASSUME Bad # {} PROVE FALSE
  OBVIOUS
<1>1. PICK n \in Bad : \A m \in Bad : n <= m
  <2>1. Bad \in SUBSET Nat OBVIOUS
  <2> HIDE DEF Bad
  <2> QED BY <2>1, Least
<1>2. PICK f \in Levels(S)[n] : ~Ends(n, f)
  BY <1>1
<1>3. n \in Nat
  BY <1>1
<1>4. CASE n = 0
  <2> DEFINE c == [k \in 0..0 |-> f]
  <2>1. f \in S
    BY <1>2, <1>4, LevelsSteps
  <2>2. Chain(c, S, 0) /\ DOMAIN c = 0..0 /\ c = [k \in 0..0 |-> c[k]] /\ c[0] = f
    BY <2>1 DEF Chain
  <2> HIDE DEF c
  <2>3. Ends(0, f)
    BY <2>2
  <2> QED BY <1>2, <1>4, <2>3
<1>5. CASE n # 0
  <2>1. n - 1 \in Nat /\ n - 1 \notin Bad /\ (n - 1) + 1 = n
    BY <1>1, <1>3, <1>5
  <2>2. PICK g \in Levels(S)[n - 1] : f \in Inside(g)
    <3>1. Levels(S)[n] = Deeper(Levels(S)[n - 1])
      BY <2>1, LevelsSteps
    <3> QED BY <1>2, <3>1 DEF Deeper
  <2>3. PICK c : Chain(c, S, n - 1) /\ DOMAIN c = 0..(n - 1) /\ c[n - 1] = g
    BY <2>1, <2>2
  <2> DEFINE e == [k \in 0..n |-> IF k = n THEN f ELSE c[k]]
  <2>4. /\ e[n] = f /\ DOMAIN e = 0..n /\ e = [k \in 0..n |-> e[k]]
        /\ \A k \in 0..(n - 1) : e[k] = c[k]
    BY <1>3
  <2> HIDE DEF e
  <2>5. e[0] \in S
    <3>1. 0 \in 0..(n - 1)
      BY <1>3, <1>5
    <3> QED BY <2>3, <2>4, <3>1 DEF Chain
  <2>6. ASSUME NEW k \in 0..(n - 1) PROVE e[k + 1] \in Inside(e[k])
    <3>1. CASE k = n - 1
      BY <2>1, <2>2, <2>3, <2>4, <3>1
    <3>2. CASE k # n - 1
      <4>1. k \in 0..((n - 1) - 1) /\ k + 1 \in 0..(n - 1)
        BY <1>3, <3>2
      <4>2. c[k + 1] \in Inside(c[k])
        BY <2>3, <4>1 DEF Chain
      <4> QED BY <2>4, <4>1, <4>2
    <3> QED BY <3>1, <3>2
  <2>7. Chain(e, S, n)
    BY <2>5, <2>6 DEF Chain
  <2>8. Ends(n, f)
    BY <2>4, <2>7
  <2> QED BY <1>2, <2>8
<1> QED BY <1>4, <1>5

-----------------------------------------------------------------------------
(* Everything a definition leads to is finite.                               *)
LEMMA FiniteImage ==
  ASSUME NEW S, IsFiniteSet(S), NEW f, f = [x \in S |-> f[x]]
  PROVE  IsFiniteSet({f[x] : x \in S})
<1>1. f \in Surjection(S, {f[x] : x \in S})
  BY DEF Surjection
<1> QED BY <1>1, FS_Surjection

LEMMA FiniteSequence ==
  ASSUME NEW S, NEW s \in Seq(S)
  PROVE  IsFiniteSet(ToSet(s)) /\ ToSet(s) \subseteq S
<1>1. Len(s) \in Nat /\ DOMAIN s = 1..Len(s) /\ s = [i \in 1..Len(s) |-> s[i]]
  BY LenProperties
<1>2. IsFiniteSet(1..Len(s))
  <2>1. 1 \in Int /\ Len(s) \in Int
    BY <1>1
  <2> QED BY <2>1, FS_Interval
<1>3. IsFiniteSet({s[i] : i \in 1..Len(s)})
  BY <1>1, <1>2, FiniteImage
<1>4. \A i \in 1..Len(s) : s[i] \in S
  BY ElementOfSeq
<1> QED BY <1>1, <1>3, <1>4 DEF ToSet

AllGroups == [kind : {"group"}, ref : {""} \cup STRING, fields : Seq(Fields), required : BOOLEAN]

LEMMA GroupTyped ==
  ASSUME NEW ref \in {""} \cup STRING, NEW fields \in Seq(Fields), NEW required \in BOOLEAN
  PROVE  Group(ref, fields, required) \in AllGroups
  BY DEF Group, AllGroups

LEMMA OneGroup ==
  ASSUME NEW g \in AllGroups
  PROVE  <<g>> \in Seq(AllGroups) /\ ToSet(<<g>>) = {g}
  BY DEF ToSet

LEMMA GroupsTyped ==
  ASSUME NEW f \in Fields, f.kind \in Composites
  PROVE  Groups(f) \in Seq(AllGroups)
<1>1. /\ f.ref \in STRING /\ f.fields \in Seq(Fields) /\ <<>> \in Seq(Fields)
      /\ f.cases \in Seq([ref : STRING, fields : Seq(Fields)])
  BY FieldsAssumption, EmptySeq
<1>2. CASE f.kind = "if"
  <2>1. Group("", f.fields, FALSE) \in AllGroups
    BY <1>1, GroupTyped
  <2>2. Groups(f) = <<Group("", f.fields, FALSE)>>
    BY <1>2 DEF Groups
  <2> QED BY <2>1, <2>2, OneGroup
<1>3. CASE f.kind = "struct"
  BY <1>1, <1>3, GroupTyped, OneGroup DEF Groups
<1>4. CASE f.kind = "array"
  BY <1>1, <1>4, GroupTyped, OneGroup DEF Groups
<1>5. CASE f.kind = "switch"
  <2> DEFINE cases == [i \in DOMAIN f.cases |-> Group(f.cases[i].ref, f.cases[i].fields, TRUE)]
             default == IF f.ref # "" \/ f.fields # <<>> THEN <<Group(f.ref, f.fields, FALSE)>>
                        ELSE <<>>
  <2>1. Groups(f) = cases \o default
    BY <1>5 DEF Groups
  <2>2. cases \in Seq(AllGroups)
    <3>1. DOMAIN f.cases = 1..Len(f.cases) /\ Len(f.cases) \in Nat
      BY <1>1, LenProperties
    <3>2. ASSUME NEW i \in 1..Len(f.cases)
          PROVE  Group(f.cases[i].ref, f.cases[i].fields, TRUE) \in AllGroups
      <4>1. f.cases[i] \in [ref : STRING, fields : Seq(Fields)]
        BY <1>1, ElementOfSeq
      <4> QED BY <4>1, GroupTyped
    <3>3. cases \in [1..Len(f.cases) -> AllGroups]
      BY <3>1, <3>2
    <3> HIDE DEF cases
    <3> QED BY <3>1, <3>3, SeqDef
  <2>3. default \in Seq(AllGroups)
    BY <1>1, GroupTyped, OneGroup, EmptySeq
  <2> HIDE DEF cases, default
  <2> QED BY <2>1, <2>2, <2>3, ConcatProperties
<1> QED BY <1>2, <1>3, <1>4, <1>5 DEF Composites

\* What a group stands for, as far as it is resolved.
Body(g) ==
  IF g.ref = "" THEN ToSet(g.fields)
  ELSE IF g.ref \in Names THEN ToSet(scheme.structures[g.ref]) ELSE {}

LEMMA InsideTyped ==
  ASSUME scheme \in Schemes, NEW f \in Fields
  PROVE  Inside(f) \subseteq Fields /\ IsFiniteSet(Inside(f))
<1>1. CASE f.kind \notin Composites
  BY <1>1, FS_EmptySet DEF Inside
<1>2. CASE f.kind \in Composites
  <2> DEFINE groups == ToSet(Groups(f))
  <2>1. groups \subseteq AllGroups /\ IsFiniteSet(groups)
    BY <1>2, GroupsTyped, FiniteSequence
  <2>2. Inside(f) = UNION {Body(g) : g \in groups}
    BY <1>2, Zenon DEF Inside, Body
  <2>3. ASSUME NEW g \in AllGroups
        PROVE  Body(g) \subseteq Fields /\ IsFiniteSet(Body(g))
    <3>1. g.fields \in Seq(Fields)
      BY DEF AllGroups
    <3>2. g.ref \in Names => scheme.structures[g.ref] \in Seq(Fields)
      BY SchemesAssumption DEF Names
    <3> QED BY <3>1, <3>2, FiniteSequence, FS_EmptySet DEF Body
  <2> HIDE DEF groups
  <2>4. IsFiniteSet({Body(g) : g \in groups})
    <3> DEFINE b == [g \in groups |-> Body(g)]
    <3>1. b = [g \in groups |-> b[g]] /\ {b[g] : g \in groups} = {Body(g) : g \in groups}
      OBVIOUS
    <3> HIDE DEF b
    <3> QED BY <2>1, <3>1, FiniteImage
  <2>5. IsFiniteSet(UNION {Body(g) : g \in groups})
    BY <2>1, <2>3, <2>4, FS_UNION
  <2> QED BY <2>1, <2>2, <2>3, <2>5
<1> QED BY <1>1, <1>2

LEMMA LevelsTyped ==
  ASSUME scheme \in Schemes, NEW S \in SUBSET Fields, IsFiniteSet(S)
  PROVE  \A d \in Nat : Levels(S)[d] \subseteq Fields /\ IsFiniteSet(Levels(S)[d])
<1> DEFINE Bad == {d \in Nat : ~(Levels(S)[d] \subseteq Fields /\ IsFiniteSet(Levels(S)[d]))}
<1> SUFFICES ASSUME Bad # {} PROVE FALSE
  OBVIOUS
<1>1. PICK d \in Bad : \A e \in Bad : d <= e
  <2>1. Bad \in SUBSET Nat OBVIOUS
  <2> HIDE DEF Bad
  <2> QED BY <2>1, Least
<1>2. CASE d = 0
  BY <1>1, <1>2, LevelsSteps
<1>3. CASE d # 0
  <2>1. d - 1 \in Nat /\ d - 1 \notin Bad /\ (d - 1) + 1 = d
    BY <1>1, <1>3
  <2> DEFINE level == Levels(S)[d - 1]
  <2>2. level \subseteq Fields /\ IsFiniteSet(level) /\ Levels(S)[d] = Deeper(level)
    BY <2>1, LevelsSteps
  <2> HIDE DEF level
  <2>3. \A f \in level : Inside(f) \subseteq Fields /\ IsFiniteSet(Inside(f))
    BY <2>2, InsideTyped
  <2>4. IsFiniteSet({Inside(f) : f \in level})
    <3> DEFINE b == [f \in level |-> Inside(f)]
    <3>1. b = [f \in level |-> b[f]] /\ {b[f] : f \in level} = {Inside(f) : f \in level}
      OBVIOUS
    <3> HIDE DEF b
    <3>2. IsFiniteSet({b[f] : f \in level})
      BY <2>2, <3>1, FiniteImage
    <3> QED BY <3>1, <3>2
  <2>5. IsFiniteSet(Deeper(level))
    BY <2>3, <2>4, FS_UNION DEF Deeper
  <2>6. Deeper(level) \subseteq Fields
    BY <2>3 DEF Deeper
  <2> QED BY <1>1, <2>2, <2>5, <2>6
<1> QED BY <1>2, <1>3

LEMMA WholeTyped ==
  ASSUME scheme \in Schemes, NEW S \in SUBSET Fields, IsFiniteSet(S)
  PROVE  Whole(S) \subseteq Fields /\ IsFiniteSet(Whole(S))
<1> DEFINE depths == 0..MaxDepth
           b == [d \in depths |-> Levels(S)[d]]
<1>1. MaxDepth \in Nat /\ IsFiniteSet(depths)
  BY BoundsAssumption, FS_Interval
<1>2. b = [d \in depths |-> b[d]] /\ {b[d] : d \in depths} = {Levels(S)[d] : d \in depths}
  OBVIOUS
<1>3. \A d \in depths : Levels(S)[d] \subseteq Fields /\ IsFiniteSet(Levels(S)[d])
  BY <1>1, LevelsTyped
<1> HIDE DEF b, depths
<1>4. IsFiniteSet({Levels(S)[d] : d \in depths})
  BY <1>1, <1>2, FiniteImage
<1>5. IsFiniteSet(UNION {Levels(S)[d] : d \in depths})
  BY <1>3, <1>4, FS_UNION
<1> QED BY <1>3, <1>5 DEF Whole, depths

\* Calls that are nested too deep go round in a circle, or the definition is large.
LEMMA DeepIsCyclic ==
  ASSUME scheme \in Schemes, NEW S \in SUBSET Fields, IsFiniteSet(S),
         NEW f \in Levels(S)[MaxDepth - 1]
  PROVE  Cardinality(Whole(S)) >= MaxDepth \/ \E g \in Whole(S) : Cyclic(g)
<1> DEFINE n == MaxDepth - 1
           W == Whole(S)
<1>1. n \in Nat /\ MaxDepth \in Nat /\ MaxDepth = n + 1
  BY BoundsAssumption
<1>2. PICK c : Chain(c, S, n) /\ DOMAIN c = 0..n /\ c = [k \in 0..n |-> c[k]] /\ c[n] = f
  BY <1>1, LevelHasChain
<1>3. \A k \in 0..n : c[k] \in W
  <2>1. \A k \in 0..n : c[k] \in Levels(S)[k]
    BY <1>1, <1>2, ChainLevels
  <2> QED BY <1>1, <2>1 DEF Whole
<1>4. c \in [0..n -> W]
  BY <1>2, <1>3
<1>5. IsFiniteSet(W) /\ Cardinality(W) \in Nat
  BY WholeTyped, FS_CardinalityType
<1>6. IsFiniteSet(0..n) /\ Cardinality(0..n) = MaxDepth
  <2>1. 0 \in Int /\ n \in Int /\ ~(0 > n) /\ n - 0 + 1 = MaxDepth
    BY <1>1
  <2> HIDE DEF n
  <2> QED BY <2>1, FS_Interval
<1> HIDE DEF n, W
<1>7. ASSUME Cardinality(W) < MaxDepth
      PROVE  \E g \in W : Cyclic(g)
  <2>1. \E k, l \in 0..n : k # l /\ c[k] = c[l]
    BY <1>4, <1>5, <1>6, <1>7, FS_PigeonHole
  <2>2. PICK k \in 0..n, l \in 0..n : k < l /\ c[k] = c[l]
    BY <1>1, <2>1
  <2> DEFINE m == l - k - 1
             e == [j \in 0..m |-> c[k + 1 + j]]
  <2>3. m \in Nat /\ m <= MaxDepth /\ k + 1 + m = l
    BY <1>1, <2>2
  <2>4. e[0] \in Inside(c[k])
    <3>1. k \in 0..(n - 1) /\ 0 \in 0..m /\ k + 1 + 0 = k + 1
      BY <1>1, <2>2, <2>3
    <3>2. e[0] = c[k + 1]
      BY <3>1
    <3> QED BY <1>2, <3>1, <3>2 DEF Chain
  <2>5. ASSUME NEW j \in 0..(m - 1) PROVE e[j + 1] \in Inside(e[j])
    <3>1. /\ j \in 0..m /\ j + 1 \in 0..m /\ k + 1 + j \in 0..(n - 1)
          /\ k + 1 + (j + 1) = (k + 1 + j) + 1
      BY <1>1, <2>2, <2>3
    <3>2. e[j] = c[k + 1 + j] /\ e[j + 1] = c[(k + 1 + j) + 1]
      BY <3>1
    <3> QED BY <1>2, <3>1, <3>2 DEF Chain
  <2>6. e[m] = c[k]
    BY <2>2, <2>3
  <2> HIDE DEF m, e
  <2>7. Chain(e, Inside(c[k]), m)
    BY <2>4, <2>5 DEF Chain
  <2>8. m \in 0..m
    BY <2>3
  <2>9. c[k] \in Levels(Inside(c[k]))[m]
    BY <2>3, <2>6, <2>7, <2>8, ChainLevels
  <2>10. m \in 0..MaxDepth
    BY <1>1, <2>3
  <2>11. Cyclic(c[k])
    BY <2>9, <2>10 DEF Cyclic, Whole
  <2> QED BY <1>3, <2>2, <2>11
<1> QED BY <1>1, <1>5, <1>7 DEF W

-----------------------------------------------------------------------------
(* The scheme does not change.                                               *)
LEMMA InsideFrozen ==
  ASSUME scheme' = scheme, NEW CONSTANT f
  PROVE  Inside(f)' = Inside(f)
  BY Zenon DEF Inside, Names

LevelsStep ==
  \A S : Levels(S)[0] = S /\ \A d \in Nat : Levels(S)[d + 1] = Deeper(Levels(S)[d])

LEMMA LevelsAlwaysStep == LevelsStep'
<1>1. LevelsStep
  BY LevelsSteps DEF LevelsStep
<1> QED BY <1>1, PTL

LEMMA LevelsFrozen ==
  ASSUME scheme' = scheme, NEW CONSTANT S
  PROVE  \A d \in Nat : Levels(S)'[d] = Levels(S)[d]
<1>2. Levels(S)'[0] = S /\ \A d \in Nat : Levels(S)'[d + 1] = Deeper(Levels(S)[d])'
  BY LevelsAlwaysStep DEF LevelsStep
<1>3. ASSUME NEW d \in Nat PROVE Deeper(Levels(S)[d])' = Deeper(Levels(S)'[d])
  <2>1. \A f : Inside(f)' = Inside(f)
    BY InsideFrozen
  <2>2. Deeper(Levels(S)[d])' = UNION {Inside(f)' : f \in Levels(S)'[d]}
    BY DEF Deeper
  <2> QED BY <2>1, <2>2 DEF Deeper
<1> DEFINE Bad == {d \in Nat : Levels(S)'[d] # Levels(S)[d]}
<1> SUFFICES ASSUME Bad # {} PROVE FALSE
  OBVIOUS
<1>4. PICK d \in Bad : \A e \in Bad : d <= e
  <2>1. Bad \in SUBSET Nat OBVIOUS
  <2> HIDE DEF Bad
  <2> QED BY <2>1, Least
<1>5. CASE d = 0
  BY <1>2, <1>4, <1>5, LevelsSteps
<1>6. CASE d # 0
  <2>1. d - 1 \in Nat /\ d - 1 \notin Bad /\ (d - 1) + 1 = d
    BY <1>4, <1>6
  <2>2. Levels(S)'[d - 1] = Levels(S)[d - 1]
    BY <2>1
  <2>3. Levels(S)[d] = Deeper(Levels(S)[d - 1]) /\ Levels(S)'[d] = Deeper(Levels(S)'[d - 1])
    BY <1>2, <1>3, <2>1, LevelsSteps
  <2> QED BY <1>4, <2>2, <2>3
<1> QED BY <1>5, <1>6

-----------------------------------------------------------------------------
(* What Setup has done so far.                                               *)

\* Definitions of SchemeSetup with the state they depend on as a parameter.
RuleIn(known, rule) ==
  IF rule.kind = "no protocol" THEN "panic"
  ELSE IF rule.kind \notin {"binary", "text"} \/ ~known \/ ~rule.complete THEN "error"
  ELSE IF rule.kind = "binary" THEN ParseTValue(rule.start, -1, "none").is
  ELSE Both(ParseTValue(rule.start, -1, "none"), ParseTValue(rule.end, -1, "none"))
DefinitionIn(structures, g) == IF g.ref = "" THEN g.fields ELSE structures[g.ref]
GroupSound(structures, g) ==
  /\ g.ref \in DOMAIN structures \cup {""}
  /\ g.required => DefinitionIn(structures, g) # <<>>

\* What a field needs apart from the fields in it.
Good(f) ==
  /\ f.kind # "null"
  /\ f.kind = "bytes" => BytesCompile(f) = "ok"
  /\ f.kind = "calc" => CalcCompile(f) = "ok"
  /\ f.kind \in Composites => CompositeCompile(f) = "ok"

Item(x, depth) == [of |-> x, depth |-> depth]
Entries == [of : Fields \cup AllGroups, depth : 1..MaxDepth]
Made == {Node(f, d) : f \in Fields, d \in 1..MaxDepth}

\* Every field of a definition is compiled or on the list, and of every node made all
\* groups are; M are the nodes and R the entries of the list.
Listed(M, R, f, d) == Node(f, d) \in M \/ Item(f, d) \in R
Followed(structures, M, R, g, d) ==
  \/ Item(g, d) \in R
  \/ /\ GroupSound(structures, g)
     /\ \A f \in ToSet(DefinitionIn(structures, g)) : Listed(M, R, f, d + 1)
Complete(structures, M, R, fields) ==
  /\ \A f \in ToSet(fields) : Listed(M, R, f, 1)
  /\ \A n \in M :
       /\ Good(n.field)
       /\ n.field.kind \in Composites =>
            \A g \in ToSet(Groups(n.field)) : Followed(structures, M, R, g, n.depth)

\* What is on the list is in the definition, on the level of its depth.
Reached(R, S) ==
  \A e \in R :
    IF e.of.kind = "group"
      THEN \E f \in Levels(S)[e.depth - 1] : f.kind \in Composites /\ e.of \in ToSet(Groups(f))
      ELSE e.of \in Levels(S)[e.depth - 1]

Sick(structures, f) ==
  \/ ~Good(f)
  \/ f.kind \in Composites /\ \E g \in ToSet(Groups(f)) : ~GroupSound(structures, g)
Faulty(S) == \E d \in 0..(MaxDepth - 1) : \E f \in Levels(S)[d] : Sick(scheme.structures, f)

Typed ==
  /\ scheme \in Schemes /\ registered \in BOOLEAN
  /\ pc \in {"idle", "rule", "compile", "ok", "error", "panic", "overflow"}
  /\ at \in 0..(Len(scheme.protocols) + 1) /\ setups \in 0..MaxSetups
  /\ pc \in {"rule", "compile", "ok"} => at > 0
  /\ pc \in {"compile", "error", "panic", "overflow"} => at \in DOMAIN scheme.protocols
  /\ pc = "ok" => at = Len(scheme.protocols) + 1
  /\ todo \in Seq(Entries) /\ nodes \in Seq(Made)
  /\ DOMAIN parsed = DOMAIN scheme.protocols
  /\ \A i \in DOMAIN parsed :
       /\ parsed[i] = [rule |-> parsed[i].rule, set |-> parsed[i].set,
                       nodes |-> parsed[i].nodes, round |-> parsed[i].round]
       /\ parsed[i].rule \in BOOLEAN /\ parsed[i].set \in BOOLEAN
       /\ parsed[i].nodes \in Seq(Made)

Kept(i) ==
  /\ parsed[i].rule => registered /\ RuleIn(registered, scheme.protocols[i].rule) = "ok"
  /\ parsed[i].set =>
       /\ parsed[i].rule
       /\ Complete(scheme.structures, ToSet(parsed[i].nodes), {}, scheme.protocols[i].fields)
  /\ parsed[i].set \/ parsed[i].nodes = <<>>

Halfway ==
  /\ parsed[at].rule
  /\ Complete(scheme.structures, ToSet(nodes), ToSet(todo), Protocol.fields)

Reasons(S) ==
  pc \in {"compile", "error", "panic", "overflow"} =>
    /\ S = ToSet(Protocol.fields)
    /\ pc = "compile" => Reached(ToSet(todo), S)
    /\ pc \in {"error", "panic"} => RuleIn(registered, Protocol.rule) # "ok" \/ Faulty(S)
    /\ pc = "overflow" => Levels(S)[MaxDepth - 1] # {}

SetupInv ==
  /\ Typed
  /\ \A i \in DOMAIN parsed : Kept(i)
  /\ pc \in {"rule", "compile", "ok"} => \A i \in 1..(at - 1) : parsed[i].set
  /\ pc = "compile" => Halfway
  /\ \E S \in SUBSET Fields : Reasons(S)

-----------------------------------------------------------------------------
(* Lists as sets.                                                            *)
LEMMA SetOfConcat ==
  ASSUME NEW S, NEW s \in Seq(S), NEW t \in Seq(S)
  PROVE  s \o t \in Seq(S) /\ ToSet(s \o t) = ToSet(s) \cup ToSet(t)
<1>1. /\ s \o t \in Seq(S) /\ Len(s \o t) = Len(s) + Len(t)
      /\ \A i \in 1..(Len(s) + Len(t)) :
           (s \o t)[i] = IF i <= Len(s) THEN s[i] ELSE t[i - Len(s)]
  BY ConcatProperties
<1>2. /\ Len(s) \in Nat /\ Len(t) \in Nat
      /\ DOMAIN s = 1..Len(s) /\ DOMAIN t = 1..Len(t) /\ DOMAIN (s \o t) = 1..(Len(s) + Len(t))
  BY <1>1, LenProperties
<1>3. ASSUME NEW x \in ToSet(s \o t) PROVE x \in ToSet(s) \cup ToSet(t)
  <2>1. PICK i \in 1..(Len(s) + Len(t)) : x = (s \o t)[i]
    BY <1>2, <1>3 DEF ToSet
  <2>2. CASE i <= Len(s)
    BY <1>1, <1>2, <2>1, <2>2 DEF ToSet
  <2>3. CASE ~(i <= Len(s))
    <3>1. i - Len(s) \in 1..Len(t)
      BY <1>2, <2>3
    <3> QED BY <1>1, <1>2, <2>1, <2>3, <3>1 DEF ToSet
  <2> QED BY <2>2, <2>3
<1>4. ASSUME NEW i \in 1..Len(s) PROVE s[i] \in ToSet(s \o t)
  <2>1. i \in 1..(Len(s) + Len(t)) /\ i <= Len(s)
    BY <1>2
  <2>2. (s \o t)[i] = s[i]
    BY <1>1, <2>1
  <2> QED BY <1>2, <2>1, <2>2 DEF ToSet
<1>5. ASSUME NEW i \in 1..Len(t) PROVE t[i] \in ToSet(s \o t)
  <2>1. i + Len(s) \in 1..(Len(s) + Len(t)) /\ ~(i + Len(s) <= Len(s)) /\ i + Len(s) - Len(s) = i
    BY <1>2
  <2>2. (s \o t)[i + Len(s)] = t[i]
    BY <1>1, <2>1
  <2> QED BY <1>2, <2>1, <2>2 DEF ToSet
<1>6. ToSet(s) \cup ToSet(t) \subseteq ToSet(s \o t)
  BY <1>2, <1>4, <1>5 DEF ToSet
<1> QED BY <1>1, <1>3, <1>6

LEMMA SetOfTail ==
  ASSUME NEW S, NEW s \in Seq(S), s # <<>>
  PROVE  Head(s) \in S /\ Tail(s) \in Seq(S) /\ ToSet(s) = {Head(s)} \cup ToSet(Tail(s))
<1>1. /\ Head(s) \in S /\ Tail(s) \in Seq(S) /\ Len(Tail(s)) = Len(s) - 1
      /\ \A i \in 1..Len(Tail(s)) : Tail(s)[i] = s[i + 1]
  BY HeadTailProperties
<1>2. Len(s) \in Nat \ {0} /\ Head(s) = s[1]
  BY EmptySeq
<1>3. DOMAIN s = 1..Len(s) /\ DOMAIN Tail(s) = 1..(Len(s) - 1)
  BY <1>1, LenProperties
<1>4. ASSUME NEW i \in 1..Len(s) PROVE s[i] \in {Head(s)} \cup ToSet(Tail(s))
  <2>1. CASE i = 1
    BY <1>2, <2>1
  <2>2. CASE i # 1
    <3>1. i - 1 \in 1..(Len(s) - 1) /\ (i - 1) + 1 = i
      BY <1>2, <2>2
    <3>2. Tail(s)[i - 1] = s[i]
      BY <1>1, <3>1
    <3> QED BY <1>3, <3>1, <3>2 DEF ToSet
  <2> QED BY <2>1, <2>2
<1>5. ASSUME NEW i \in 1..(Len(s) - 1) PROVE Tail(s)[i] \in ToSet(s)
  <2>1. i + 1 \in 1..Len(s)
    BY <1>2
  <2> QED BY <1>1, <1>3, <2>1 DEF ToSet
<1>6. Head(s) \in ToSet(s)
  BY <1>2, <1>3 DEF ToSet
<1> QED BY <1>1, <1>3, <1>4, <1>5, <1>6 DEF ToSet

LEMMA ItemsListed ==
  ASSUME NEW s \in Seq(Fields \cup AllGroups), NEW d \in 1..MaxDepth
  PROVE  Items(s, d) \in Seq(Entries) /\ ToSet(Items(s, d)) = {Item(x, d) : x \in ToSet(s)}
<1>1. DOMAIN s = 1..Len(s) /\ Len(s) \in Nat /\ \A i \in 1..Len(s) : s[i] \in Fields \cup AllGroups
  BY LenProperties, ElementOfSeq
<1>2. Items(s, d) = [i \in 1..Len(s) |-> Item(s[i], d)]
  BY <1>1 DEF Items, Item
<1>3. \A i \in 1..Len(s) : Item(s[i], d) \in Entries
  BY <1>1 DEF Item, Entries
<1>4. Items(s, d) \in [1..Len(s) -> Entries]
  BY <1>2, <1>3
<1>5. Items(s, d) \in Seq(Entries)
  BY <1>1, <1>4, SeqDef
<1>6. ToSet(Items(s, d)) = {Item(x, d) : x \in ToSet(s)}
  BY <1>1, <1>2 DEF ToSet
<1> QED BY <1>5, <1>6

-----------------------------------------------------------------------------
(* What the parameters stand for.                                            *)
LEMMA RuleIs == \A rule : RuleSetup(rule) = RuleIn(registered, rule)
  BY DEF RuleSetup, RuleIn

LEMMA GroupIs ==
  ASSUME NEW g
  PROVE  /\ Definition(g) = DefinitionIn(scheme.structures, g)
         /\ Resolved(g) \in {"ok", "error"}
         /\ Resolved(g) = "ok" <=> GroupSound(scheme.structures, g)
  BY DEF Definition, DefinitionIn, Resolved, GroupSound

LEMMA LiteralOutcome ==
  ASSUME NEW literal \in Literals, NEW size, NEW order
  PROVE  ParseTValue(literal, size, order).is \in {"ok", "error", "panic"}
<1>1. literal.type \in {"number", "bytes", "eval"}
  BY DEF Literals
<1>2. CASE ~literal.valid
  BY <1>2 DEF ParseTValue, Refused
<1>3. CASE literal.valid /\ literal.type = "number"
  <2>1. \/ ParseTValue(literal, size, order) = Panic
        \/ ParseTValue(literal, size, order) = Parsed(Uint64ToBytes(literal.n, size, order))
    BY <1>3, Zenon DEF ParseTValue
  <2> QED BY <2>1 DEF Panic, Parsed
<1>4. CASE literal.valid /\ literal.type = "bytes"
  <2>1. ParseTValue(literal, size, order) =
          Parsed(IF size < 0 THEN literal.bytes ELSE ResizeBytes(literal.bytes, size))
    BY <1>4, Zenon DEF ParseTValue
  <2> QED BY <2>1 DEF Parsed
<1>5. CASE literal.valid /\ literal.type = "eval"
  <2>1. ParseTValue(literal, size, order) = Parsed(<<>>)
    BY <1>5, Zenon DEF ParseTValue
  <2> QED BY <2>1 DEF Parsed
<1> QED BY <1>1, <1>2, <1>3, <1>4, <1>5

LEMMA RuleOutcome ==
  ASSUME NEW rule \in Rules, NEW known
  PROVE  RuleIn(known, rule) \in {"ok", "error", "panic"}
<1>1. rule.start \in Literals /\ rule.end \in Literals
  BY DEF Rules
<1> QED BY <1>1, LiteralOutcome DEF RuleIn, Both

LEMMA FieldOutcomes ==
  ASSUME NEW f \in Fields
  PROVE  /\ EncodableCompile(f) \in {"ok", "error", "panic"}
         /\ BytesCompile(f) \in {"ok", "error", "panic"}
         /\ CalcCompile(f) \in {"ok", "error", "panic"}
         /\ f.kind \in Composites => CompositeCompile(f) \in {"ok", "error", "panic"}
<1>1. f.pad \in Literals /\ f.default \in Literals
  BY FieldsAssumption
<1>2. EncodableCompile(f) \in {"ok", "error", "panic"}
  BY <1>1, LiteralOutcome DEF EncodableCompile
<1>3. Default(f).is \in {"ok", "error", "panic"}
  BY <1>1, LiteralOutcome DEF Default
<1>4. f.kind \in Composites => CompositeCompile(f) \in {"ok", "error", "panic"}
  BY DEF Composites, CompositeCompile, IfCompile, StructCompile, ArrayCompile
<1> QED BY <1>2, <1>3, <1>4 DEF BytesCompile, CalcCompile

LEMMA FieldKinds ==
  /\ \A f \in Fields : /\ f.kind \in Composites \cup {"bytes", "calc", "null"}
                       /\ f.kind # "group" /\ f \notin AllGroups
  /\ \A g \in AllGroups : g.kind = "group" /\ g \notin Fields
  BY FieldsAssumption DEF Composites, AllGroups

\* A field is sound when nothing is wrong with it.
LEMMA SoundOrSick ==
  ASSUME NEW f \in Fields
  PROVE  FieldSound(f) <=> ~Sick(scheme.structures, f)
<1>1. f.kind \in Composites \cup {"bytes", "calc", "null"}
  BY FieldKinds
<1>2. CASE f.kind \in {"bytes", "calc", "null"}
  BY <1>2 DEF FieldSound, Sick, Good, Composites
<1>3. CASE f.kind \in Composites
  <2>1. f.kind \notin {"bytes", "calc", "null"}
    BY <1>3 DEF Composites
  <2>2. FieldSound(f) <=>
          /\ CompositeCompile(f) = "ok"
          /\ \A g \in ToSet(Groups(f)) :
               /\ g.ref # "" => g.ref \in Names
               /\ g.required => IF g.ref # "" THEN scheme.structures[g.ref] # <<>>
                                              ELSE g.fields # <<>>
    BY <1>3, <2>1 DEF FieldSound, Composites
  <2>3. Good(f) <=> CompositeCompile(f) = "ok"
    BY <1>3, <2>1 DEF Good
  <2>4. ASSUME NEW g \in ToSet(Groups(f))
        PROVE  GroupSound(scheme.structures, g) <=>
                 /\ g.ref # "" => g.ref \in Names
                 /\ g.required => IF g.ref # "" THEN scheme.structures[g.ref] # <<>>
                                                ELSE g.fields # <<>>
    BY DEF GroupSound, DefinitionIn, Names
  <2> QED BY <1>3, <2>2, <2>3, <2>4, Zenon DEF Sick
<1> QED BY <1>1, <1>2, <1>3

LEMMA NodeParts ==
  ASSUME NEW f, NEW d
  PROVE  Node(f, d).field = f /\ Node(f, d).depth = d
  BY DEF Node

LEMMA MadeParts ==
  ASSUME NEW M \in SUBSET Made, NEW n \in M
  PROVE  n.field \in Fields /\ n.depth \in 1..MaxDepth /\ n = Node(n.field, n.depth)
<1>1. PICK f \in Fields, d \in 1..MaxDepth : n = Node(f, d)
  BY DEF Made
<1> QED BY <1>1, NodeParts

\* The body of a group that is sound.
LEMMA BodyIs ==
  ASSUME scheme \in Schemes, NEW g \in AllGroups, GroupSound(scheme.structures, g)
  PROVE  /\ DefinitionIn(scheme.structures, g) \in Seq(Fields)
         /\ ToSet(DefinitionIn(scheme.structures, g)) = Body(g)
         /\ Body(g) \subseteq Fields
<1>1. g.fields \in Seq(Fields)
  BY DEF AllGroups
<1>2. g.ref # "" => g.ref \in Names /\ scheme.structures[g.ref] \in Seq(Fields)
  BY SchemesAssumption DEF GroupSound, Names
<1> QED BY <1>1, <1>2, FiniteSequence DEF DefinitionIn, Body

-----------------------------------------------------------------------------
(* A protocol whose nodes are complete is sound.                             *)
LEMMA CompleteLevels ==
  ASSUME scheme \in Schemes, NEW M \in SUBSET Made, NEW fields,
         Complete(scheme.structures, M, {}, fields),
         NEW S, NEW e \in Nat, \A f \in S : Node(f, e) \in M
  PROVE  \A d \in Nat : \A f \in Levels(S)[d] : Node(f, e + d) \in M
<1> DEFINE Bad == {d \in Nat : \E f \in Levels(S)[d] : Node(f, e + d) \notin M}
<1> SUFFICES ASSUME Bad # {} PROVE FALSE
  OBVIOUS
<1>1. PICK d \in Bad : \A k \in Bad : d <= k
  <2>1. Bad \in SUBSET Nat OBVIOUS
  <2> HIDE DEF Bad
  <2> QED BY <2>1, Least
<1>2. d \in Nat
  BY <1>1
<1>3. PICK f \in Levels(S)[d] : Node(f, e + d) \notin M
  BY <1>1
<1>4. CASE d = 0
  <2>1. f \in S /\ e + d = e
    BY <1>3, <1>4, LevelsSteps
  <2> QED BY <1>3, <2>1
<1>5. CASE d # 0
  <2>1. d - 1 \in Nat /\ d - 1 \notin Bad /\ (d - 1) + 1 = d
    BY <1>1, <1>5
  <2>2. PICK h \in Levels(S)[d - 1] : f \in Inside(h)
    <3>1. Levels(S)[d] = Deeper(Levels(S)[d - 1])
      BY <2>1, LevelsSteps
    <3> QED BY <1>3, <3>1 DEF Deeper
  <2> DEFINE n == Node(h, e + (d - 1))
  <2>3. n \in M
    BY <2>1, <2>2
  <2>4. n.field = h /\ n.depth = e + (d - 1) /\ h \in Fields
    BY <2>3, NodeParts, MadeParts
  <2> HIDE DEF n
  <2>5. PICK g \in ToSet(Groups(h)) : f \in Body(g) /\ h.kind \in Composites
    BY <2>2, Zenon DEF Inside, Body
  <2>6. g \in AllGroups
    BY <2>4, <2>5, GroupsTyped, FiniteSequence
  <2>7. /\ GroupSound(scheme.structures, g)
        /\ \A x \in ToSet(DefinitionIn(scheme.structures, g)) : Node(x, n.depth + 1) \in M
    BY <2>3, <2>4, <2>5, Zenon DEF Complete, Followed, Listed
  <2>8. Node(f, n.depth + 1) \in M
    BY <2>5, <2>6, <2>7, BodyIs
  <2>9. n.depth + 1 = e + d
    BY <1>2, <2>4
  <2> QED BY <1>3, <2>8, <2>9
<1> QED BY <1>4, <1>5

\* A field that is compiled cannot lead to itself: it would be compiled again at a
\* greater depth, and there is a greatest one.
LEMMA CompleteIsAcyclic ==
  ASSUME scheme \in Schemes, NEW M \in SUBSET Made, NEW fields,
         Complete(scheme.structures, M, {}, fields),
         NEW f, NEW d \in Nat, Node(f, d) \in M
  PROVE  ~Cyclic(f)
<1> SUFFICES ASSUME Cyclic(f) PROVE FALSE
  OBVIOUS
<1>1. MaxDepth \in Nat
  BY BoundsAssumption
<1> DEFINE Left == {k \in 0..MaxDepth : Node(f, MaxDepth - k) \in M}
<1>2. d \in 1..MaxDepth
  BY NodeParts, MadeParts
<1>3. PICK k \in Left : \A l \in Left : k <= l
  <2>1. MaxDepth - d \in 0..MaxDepth /\ MaxDepth - (MaxDepth - d) = d
    BY <1>1, <1>2
  <2>2. Left # {} /\ Left \in SUBSET Nat
    BY <1>1, <2>1
  <2> HIDE DEF Left
  <2> QED BY <2>2, Least
<1> DEFINE e == MaxDepth - k
           n == Node(f, e)
<1>4. n \in M /\ e \in Nat /\ k \in Nat
  BY <1>1, <1>3
<1>5. n.field = f /\ n.depth = e /\ f \in Fields
  BY <1>4, NodeParts, MadeParts
<1>6. PICK m \in 0..MaxDepth : f \in Levels(Inside(f))[m]
  BY DEF Cyclic, Whole
<1> HIDE DEF n
<1>7. ASSUME NEW x \in Inside(f) PROVE Node(x, e + 1) \in M
  <2>1. PICK g \in ToSet(Groups(f)) : x \in Body(g) /\ f.kind \in Composites
    BY <1>7, Zenon DEF Inside, Body
  <2>2. g \in AllGroups
    BY <1>5, <2>1, GroupsTyped, FiniteSequence
  <2>3. /\ GroupSound(scheme.structures, g)
        /\ \A y \in ToSet(DefinitionIn(scheme.structures, g)) : Node(y, n.depth + 1) \in M
    BY <1>4, <1>5, <2>1, Zenon DEF Complete, Followed, Listed
  <2> QED BY <1>5, <2>1, <2>2, <2>3, BodyIs
<1>8. e + 1 \in Nat /\ m \in Nat
  BY <1>1, <1>4
<1>9. Node(f, (e + 1) + m) \in M
  <2> HIDE DEF e
  <2> QED BY <1>6, <1>7, <1>8, CompleteLevels
<1>10. (e + 1) + m \in 1..MaxDepth
  BY <1>9, NodeParts, MadeParts
<1> DEFINE l == MaxDepth - ((e + 1) + m)
<1>11. l \in 0..MaxDepth /\ MaxDepth - l = (e + 1) + m /\ l < k
  BY <1>1, <1>4, <1>8, <1>10
<1>12. l \in Left
  BY <1>9, <1>11
<1> QED BY <1>3, <1>4, <1>11, <1>12

LEMMA CompleteIsSound ==
  ASSUME scheme \in Schemes, NEW M \in SUBSET Made, NEW fields \in Seq(Fields),
         Complete(scheme.structures, M, {}, fields)
  PROVE  \A f \in Whole(ToSet(fields)) : FieldSound(f) /\ ~Cyclic(f)
<1> SUFFICES ASSUME NEW f \in Whole(ToSet(fields)) PROVE FieldSound(f) /\ ~Cyclic(f)
  OBVIOUS
<1>1. PICK d \in 0..MaxDepth : f \in Levels(ToSet(fields))[d]
  BY DEF Whole
<1>2. d \in Nat /\ 1 + d \in Nat
  BY BoundsAssumption
<1>3. \A x \in ToSet(fields) : Node(x, 1) \in M
  BY DEF Complete, Listed
<1>4. Node(f, 1 + d) \in M
  BY <1>1, <1>2, <1>3, CompleteLevels
<1> DEFINE n == Node(f, 1 + d)
<1>5. n.field = f /\ f \in Fields
  BY <1>4, NodeParts, MadeParts
<1>6. ~Cyclic(f)
  BY <1>2, <1>4, CompleteIsAcyclic
<1> HIDE DEF n
<1>7. Good(f) /\ (f.kind \in Composites =>
                    \A g \in ToSet(Groups(f)) : GroupSound(scheme.structures, g))
  BY <1>4, <1>5, Zenon DEF Complete, Followed, n
<1>8. ~Sick(scheme.structures, f)
  BY <1>7 DEF Sick
<1> QED BY <1>5, <1>6, <1>8, SoundOrSick

-----------------------------------------------------------------------------
(* One entry of the list compiled.                                           *)
GroupItems(f, d) == {Item(g, d) : g \in ToSet(Groups(f))}
FieldItems(structures, g, d) == {Item(x, d + 1) : x \in ToSet(DefinitionIn(structures, g))}

LEMMA ItemParts ==
  ASSUME NEW x, NEW d
  PROVE  /\ Item(x, d).of = x /\ Item(x, d).depth = d
         /\ \A y, e : Item(x, d) = Item(y, e) => x = y /\ d = e
<1>1. ASSUME NEW y, NEW e PROVE Item(y, e).of = y /\ Item(y, e).depth = e
  BY DEF Item
<1> QED BY <1>1

LEMMA EntryParts ==
  ASSUME NEW e \in Entries
  PROVE  e.of \in Fields \cup AllGroups /\ e.depth \in 1..MaxDepth /\ e = Item(e.of, e.depth)
  BY DEF Entries, Item

LEMMA GroupOf ==
  ASSUME NEW f \in Fields, f.kind \in Composites, NEW g \in ToSet(Groups(f))
  PROVE  g \in AllGroups /\ g \notin Fields /\ g.kind = "group"
  BY GroupsTyped, FiniteSequence, FieldKinds

\* A field becomes a node, and its groups come on the list.
LEMMA FieldCompiled ==
  ASSUME NEW structures, NEW M \in SUBSET Made, NEW T, NEW f \in Fields, NEW d \in 1..MaxDepth,
         NEW fields, Complete(structures, M, {Item(f, d)} \cup T, fields), Good(f), NEW Q,
         f.kind \in Composites => GroupItems(f, d) \subseteq Q
  PROVE  Complete(structures, M \cup {Node(f, d)}, Q \cup T, fields)
<1> DEFINE N == M \cup {Node(f, d)}
           R == {Item(f, d)} \cup T
<1>1. ASSUME NEW x, NEW e, Listed(M, R, x, e) PROVE Listed(N, Q \cup T, x, e)
  <2>1. CASE Item(x, e) = Item(f, d)
    <3>1. x = f /\ e = d
      BY <2>1, ItemParts
    <3> QED BY <3>1 DEF Listed
  <2> QED BY <1>1, <2>1 DEF Listed
<1>2. ASSUME NEW g \in AllGroups, NEW e, Followed(structures, M, R, g, e)
      PROVE  Followed(structures, N, Q \cup T, g, e)
  <2>1. Item(g, e) # Item(f, d)
    BY ItemParts, FieldKinds
  <2>2. CASE Item(g, e) \in R
    BY <2>1, <2>2 DEF Followed
  <2>3. CASE Item(g, e) \notin R
    BY <1>1, <1>2, <2>3, Zenon DEF Followed
  <2> QED BY <2>2, <2>3
<1>3. \A x \in ToSet(fields) : Listed(N, Q \cup T, x, 1)
  BY <1>1 DEF Complete
<1>4. ASSUME NEW n \in N
      PROVE  /\ Good(n.field)
             /\ n.field.kind \in Composites =>
                  \A g \in ToSet(Groups(n.field)) : Followed(structures, N, Q \cup T, g, n.depth)
  <2>1. CASE n \in M
    <3>1. n.field \in Fields
      BY <2>1, MadeParts
    <3>2. Good(n.field) /\ (n.field.kind \in Composites =>
            \A g \in ToSet(Groups(n.field)) : Followed(structures, M, R, g, n.depth))
      BY <2>1, Zenon DEF Complete
    <3> QED BY <1>2, <3>1, <3>2, GroupOf
  <2>2. CASE n = Node(f, d)
    <3>1. n.field = f /\ n.depth = d
      BY <2>2, NodeParts
    <3>2. ASSUME f.kind \in Composites, NEW g \in ToSet(Groups(f))
          PROVE  Followed(structures, N, Q \cup T, g, d)
      BY <3>2, Zenon DEF Followed, GroupItems
    <3> QED BY <3>1, <3>2
  <2> QED BY <2>1, <2>2
<1> HIDE DEF N
<1> QED BY <1>3, <1>4, Zenon DEF Complete, N

\* A group that is resolved is replaced by its fields.
LEMMA GroupCompiled ==
  ASSUME scheme \in Schemes, NEW M \in SUBSET Made, NEW T, NEW g \in AllGroups,
         NEW d \in 1..MaxDepth, NEW fields \in Seq(Fields),
         Complete(scheme.structures, M, {Item(g, d)} \cup T, fields),
         GroupSound(scheme.structures, g)
  PROVE  Complete(scheme.structures, M, FieldItems(scheme.structures, g, d) \cup T, fields)
<1> DEFINE Q == FieldItems(scheme.structures, g, d)
           R == {Item(g, d)} \cup T
<1>1. ASSUME NEW x \in Fields, NEW e, Listed(M, R, x, e) PROVE Listed(M, Q \cup T, x, e)
  <2>1. Item(x, e) # Item(g, d)
    BY ItemParts, FieldKinds
  <2> QED BY <1>1, <2>1 DEF Listed
<1>2. ASSUME NEW h \in AllGroups, NEW e, Followed(scheme.structures, M, R, h, e)
      PROVE  Followed(scheme.structures, M, Q \cup T, h, e)
  <2>1. CASE Item(h, e) = Item(g, d)
    <3>1. h = g /\ e = d
      BY <2>1, ItemParts
    <3> QED BY <3>1, Zenon DEF Followed, Listed, FieldItems
  <2>2. CASE Item(h, e) # Item(g, d) /\ Item(h, e) \in R
    BY <2>2 DEF Followed
  <2>3. CASE Item(h, e) \notin R
    <3>1. /\ GroupSound(scheme.structures, h)
          /\ \A x \in ToSet(DefinitionIn(scheme.structures, h)) : Listed(M, R, x, e + 1)
      BY <1>2, <2>3 DEF Followed
    <3>2. ToSet(DefinitionIn(scheme.structures, h)) \subseteq Fields
      BY <3>1, BodyIs
    <3> QED BY <1>1, <3>1, <3>2, Zenon DEF Followed
  <2> QED BY <2>1, <2>2, <2>3
<1>3. \A x \in ToSet(fields) : Listed(M, Q \cup T, x, 1)
  <2>1. ToSet(fields) \subseteq Fields
    BY FiniteSequence
  <2> QED BY <1>1, <2>1 DEF Complete
<1>4. ASSUME NEW n \in M
      PROVE  /\ Good(n.field)
             /\ n.field.kind \in Composites => \A h \in ToSet(Groups(n.field)) :
                  Followed(scheme.structures, M, Q \cup T, h, n.depth)
  <2>1. n.field \in Fields
    BY MadeParts
  <2>2. Good(n.field) /\ (n.field.kind \in Composites =>
          \A h \in ToSet(Groups(n.field)) : Followed(scheme.structures, M, R, h, n.depth))
    BY Zenon DEF Complete
  <2> QED BY <1>2, <2>1, <2>2, GroupOf
<1> QED BY <1>3, <1>4, Zenon DEF Complete

LEMMA FieldReached ==
  ASSUME NEW S, NEW T, NEW f \in Fields, NEW d \in 1..MaxDepth, Reached({Item(f, d)} \cup T, S)
  PROVE  /\ f \in Levels(S)[d - 1] /\ Reached(T, S)
         /\ f.kind \in Composites => Reached(GroupItems(f, d) \cup T, S)
<1>1. Item(f, d).of = f /\ Item(f, d).depth = d /\ f.kind # "group"
  BY ItemParts, FieldKinds
<1>2. f \in Levels(S)[d - 1]
  BY <1>1, Zenon DEF Reached
<1>3. Reached(T, S)
  BY Zenon DEF Reached
<1>4. ASSUME f.kind \in Composites, NEW g \in ToSet(Groups(f))
      PROVE  /\ Item(g, d).of.kind = "group"
             /\ \E x \in Levels(S)[Item(g, d).depth - 1] :
                  x.kind \in Composites /\ Item(g, d).of \in ToSet(Groups(x))
  BY <1>2, <1>4, GroupOf, ItemParts
<1> QED BY <1>2, <1>3, <1>4, Zenon DEF Reached, GroupItems

LEMMA GroupReached ==
  ASSUME scheme \in Schemes, NEW S, NEW T, NEW g \in AllGroups, NEW d \in 1..MaxDepth,
         Reached({Item(g, d)} \cup T, S)
  PROVE  /\ \E f \in Levels(S)[d - 1] : f.kind \in Composites /\ g \in ToSet(Groups(f))
         /\ Reached(T, S)
         /\ GroupSound(scheme.structures, g) =>
              Reached(FieldItems(scheme.structures, g, d) \cup T, S)
<1>1. Item(g, d).of = g /\ Item(g, d).depth = d /\ g.kind = "group"
  BY ItemParts, FieldKinds
<1>2. PICK f \in Levels(S)[d - 1] : f.kind \in Composites /\ g \in ToSet(Groups(f))
  BY <1>1, Zenon DEF Reached
<1>3. Reached(T, S)
  BY Zenon DEF Reached
<1>4. ASSUME GroupSound(scheme.structures, g), NEW x \in ToSet(DefinitionIn(scheme.structures, g))
      PROVE  /\ Item(x, d + 1).of.kind # "group"
             /\ Item(x, d + 1).of \in Levels(S)[Item(x, d + 1).depth - 1]
  <2>1. x \in Body(g) /\ x \in Fields
    BY <1>4, BodyIs
  <2>2. x \in Inside(f)
    BY <1>2, <2>1, Zenon DEF Inside, Body
  <2>3. d - 1 \in Nat /\ (d - 1) + 1 = d /\ (d + 1) - 1 = d
    BY BoundsAssumption
  <2>4. x \in Levels(S)[d]
    BY <2>2, <2>3, NextLevel
  <2>5. Item(x, d + 1).of = x /\ Item(x, d + 1).depth = d + 1
    BY ItemParts
  <2> QED BY <2>1, <2>3, <2>4, <2>5, FieldKinds
<1> QED BY <1>2, <1>3, <1>4, Zenon DEF Reached, FieldItems

-----------------------------------------------------------------------------
(* The steps.                                                                *)
LEMMA ProtocolTyped ==
  ASSUME scheme \in Schemes, NEW i \in DOMAIN scheme.protocols
  PROVE  /\ scheme.protocols[i].rule \in Rules /\ scheme.protocols[i].fields \in Seq(Fields)
         /\ ToSet(scheme.protocols[i].fields) \in SUBSET Fields
         /\ IsFiniteSet(ToSet(scheme.protocols[i].fields))
         /\ Len(scheme.protocols) \in Nat /\ DOMAIN scheme.protocols = 1..Len(scheme.protocols)
<1>1. scheme.protocols \in Seq([rule : Rules, fields : Seq(Fields)])
  BY SchemesAssumption
<1>2. DOMAIN scheme.protocols = 1..Len(scheme.protocols) /\ Len(scheme.protocols) \in Nat
  BY <1>1, LenProperties
<1>3. scheme.protocols[i] \in [rule : Rules, fields : Seq(Fields)]
  BY <1>1, <1>2, ElementOfSeq
<1> QED BY <1>2, <1>3, FiniteSequence

LEMMA ProtocolsTyped ==
  ASSUME scheme \in Schemes
  PROVE  Len(scheme.protocols) \in Nat /\ DOMAIN scheme.protocols = 1..Len(scheme.protocols)
<1>1. scheme.protocols \in Seq([rule : Rules, fields : Seq(Fields)])
  BY SchemesAssumption
<1> QED BY <1>1, LenProperties

LEMMA DepthsExist == 1 \in 1..MaxDepth /\ MaxDepth - 1 \in Nat /\ MaxDepth \in Nat
  BY BoundsAssumption

LEMMA ReachedFrozen ==
  ASSUME scheme' = scheme, NEW CONSTANT S, todo' \in Seq(Entries), Reached(ToSet(todo'), S)
  PROVE  Reached(ToSet(todo), S)'
<1>1. ToSet(todo') \subseteq Entries
  BY FiniteSequence DEF ToSet
<1>2. ASSUME NEW e \in ToSet(todo') PROVE Levels(S)'[e.depth - 1] = Levels(S)[e.depth - 1]
  <2>1. e.depth - 1 \in Nat
    BY <1>1, EntryParts, BoundsAssumption
  <2> QED BY <2>1, LevelsFrozen
<1> QED BY <1>2, Zenon DEF Reached, ToSet

LEMMA FaultyFrozen ==
  ASSUME scheme' = scheme, NEW CONSTANT S, Faulty(S)
  PROVE  Faulty(S)'
<1>1. PICK d \in 0..(MaxDepth - 1) : \E f \in Levels(S)[d] : Sick(scheme.structures, f)
  BY DEF Faulty
<1>2. d \in Nat
  BY BoundsAssumption
<1>3. Levels(S)'[d] = Levels(S)[d]
  BY <1>2, LevelsFrozen
<1>4. \A f : Sick(scheme.structures, f)' = Sick(scheme.structures, f)
  BY DEF Sick
<1> QED BY <1>1, <1>3, <1>4, Zenon DEF Faulty

LEMMA KeptFrozen ==
  ASSUME SetupInv, UNCHANGED <<scheme, registered, parsed>>
  PROVE  /\ (\A i \in DOMAIN parsed : Kept(i))'
         /\ (DOMAIN parsed = DOMAIN scheme.protocols)'
         /\ (\A i \in DOMAIN parsed :
               /\ parsed[i] = [rule |-> parsed[i].rule, set |-> parsed[i].set,
                               nodes |-> parsed[i].nodes, round |-> parsed[i].round]
               /\ parsed[i].rule \in BOOLEAN /\ parsed[i].set \in BOOLEAN
               /\ parsed[i].nodes \in Seq(Made))'
  BY DEF SetupInv, Typed, Kept

\* A step of the compilation of one protocol: the list goes on or Setup stops.
LEMMA OutcomeHolds ==
  ASSUME SetupInv, pc = "compile", UNCHANGED <<scheme, registered, at, parsed, setups>>,
         NEW S \in SUBSET Fields, Reasons(S),
         NEW is \in {"ok", "error", "panic"}, NEW items, NEW compiled,
         Outcome(is, items, compiled),
         is = "ok" =>
           /\ items \o Tail(todo) \in Seq(Entries) /\ nodes \o compiled \in Seq(Made)
           /\ Complete(scheme.structures, ToSet(nodes \o compiled), ToSet(items \o Tail(todo)),
                       Protocol.fields)
           /\ Reached(ToSet(items \o Tail(todo)), S),
         is # "ok" => Faulty(S)
  PROVE  SetupInv'
<1>1. Typed
  BY DEF SetupInv
<1>2. S = ToSet(Protocol.fields)
  BY DEF Reasons
<1>3. CASE is = "ok"
  <2>1. /\ todo' = items \o Tail(todo) /\ nodes' = nodes \o compiled /\ pc' = "compile"
        /\ todo' \in Seq(Entries) /\ nodes' \in Seq(Made)
    BY <1>3 DEF Outcome
  <2>2. Typed'
    BY <1>1, <2>1, KeptFrozen DEF Typed
  <2>3. Halfway'
    BY <1>3, <2>1 DEF Halfway, SetupInv, Protocol
  <2>4. (\A i \in 1..(at - 1) : parsed[i].set)'
    BY DEF SetupInv
  <2>5. Reasons(S)'
    <3>1. Reached(ToSet(todo), S)'
      <4>1. Reached(ToSet(todo'), S)
        BY <1>3, <2>1
      <4> QED BY <2>1, <4>1, ReachedFrozen
    <3>2. (S = ToSet(Protocol.fields))'
      BY <1>2 DEF Protocol
    <3> QED BY <2>1, <3>1, <3>2 DEF Reasons
  <2> QED BY <2>1, <2>2, <2>3, <2>4, <2>5, KeptFrozen DEF SetupInv
<1>4. CASE is # "ok"
  <2>1. pc' \in {"error", "panic"} /\ UNCHANGED <<todo, nodes>>
    BY <1>4 DEF Outcome
  <2>2. Typed'
    BY <1>1, <2>1, KeptFrozen DEF Typed
  <2>3. Reasons(S)'
    <3>1. Faulty(S)'
      BY <1>4, FaultyFrozen
    <3>2. (S = ToSet(Protocol.fields))'
      BY <1>2 DEF Protocol
    <3> QED BY <2>1, <3>1, <3>2 DEF Reasons
  <2> QED BY <2>1, <2>2, <2>3, KeptFrozen DEF SetupInv
<1> QED BY <1>3, <1>4

LEMMA InitHolds == Init => SetupInv
<1> SUFFICES ASSUME Init PROVE SetupInv
  OBVIOUS
<1>1. /\ scheme \in Schemes /\ registered = FALSE /\ pc = "idle" /\ at = 0
      /\ todo = <<>> /\ nodes = <<>> /\ setups = 0
      /\ parsed = [i \in DOMAIN scheme.protocols |-> Unset]
  BY DEF Init
<1>2. Len(scheme.protocols) \in Nat
  BY <1>1, ProtocolsTyped
<1>3. <<>> \in Seq(Entries) /\ <<>> \in Seq(Made)
  BY EmptySeq
<1>4. Typed
  <2>1. DOMAIN parsed = DOMAIN scheme.protocols /\ at \in 0..(Len(scheme.protocols) + 1)
    BY <1>1, <1>2
  <2>2. ASSUME NEW i \in DOMAIN parsed
        PROVE  /\ parsed[i] = [rule |-> parsed[i].rule, set |-> parsed[i].set,
                               nodes |-> parsed[i].nodes, round |-> parsed[i].round]
               /\ parsed[i].rule \in BOOLEAN /\ parsed[i].set \in BOOLEAN
               /\ parsed[i].nodes \in Seq(Made)
    BY <1>1, <1>3 DEF Unset
  <2>3. setups \in 0..MaxSetups
    BY <1>1, BoundsAssumption
  <2> QED BY <1>1, <1>3, <2>1, <2>2, <2>3 DEF Typed
<1>5. \A i \in DOMAIN parsed : Kept(i)
  BY <1>1 DEF Kept, Unset
<1>6. Reasons({})
  BY <1>1 DEF Reasons
<1> QED BY <1>1, <1>4, <1>5, <1>6 DEF SetupInv

\* Rules that were kept were set up when the rules were registered.
LEMMA RegisterHolds == SetupInv /\ Register => SetupInv'
<1> SUFFICES ASSUME SetupInv, Register PROVE SetupInv'
  OBVIOUS
<1>1. /\ registered = FALSE /\ registered' = TRUE /\ pc' = "idle"
      /\ UNCHANGED <<scheme, at, todo, nodes, parsed, setups>>
  BY DEF Register
<1>2. Typed'
  BY <1>1 DEF SetupInv, Typed
<1>3. ASSUME NEW i \in DOMAIN parsed PROVE Kept(i)'
  <2>1. Kept(i) /\ parsed[i].rule \in BOOLEAN /\ parsed[i].set \in BOOLEAN
    BY DEF SetupInv, Typed
  <2>2. ~parsed[i].rule /\ ~parsed[i].set
    BY <1>1, <2>1 DEF Kept
  <2>3. parsed[i].nodes = <<>>
    BY <2>1, <2>2 DEF Kept
  <2>4. parsed' = parsed
    BY <1>1
  <2> QED BY <2>2, <2>3, <2>4 DEF Kept
<1>4. Reasons({})'
  BY <1>1 DEF Reasons
<1> QED BY <1>1, <1>2, <1>3, <1>4 DEF SetupInv

LEMMA StartHolds == SetupInv /\ StartSetup => SetupInv'
<1> SUFFICES ASSUME SetupInv, StartSetup PROVE SetupInv'
  OBVIOUS
<1>1. /\ setups < MaxSetups /\ pc' = "rule" /\ at' = 1 /\ setups' = setups + 1
      /\ UNCHANGED <<scheme, registered, todo, nodes, parsed>>
  BY DEF StartSetup
<1>2. Typed
  BY DEF SetupInv
<1>3. setups' \in 0..MaxSetups
  BY <1>1, <1>2, BoundsAssumption DEF Typed
<1>4. at' \in 0..(Len(scheme.protocols) + 1)
  <2>1. Len(scheme.protocols) \in Nat
    BY <1>2, ProtocolsTyped DEF Typed
  <2> QED BY <1>1, <2>1
<1>5. Typed'
  BY <1>1, <1>2, <1>3, <1>4, KeptFrozen DEF Typed
<1>6. (\A i \in 1..(at - 1) : parsed[i].set)'
  BY <1>1
<1>7. Reasons({})'
  BY <1>1 DEF Reasons
<1> QED BY <1>1, <1>5, <1>6, <1>7, KeptFrozen DEF SetupInv

LEMMA RuleHolds == SetupInv /\ SetupRule => SetupInv'
<1> SUFFICES ASSUME SetupInv, SetupRule PROVE SetupInv'
  OBVIOUS
<1> DEFINE outcome == RuleIn(registered, Protocol.rule)
           S == ToSet(Protocol.fields)
<1>1. /\ pc = "rule" /\ at <= Len(scheme.protocols) /\ nodes' = <<>>
      /\ UNCHANGED <<scheme, registered, at, setups>>
      /\ outcome = "ok" =>
           /\ pc' = "compile" /\ parsed' = [parsed EXCEPT ![at].rule = TRUE]
           /\ todo' = Items(Protocol.fields, 1)
      /\ outcome # "ok" => pc' = outcome /\ UNCHANGED <<parsed, todo>>
  BY RuleIs DEF SetupRule
<1>2. Typed
  BY DEF SetupInv
<1>3. at \in DOMAIN scheme.protocols /\ at \in DOMAIN parsed
  <2>1. Len(scheme.protocols) \in Nat /\ DOMAIN scheme.protocols = 1..Len(scheme.protocols)
    BY <1>2, ProtocolsTyped DEF Typed
  <2>2. at \in 0..(Len(scheme.protocols) + 1) /\ at > 0 /\ DOMAIN parsed = DOMAIN scheme.protocols
    BY <1>1, <1>2 DEF Typed
  <2> QED BY <1>1, <2>1, <2>2
<1>4. Protocol.rule \in Rules /\ Protocol.fields \in Seq(Fields) /\ S \in SUBSET Fields
  BY <1>2, <1>3, ProtocolTyped DEF Typed, Protocol
<1>5. outcome \in {"ok", "error", "panic"}
  BY <1>4, RuleOutcome
<1>6. nodes' \in Seq(Made)
  BY <1>1, EmptySeq
<1>7. (S = ToSet(Protocol.fields))' /\ S' = S
  BY <1>1 DEF Protocol
<1> HIDE DEF outcome
<1>8. CASE outcome = "ok"
  <2>1. pc' = "compile" /\ todo' = Items(Protocol.fields, 1)
    BY <1>1, <1>8
  <2>2. todo' \in Seq(Entries) /\ ToSet(todo') = {Item(f, 1) : f \in S}
    <3>1. Protocol.fields \in Seq(Fields \cup AllGroups)
      BY <1>4
    <3> QED BY <2>1, <3>1, ItemsListed, DepthsExist
  <2>3. /\ DOMAIN parsed' = DOMAIN parsed
        /\ \A i \in DOMAIN parsed : i # at => parsed'[i] = parsed[i]
        /\ parsed'[at] = [parsed[at] EXCEPT !.rule = TRUE]
    BY <1>1, <1>3, <1>8
  <2>4. parsed'[at] = [rule |-> TRUE, set |-> parsed[at].set, nodes |-> parsed[at].nodes,
                       round |-> parsed[at].round]
    BY <1>2, <1>3, <2>3 DEF Typed
  <2>5. Typed'
    <3>1. ASSUME NEW i \in DOMAIN parsed
          PROVE  /\ parsed'[i] = [rule |-> parsed'[i].rule, set |-> parsed'[i].set,
                                  nodes |-> parsed'[i].nodes, round |-> parsed'[i].round]
                 /\ parsed'[i].rule \in BOOLEAN /\ parsed'[i].set \in BOOLEAN
                 /\ parsed'[i].nodes \in Seq(Made)
      <4>1. /\ parsed[i] = [rule |-> parsed[i].rule, set |-> parsed[i].set,
                            nodes |-> parsed[i].nodes, round |-> parsed[i].round]
            /\ parsed[i].rule \in BOOLEAN /\ parsed[i].set \in BOOLEAN
            /\ parsed[i].nodes \in Seq(Made)
        BY <1>2 DEF Typed
      <4>2. CASE i = at
        <5>1. /\ parsed'[at].rule = TRUE /\ parsed'[at].set = parsed[at].set
              /\ parsed'[at].nodes = parsed[at].nodes /\ parsed'[at].round = parsed[at].round
          BY <2>4
        <5>2. parsed'[at] = [rule |-> parsed'[at].rule, set |-> parsed'[at].set,
                             nodes |-> parsed'[at].nodes, round |-> parsed'[at].round]
          BY <2>4, <5>1, Zenon
        <5> QED BY <4>1, <4>2, <5>1, <5>2
      <4> QED BY <2>3, <4>1, <4>2
    <3>2. DOMAIN parsed' = DOMAIN scheme.protocols
      BY <1>2, <2>3 DEF Typed
    <3> QED BY <1>1, <1>2, <1>3, <1>6, <2>1, <2>2, <2>3, <3>1, <3>2 DEF Typed
  <2>6. (\A i \in DOMAIN parsed : Kept(i))'
    <3>1. ASSUME NEW i \in DOMAIN parsed PROVE Kept(i)'
      <4>1. Kept(i)
        BY DEF SetupInv
      <4>2. CASE i # at
        BY <1>1, <2>3, <4>1, <4>2 DEF Kept
      <4>3. CASE i = at
        <5>1. RuleIn(registered, scheme.protocols[at].rule) = "ok"
          BY <1>8 DEF outcome, Protocol
        <5>2. registered
          <6>1. registered \in BOOLEAN
            BY <1>2 DEF Typed
          <6>2. ~(\/ Protocol.rule.kind \notin {"binary", "text"} \/ ~registered
                  \/ ~Protocol.rule.complete)
            BY <1>8, Zenon DEF outcome, RuleIn
          <6> QED BY <6>1, <6>2
        <5> QED BY <1>1, <2>4, <4>1, <4>3, <5>1, <5>2 DEF Kept
      <4> QED BY <4>2, <4>3
    <3> QED BY <2>3, <3>1
  <2>7. (\A i \in 1..(at - 1) : parsed[i].set)'
    <3>1. \A i \in 1..(at - 1) : parsed[i].set /\ i # at /\ i \in DOMAIN parsed
      <4>1. \A i \in 1..(at - 1) : parsed[i].set
        BY <1>1 DEF SetupInv
      <4>2. Len(scheme.protocols) \in Nat /\ DOMAIN parsed = 1..Len(scheme.protocols)
        BY <1>2, ProtocolsTyped DEF Typed
      <4> QED BY <1>3, <4>1, <4>2
    <3> QED BY <1>1, <2>3, <3>1
  <2>8. Halfway'
    <3>1. ASSUME NEW f \in S PROVE Listed(ToSet(nodes'), ToSet(todo'), f, 1)
      BY <2>2 DEF Listed
    <3>2. ToSet(nodes') = {}
      BY <1>1 DEF ToSet
    <3>3. Complete(scheme.structures, ToSet(nodes'), ToSet(todo'), Protocol.fields)
      BY <3>1, <3>2 DEF Complete
    <3>4. Protocol' = Protocol
      BY <1>1 DEF Protocol
    <3>5. parsed'[at'].rule
      BY <1>1, <2>4
    <3> QED BY <1>1, <3>3, <3>4, <3>5, Zenon DEF Halfway, ToSet
  <2>9. Reached(ToSet(todo'), S)
    <3>1. ASSUME NEW f \in S
          PROVE  Item(f, 1).of.kind # "group" /\ Item(f, 1).of \in Levels(S)[Item(f, 1).depth - 1]
      <4>1. Item(f, 1).of = f /\ Item(f, 1).depth = 1 /\ f \in Fields
        BY <1>4, ItemParts
      <4> QED BY <4>1, LevelsSteps, FieldKinds
    <3> QED BY <2>2, <3>1, Zenon DEF Reached
  <2>10. \E C \in SUBSET Fields : Reasons(C)'
    <3>1. PICK C : C = S
      OBVIOUS
    <3>2. Reached(ToSet(todo'), C)
      BY <2>9, <3>1
    <3> HIDE DEF S
    <3>3. Reached(ToSet(todo), C)'
      BY <1>1, <2>2, <3>2, ReachedFrozen
    <3>4. (C = ToSet(Protocol.fields))'
      BY <1>7, <3>1
    <3>5. C \in SUBSET Fields
      BY <1>4, <3>1
    <3> QED BY <2>1, <3>3, <3>4, <3>5 DEF Reasons
  <2> QED BY <2>1, <2>5, <2>6, <2>7, <2>8, <2>10 DEF SetupInv
<1>9. CASE outcome # "ok"
  <2>1. pc' \in {"error", "panic"} /\ UNCHANGED <<parsed, todo>>
    BY <1>1, <1>5, <1>9
  <2>2. Typed'
    BY <1>1, <1>2, <1>3, <1>6, <2>1, KeptFrozen DEF Typed
  <2>3. \E C \in SUBSET Fields : Reasons(C)'
    <3>1. PICK C : C = S
      OBVIOUS
    <3>2. (RuleIn(registered, Protocol.rule) # "ok")'
      BY <1>1, <1>9 DEF outcome, Protocol
    <3>3. (C = ToSet(Protocol.fields))'
      BY <1>7, <3>1
    <3>4. C \in SUBSET Fields
      BY <1>4, <3>1
    <3> QED BY <2>1, <3>2, <3>3, <3>4 DEF Reasons
  <2> QED BY <1>1, <2>1, <2>2, <2>3, KeptFrozen DEF SetupInv
<1> QED BY <1>8, <1>9

\* The first entry of the list and what is known of it.
LEMMA FirstEntry ==
  ASSUME SetupInv, pc = "compile", todo # <<>>, NEW f, f = Head(todo).of,
         NEW d, d = Head(todo).depth
  PROVE  /\ f \in Fields \cup AllGroups /\ d \in 1..MaxDepth
         /\ Tail(todo) \in Seq(Entries) /\ nodes \in Seq(Made)
         /\ ToSet(nodes) \in SUBSET Made
         /\ scheme \in Schemes /\ Protocol.fields \in Seq(Fields)
         /\ Complete(scheme.structures, ToSet(nodes), {Item(f, d)} \cup ToSet(Tail(todo)),
                     Protocol.fields)
         /\ \E S \in SUBSET Fields : Reasons(S) /\ Reached({Item(f, d)} \cup ToSet(Tail(todo)), S)
<1>1. Typed
  BY DEF SetupInv
<1>2. /\ scheme \in Schemes /\ at \in DOMAIN scheme.protocols
      /\ todo \in Seq(Entries) /\ nodes \in Seq(Made)
  BY <1>1 DEF Typed
<1>3. /\ Head(todo) \in Entries /\ Tail(todo) \in Seq(Entries)
      /\ ToSet(todo) = {Head(todo)} \cup ToSet(Tail(todo))
  BY <1>2, SetOfTail
<1>4. Head(todo) = Item(f, d) /\ f \in Fields \cup AllGroups /\ d \in 1..MaxDepth
  BY <1>3, EntryParts
<1>5. ToSet(nodes) \subseteq Made /\ Protocol.fields \in Seq(Fields)
  BY <1>2, FiniteSequence, ProtocolTyped DEF Protocol
<1>6. Complete(scheme.structures, ToSet(nodes), ToSet(todo), Protocol.fields)
  BY DEF SetupInv, Halfway
<1>7. PICK S \in SUBSET Fields : Reasons(S)
  BY DEF SetupInv
<1>8. Reached(ToSet(todo), S)
  BY <1>7 DEF Reasons
<1> QED BY <1>2, <1>3, <1>4, <1>5, <1>6, <1>7, <1>8

LEMMA SickIsFault ==
  ASSUME NEW S, NEW d \in 1..MaxDepth, NEW f \in Levels(S)[d - 1], Sick(scheme.structures, f)
  PROVE  Faulty(S)
<1>1. d - 1 \in 0..(MaxDepth - 1)
  BY BoundsAssumption
<1> QED BY <1>1 DEF Faulty

LEMMA NodeAdded ==
  ASSUME NEW s \in Seq(Made), NEW f \in Fields, NEW d \in 1..MaxDepth
  PROVE  /\ s \o <<Node(f, d)>> \in Seq(Made)
         /\ ToSet(s \o <<Node(f, d)>>) = ToSet(s) \cup {Node(f, d)}
<1>1. Node(f, d) \in Made
  BY DEF Made
<1>2. <<Node(f, d)>> \in Seq(Made) /\ ToSet(<<Node(f, d)>>) = {Node(f, d)}
  BY <1>1 DEF ToSet
<1> DEFINE t == <<Node(f, d)>>
<1> HIDE DEF t
<1>3. t \in Seq(Made) /\ ToSet(t) = {Node(f, d)}
  BY <1>2 DEF t
<1>4. s \o t \in Seq(Made) /\ ToSet(s \o t) = ToSet(s) \cup ToSet(t)
  BY <1>3, SetOfConcat
<1> QED BY <1>3, <1>4 DEF t

LEMMA LeafHolds == SetupInv /\ CompileLeaf => SetupInv'
<1> SUFFICES ASSUME SetupInv, CompileLeaf PROVE SetupInv'
  OBVIOUS
<1>1. PICK f : f = Head(todo).of
  OBVIOUS
<1>2. PICK d : d = Head(todo).depth
  OBVIOUS
<1> DEFINE is == CASE f.kind = "null" -> "panic"
                   [] f.kind = "bytes" -> BytesCompile(f)
                   [] f.kind = "calc" -> CalcCompile(f)
<1>3. /\ pc = "compile" /\ todo # <<>> /\ f.kind \in {"bytes", "calc", "null"}
      /\ Outcome(is, <<>>, <<Node(f, d)>>)
      /\ UNCHANGED <<scheme, registered, at, parsed, setups>>
  BY <1>1, <1>2 DEF CompileLeaf, Compiling
<1>4. /\ f \in Fields \cup AllGroups /\ d \in 1..MaxDepth
      /\ Tail(todo) \in Seq(Entries) /\ nodes \in Seq(Made) /\ ToSet(nodes) \in SUBSET Made
      /\ Complete(scheme.structures, ToSet(nodes), {Item(f, d)} \cup ToSet(Tail(todo)),
                  Protocol.fields)
      /\ \E S \in SUBSET Fields : Reasons(S) /\ Reached({Item(f, d)} \cup ToSet(Tail(todo)), S)
  BY <1>1, <1>2, <1>3, FirstEntry
<1>5. f \in Fields /\ f.kind \notin Composites
  BY <1>3, <1>4, FieldKinds DEF Composites
<1>6. PICK S \in SUBSET Fields : Reasons(S) /\ Reached({Item(f, d)} \cup ToSet(Tail(todo)), S)
  BY <1>4
<1>7. f \in Levels(S)[d - 1] /\ Reached(ToSet(Tail(todo)), S)
  BY <1>4, <1>5, <1>6, FieldReached
<1>8. /\ is \in {"ok", "error", "panic"}
      /\ is = "ok" => Good(f)
      /\ is # "ok" => ~Good(f)
  <2>1. BytesCompile(f) \in {"ok", "error", "panic"} /\ CalcCompile(f) \in {"ok", "error", "panic"}
    BY <1>5, FieldOutcomes
  <2>2. CASE f.kind = "null"
    BY <2>2 DEF Good
  <2>3. CASE f.kind = "bytes"
    BY <1>5, <2>1, <2>3 DEF Good
  <2>4. CASE f.kind = "calc"
    BY <1>5, <2>1, <2>4 DEF Good
  <2> QED BY <1>3, <2>2, <2>3, <2>4
<1> HIDE DEF is
<1>9. <<>> \o Tail(todo) = Tail(todo)
  BY <1>4, ConcatEmptySeq
<1>10. ASSUME is = "ok"
       PROVE  /\ <<>> \o Tail(todo) \in Seq(Entries) /\ nodes \o <<Node(f, d)>> \in Seq(Made)
              /\ Complete(scheme.structures, ToSet(nodes \o <<Node(f, d)>>),
                          ToSet(<<>> \o Tail(todo)), Protocol.fields)
              /\ Reached(ToSet(<<>> \o Tail(todo)), S)
  <2>1. Complete(scheme.structures, ToSet(nodes) \cup {Node(f, d)}, {} \cup ToSet(Tail(todo)),
                 Protocol.fields)
    BY <1>4, <1>5, <1>8, <1>10, FieldCompiled
  <2>2. {} \cup ToSet(Tail(todo)) = ToSet(Tail(todo))
    OBVIOUS
  <2> QED BY <1>4, <1>5, <1>7, <1>9, <2>1, <2>2, NodeAdded
<1>11. is # "ok" => Faulty(S)
  BY <1>4, <1>7, <1>8, SickIsFault DEF Sick
<1> QED BY <1>3, <1>6, <1>8, <1>10, <1>11, OutcomeHolds

LEMMA CompositeHolds == SetupInv /\ CompileComposite => SetupInv'
<1> SUFFICES ASSUME SetupInv, CompileComposite PROVE SetupInv'
  OBVIOUS
<1>1. PICK f : f = Head(todo).of
  OBVIOUS
<1>2. PICK d : d = Head(todo).depth
  OBVIOUS
<1> DEFINE is == CompositeCompile(f)
           items == Items(Groups(f), d)
<1>13. PICK T : T = ToSet(Tail(todo))
  OBVIOUS
<1>3. /\ pc = "compile" /\ todo # <<>> /\ f.kind \in Composites
      /\ Outcome(is, items, <<Node(f, d)>>)
      /\ UNCHANGED <<scheme, registered, at, parsed, setups>>
  BY <1>1, <1>2 DEF CompileComposite, Compiling
<1>4. /\ f \in Fields \cup AllGroups /\ d \in 1..MaxDepth
      /\ Tail(todo) \in Seq(Entries) /\ nodes \in Seq(Made) /\ ToSet(nodes) \in SUBSET Made
      /\ Complete(scheme.structures, ToSet(nodes), {Item(f, d)} \cup T, Protocol.fields)
      /\ \E S \in SUBSET Fields : Reasons(S) /\ Reached({Item(f, d)} \cup T, S)
  BY <1>1, <1>2, <1>3, <1>13, FirstEntry
<1>5. f \in Fields /\ f.kind \notin {"bytes", "calc", "null"}
  BY <1>3, <1>4, FieldKinds DEF Composites
<1>6. PICK S \in SUBSET Fields : Reasons(S) /\ Reached({Item(f, d)} \cup T, S)
  BY <1>4
<1>7. f \in Levels(S)[d - 1] /\ Reached(GroupItems(f, d) \cup T, S)
  BY <1>3, <1>4, <1>5, <1>6, FieldReached
<1>8. is \in {"ok", "error", "panic"} /\ (Good(f) <=> is = "ok")
  BY <1>3, <1>5, FieldOutcomes DEF Good
<1>9. /\ items \o Tail(todo) \in Seq(Entries)
      /\ ToSet(items \o Tail(todo)) = GroupItems(f, d) \cup T
  <2>1. Groups(f) \in Seq(Fields \cup AllGroups)
    <3>1. Groups(f) \in Seq(AllGroups)
      BY <1>3, <1>5, GroupsTyped
    <3> QED BY <3>1
  <2>2. items \in Seq(Entries) /\ ToSet(items) = GroupItems(f, d)
    BY <1>4, <2>1, ItemsListed DEF GroupItems
  <2> HIDE DEF items
  <2>3. PICK t : t = Tail(todo)
    OBVIOUS
  <2>4. t \in Seq(Entries) /\ T = ToSet(t)
    BY <1>4, <1>13, <2>3
  <2>5. items \o t \in Seq(Entries) /\ ToSet(items \o t) = ToSet(items) \cup ToSet(t)
    BY <2>2, <2>4, SetOfConcat
  <2> QED BY <2>2, <2>3, <2>4, <2>5
<1> HIDE DEF is, items
<1>10. ASSUME is = "ok"
       PROVE  Complete(scheme.structures, ToSet(nodes) \cup {Node(f, d)}, GroupItems(f, d) \cup T,
                       Protocol.fields)
  BY <1>4, <1>5, <1>8, <1>10, FieldCompiled
<1>11. is # "ok" => Faulty(S)
  BY <1>4, <1>7, <1>8, SickIsFault DEF Sick
<1>12. ASSUME is = "ok"
       PROVE  /\ items \o Tail(todo) \in Seq(Entries) /\ nodes \o <<Node(f, d)>> \in Seq(Made)
              /\ Complete(scheme.structures, ToSet(nodes \o <<Node(f, d)>>),
                          ToSet(items \o Tail(todo)), Protocol.fields)
              /\ Reached(ToSet(items \o Tail(todo)), S)
  BY <1>4, <1>5, <1>7, <1>9, <1>10, <1>12, NodeAdded
<1> QED BY <1>3, <1>6, <1>8, <1>11, <1>12, OutcomeHolds

LEMMA GroupHolds == SetupInv /\ NodeCompileWithRef => SetupInv'
<1> SUFFICES ASSUME SetupInv, NodeCompileWithRef PROVE SetupInv'
  OBVIOUS
<1>1. PICK g : g = Head(todo).of
  OBVIOUS
<1>2. PICK d : d = Head(todo).depth
  OBVIOUS
<1> DEFINE items == IF Resolved(g) = "ok" THEN Items(Definition(g), d + 1) ELSE <<>>
<1>11. PICK T : T = ToSet(Tail(todo))
  OBVIOUS
<1>3. /\ pc = "compile" /\ todo # <<>> /\ g.kind = "group"
      /\ IF d >= MaxDepth THEN pc' = "overflow" /\ UNCHANGED <<todo, nodes>>
                          ELSE Outcome(Resolved(g), items, <<>>)
      /\ UNCHANGED <<scheme, registered, at, parsed, setups>>
  BY <1>1, <1>2 DEF NodeCompileWithRef, Compiling
<1>4. /\ g \in Fields \cup AllGroups /\ d \in 1..MaxDepth
      /\ Tail(todo) \in Seq(Entries) /\ nodes \in Seq(Made) /\ ToSet(nodes) \in SUBSET Made
      /\ scheme \in Schemes /\ Protocol.fields \in Seq(Fields)
      /\ Complete(scheme.structures, ToSet(nodes), {Item(g, d)} \cup T, Protocol.fields)
      /\ \E S \in SUBSET Fields : Reasons(S) /\ Reached({Item(g, d)} \cup T, S)
  BY <1>1, <1>2, <1>3, <1>11, FirstEntry
<1>5. g \in AllGroups
  BY <1>3, <1>4, FieldKinds
<1>6. PICK S \in SUBSET Fields : Reasons(S) /\ Reached({Item(g, d)} \cup T, S)
  BY <1>4
<1>7. /\ \E f \in Levels(S)[d - 1] : f.kind \in Composites /\ g \in ToSet(Groups(f))
      /\ GroupSound(scheme.structures, g) => Reached(FieldItems(scheme.structures, g, d) \cup T, S)
  BY <1>4, <1>5, <1>6, GroupReached
<1>8. /\ Definition(g) = DefinitionIn(scheme.structures, g)
      /\ Resolved(g) \in {"ok", "error"}
      /\ Resolved(g) = "ok" <=> GroupSound(scheme.structures, g)
  BY GroupIs
<1>9. CASE d >= MaxDepth
  <2>1. pc' = "overflow" /\ UNCHANGED <<todo, nodes>>
    BY <1>3, <1>9
  <2>2. Levels(S)[MaxDepth - 1] # {}
    <3>1. d = MaxDepth
      BY <1>4, <1>9, BoundsAssumption
    <3> QED BY <1>7, <3>1
  <2>3. Levels(S)'[MaxDepth - 1] # {}
    BY <1>3, <2>2, LevelsFrozen, DepthsExist
  <2>4. (S = ToSet(Protocol.fields))'
    <3>1. S = ToSet(Protocol.fields)
      BY <1>3, <1>6 DEF Reasons
    <3> QED BY <1>3, <3>1 DEF Protocol
  <2>5. Reasons(S)'
    BY <2>1, <2>3, <2>4 DEF Reasons
  <2>6. Typed'
    BY <1>3, <2>1, KeptFrozen DEF SetupInv, Typed
  <2> QED BY <1>3, <2>1, <2>5, <2>6, KeptFrozen DEF SetupInv
<1>10. CASE ~(d >= MaxDepth)
  <2>1. Outcome(Resolved(g), items, <<>>)
    BY <1>3, <1>10
  <2>2. ASSUME Resolved(g) = "ok"
        PROVE  /\ items \o Tail(todo) \in Seq(Entries) /\ nodes \o <<>> \in Seq(Made)
               /\ Complete(scheme.structures, ToSet(nodes \o <<>>), ToSet(items \o Tail(todo)),
                           Protocol.fields)
               /\ Reached(ToSet(items \o Tail(todo)), S)
    <3>1. GroupSound(scheme.structures, g) /\ items = Items(Definition(g), d + 1)
      BY <1>8, <2>2
    <3>2. Definition(g) \in Seq(Fields \cup AllGroups)
      <4>1. Definition(g) \in Seq(Fields)
        BY <1>4, <1>5, <1>8, <3>1, BodyIs
      <4> QED BY <4>1
    <3>3. d + 1 \in 1..MaxDepth
      BY <1>4, <1>10, BoundsAssumption
    <3>4. items \in Seq(Entries) /\ ToSet(items) = FieldItems(scheme.structures, g, d)
      BY <1>8, <3>1, <3>2, <3>3, ItemsListed DEF FieldItems
    <3> HIDE DEF items
    <3>5. /\ items \o Tail(todo) \in Seq(Entries)
          /\ ToSet(items \o Tail(todo)) = FieldItems(scheme.structures, g, d) \cup T
      <4>1. PICK t : t = Tail(todo)
        OBVIOUS
      <4>2. t \in Seq(Entries) /\ T = ToSet(t)
        BY <1>4, <1>11, <4>1
      <4>3. items \o t \in Seq(Entries) /\ ToSet(items \o t) = ToSet(items) \cup ToSet(t)
        BY <3>4, <4>2, SetOfConcat
      <4> QED BY <3>4, <4>1, <4>2, <4>3
    <3>6. nodes \o <<>> = nodes
      BY <1>4, ConcatEmptySeq
    <3>7. Complete(scheme.structures, ToSet(nodes), FieldItems(scheme.structures, g, d) \cup T,
                   Protocol.fields)
      BY <1>4, <1>5, <3>1, GroupCompiled
    <3>8. Reached(FieldItems(scheme.structures, g, d) \cup T, S)
      BY <1>7, <3>1
    <3> QED BY <1>4, <3>5, <3>6, <3>7, <3>8
  <2>3. ASSUME Resolved(g) # "ok" PROVE Faulty(S)
    <3>1. PICK f \in Levels(S)[d - 1] : f.kind \in Composites /\ g \in ToSet(Groups(f))
      BY <1>7
    <3>2. Sick(scheme.structures, f)
      BY <1>8, <2>3, <3>1, Zenon DEF Sick
    <3> QED BY <1>4, <3>1, <3>2, SickIsFault
  <2> HIDE DEF items
  <2> QED BY <1>3, <1>6, <1>8, <2>1, <2>2, <2>3, OutcomeHolds
<1> QED BY <1>9, <1>10

LEMMA ProtocolSet ==
  ASSUME NEW was, NEW rule, NEW set, NEW made, NEW last,
         was = [rule |-> rule, set |-> set, nodes |-> made, round |-> last],
         NEW yes, NEW n, NEW r, NEW is, is = [was EXCEPT !.set = yes, !.nodes = n, !.round = r]
  PROVE  is = [rule |-> rule, set |-> yes, nodes |-> n, round |-> r]
  OBVIOUS

LEMMA ProtocolEndsHolds == SetupInv /\ ProtocolEnds => SetupInv'
<1> SUFFICES ASSUME SetupInv, ProtocolEnds PROVE SetupInv'
  OBVIOUS
<1>12. PICK round : round = Max({parsed[at].round} \cup {nodes[i].field.round :
                           i \in {j \in DOMAIN nodes : nodes[j].depth = 1}})
  OBVIOUS
<1>1. /\ pc = "compile" /\ todo = <<>> /\ pc' = "rule" /\ at' = at + 1
      /\ parsed' = [parsed EXCEPT ![at].set = TRUE, ![at].nodes = nodes, ![at].round = round]
      /\ UNCHANGED <<scheme, registered, todo, nodes, setups>>
  BY <1>12 DEF ProtocolEnds
<1>2. Typed
  BY DEF SetupInv
<1>3. at \in DOMAIN scheme.protocols /\ at \in DOMAIN parsed /\ nodes \in Seq(Made)
  BY <1>1, <1>2 DEF Typed
<1>4. Len(scheme.protocols) \in Nat /\ DOMAIN scheme.protocols = 1..Len(scheme.protocols)
  BY <1>2, ProtocolsTyped DEF Typed
<1>5. parsed[at].rule = TRUE
  BY <1>1, <1>2, <1>3 DEF SetupInv, Halfway, Typed
<1>6. /\ DOMAIN parsed' = DOMAIN parsed
      /\ \A i \in DOMAIN parsed : i # at => parsed'[i] = parsed[i]
      /\ parsed'[at] = [rule |-> TRUE, set |-> TRUE, nodes |-> nodes, round |-> round]
  <2>1. parsed[at] = [rule |-> TRUE, set |-> parsed[at].set, nodes |-> parsed[at].nodes,
                      round |-> parsed[at].round]
    BY <1>2, <1>3, <1>5 DEF Typed
  <2>2. parsed'[at] = [parsed[at] EXCEPT !.set = TRUE, !.nodes = nodes, !.round = round]
    BY <1>1, <1>3
  <2>3. parsed'[at] = [rule |-> TRUE, set |-> TRUE, nodes |-> nodes, round |-> round]
    <3>1. PICK set, made, last :
            parsed[at] = [rule |-> TRUE, set |-> set, nodes |-> made, round |-> last]
      BY <2>1, Zenon
    <3>2. PICK was, is : was = parsed[at] /\ is = parsed'[at]
      OBVIOUS
    <3>3. was = [rule |-> TRUE, set |-> set, nodes |-> made, round |-> last]
      BY <3>1, <3>2
    <3>4. is = [was EXCEPT !.set = TRUE, !.nodes = nodes, !.round = round]
      BY <2>2, <3>2, Zenon
    <3>5. is = [rule |-> TRUE, set |-> TRUE, nodes |-> nodes, round |-> round]
      BY <3>3, <3>4, ProtocolSet, Zenon
    <3> QED BY <3>2, <3>5
  <2> QED BY <1>1, <1>3, <2>3
<1>7. parsed'[at].rule = TRUE /\ parsed'[at].set = TRUE /\ parsed'[at].nodes = nodes
  BY <1>6
<1>8. Typed'
  <2>1. ASSUME NEW i \in DOMAIN parsed
        PROVE  /\ parsed'[i] = [rule |-> parsed'[i].rule, set |-> parsed'[i].set,
                                nodes |-> parsed'[i].nodes, round |-> parsed'[i].round]
               /\ parsed'[i].rule \in BOOLEAN /\ parsed'[i].set \in BOOLEAN
               /\ parsed'[i].nodes \in Seq(Made)
    <3>1. CASE i = at
      <4>1. parsed'[at].round = round
        BY <1>6
      <4>2. parsed'[at] = [rule |-> parsed'[at].rule, set |-> parsed'[at].set,
                           nodes |-> parsed'[at].nodes, round |-> parsed'[at].round]
        BY <1>6, <1>7, <4>1, Zenon
      <4> QED BY <1>3, <1>7, <3>1, <4>2
    <3>2. CASE i # at
      <4>1. parsed'[i] = parsed[i]
        BY <1>6, <3>2
      <4> QED BY <1>2, <4>1 DEF Typed
    <3> QED BY <3>1, <3>2
  <2>2. at' \in 0..(Len(scheme.protocols) + 1) /\ at' > 0
    BY <1>1, <1>3, <1>4
  <2>3. DOMAIN parsed' = DOMAIN scheme.protocols
    BY <1>2, <1>6 DEF Typed
  <2> QED BY <1>1, <1>2, <2>1, <2>2, <2>3, <1>6 DEF Typed
<1>9. (\A i \in DOMAIN parsed : Kept(i))'
  <2>1. ASSUME NEW i \in DOMAIN parsed PROVE Kept(i)'
    <3>1. Kept(i)
      BY DEF SetupInv
    <3>2. CASE i # at
      BY <1>1, <1>6, <3>1, <3>2 DEF Kept
    <3>3. CASE i = at
      <4>1. Complete(scheme.structures, ToSet(nodes), {}, Protocol.fields)
        <5>1. ToSet(todo) = {}
          BY <1>1 DEF ToSet
        <5>2. Complete(scheme.structures, ToSet(nodes), ToSet(todo), Protocol.fields)
          BY <1>1 DEF SetupInv, Halfway
        <5> QED BY <5>1, <5>2
      <4>2. Complete(scheme.structures, ToSet(parsed'[at].nodes), {}, scheme.protocols[at].fields)
        BY <1>7, <4>1 DEF Protocol
      <4>3. registered /\ RuleIn(registered, scheme.protocols[i].rule) = "ok"
        BY <1>5, <3>1, <3>3 DEF Kept
      <4> QED BY <1>1, <1>7, <3>3, <4>2, <4>3, Zenon DEF Kept, ToSet
    <3> QED BY <3>2, <3>3
  <2> QED BY <1>6, <2>1
<1>10. (\A i \in 1..(at - 1) : parsed[i].set)'
  <2>1. \A i \in 1..(at - 1) : parsed[i].set
    BY <1>1 DEF SetupInv
  <2>2. ASSUME NEW i \in 1..at PROVE parsed'[i].set
    <3>1. DOMAIN parsed = 1..Len(scheme.protocols) /\ at \in 1..Len(scheme.protocols)
      BY <1>2, <1>3, <1>4 DEF Typed
    <3>2. i \in DOMAIN parsed
      BY <1>4, <3>1
    <3>3. CASE i # at
      <4>1. at \in Int /\ i \in Int /\ 1 <= i /\ i <= at
        BY <1>4, <3>1
      <4>2. i \in 1..(at - 1)
        BY <3>3, <4>1
      <4> QED BY <1>6, <2>1, <3>2, <3>3, <4>2
    <3> QED BY <1>7, <3>3
  <2>3. at' - 1 = at
    BY <1>1, <1>3, <1>4
  <2> QED BY <2>2, <2>3
<1>11. Reasons({})'
  BY <1>1 DEF Reasons
<1> QED BY <1>1, <1>8, <1>9, <1>10, <1>11 DEF SetupInv

LEMMA SetupEndsHolds == SetupInv /\ SetupEnds => SetupInv'
<1> SUFFICES ASSUME SetupInv, SetupEnds PROVE SetupInv'
  OBVIOUS
<1>1. /\ pc = "rule" /\ at > Len(scheme.protocols) /\ pc' = "ok"
      /\ UNCHANGED <<scheme, registered, at, todo, nodes, parsed, setups>>
  BY DEF SetupEnds
<1>2. Typed
  BY DEF SetupInv
<1>3. at = Len(scheme.protocols) + 1
  <2>1. Len(scheme.protocols) \in Nat
    BY <1>2, ProtocolsTyped DEF Typed
  <2> QED BY <1>1, <1>2, <2>1 DEF Typed
<1>4. Typed'
  BY <1>1, <1>2, <1>3, KeptFrozen DEF Typed
<1>5. (\A i \in 1..(at - 1) : parsed[i].set)'
  BY <1>1 DEF SetupInv
<1>6. Reasons({})'
  BY <1>1 DEF Reasons
<1> QED BY <1>1, <1>4, <1>5, <1>6, KeptFrozen DEF SetupInv

LEMMA StutterHolds == SetupInv /\ UNCHANGED vars => SetupInv'
<1> SUFFICES ASSUME SetupInv, UNCHANGED vars PROVE SetupInv'
  OBVIOUS
<1>1. UNCHANGED <<scheme, registered, pc, at, todo, nodes, parsed, setups>>
  BY DEF vars
<1>2. Typed'
  BY <1>1 DEF SetupInv, Typed
<1>3. PICK S \in SUBSET Fields : Reasons(S)
  BY DEF SetupInv
<1>4. Reasons(S)'
  <2>1. pc = "compile" => Reached(ToSet(todo), S)'
    <3> SUFFICES ASSUME pc = "compile" PROVE Reached(ToSet(todo), S)'
      OBVIOUS
    <3>1. todo' \in Seq(Entries) /\ Reached(ToSet(todo'), S)
      BY <1>1, <1>3 DEF Reasons, SetupInv, Typed
    <3> QED BY <1>1, <3>1, ReachedFrozen
  <2>2. Faulty(S) => Faulty(S)'
    BY <1>1, FaultyFrozen
  <2>3. Levels(S)'[MaxDepth - 1] = Levels(S)[MaxDepth - 1]
    BY <1>1, LevelsFrozen, DepthsExist
  <2>4. Protocol' = Protocol
    BY <1>1 DEF Protocol
  <2> QED BY <1>1, <1>3, <2>1, <2>2, <2>3, <2>4 DEF Reasons, ToSet
<1>5. Halfway' <=> Halfway
  BY <1>1 DEF Halfway, Protocol
<1> QED BY <1>1, <1>2, <1>4, <1>5, KeptFrozen DEF SetupInv

LEMMA StepHolds == SetupInv /\ [Next]_vars => SetupInv'
  BY RegisterHolds, StartHolds, RuleHolds, LeafHolds, CompositeHolds, GroupHolds,
     ProtocolEndsHolds, SetupEndsHolds, StutterHolds DEF Next

\* Setup keeps track of what is checked and of what it has come across.
THEOREM SetupInvariant == Spec => []SetupInv
<1>1. Init => SetupInv
  BY InitHolds
<1>2. SetupInv /\ [Next]_vars => SetupInv'
  BY StepHolds
<1> QED BY <1>1, <1>2, PTL DEF Spec

LEMMA InvTyped == SetupInv => TypeOK
<1> SUFFICES ASSUME SetupInv PROVE TypeOK
  OBVIOUS
<1>1. Typed
  BY DEF SetupInv
<1>2. \A i \in DOMAIN todo : todo[i].depth \in 1..MaxDepth
  <2>1. todo \in Seq(Entries)
    BY <1>1 DEF Typed
  <2>2. DOMAIN todo = 1..Len(todo)
    BY <2>1, LenProperties
  <2>3. \A i \in 1..Len(todo) : todo[i] \in Entries
    BY <2>1, ElementOfSeq
  <2> QED BY <2>2, <2>3, EntryParts
<1>3. \A i \in DOMAIN parsed : parsed[i].set => parsed[i].rule
  BY DEF SetupInv, Kept
<1> QED BY <1>1, <1>2, <1>3 DEF Typed, TypeOK

\* The variables of Setup have their types.
THEOREM SetupTypes == Spec => []TypeOK
  BY SetupInvariant, InvTyped, PTL

\* A scheme that Setup accepts is sound as a whole, however it nests and refers
\* (node.go:154-171, struct.go:14-31, switch.go:15-46).
THEOREM AcceptedIsSound == Spec => []SetupChecksAll
<1>1. SetupInv => SetupChecksAll
  <2> SUFFICES ASSUME SetupInv PROVE SetupChecksAll
    OBVIOUS
  <2>1. Typed
    BY DEF SetupInv
  <2>2. ASSUME pc = "ok", NEW i \in DOMAIN parsed
        PROVE  parsed[i].set /\ Sound(scheme.protocols[i])
    <3>1. scheme \in Schemes /\ i \in DOMAIN scheme.protocols /\ at = Len(scheme.protocols) + 1
      BY <2>1, <2>2 DEF Typed
    <3>2. i \in 1..(at - 1)
      BY <3>1, ProtocolTyped
    <3>3. parsed[i].set
      BY <2>2, <3>2 DEF SetupInv
    <3>4. /\ registered /\ RuleIn(registered, scheme.protocols[i].rule) = "ok"
          /\ Complete(scheme.structures, ToSet(parsed[i].nodes), {}, scheme.protocols[i].fields)
      BY <3>3 DEF SetupInv, Kept
    <3>5. ToSet(parsed[i].nodes) \in SUBSET Made
      <4>1. parsed[i].nodes \in Seq(Made)
        BY <2>1 DEF Typed
      <4> QED BY <4>1, FiniteSequence
    <3>6. \A f \in Whole(ToSet(scheme.protocols[i].fields)) : FieldSound(f) /\ ~Cyclic(f)
      BY <3>1, <3>4, <3>5, ProtocolTyped, CompleteIsSound
    <3> QED BY <3>3, <3>4, <3>6, RuleIs DEF Sound
  <2> QED BY <2>2, InvTyped DEF SetupChecksAll
<1> QED BY <1>1, SetupInvariant, PTL

\* Setup stops only at a protocol that is not sound, and the stack overflows only where
\* a field leads to itself or the definition has more fields than there are calls.
THEOREM StopsOnAFault == Spec => []StopsForAReason
<1>1. SetupInv => StopsForAReason
  <2> SUFFICES ASSUME SetupInv, pc \in {"error", "panic", "overflow"}
               PROVE  /\ at > 0
                      /\ pc \in {"error", "panic"} => ~Sound(Protocol)
                      /\ pc = "overflow" =>
                           \/ Cardinality(Whole(ToSet(Protocol.fields))) >= MaxDepth
                           \/ \E f \in Whole(ToSet(Protocol.fields)) : Cyclic(f)
    BY DEF StopsForAReason
  <2>1. scheme \in Schemes /\ at \in DOMAIN scheme.protocols
    BY DEF SetupInv, Typed
  <2>2. PICK S \in SUBSET Fields : Reasons(S)
    BY DEF SetupInv
  <2>3. S = ToSet(Protocol.fields) /\ IsFiniteSet(S)
    BY <2>1, <2>2, ProtocolTyped DEF Reasons, Protocol
  <2>4. at > 0
    BY <2>1, ProtocolTyped
  <2>5. ASSUME pc \in {"error", "panic"} PROVE ~Sound(Protocol)
    <3>1. CASE RuleIn(registered, Protocol.rule) # "ok"
      BY <3>1, RuleIs DEF Sound
    <3>2. CASE Faulty(S)
      <4>0. PICK d \in 0..(MaxDepth - 1) : \E f \in Levels(S)[d] : Sick(scheme.structures, f)
        BY <3>2 DEF Faulty
      <4>1. PICK f \in Levels(S)[d] : Sick(scheme.structures, f)
        BY <4>0
      <4>2. d \in Nat /\ d \in 0..MaxDepth
        BY BoundsAssumption
      <4>3. f \in Fields /\ f \in Whole(S)
        BY <2>1, <2>3, <4>2, LevelsTyped DEF Whole
      <4>4. ~FieldSound(f)
        BY <4>1, <4>3, SoundOrSick
      <4> QED BY <2>3, <4>3, <4>4 DEF Sound
    <3> QED BY <2>2, <2>5, <3>1, <3>2 DEF Reasons
  <2>6. ASSUME pc = "overflow"
        PROVE  Cardinality(Whole(S)) >= MaxDepth \/ \E f \in Whole(S) : Cyclic(f)
    <3>1. PICK f : f \in Levels(S)[MaxDepth - 1]
      BY <2>2, <2>6 DEF Reasons
    <3> QED BY <2>1, <2>3, <3>1, DeepIsCyclic
  <2> QED BY <2>3, <2>4, <2>5, <2>6
<1> QED BY <1>1, SetupInvariant, PTL

\* The default of a field has the field's size, and a number in it is what Decode reads
\* there, whatever the byte order.
THEOREM DefaultsAreRead == Spec => []DefaultsReadBack
<1>1. SetupInv => DefaultsReadBack
  <2> SUFFICES ASSUME SetupInv, NEW n \in Defaults
               PROVE  /\ n.field.size > 0 /\ n.field.default.type # "eval" =>
                           Len(n.default) = n.field.size
                      /\ n.field.size \in 1..3 /\ n.field.default.type = "number" =>
                           Value(n.default, n.order) = n.field.default.n % Power(n.field.size)
    BY DEF DefaultsReadBack
  <2>1. /\ n.field.kind = "bytes" /\ n.field.hasDefault
        /\ \E i \in DOMAIN parsed : n \in ToSet(parsed[i].nodes)
    BY DEF Defaults
  <2>2. PICK i \in DOMAIN parsed : n \in ToSet(parsed[i].nodes)
    BY <2>1
  <2>3. n \in Made
    <3>1. parsed[i].nodes \in Seq(Made)
      BY DEF SetupInv, Typed
    <3> QED BY <2>2, <3>1, FiniteSequence
  <2>4. PICK f \in Fields, d \in 1..MaxDepth : n = Node(f, d)
    BY <2>3 DEF Made
  <2>5. n.field = f /\ n.order = GetByteOrder(f.endian) /\ n.default = Default(f).bytes
    BY <2>1, <2>4 DEF Node
  <2>6. Good(f)
    <3>1. parsed[i].set
      <4>1. parsed[i].nodes # <<>>
        BY <2>2 DEF ToSet
      <4> QED BY <4>1 DEF SetupInv, Kept
    <3>2. Complete(scheme.structures, ToSet(parsed[i].nodes), {}, scheme.protocols[i].fields)
      BY <3>1 DEF SetupInv, Kept
    <3> QED BY <2>2, <2>5, <3>2, Zenon DEF Complete
  <2>7. Default(f).is = "ok"
    BY <2>1, <2>5, <2>6 DEF Good, BytesCompile
  <2> QED BY <2>5, <2>7, DefaultReads
<1> QED BY <1>1, SetupInvariant, PTL

-----------------------------------------------------------------------------
(* Lists of lists.                                                           *)

\* A function on the naturals that each step gives exists: the values up to a
\* number are those of any function that goes as far.
Grows(r, S, base, step) ==
  r \in [Nat -> S] /\ r[0] = base /\ \A d \in Nat : r[d + 1] = step[d][r[d]]

LEMMA Recursion ==
  ASSUME NEW S, NEW base \in S, NEW step \in [Nat -> [S -> S]]
  PROVE  \E r : Grows(r, S, base, step)
<1> DEFINE Approx(n, h) == /\ h \in [0..n -> S] /\ h[0] = base
                           /\ \A d \in 0..(n - 1) : h[d + 1] = step[d][h[d]]
<1>1. \A n \in Nat : \E h : Approx(n, h)
  <2> DEFINE Bad == {n \in Nat : ~\E h : Approx(n, h)}
  <2> SUFFICES ASSUME Bad # {} PROVE FALSE
    OBVIOUS
  <2>1. PICK n \in Bad : \A m \in Bad : n <= m
    <3>1. Bad \in SUBSET Nat OBVIOUS
    <3> HIDE DEF Bad
    <3> QED BY <3>1, Least
  <2>2. CASE n = 0
    <3> DEFINE h == [d \in 0..0 |-> base]
    <3>1. Approx(0, h)
      OBVIOUS
    <3> QED BY <2>1, <2>2, <3>1
  <2>3. CASE n # 0
    <3>1. n \in Nat /\ n - 1 \in Nat /\ n - 1 \notin Bad
      <4>1. n \in Nat
        BY <2>1
      <4>2. n - 1 \in Nat /\ ~(n <= n - 1)
        BY <2>3, <4>1
      <4> HIDE DEF Bad
      <4> QED BY <2>1, <4>1, <4>2
    <3>2. PICK h : Approx(n - 1, h)
      BY <3>1
    <3> DEFINE last == step[n - 1][h[n - 1]]
               g == [d \in 0..n |-> IF d = n THEN last ELSE h[d]]
    <3>3. h[n - 1] \in S /\ last \in S
      <4>1. n - 1 \in 0..(n - 1)
        BY <3>1
      <4>2. h[n - 1] \in S
        BY <3>2, <4>1
      <4> QED BY <3>1, <4>2
    <3>4. \A d \in 0..(n - 1) : d \in 0..n /\ d # n
      BY <3>1
    <3>5. /\ g \in [0..n -> S] /\ g[n] = last
          /\ \A d \in 0..(n - 1) : g[d] = h[d]
      <4> HIDE DEF last
      <4>1. ASSUME NEW d \in 0..n PROVE (IF d = n THEN last ELSE h[d]) \in S
        <5>1. d # n => d \in 0..(n - 1)
          BY <3>1
        <5> QED BY <3>2, <3>3, <5>1
      <4>2. n \in 0..n
        BY <3>1
      <4> QED BY <3>4, <4>1, <4>2
    <3> HIDE DEF g
    <3>6. g[0] = base
      <4>1. 0 \in 0..(n - 1)
        BY <3>1
      <4> QED BY <3>2, <3>5, <4>1
    <3>7. ASSUME NEW d \in 0..(n - 1) PROVE g[d + 1] = step[d][g[d]]
      <4>1. CASE d = n - 1
        <5>1. d + 1 = n
          BY <3>1, <4>1
        <5> QED BY <3>5, <4>1, <5>1
      <4>2. CASE d # n - 1
        <5>1. d \in 0..((n - 1) - 1) /\ d + 1 \in 0..(n - 1)
          BY <3>1, <4>2
        <5>2. h[d + 1] = step[d][h[d]]
          BY <3>2, <5>1
        <5> QED BY <3>5, <5>1, <5>2
      <4> QED BY <4>1, <4>2
    <3>8. Approx(n, g)
      BY <3>5, <3>6, <3>7
    <3> QED BY <2>1, <3>8
  <2> QED BY <2>2, <2>3
<1>2. ASSUME NEW n \in Nat, NEW m \in Nat, NEW h, NEW k, Approx(n, h), Approx(m, k)
      PROVE  \A d \in 0..n : d \in 0..m => h[d] = k[d]
  <2> DEFINE Bad == {d \in 0..n : d \in 0..m /\ h[d] # k[d]}
  <2> SUFFICES ASSUME Bad # {} PROVE FALSE
    OBVIOUS
  <2>1. PICK d \in Bad : \A e \in Bad : d <= e
    <3>1. Bad \in SUBSET Nat OBVIOUS
    <3> HIDE DEF Bad
    <3> QED BY <3>1, Least
  <2>2. d # 0
    BY <1>2, <2>1
  <2>3. /\ d - 1 \in 0..n /\ d - 1 \in 0..m /\ d - 1 \notin Bad /\ (d - 1) + 1 = d
        /\ d - 1 \in 0..(n - 1) /\ d - 1 \in 0..(m - 1)
    BY <2>1, <2>2
  <2>4. h[d - 1] = k[d - 1]
    BY <2>3
  <2>5. h[(d - 1) + 1] = step[d - 1][h[d - 1]] /\ k[(d - 1) + 1] = step[d - 1][k[d - 1]]
    BY <1>2, <2>3
  <2> QED BY <2>1, <2>3, <2>4, <2>5
<1> DEFINE h(n) == CHOOSE h : Approx(n, h)
           G == [d \in Nat |-> h(d)[d]]
<1>3. ASSUME NEW n \in Nat PROVE Approx(n, h(n))
  BY <1>1, Zenon
<1> HIDE DEF h
<1>4. ASSUME NEW d \in Nat PROVE G[d] = h(d)[d] /\ G[d] \in S
  <2>1. d \in 0..d
    OBVIOUS
  <2> QED BY <1>3, <2>1
<1>5. G \in [Nat -> S]
  BY <1>4
<1>6. G[0] = base
  BY <1>3, <1>4
<1>7. ASSUME NEW d \in Nat PROVE G[d + 1] = step[d][G[d]]
  <2>1. d + 1 \in Nat /\ d \in 0..d /\ d \in 0..(d + 1) /\ d \in 0..((d + 1) - 1)
    OBVIOUS
  <2>2. Approx(d + 1, h(d + 1)) /\ Approx(d, h(d))
    BY <1>3, <2>1
  <2>3. h(d + 1)[d + 1] = step[d][h(d + 1)[d]]
    BY <2>1, <2>2
  <2>4. h(d + 1)[d] = h(d)[d]
    <3> HIDE DEF Approx
    <3> QED BY <1>2, <2>1, <2>2
  <2> QED BY <1>4, <2>1, <2>3, <2>4
<1> QED BY <1>5, <1>6, <1>7 DEF Grows

\* What is put together of the first lists, one more list at a time.
Partial(J, S, lists) ==
  /\ J \in [Nat -> Seq(S)] /\ J[0] = <<>>
  /\ \A d \in 0..(Len(lists) - 1) : J[d + 1] = J[d] \o lists[d + 1]

LEMMA FlattenSteps ==
  ASSUME NEW S, NEW lists \in Seq(Seq(S))
  PROVE  \E J : Partial(J, S, lists) /\ FlattenSeq(lists) = J[Len(lists)]
<1> DEFINE n == Len(lists)
           grow == [d \in Nat |-> [s \in Seq(S) |-> IF d < n THEN s \o lists[d + 1] ELSE s]]
<1>1. n \in Nat /\ \A i \in 1..n : lists[i] \in Seq(S)
  BY LenProperties, ElementOfSeq
<1> HIDE DEF n
<1>2. <<>> \in Seq(S)
  BY EmptySeq
<1>3. grow \in [Nat -> [Seq(S) -> Seq(S)]]
  <2>1. ASSUME NEW d \in Nat, NEW s \in Seq(S)
        PROVE  (IF d < n THEN s \o lists[d + 1] ELSE s) \in Seq(S)
    <3>1. CASE d < n
      <4>1. d + 1 \in 1..n
        BY <1>1, <3>1
      <4> QED BY <1>1, <3>1, <4>1, ConcatProperties
    <3> QED BY <3>1
  <2> QED BY <2>1
<1>4. PICK J \in [Nat -> Seq(S)] : J[0] = <<>> /\ \A d \in Nat : J[d + 1] = grow[d][J[d]]
  <2> HIDE DEF grow
  <2> DEFINE T == Seq(S)
             none == <<>>
  <2>1. none \in T /\ grow \in [Nat -> [T -> T]]
    BY <1>2, <1>3
  <2> HIDE DEF T, none
  <2>2. PICK r : Grows(r, T, none, grow)
    BY <2>1, Recursion
  <2> QED BY <2>2 DEF Grows, T, none
<1>5. ASSUME NEW d \in 0..(n - 1) PROVE J[d + 1] = J[d] \o lists[d + 1]
  <2>1. d \in Nat /\ d < n /\ J[d] \in Seq(S)
    BY <1>1, <1>4
  <2> QED BY <1>4, <2>1
<1>6. Partial(J, S, lists)
  BY <1>4, <1>5 DEF Partial, n
<1>7. CASE n = 0
  <2>1. lists = <<>>
    BY <1>7, EmptySeq DEF n
  <2>2. FlattenSeq(lists) = lists
    BY <1>7 DEF FlattenSeq, n
  <2> QED BY <1>4, <1>6, <1>7, <2>1, <2>2 DEF n
<1>8. CASE n # 0
  <2> DEFINE flatten == CHOOSE flatten : flatten = [i \in 1..n |->
                          IF i = 1 THEN lists[i] ELSE flatten[i - 1] \o lists[i]]
             g == [i \in 1..n |-> J[i]]
  <2>1. FlattenSeq(lists) = flatten[n]
    BY <1>8, Zenon DEF FlattenSeq, n
  <2>2. g = [i \in 1..n |-> IF i = 1 THEN lists[i] ELSE g[i - 1] \o lists[i]]
    <3> DEFINE k == [i \in 1..n |-> IF i = 1 THEN lists[i] ELSE g[i - 1] \o lists[i]]
    <3>1. ASSUME NEW i \in 1..n PROVE g[i] = k[i]
      <4>1. i - 1 \in 0..(n - 1) /\ (i - 1) + 1 = i
        BY <1>1
      <4>2. J[i] = J[i - 1] \o lists[i]
        BY <1>5, <4>1
      <4>3. CASE i = 1
        <5>1. J[0] = <<>> /\ lists[1] \in Seq(S) /\ 1 - 1 = 0
          BY <1>1, <1>4, <4>3
        <5>2. <<>> \o lists[1] = lists[1]
          BY <5>1, ConcatEmptySeq
        <5> QED BY <4>2, <4>3, <5>1, <5>2
      <4>4. CASE i # 1
        <5>1. i - 1 \in 1..n
          BY <1>1, <4>4
        <5>2. g[i - 1] = J[i - 1]
          BY <5>1
        <5> QED BY <4>2, <4>4, <5>2
      <4> QED BY <4>3, <4>4
    <3> QED BY <3>1
  <2> HIDE DEF g
  <2>3. flatten = [i \in 1..n |-> IF i = 1 THEN lists[i] ELSE flatten[i - 1] \o lists[i]]
    BY <2>2, Zenon
  <2> HIDE DEF flatten
  <2> DEFINE Bad == {i \in 1..n : flatten[i] # J[i]}
  <2>4. Bad = {}
    <3> SUFFICES ASSUME Bad # {} PROVE FALSE
      OBVIOUS
    <3>1. PICK i \in Bad : \A e \in Bad : i <= e
      <4>1. Bad \in SUBSET Nat OBVIOUS
      <4> HIDE DEF Bad
      <4> QED BY <4>1, Least
    <3>2. i \in 1..n /\ i - 1 \in 0..(n - 1) /\ (i - 1) + 1 = i
      BY <1>1, <3>1
    <3>3. J[i] = J[i - 1] \o lists[i]
      BY <1>5, <3>2
    <3>4. flatten[i] = IF i = 1 THEN lists[i] ELSE flatten[i - 1] \o lists[i]
      BY <2>3, <3>2
    <3>5. CASE i = 1
      <4>1. J[0] = <<>> /\ lists[1] \in Seq(S) /\ 1 - 1 = 0
        BY <1>1, <1>4, <3>2, <3>5
      <4>2. <<>> \o lists[1] = lists[1]
        BY <4>1, ConcatEmptySeq
      <4> QED BY <3>1, <3>3, <3>4, <3>5, <4>1, <4>2
    <3>6. CASE i # 1
      <4>1. i - 1 \in 1..n /\ i - 1 \notin Bad
        BY <1>1, <3>1, <3>2, <3>6
      <4> QED BY <3>1, <3>3, <3>4, <3>6, <4>1
    <3> QED BY <3>5, <3>6
  <2>5. flatten[n] = J[n]
    <3>1. n \in 1..n
      BY <1>1, <1>8
    <3> QED BY <2>4, <3>1
  <2> QED BY <1>6, <2>1, <2>5 DEF n
<1> QED BY <1>7, <1>8

LEMMA FlattenTyped ==
  ASSUME NEW S, NEW lists \in Seq(Seq(S))
  PROVE  FlattenSeq(lists) \in Seq(S)
<1>1. PICK J : Partial(J, S, lists) /\ FlattenSeq(lists) = J[Len(lists)]
  BY FlattenSteps
<1>2. Len(lists) \in Nat
  BY LenProperties
<1> QED BY <1>1, <1>2 DEF Partial

LEMMA FlattenEmpty == FlattenSeq(<<>>) = <<>>
  BY DEF FlattenSeq

LEMMA FlattenOne ==
  ASSUME NEW S, NEW s \in Seq(S)
  PROVE  <<s>> \in Seq(Seq(S)) /\ FlattenSeq(<<s>>) = s
<1> DEFINE lists == <<s>>
<1>1. lists \in Seq(Seq(S)) /\ Len(lists) = 1 /\ lists[1] = s
  OBVIOUS
<1> HIDE DEF lists
<1>2. PICK J : Partial(J, S, lists) /\ FlattenSeq(lists) = J[1]
  BY <1>1, FlattenSteps
<1>3. J[0] = <<>> /\ J[0 + 1] = J[0] \o lists[0 + 1]
  <2>1. 0 \in 0..(Len(lists) - 1)
    BY <1>1
  <2> QED BY <1>2, <2>1 DEF Partial
<1>4. <<>> \o s = s
  BY ConcatEmptySeq
<1> QED BY <1>1, <1>2, <1>3, <1>4 DEF lists

\* Lists one after the other, put together.
LEMMA FlattenConcat ==
  ASSUME NEW S, NEW s \in Seq(Seq(S)), NEW t \in Seq(Seq(S))
  PROVE  /\ s \o t \in Seq(Seq(S))
         /\ FlattenSeq(s \o t) = FlattenSeq(s) \o FlattenSeq(t)
<1>1. PICK u : u = s \o t
  OBVIOUS
<1>2. PICK m, n : m = Len(s) /\ n = Len(t)
  OBVIOUS
<1>3. /\ m \in Nat /\ n \in Nat /\ u \in Seq(Seq(S)) /\ Len(u) = m + n
      /\ \A i \in 1..(m + n) : u[i] = IF i <= m THEN s[i] ELSE t[i - m]
  BY <1>1, <1>2, LenProperties, ConcatProperties
<1>4. PICK F : Partial(F, S, s) /\ FlattenSeq(s) = F[m]
  BY <1>2, FlattenSteps
<1>5. PICK G : Partial(G, S, t) /\ FlattenSeq(t) = G[n]
  BY <1>2, FlattenSteps
<1>6. PICK H : Partial(H, S, u) /\ FlattenSeq(u) = H[m + n]
  BY <1>3, FlattenSteps
<1>7. \A d \in Nat : F[d] \in Seq(S) /\ G[d] \in Seq(S) /\ H[d] \in Seq(S)
  BY <1>4, <1>5, <1>6 DEF Partial
<1>8. F[0] = <<>> /\ G[0] = <<>> /\ H[0] = <<>>
  BY <1>4, <1>5, <1>6 DEF Partial
<1>9. \A i \in 0..m : H[i] = F[i]
  <2> DEFINE Bad == {i \in 0..m : H[i] # F[i]}
  <2> SUFFICES ASSUME Bad # {} PROVE FALSE
    OBVIOUS
  <2>1. PICK i \in Bad : \A e \in Bad : i <= e
    <3>1. Bad \in SUBSET Nat
      <4>1. \A e \in Bad : e \in Nat
        BY <1>3
      <4> QED BY <4>1
    <3> HIDE DEF Bad
    <3> QED BY <3>1, Least
  <2>2. i \in 0..m /\ i # 0
    BY <1>8, <2>1
  <2>3. /\ i - 1 \in 0..m /\ (i - 1) + 1 = i /\ i \in 1..(m + n) /\ i <= m
        /\ i - 1 \in 0..(m - 1) /\ i - 1 \in 0..((m + n) - 1)
        /\ ~(i <= i - 1)
    BY <1>3, <2>2
  <2>6. H[i - 1] = F[i - 1]
    BY <2>1, <2>3
  <2>4. H[i] = H[i - 1] \o u[i]
    BY <1>3, <1>6, <2>3 DEF Partial
  <2>5. F[i] = F[i - 1] \o s[i]
    BY <1>2, <1>4, <2>3 DEF Partial
  <2> QED BY <1>3, <2>1, <2>3, <2>4, <2>5, <2>6
<1>10. \A i \in 0..n : H[m + i] = F[m] \o G[i]
  <2> DEFINE Bad == {i \in 0..n : H[m + i] # F[m] \o G[i]}
  <2> SUFFICES ASSUME Bad # {} PROVE FALSE
    OBVIOUS
  <2>1. PICK i \in Bad : \A e \in Bad : i <= e
    <3>1. Bad \in SUBSET Nat
      <4>1. \A e \in Bad : e \in Nat
        BY <1>3
      <4> QED BY <4>1
    <3> HIDE DEF Bad
    <3> QED BY <3>1, Least
  <2>2. i \in 0..n
    BY <2>1
  <2>3. i # 0
    <3>1. H[m + 0] = F[m]
      BY <1>3, <1>9
    <3>2. F[m] \o <<>> = F[m]
      BY <1>3, <1>7, ConcatEmptySeq
    <3> QED BY <1>8, <2>1, <3>1, <3>2
  <2>4. /\ i - 1 \in 0..n /\ ~(i <= i - 1) /\ (i - 1) + 1 = i /\ m + i \in 1..(m + n)
        /\ ~(m + i <= m) /\ (m + i) - m = i /\ (m + (i - 1)) + 1 = m + i
        /\ i - 1 \in 0..(n - 1) /\ m + (i - 1) \in 0..((m + n) - 1)
        /\ i - 1 \in Nat
    BY <1>3, <2>2, <2>3
  <2>5. H[m + i] = H[m + (i - 1)] \o u[m + i]
    BY <1>3, <1>6, <2>4 DEF Partial
  <2>6. G[i] = G[i - 1] \o t[i] /\ t[i] \in Seq(S)
    <3>1. i \in 1..n
      BY <2>2, <2>3
    <3> QED BY <1>2, <1>5, <2>4, <3>1, ElementOfSeq DEF Partial
  <2>7. u[m + i] = t[i]
    BY <1>3, <2>4
  <2>8. H[m + (i - 1)] = F[m] \o G[i - 1]
    BY <2>1, <2>4
  <2>9. (F[m] \o G[i - 1]) \o t[i] = F[m] \o (G[i - 1] \o t[i])
    <3>1. PICK a, b, c : a = F[m] /\ b = G[i - 1] /\ c = t[i]
      OBVIOUS
    <3>2. a \in Seq(S) /\ b \in Seq(S) /\ c \in Seq(S)
      BY <1>3, <1>7, <2>4, <2>6, <3>1
    <3>3. (a \o b) \o c = a \o (b \o c)
      BY <3>2, ConcatAssociative
    <3> QED BY <3>1, <3>3
  <2> QED BY <2>1, <2>5, <2>6, <2>7, <2>8, <2>9
<1>11. H[m + n] = F[m] \o G[n]
  <2>1. n \in 0..n
    BY <1>3
  <2> QED BY <1>10, <2>1
<1> QED BY <1>1, <1>3, <1>4, <1>5, <1>6, <1>11

-----------------------------------------------------------------------------
(* The expansion of a definition.                                            *)
LEMMA Listing ==
  ASSUME NEW S, NEW n \in Nat, NEW s, s = [i \in 1..n |-> s[i]], \A i \in 1..n : s[i] \in S
  PROVE  s \in Seq(S) /\ Len(s) = n
<1>1. s \in [1..n -> S]
  OBVIOUS
<1>2. s \in Seq(S)
  BY <1>1, SeqDef
<1> QED BY <1>1, <1>2, LenProperties

References(structures) == \A name \in DOMAIN structures : structures[name] \in Seq(Fields)
Expanding == [Seq(Fields) -> Seq(Fields)]
Inner(structures, f, expand) ==
  [j \in DOMAIN Groups(f) |-> expand[Target(structures, Groups(f)[j])]]
Row(structures, fields, expand) ==
  [i \in DOMAIN fields |-> Unfolded(structures, fields[i], expand)]
LevelAfter(structures, expand) ==
  [fields \in Seq(Fields) |-> FlattenSeq(Row(structures, fields, expand))]

LEMMA TargetTyped ==
  ASSUME NEW structures, References(structures), NEW g \in AllGroups
  PROVE  Target(structures, g) \in Seq(Fields)
<1>1. g.fields \in Seq(Fields) /\ <<>> \in Seq(Fields)
  BY EmptySeq DEF AllGroups
<1> QED BY <1>1 DEF Target, References

LEMMA InnerTyped ==
  ASSUME NEW structures, References(structures), NEW expand \in Expanding,
         NEW f \in Fields, f.kind \in Composites
  PROVE  Inner(structures, f, expand) \in Seq(Seq(Fields))
<1> DEFINE s == Inner(structures, f, expand)
           n == Len(Groups(f))
<1>1. Groups(f) \in Seq(AllGroups)
  BY GroupsTyped
<1>2. n \in Nat /\ DOMAIN Groups(f) = 1..n /\ \A j \in 1..n : Groups(f)[j] \in AllGroups
  BY <1>1, LenProperties, ElementOfSeq
<1> HIDE DEF n
<1>3. s = [j \in 1..n |-> expand[Target(structures, Groups(f)[j])]]
  BY <1>2, Zenon DEF Inner
<1>4. ASSUME NEW j \in 1..n PROVE s[j] \in Seq(Fields)
  <2>1. Target(structures, Groups(f)[j]) \in Seq(Fields)
    BY <1>2, TargetTyped
  <2>2. expand[Target(structures, Groups(f)[j])] \in Seq(Fields)
    BY <2>1 DEF Expanding
  <2> QED BY <1>3, <2>2
<1>5. s = [j \in 1..n |-> s[j]]
  BY <1>3
<1> HIDE DEF s
<1>6. s \in Seq(Seq(Fields))
  BY <1>2, <1>4, <1>5, Listing
<1> QED BY <1>6 DEF s

LEMMA UnfoldedIs ==
  ASSUME NEW structures, References(structures), NEW expand \in Expanding, NEW f \in Fields
  PROVE  /\ f.kind \notin Composites => Unfolded(structures, f, expand) = <<f>>
         /\ f.kind \in Composites =>
              Unfolded(structures, f, expand) = <<f>> \o FlattenSeq(Inner(structures, f, expand))
         /\ Unfolded(structures, f, expand) \in Seq(Fields)
<1>1. <<f>> \in Seq(Fields)
  OBVIOUS
<1>2. CASE f.kind \notin Composites
  <2>1. Unfolded(structures, f, expand) = <<f>> \o <<>>
    BY <1>2, Zenon DEF Unfolded
  <2>2. <<f>> \o <<>> = <<f>>
    BY <1>1, ConcatEmptySeq
  <2> QED BY <1>1, <1>2, <2>1, <2>2
<1>3. CASE f.kind \in Composites
  <2>1. Unfolded(structures, f, expand) = <<f>> \o FlattenSeq(Inner(structures, f, expand))
    BY <1>3, Zenon DEF Unfolded, Inner
  <2>2. FlattenSeq(Inner(structures, f, expand)) \in Seq(Fields)
    BY <1>3, InnerTyped, FlattenTyped
  <2>3. <<f>> \o FlattenSeq(Inner(structures, f, expand)) \in Seq(Fields)
    BY <1>1, <2>2, ConcatProperties
  <2> QED BY <1>3, <2>1, <2>3
<1> QED BY <1>2, <1>3

LEMMA RowTyped ==
  ASSUME NEW structures, References(structures), NEW expand \in Expanding,
         NEW fields \in Seq(Fields)
  PROVE  Row(structures, fields, expand) \in Seq(Seq(Fields))
<1> DEFINE s == Row(structures, fields, expand)
           n == Len(fields)
<1>1. n \in Nat /\ DOMAIN fields = 1..n /\ \A i \in 1..n : fields[i] \in Fields
  BY LenProperties, ElementOfSeq
<1> HIDE DEF n
<1>2. s = [i \in 1..n |-> Unfolded(structures, fields[i], expand)]
  BY <1>1, Zenon DEF Row
<1>3. ASSUME NEW i \in 1..n PROVE s[i] \in Seq(Fields)
  BY <1>1, <1>2, UnfoldedIs
<1>4. s = [i \in 1..n |-> s[i]]
  BY <1>2
<1> HIDE DEF s
<1>5. s \in Seq(Seq(Fields))
  BY <1>1, <1>3, <1>4, Listing
<1> QED BY <1>5 DEF s

LEMMA LevelAfterTyped ==
  ASSUME NEW structures, References(structures), NEW expand \in Expanding
  PROVE  LevelAfter(structures, expand) \in Expanding
<1>1. ASSUME NEW fields \in Seq(Fields)
      PROVE  FlattenSeq(Row(structures, fields, expand)) \in Seq(Fields)
  BY RowTyped, FlattenTyped
<1> QED BY <1>1 DEF LevelAfter, Expanding

\* The recursive function Expansion exists, and each level unfolds the one before.
LEMMA ExpansionSteps ==
  ASSUME NEW structures, References(structures)
  PROVE  \A d \in Nat :
           /\ Expansion(structures)[d] \in Expanding
           /\ Expansion(structures)[d + 1] = LevelAfter(structures, Expansion(structures)[d])
<1> DEFINE nothing == [fields \in Seq(Fields) |-> <<>>]
           further == [d \in Nat |-> [e \in Expanding |-> LevelAfter(structures, e)]]
           E == Expansion(structures)
           At(d, before) == [fields \in Seq(Fields) |->
                               IF d = 0 THEN <<>> ELSE FlattenSeq(Row(structures, fields, before))]
<1>1. nothing \in Expanding /\ further \in [Nat -> [Expanding -> Expanding]]
  BY LevelAfterTyped, EmptySeq DEF Expanding
<1>2. PICK r : /\ r \in [Nat -> Expanding] /\ r[0] = nothing
               /\ \A d \in Nat : r[d + 1] = LevelAfter(structures, r[d])
  <2>1. PICK r : Grows(r, Expanding, nothing, further)
    <3> HIDE DEF nothing, further
    <3> QED BY <1>1, Recursion
  <2>2. r \in [Nat -> Expanding] /\ r[0] = nothing /\ \A d \in Nat : r[d + 1] = further[d][r[d]]
    BY <2>1 DEF Grows
  <2>3. ASSUME NEW d \in Nat PROVE r[d + 1] = LevelAfter(structures, r[d])
    <3>1. r[d] \in Expanding
      BY <2>2
    <3> QED BY <2>2, <3>1
  <2> QED BY <2>2, <2>3
<1>3. /\ \A before : At(0, before) = nothing
      /\ \A before : \A d \in Nat : d # 0 => At(d, before) = LevelAfter(structures, before)
  <2>1. ASSUME NEW before PROVE At(0, before) = nothing
    OBVIOUS
  <2>2. ASSUME NEW d \in Nat, NEW before, d # 0 PROVE At(d, before) = LevelAfter(structures, before)
    BY <2>2 DEF LevelAfter
  <2> QED BY <2>1, <2>2
<1>4. E = CHOOSE level : level = [d \in Nat |-> At(d, level[d - 1])]
  BY Zenon DEF Expansion, Row
<1> HIDE DEF At, nothing, further, E
<1>5. r = [d \in Nat |-> At(d, r[d - 1])]
  <2> DEFINE k == [d \in Nat |-> At(d, r[d - 1])]
  <2>1. ASSUME NEW d \in Nat PROVE r[d] = k[d]
    <3>1. CASE d = 0
      BY <1>2, <1>3, <3>1
    <3>2. CASE d # 0
      <4>1. d - 1 \in Nat /\ (d - 1) + 1 = d
        BY <3>2
      <4>2. r[d] = LevelAfter(structures, r[d - 1])
        BY <1>2, <4>1
      <4> QED BY <1>3, <3>2, <4>2
    <3> QED BY <3>1, <3>2
  <2> QED BY <1>2, <2>1
<1>6. E = [d \in Nat |-> At(d, E[d - 1])]
  BY <1>4, <1>5, Zenon
<1>7. E[0] = nothing
  BY <1>3, <1>6
<1>8. ASSUME NEW d \in Nat PROVE E[d + 1] = LevelAfter(structures, E[d])
  <2>1. d + 1 \in Nat /\ d + 1 # 0 /\ (d + 1) - 1 = d
    OBVIOUS
  <2>2. E[d + 1] = At(d + 1, E[(d + 1) - 1])
    BY <1>6, <2>1
  <2> QED BY <1>3, <2>1, <2>2
<1>9. \A d \in Nat : E[d] \in Expanding
  <2> DEFINE Bad == {d \in Nat : E[d] \notin Expanding}
  <2> SUFFICES ASSUME Bad # {} PROVE FALSE
    OBVIOUS
  <2>1. PICK d \in Bad : \A e \in Bad : d <= e
    <3>1. Bad \in SUBSET Nat OBVIOUS
    <3> HIDE DEF Bad
    <3> QED BY <3>1, Least
  <2>2. d \in Nat /\ d # 0
    BY <1>1, <1>7, <2>1
  <2>3. d - 1 \in Nat /\ d - 1 \notin Bad /\ (d - 1) + 1 = d
    BY <2>1, <2>2
  <2>4. E[d] = LevelAfter(structures, E[d - 1]) /\ E[d - 1] \in Expanding
    BY <1>8, <2>3
  <2> QED BY <2>1, <2>4, LevelAfterTyped
<1> QED BY <1>8, <1>9 DEF E

\* What is still to come of the expansion for an entry of the list, and for the list,
\* when the whole of it is that of D levels.
Piece(structures, D, e) ==
  IF e.of.kind = "group" THEN Expansion(structures)[D - e.depth][Target(structures, e.of)]
                         ELSE Unfolded(structures, e.of, Expansion(structures)[D - e.depth])
Pieces(structures, D, items) == [i \in DOMAIN items |-> Piece(structures, D, items[i])]
Rest(structures, D, items) == FlattenSeq(Pieces(structures, D, items))

LEMMA PieceTyped ==
  ASSUME NEW structures, References(structures), NEW D \in Nat, D >= MaxDepth, NEW e \in Entries
  PROVE  Piece(structures, D, e) \in Seq(Fields)
<1>1. e.of \in Fields \cup AllGroups /\ e.depth \in 1..MaxDepth
  BY EntryParts
<1>2. D - e.depth \in Nat
  BY <1>1, BoundsAssumption
<1>3. Expansion(structures)[D - e.depth] \in Expanding
  BY <1>2, ExpansionSteps
<1>4. CASE e.of.kind = "group"
  <2>1. e.of \in AllGroups
    BY <1>1, <1>4, FieldKinds
  <2>2. Target(structures, e.of) \in Seq(Fields)
    BY <2>1, TargetTyped
  <2> QED BY <1>3, <1>4, <2>2 DEF Piece, Expanding
<1>5. CASE e.of.kind # "group"
  <2>1. e.of \in Fields
    BY <1>1, <1>5, FieldKinds
  <2> QED BY <1>3, <1>5, <2>1, UnfoldedIs DEF Piece
<1> QED BY <1>4, <1>5

LEMMA PiecesTyped ==
  ASSUME NEW structures, References(structures), NEW D \in Nat, D >= MaxDepth,
         NEW items \in Seq(Entries)
  PROVE  /\ Pieces(structures, D, items) \in Seq(Seq(Fields))
         /\ Len(Pieces(structures, D, items)) = Len(items)
         /\ \A i \in 1..Len(items) : Pieces(structures, D, items)[i] = Piece(structures, D, items[i])
<1> DEFINE s == Pieces(structures, D, items)
           n == Len(items)
<1>1. n \in Nat /\ DOMAIN items = 1..n /\ \A i \in 1..n : items[i] \in Entries
  BY LenProperties, ElementOfSeq
<1> HIDE DEF n
<1>2. s = [i \in 1..n |-> Piece(structures, D, items[i])]
  BY <1>1, Zenon DEF Pieces
<1>3. \A i \in 1..n : s[i] = Piece(structures, D, items[i]) /\ s[i] \in Seq(Fields)
  BY <1>1, <1>2, PieceTyped
<1>4. s = [i \in 1..n |-> s[i]]
  BY <1>2
<1> HIDE DEF s
<1>5. s \in Seq(Seq(Fields)) /\ Len(s) = n
  BY <1>1, <1>3, <1>4, Listing
<1> QED BY <1>3, <1>5 DEF s, n

LEMMA RestTyped ==
  ASSUME NEW structures, References(structures), NEW D \in Nat, D >= MaxDepth,
         NEW items \in Seq(Entries)
  PROVE  Rest(structures, D, items) \in Seq(Fields)
<1>1. Pieces(structures, D, items) \in Seq(Seq(Fields))
  BY PiecesTyped
<1> QED BY <1>1, FlattenTyped DEF Rest

LEMMA RestConcat ==
  ASSUME NEW structures, References(structures), NEW D \in Nat, D >= MaxDepth,
         NEW items \in Seq(Entries), NEW more \in Seq(Entries)
  PROVE  Rest(structures, D, items \o more)
           = Rest(structures, D, items) \o Rest(structures, D, more)
<1>1. PICK all : all = items \o more
  OBVIOUS
<1>2. PICK m, n : m = Len(items) /\ n = Len(more)
  OBVIOUS
<1>3. /\ m \in Nat /\ n \in Nat /\ all \in Seq(Entries) /\ Len(all) = m + n
      /\ \A i \in 1..(m + n) : all[i] = IF i <= m THEN items[i] ELSE more[i - m]
  BY <1>1, <1>2, LenProperties, ConcatProperties
<1>4. PICK a, b, c : /\ a = Pieces(structures, D, items) /\ b = Pieces(structures, D, more)
                     /\ c = Pieces(structures, D, all)
  OBVIOUS
<1>5. /\ a \in Seq(Seq(Fields)) /\ b \in Seq(Seq(Fields)) /\ c \in Seq(Seq(Fields))
      /\ Len(a) = m /\ Len(b) = n /\ Len(c) = m + n
      /\ \A i \in 1..m : a[i] = Piece(structures, D, items[i])
      /\ \A i \in 1..n : b[i] = Piece(structures, D, more[i])
      /\ \A i \in 1..(m + n) : c[i] = Piece(structures, D, all[i])
  <2>1. /\ a \in Seq(Seq(Fields)) /\ Len(a) = m
        /\ \A i \in 1..m : a[i] = Piece(structures, D, items[i])
    BY <1>2, <1>4, PiecesTyped
  <2>2. /\ b \in Seq(Seq(Fields)) /\ Len(b) = n
        /\ \A i \in 1..n : b[i] = Piece(structures, D, more[i])
    BY <1>2, <1>4, PiecesTyped
  <2>3. /\ c \in Seq(Seq(Fields)) /\ Len(c) = m + n
        /\ \A i \in 1..(m + n) : c[i] = Piece(structures, D, all[i])
    <3>1. /\ c \in Seq(Seq(Fields)) /\ Len(c) = Len(all)
          /\ \A i \in 1..Len(all) : c[i] = Piece(structures, D, all[i])
      BY <1>3, <1>4, PiecesTyped
    <3> QED BY <1>3, <3>1
  <2> QED BY <2>1, <2>2, <2>3
<1>6. /\ a \o b \in Seq(Seq(Fields)) /\ Len(a \o b) = m + n
      /\ \A i \in 1..(m + n) : (a \o b)[i] = IF i <= m THEN a[i] ELSE b[i - m]
  BY <1>5, ConcatProperties
<1>7. ASSUME NEW i \in 1..(m + n) PROVE c[i] = (a \o b)[i]
  <2>1. CASE i <= m
    <3>1. i \in 1..m
      BY <1>3, <2>1
    <3> QED BY <1>3, <1>5, <1>6, <2>1, <3>1
  <2>2. CASE ~(i <= m)
    <3>1. i - m \in 1..n
      BY <1>3, <2>2
    <3> QED BY <1>3, <1>5, <1>6, <2>2, <3>1
  <2> QED BY <2>1, <2>2
<1>8. c = a \o b
  <2>1. PICK ab : ab = a \o b
    OBVIOUS
  <2>2. ab \in Seq(Seq(Fields)) /\ Len(ab) = Len(c) /\ \A i \in 1..Len(c) : c[i] = ab[i]
    BY <1>5, <1>6, <1>7, <2>1
  <2> QED BY <1>5, <2>1, <2>2, SeqEqual
<1>9. FlattenSeq(a \o b) = FlattenSeq(a) \o FlattenSeq(b)
  BY <1>5, FlattenConcat
<1> QED BY <1>1, <1>4, <1>8, <1>9 DEF Rest

LEMMA RestFirst ==
  ASSUME NEW structures, References(structures), NEW D \in Nat, D >= MaxDepth,
         NEW items \in Seq(Entries), items # <<>>
  PROVE  Rest(structures, D, items)
           = Piece(structures, D, Head(items)) \o Rest(structures, D, Tail(items))
<1>1. PICK e, more, one : e = Head(items) /\ more = Tail(items) /\ one = <<e>>
  OBVIOUS
<1>2. e \in Entries /\ more \in Seq(Entries)
  BY <1>1, HeadTailProperties
<1>3. items = one \o more /\ one \in Seq(Entries) /\ DOMAIN one = {1} /\ one[1] = e
  <2>1. /\ Len(items) \in Nat \ {0} /\ Len(more) = Len(items) - 1 /\ e = items[1]
        /\ \A i \in 1..Len(more) : more[i] = items[i + 1]
    BY <1>1, HeadTailProperties, EmptySeq
  <2>3. one \in Seq(Entries) /\ Len(one) = 1 /\ one[1] = e /\ DOMAIN one = {1}
    BY <1>1, <1>2
  <2>2. /\ one \o more \in Seq(Entries) /\ Len(one \o more) = Len(one) + Len(more)
        /\ \A i \in 1..(Len(one) + Len(more)) :
             (one \o more)[i] = IF i <= Len(one) THEN one[i] ELSE more[i - Len(one)]
    BY <1>2, <2>3, ConcatProperties
  <2>4. /\ one \o more \in Seq(Entries) /\ Len(one \o more) = Len(items)
        /\ \A i \in 1..Len(items) : (one \o more)[i] = IF i <= 1 THEN one[i] ELSE more[i - 1]
    <3>1. Len(one) + Len(more) = Len(items)
      BY <2>1, <2>3
    <3> QED BY <2>2, <2>3, <3>1
  <2>5. ASSUME NEW i \in 1..Len(items) PROVE items[i] = (one \o more)[i]
    <3>1. CASE i = 1
      BY <2>1, <2>3, <2>4, <3>1
    <3>2. CASE i # 1
      <4>1. i - 1 \in 1..Len(more) /\ (i - 1) + 1 = i /\ ~(i <= 1)
        BY <2>1, <3>2
      <4> QED BY <2>1, <2>4, <4>1
    <3> QED BY <3>1, <3>2
  <2>6. PICK all : all = one \o more
    OBVIOUS
  <2>7. items = all
    <3>1. all \in Seq(Entries) /\ Len(items) = Len(all) /\ \A i \in 1..Len(items) : items[i] = all[i]
      BY <2>4, <2>5, <2>6
    <3> QED BY <3>1, SeqEqual
  <2> QED BY <2>3, <2>6, <2>7
<1>4. Rest(structures, D, one) = Piece(structures, D, e)
  <2>3. PICK p : p = Piece(structures, D, e)
    OBVIOUS
  <2>4. Pieces(structures, D, one) = [i \in {1} |-> p]
    BY <1>3, <2>3, Zenon DEF Pieces
  <2>5. [i \in {1} |-> p] = <<p>>
    OBVIOUS
  <2>6. p \in Seq(Fields)
    BY <1>2, <2>3, PieceTyped
  <2> QED BY <2>3, <2>4, <2>5, <2>6, FlattenOne DEF Rest
<1>5. Rest(structures, D, one \o more) = Rest(structures, D, one) \o Rest(structures, D, more)
  BY <1>2, <1>3, RestConcat
<1> QED BY <1>1, <1>3, <1>4, <1>5

LEMMA FieldsRest ==
  ASSUME NEW structures, References(structures), NEW D \in Nat, D >= MaxDepth,
         NEW fields \in Seq(Fields), NEW d \in 1..MaxDepth
  PROVE  Rest(structures, D, Items(fields, d)) = Expansion(structures)[(D - d) + 1][fields]
<1> DEFINE expand == Expansion(structures)[D - d]
<1>1. D - d \in Nat
  BY BoundsAssumption
<1>2. /\ expand \in Expanding
      /\ Expansion(structures)[(D - d) + 1] = LevelAfter(structures, expand)
  BY <1>1, ExpansionSteps
<1>3. DOMAIN fields = 1..Len(fields) /\ \A i \in 1..Len(fields) : fields[i] \in Fields
  BY LenProperties, ElementOfSeq
<1>4. Items(fields, d) = [i \in DOMAIN fields |-> Item(fields[i], d)]
  BY DEF Items, Item
<1>5. ASSUME NEW i \in DOMAIN fields
      PROVE  Piece(structures, D, Items(fields, d)[i]) = Unfolded(structures, fields[i], expand)
  <2>1. Items(fields, d)[i] = Item(fields[i], d) /\ fields[i].kind # "group"
    BY <1>3, <1>4, FieldKinds
  <2>2. Item(fields[i], d).of = fields[i] /\ Item(fields[i], d).depth = d
    BY ItemParts
  <2> QED BY <2>1, <2>2 DEF Piece
<1>6. Pieces(structures, D, Items(fields, d))
        = [i \in DOMAIN fields |-> Piece(structures, D, Items(fields, d)[i])]
  BY <1>4 DEF Pieces
<1>7. Pieces(structures, D, Items(fields, d)) = Row(structures, fields, expand)
  BY <1>5, <1>6, Zenon DEF Row
<1> HIDE DEF expand
<1> QED BY <1>2, <1>7 DEF Rest, LevelAfter

LEMMA GroupsRest ==
  ASSUME NEW structures, References(structures), NEW D \in Nat, D >= MaxDepth,
         NEW f \in Fields, f.kind \in Composites, NEW d \in 1..MaxDepth
  PROVE  Rest(structures, D, Items(Groups(f), d))
           = FlattenSeq(Inner(structures, f, Expansion(structures)[D - d]))
<1> DEFINE expand == Expansion(structures)[D - d]
           g == Groups(f)
<1>1. g \in Seq(AllGroups)
  BY GroupsTyped
<1>2. DOMAIN g = 1..Len(g) /\ \A i \in 1..Len(g) : g[i] \in AllGroups
  BY <1>1, LenProperties, ElementOfSeq
<1> HIDE DEF g
<1>3. Items(g, d) = [i \in DOMAIN g |-> Item(g[i], d)]
  BY DEF Items, Item
<1>4. ASSUME NEW i \in DOMAIN g
      PROVE  Piece(structures, D, Items(g, d)[i]) = expand[Target(structures, g[i])]
  <2>1. Items(g, d)[i] = Item(g[i], d) /\ g[i].kind = "group"
    BY <1>2, <1>3, FieldKinds
  <2>2. Item(g[i], d).of = g[i] /\ Item(g[i], d).depth = d
    BY ItemParts
  <2> QED BY <2>1, <2>2 DEF Piece
<1>5. Pieces(structures, D, Items(g, d))
        = [i \in DOMAIN g |-> Piece(structures, D, Items(g, d)[i])]
  BY <1>3 DEF Pieces
<1>6. Pieces(structures, D, Items(g, d)) = Inner(structures, f, expand)
  BY <1>4, <1>5, Zenon DEF Inner, g
<1> QED BY <1>6 DEF Rest, g

-----------------------------------------------------------------------------
(* What Setup has made so far is the beginning of the expansion.             *)
FieldsOf(made) == [j \in DOMAIN made |-> made[j].field]

LEMMA FieldsOfTyped ==
  ASSUME NEW made \in Seq(Made)
  PROVE  /\ FieldsOf(made) \in Seq(Fields) /\ Len(FieldsOf(made)) = Len(made)
         /\ \A i \in 1..Len(made) : FieldsOf(made)[i] = made[i].field
<1> DEFINE s == FieldsOf(made)
           n == Len(made)
<1>1. n \in Nat /\ DOMAIN made = 1..n /\ \A i \in 1..n : made[i] \in Made
  BY LenProperties, ElementOfSeq
<1> HIDE DEF n
<1>2. s = [i \in 1..n |-> made[i].field]
  BY <1>1 DEF FieldsOf
<1>3. \A i \in 1..n : s[i] = made[i].field /\ s[i] \in Fields
  <2>1. Made \in SUBSET Made
    OBVIOUS
  <2> QED BY <1>1, <1>2, <2>1, MadeParts
<1>4. s = [i \in 1..n |-> s[i]]
  BY <1>2
<1> HIDE DEF s
<1>5. s \in Seq(Fields) /\ Len(s) = n
  BY <1>1, <1>3, <1>4, Listing
<1> QED BY <1>3, <1>5 DEF s, n

LEMMA FieldsOfMore ==
  ASSUME NEW made \in Seq(Made), NEW f \in Fields, NEW d \in 1..MaxDepth
  PROVE  FieldsOf(made \o <<Node(f, d)>>) = FieldsOf(made) \o <<f>>
<1>1. PICK one, last, all : one = <<Node(f, d)>> /\ last = <<f>> /\ all = made \o one
  OBVIOUS
<1>2. /\ one \in Seq(Made) /\ Len(one) = 1 /\ one[1] = Node(f, d)
      /\ last \in Seq(Fields) /\ Len(last) = 1 /\ last[1] = f
  <2>1. Node(f, d) \in Made
    BY DEF Made
  <2> QED BY <1>1, <2>1
<1>3. PICK n : n = Len(made)
  OBVIOUS
<1>4. /\ n \in Nat /\ all \in Seq(Made) /\ Len(all) = n + 1
      /\ \A i \in 1..(n + 1) : all[i] = IF i <= n THEN made[i] ELSE one[i - n]
  <2>1. /\ all \in Seq(Made) /\ Len(all) = Len(made) + Len(one)
        /\ \A i \in 1..(Len(made) + Len(one)) :
             all[i] = IF i <= Len(made) THEN made[i] ELSE one[i - Len(made)]
    BY <1>1, <1>2, ConcatProperties
  <2>2. n \in Nat
    BY <1>3, LenProperties
  <2> QED BY <1>2, <1>3, <2>1, <2>2
<1>5. PICK a, b : a = FieldsOf(made) /\ b = FieldsOf(all)
  OBVIOUS
<1>6. /\ a \in Seq(Fields) /\ Len(a) = n /\ \A i \in 1..n : a[i] = made[i].field
      /\ b \in Seq(Fields) /\ Len(b) = n + 1
  BY <1>3, <1>4, <1>5, FieldsOfTyped
<1>7. \A i \in 1..(n + 1) : b[i] = all[i].field
  <2>1. \A i \in 1..Len(all) : b[i] = all[i].field
    BY <1>4, <1>5, FieldsOfTyped
  <2> QED BY <1>4, <2>1
<1>8. PICK al : al = a \o last
  OBVIOUS
<1>9. /\ al \in Seq(Fields) /\ Len(al) = n + 1
      /\ \A i \in 1..(n + 1) : al[i] = IF i <= n THEN a[i] ELSE last[i - n]
  <2>1. /\ al \in Seq(Fields) /\ Len(al) = Len(a) + Len(last)
        /\ \A i \in 1..(Len(a) + Len(last)) :
             al[i] = IF i <= Len(a) THEN a[i] ELSE last[i - Len(a)]
    BY <1>2, <1>6, <1>8, ConcatProperties
  <2> QED BY <1>2, <1>4, <1>6, <2>1
<1>10. ASSUME NEW i \in 1..(n + 1) PROVE b[i] = al[i]
  <2>1. CASE i <= n
    <3>1. i \in 1..n
      BY <1>4, <2>1
    <3> QED BY <1>4, <1>6, <1>7, <1>9, <2>1, <3>1
  <2>2. CASE ~(i <= n)
    <3>1. i - n = 1
      BY <1>4, <2>2
    <3>2. one[1].field = f
      BY <1>2, NodeParts
    <3> QED BY <1>2, <1>4, <1>7, <1>9, <2>2, <3>1, <3>2
  <2> QED BY <2>1, <2>2
<1>11. b = al
  <2>1. Len(b) = Len(al) /\ \A i \in 1..Len(b) : b[i] = al[i]
    BY <1>6, <1>9, <1>10
  <2> QED BY <1>6, <1>9, <2>1, SeqEqual
<1> QED BY <1>1, <1>5, <1>8, <1>11

WholeOf(structures, D, made, items, fields) ==
  FieldsOf(made) \o Rest(structures, D, items) = Expansion(structures)[D][fields]
ExpandedSoFar(D) ==
  /\ pc = "compile" => WholeOf(scheme.structures, D, nodes, todo, Protocol.fields)
  /\ \A i \in DOMAIN parsed : parsed[i].set =>
       FieldsOf(parsed[i].nodes) = Expansion(scheme.structures)[D][scheme.protocols[i].fields]
ExpansionInv == \A D \in Nat : D >= MaxDepth => ExpandedSoFar(D)

LEMMA SchemeReferences ==
  ASSUME scheme \in Schemes
  PROVE  References(scheme.structures)
  BY SchemesAssumption DEF References

LEMMA FieldsConcat ==
  \A s, t, u \in Seq(Fields) : (s \o t) \o u = s \o (t \o u)
  BY ConcatAssociative

\* A field taken off the list and put among the nodes, with its groups on the list.
LEMMA FieldMoves ==
  ASSUME NEW structures, References(structures), NEW D \in Nat, D >= MaxDepth,
         NEW made \in Seq(Made), NEW items \in Seq(Entries), items # <<>>, NEW fields,
         NEW f \in Fields, NEW d \in 1..MaxDepth, f = Head(items).of, d = Head(items).depth,
         WholeOf(structures, D, made, items, fields),
         NEW groups \in Seq(Entries),
         groups = IF f.kind \in Composites THEN Items(Groups(f), d) ELSE <<>>
  PROVE  WholeOf(structures, D, made \o <<Node(f, d)>>, groups \o Tail(items), fields)
<1>1. PICK a, one, g, rest :
        /\ a = FieldsOf(made) /\ one = <<f>>
        /\ g = Rest(structures, D, groups) /\ rest = Rest(structures, D, Tail(items))
  OBVIOUS
<1>2. Head(items) \in Entries /\ Tail(items) \in Seq(Entries)
  BY HeadTailProperties
<1>3. Rest(structures, D, items) = Piece(structures, D, Head(items)) \o rest
  BY <1>1, RestFirst
<1>4. D - d \in Nat /\ Expansion(structures)[D - d] \in Expanding
  <2>1. D - d \in Nat
    BY BoundsAssumption
  <2> QED BY <2>1, ExpansionSteps
<1>5. Piece(structures, D, Head(items)) = Unfolded(structures, f, Expansion(structures)[D - d])
  BY FieldKinds DEF Piece
<1>6. a \in Seq(Fields) /\ one \in Seq(Fields) /\ g \in Seq(Fields) /\ rest \in Seq(Fields)
  <2>1. a \in Seq(Fields) /\ one \in Seq(Fields)
    BY <1>1, FieldsOfTyped
  <2>2. g \in Seq(Fields)
    BY <1>1, RestTyped
  <2>3. rest \in Seq(Fields)
    BY <1>1, <1>2, RestTyped
  <2> QED BY <2>1, <2>2, <2>3
<1>10. Rest(structures, D, groups \o Tail(items)) = g \o rest
  BY <1>1, <1>2, RestConcat
<1>7. Piece(structures, D, Head(items)) = one \o g
  <2>1. CASE f.kind \in Composites
    <3>1. g = FlattenSeq(Inner(structures, f, Expansion(structures)[D - d]))
      BY <1>1, <2>1, GroupsRest
    <3> QED BY <1>1, <1>4, <1>5, <2>1, <3>1, UnfoldedIs
  <2>2. CASE f.kind \notin Composites
    <3>1. g = <<>>
      <4>1. groups = <<>>
        BY <2>2
      <4>2. Pieces(structures, D, <<>>) = <<>>
        BY DEF Pieces
      <4> QED BY <1>1, <4>1, <4>2, FlattenEmpty DEF Rest
    <3>2. one \o <<>> = one
      BY <1>6, ConcatEmptySeq
    <3> QED BY <1>1, <1>4, <1>5, <2>2, <3>1, <3>2, UnfoldedIs
  <2> QED BY <2>1, <2>2
<1>8. a \o ((one \o g) \o rest) = (a \o one) \o (g \o rest)
  <2>1. (one \o g) \o rest = one \o (g \o rest)
    BY <1>6, FieldsConcat
  <2>2. PICK more : more = g \o rest
    OBVIOUS
  <2>3. more \in Seq(Fields)
    BY <1>6, <2>2, ConcatProperties
  <2>4. (a \o one) \o more = a \o (one \o more)
    BY <1>6, <2>3, FieldsConcat
  <2> QED BY <2>1, <2>2, <2>4
<1>9. FieldsOf(made \o <<Node(f, d)>>) = a \o one
  BY <1>1, FieldsOfMore
<1> QED BY <1>1, <1>3, <1>7, <1>8, <1>9, <1>10 DEF WholeOf

\* A group taken off the list, and the fields that it stands for put on it.
LEMMA GroupMoves ==
  ASSUME NEW structures, References(structures), NEW D \in Nat, D >= MaxDepth,
         NEW made \in Seq(Made), NEW items \in Seq(Entries), items # <<>>, NEW fields,
         NEW g \in AllGroups, NEW d \in 1..MaxDepth, g = Head(items).of, d = Head(items).depth,
         d + 1 \in 1..MaxDepth, GroupSound(structures, g),
         WholeOf(structures, D, made, items, fields),
         NEW more \in Seq(Entries), more = Items(DefinitionIn(structures, g), d + 1)
  PROVE  WholeOf(structures, D, made, more \o Tail(items), fields)
<1>1. Head(items) \in Entries /\ Tail(items) \in Seq(Entries)
  BY HeadTailProperties
<1>2. Rest(structures, D, items)
        = Piece(structures, D, Head(items)) \o Rest(structures, D, Tail(items))
  BY RestFirst
<1>3. Piece(structures, D, Head(items)) = Expansion(structures)[D - d][Target(structures, g)]
  BY FieldKinds DEF Piece
<1>4. Target(structures, g) = DefinitionIn(structures, g)
  BY DEF Target, DefinitionIn, GroupSound
<1>5. Target(structures, g) \in Seq(Fields)
  BY TargetTyped
<1>6. (D - (d + 1)) + 1 = D - d
  OBVIOUS
<1>7. Rest(structures, D, more) = Expansion(structures)[(D - (d + 1)) + 1][Target(structures, g)]
  <2>1. PICK e : e = d + 1
    OBVIOUS
  <2>2. Rest(structures, D, Items(Target(structures, g), e))
          = Expansion(structures)[(D - e) + 1][Target(structures, g)]
    BY <1>5, <2>1, FieldsRest
  <2> QED BY <1>4, <2>1, <2>2
<1>8. Rest(structures, D, more \o Tail(items))
        = Rest(structures, D, more) \o Rest(structures, D, Tail(items))
  BY <1>1, RestConcat
<1> QED BY <1>2, <1>3, <1>6, <1>7, <1>8 DEF WholeOf

\* A step that keeps what is set keeps its expansion.
LEMMA ExpandedKept ==
  ASSUME NEW D, ExpandedSoFar(D), UNCHANGED <<scheme, parsed>>,
         pc' = "compile" =>
           WholeOf(scheme.structures, D, nodes', todo', scheme.protocols[at'].fields)
  PROVE  ExpandedSoFar(D)'
  BY DEF ExpandedSoFar, Protocol, WholeOf, FieldsOf, Rest, Pieces

LEMMA ExpansionInit == Init => ExpansionInv
<1> SUFFICES ASSUME Init, NEW D \in Nat PROVE ExpandedSoFar(D)
  BY DEF ExpansionInv
<1>1. pc = "idle" /\ \A i \in DOMAIN parsed : parsed[i].set = FALSE
  BY DEF Init, Unset
<1> QED BY <1>1 DEF ExpandedSoFar

LEMMA RuleExpands ==
  ASSUME SetupInv, SetupRule, NEW D \in Nat, D >= MaxDepth, ExpandedSoFar(D)
  PROVE  ExpandedSoFar(D)'
<1>1. Typed
  BY DEF SetupInv
<1>2. /\ pc = "rule" /\ at <= Len(scheme.protocols) /\ nodes' = <<>>
      /\ UNCHANGED <<scheme, registered, at, setups>>
      /\ RuleSetup(Protocol.rule) = "ok" =>
           /\ pc' = "compile" /\ parsed' = [parsed EXCEPT ![at].rule = TRUE]
           /\ todo' = Items(Protocol.fields, 1)
      /\ RuleSetup(Protocol.rule) # "ok" =>
           pc' = RuleSetup(Protocol.rule) /\ UNCHANGED <<parsed, todo>>
  BY DEF SetupRule
<1>3. at \in DOMAIN scheme.protocols /\ at \in DOMAIN parsed
  <2>1. Len(scheme.protocols) \in Nat /\ DOMAIN scheme.protocols = 1..Len(scheme.protocols)
    BY <1>1, ProtocolsTyped DEF Typed
  <2>2. at \in 0..(Len(scheme.protocols) + 1) /\ at > 0 /\ DOMAIN parsed = DOMAIN scheme.protocols
    BY <1>1, <1>2 DEF Typed
  <2> QED BY <1>2, <2>1, <2>2
<1>4. Protocol.rule \in Rules /\ Protocol.fields \in Seq(Fields) /\ References(scheme.structures)
  BY <1>1, <1>3, ProtocolTyped, SchemeReferences DEF Typed, Protocol
<1>5. CASE RuleSetup(Protocol.rule) # "ok"
  <2>1. pc' # "compile"
    <3>1. RuleSetup(Protocol.rule) \in {"ok", "error", "panic"}
      BY <1>4, RuleIs, RuleOutcome
    <3> QED BY <1>2, <1>5, <3>1
  <2> QED BY <1>2, <1>5, <2>1, ExpandedKept
<1>6. CASE RuleSetup(Protocol.rule) = "ok"
  <2>1. WholeOf(scheme.structures, D, <<>>, Items(Protocol.fields, 1), Protocol.fields)
    <3>1. Rest(scheme.structures, D, Items(Protocol.fields, 1))
            = Expansion(scheme.structures)[(D - 1) + 1][Protocol.fields]
      BY <1>4, FieldsRest, DepthsExist
    <3>2. (D - 1) + 1 = D
      OBVIOUS
    <3>3. PICK all : all = Rest(scheme.structures, D, Items(Protocol.fields, 1))
      OBVIOUS
    <3>4. all \in Seq(Fields)
      <4>1. Protocol.fields \in Seq(Fields \cup AllGroups)
        BY <1>4
      <4>2. Items(Protocol.fields, 1) \in Seq(Entries)
        BY <4>1, ItemsListed, DepthsExist
      <4> QED BY <1>4, <3>3, <4>2, RestTyped
    <3>5. FieldsOf(<<>>) = <<>>
      BY DEF FieldsOf
    <3>6. <<>> \o all = all
      BY <3>4, ConcatEmptySeq
    <3> QED BY <3>1, <3>2, <3>3, <3>5, <3>6 DEF WholeOf
  <2>2. ASSUME NEW i \in DOMAIN parsed'
        PROVE  /\ i \in DOMAIN parsed /\ parsed'[i].set = parsed[i].set
               /\ parsed'[i].nodes = parsed[i].nodes
    <3>1. /\ DOMAIN parsed' = DOMAIN parsed
          /\ \A k \in DOMAIN parsed : k # at => parsed'[k] = parsed[k]
          /\ parsed'[at] = [parsed[at] EXCEPT !.rule = TRUE]
      BY <1>2, <1>3, <1>6
    <3>2. parsed'[at] = [rule |-> TRUE, set |-> parsed[at].set, nodes |-> parsed[at].nodes,
                         round |-> parsed[at].round]
      BY <1>1, <1>3, <3>1 DEF Typed
    <3>3. parsed'[at].set = parsed[at].set /\ parsed'[at].nodes = parsed[at].nodes
      BY <3>2
    <3> QED BY <3>1, <3>3
  <2>3. ASSUME NEW i \in DOMAIN parsed', parsed'[i].set
        PROVE  FieldsOf(parsed'[i].nodes)
                 = Expansion(scheme.structures)[D][scheme.protocols[i].fields]
    BY <2>2, <2>3 DEF ExpandedSoFar
  <2> QED BY <1>2, <1>6, <2>1, <2>3 DEF ExpandedSoFar, Protocol, WholeOf, FieldsOf, Rest, Pieces
<1> QED BY <1>5, <1>6

\* A step of the compilation of one protocol: the list goes on or Setup stops.
LEMMA OutcomeExpands ==
  ASSUME pc = "compile", UNCHANGED <<scheme, registered, at, parsed, setups>>,
         NEW D, ExpandedSoFar(D), NEW is \in {"ok", "error", "panic"}, NEW items, NEW compiled,
         Outcome(is, items, compiled),
         is = "ok" =>
           WholeOf(scheme.structures, D, nodes \o compiled, items \o Tail(todo), Protocol.fields)
  PROVE  ExpandedSoFar(D)'
<1>1. pc' = "compile" =>
        WholeOf(scheme.structures, D, nodes', todo', scheme.protocols[at'].fields)
  BY DEF Outcome, Protocol
<1> QED BY <1>1, ExpandedKept

LEMMA FieldExpands ==
  ASSUME SetupInv, CompileLeaf \/ CompileComposite, NEW D \in Nat, D >= MaxDepth, ExpandedSoFar(D)
  PROVE  ExpandedSoFar(D)'
<1>1. PICK f, d : f = Head(todo).of /\ d = Head(todo).depth
  OBVIOUS
<1>2. PICK groups : groups = IF f.kind \in Composites THEN Items(Groups(f), d) ELSE <<>>
  OBVIOUS
<1>3. /\ pc = "compile" /\ todo # <<>> /\ f.kind \in Composites \cup {"bytes", "calc", "null"}
      /\ UNCHANGED <<scheme, registered, at, parsed, setups>>
  BY <1>1 DEF CompileLeaf, CompileComposite, Compiling
<1>4. /\ f \in Fields \cup AllGroups /\ d \in 1..MaxDepth
      /\ nodes \in Seq(Made) /\ scheme \in Schemes
  BY <1>1, <1>3, FirstEntry
<1>5. f \in Fields
  <2>1. f.kind # "group"
    BY <1>3 DEF Composites
  <2> QED BY <1>4, <2>1, FieldKinds
<1>6. PICK is \in {"ok", "error", "panic"} : Outcome(is, groups, <<Node(f, d)>>)
  <2>1. CASE CompileLeaf
    <3> DEFINE is == CASE f.kind = "null" -> "panic"
                       [] f.kind = "bytes" -> BytesCompile(f)
                       [] f.kind = "calc" -> CalcCompile(f)
    <3>1. Outcome(is, <<>>, <<Node(f, d)>>) /\ f.kind \in {"bytes", "calc", "null"}
      BY <1>1, <2>1 DEF CompileLeaf, Compiling
    <3>2. is \in {"ok", "error", "panic"}
      BY <1>5, <3>1, FieldOutcomes
    <3>3. groups = <<>>
      BY <1>2, <3>1 DEF Composites
    <3> HIDE DEF is
    <3> QED BY <3>1, <3>2, <3>3
  <2>2. CASE CompileComposite
    <3>1. Outcome(CompositeCompile(f), groups, <<Node(f, d)>>) /\ f.kind \in Composites
      BY <1>1, <1>2, <2>2 DEF CompileComposite, Compiling
    <3>2. CompositeCompile(f) \in {"ok", "error", "panic"}
      BY <1>5, <3>1, FieldOutcomes
    <3> QED BY <3>1, <3>2
  <2> QED BY <2>1, <2>2
<1>7. groups \in Seq(Entries)
  <2>1. f.kind \in Composites => Groups(f) \in Seq(Fields \cup AllGroups)
    <3> SUFFICES ASSUME f.kind \in Composites PROVE Groups(f) \in Seq(Fields \cup AllGroups)
      OBVIOUS
    <3>1. Groups(f) \in Seq(AllGroups)
      BY <1>5, GroupsTyped
    <3> QED BY <3>1
  <2>2. <<>> \in Seq(Entries)
    BY EmptySeq
  <2> QED BY <1>2, <1>4, <2>1, <2>2, ItemsListed
<1>8. WholeOf(scheme.structures, D, nodes, todo, Protocol.fields)
  BY <1>3 DEF ExpandedSoFar
<1>9. References(scheme.structures) /\ todo \in Seq(Entries)
  BY <1>4, SchemeReferences DEF SetupInv, Typed
<1>10. WholeOf(scheme.structures, D, nodes \o <<Node(f, d)>>, groups \o Tail(todo), Protocol.fields)
  BY <1>1, <1>2, <1>3, <1>4, <1>5, <1>7, <1>8, <1>9, FieldMoves
<1> QED BY <1>3, <1>6, <1>10, OutcomeExpands

LEMMA GroupExpands ==
  ASSUME SetupInv, NodeCompileWithRef, NEW D \in Nat, D >= MaxDepth, ExpandedSoFar(D)
  PROVE  ExpandedSoFar(D)'
<1>1. PICK g, d : g = Head(todo).of /\ d = Head(todo).depth
  OBVIOUS
<1>2. PICK items : items = IF Resolved(g) = "ok" THEN Items(Definition(g), d + 1) ELSE <<>>
  OBVIOUS
<1>3. /\ pc = "compile" /\ todo # <<>> /\ g.kind = "group"
      /\ IF d >= MaxDepth THEN pc' = "overflow" /\ UNCHANGED <<todo, nodes>>
                          ELSE Outcome(Resolved(g), items, <<>>)
      /\ UNCHANGED <<scheme, registered, at, parsed, setups>>
  BY <1>1, <1>2 DEF NodeCompileWithRef, Compiling
<1>4. /\ g \in Fields \cup AllGroups /\ d \in 1..MaxDepth
      /\ nodes \in Seq(Made) /\ scheme \in Schemes
  BY <1>1, <1>3, FirstEntry
<1>5. g \in AllGroups
  BY <1>3, <1>4, FieldKinds
<1>6. /\ Definition(g) = DefinitionIn(scheme.structures, g)
      /\ Resolved(g) \in {"ok", "error"}
      /\ Resolved(g) = "ok" <=> GroupSound(scheme.structures, g)
  BY GroupIs
<1>7. CASE d >= MaxDepth
  BY <1>3, <1>7, ExpandedKept
<1>8. CASE ~(d >= MaxDepth)
  <2>1. WholeOf(scheme.structures, D, nodes, todo, Protocol.fields)
    BY <1>3 DEF ExpandedSoFar
  <2>2. References(scheme.structures) /\ todo \in Seq(Entries)
    BY <1>4, SchemeReferences DEF SetupInv, Typed
  <2>3. ASSUME Resolved(g) = "ok"
        PROVE  WholeOf(scheme.structures, D, nodes \o <<>>, items \o Tail(todo), Protocol.fields)
    <3>1. GroupSound(scheme.structures, g)
      BY <1>6, <2>3
    <3>2. items = Items(DefinitionIn(scheme.structures, g), d + 1)
      BY <1>2, <1>6, <2>3
    <3>3. d + 1 \in 1..MaxDepth
      BY <1>4, <1>8, BoundsAssumption
    <3>4. items \in Seq(Entries)
      <4>1. DefinitionIn(scheme.structures, g) \in Seq(Fields)
        BY <1>4, <1>5, <3>1, BodyIs
      <4>2. DefinitionIn(scheme.structures, g) \in Seq(Fields \cup AllGroups)
        BY <4>1
      <4> QED BY <3>2, <3>3, <4>2, ItemsListed
    <3>5. WholeOf(scheme.structures, D, nodes, items \o Tail(todo), Protocol.fields)
      BY <1>1, <1>3, <1>4, <1>5, <2>1, <2>2, <3>1, <3>2, <3>3, <3>4, GroupMoves
    <3>6. nodes \o <<>> = nodes
      BY <1>4, ConcatEmptySeq
    <3> QED BY <3>5, <3>6
  <2> QED BY <1>3, <1>6, <1>8, <2>3, OutcomeExpands
<1> QED BY <1>7, <1>8

LEMMA EndExpands ==
  ASSUME SetupInv, ProtocolEnds, NEW D \in Nat, D >= MaxDepth, ExpandedSoFar(D)
  PROVE  ExpandedSoFar(D)'
<1>1. /\ pc = "compile" /\ todo = <<>> /\ pc' = "rule"
      /\ UNCHANGED <<scheme, registered, todo, nodes, setups>>
      /\ DOMAIN parsed' = DOMAIN parsed
      /\ \A i \in DOMAIN parsed : i # at => parsed'[i] = parsed[i]
  BY DEF ProtocolEnds
<1>2. /\ at \in DOMAIN parsed /\ nodes \in Seq(Made) /\ scheme \in Schemes
      /\ parsed[at].set \in BOOLEAN
      /\ parsed[at] = [rule |-> parsed[at].rule, set |-> parsed[at].set,
                       nodes |-> parsed[at].nodes, round |-> parsed[at].round]
  BY <1>1 DEF SetupInv, Typed
<1>3. parsed'[at].nodes = nodes
  <2>1. PICK round : parsed' = [parsed EXCEPT ![at].set = TRUE, ![at].nodes = nodes,
                                              ![at].round = round]
    BY DEF ProtocolEnds
  <2>2. PICK was, is : was = parsed[at] /\ is = parsed'[at]
    OBVIOUS
  <2>3. PICK rule, set, made, last :
          was = [rule |-> rule, set |-> set, nodes |-> made, round |-> last]
    BY <1>2, <2>2, Zenon
  <2>4. is = [was EXCEPT !.set = TRUE, !.nodes = nodes, !.round = round]
    <3>1. parsed'[at] = [parsed[at] EXCEPT !.set = TRUE, !.nodes = nodes, !.round = round]
      BY <1>2, <2>1
    <3> QED BY <2>2, <3>1, Zenon
  <2>5. is = [rule |-> rule, set |-> TRUE, nodes |-> nodes, round |-> round]
    BY <2>3, <2>4, ProtocolSet, Zenon
  <2> QED BY <2>2, <2>5
<1>4. FieldsOf(nodes) = Expansion(scheme.structures)[D][Protocol.fields]
  <2>1. WholeOf(scheme.structures, D, nodes, <<>>, Protocol.fields)
    BY <1>1 DEF ExpandedSoFar
  <2>2. Rest(scheme.structures, D, <<>>) = <<>>
    <3>1. Pieces(scheme.structures, D, <<>>) = <<>>
      BY DEF Pieces
    <3> QED BY <3>1, FlattenEmpty DEF Rest
  <2>3. FieldsOf(nodes) \o <<>> = FieldsOf(nodes)
    BY <1>2, FieldsOfTyped, ConcatEmptySeq
  <2> QED BY <2>1, <2>2, <2>3 DEF WholeOf
<1>5. ASSUME NEW i \in DOMAIN parsed', parsed'[i].set
      PROVE  FieldsOf(parsed'[i].nodes)
               = Expansion(scheme.structures)[D][scheme.protocols[i].fields]
  <2>1. CASE i = at
    BY <1>3, <1>4, <2>1 DEF Protocol
  <2>2. CASE i # at
    <3>1. parsed'[i] = parsed[i] /\ i \in DOMAIN parsed
      BY <1>1, <2>2
    <3> QED BY <1>5, <3>1 DEF ExpandedSoFar
  <2> QED BY <2>1, <2>2
<1> QED BY <1>1, <1>5 DEF ExpandedSoFar, FieldsOf

LEMMA ExpansionStep ==
  ASSUME SetupInv, ExpansionInv, [Next]_vars
  PROVE  ExpansionInv'
<1> SUFFICES ASSUME NEW D \in Nat, D >= MaxDepth PROVE ExpandedSoFar(D)'
  BY DEF ExpansionInv
<1>1. ExpandedSoFar(D)
  BY DEF ExpansionInv
<1>2. CASE Register \/ StartSetup \/ SetupEnds
  BY <1>1, <1>2, ExpandedKept DEF Register, StartSetup, SetupEnds
<1>3. CASE SetupRule
  BY <1>1, <1>3, RuleExpands
<1>4. CASE CompileLeaf \/ CompileComposite
  BY <1>1, <1>4, FieldExpands
<1>5. CASE NodeCompileWithRef
  BY <1>1, <1>5, GroupExpands
<1>6. CASE ProtocolEnds
  BY <1>1, <1>6, EndExpands
<1>7. CASE UNCHANGED vars
  <2>1. UNCHANGED <<scheme, pc, at, todo, nodes, parsed>>
    BY <1>7 DEF vars
  <2>2. pc' = "compile" =>
          WholeOf(scheme.structures, D, nodes', todo', scheme.protocols[at'].fields)
    BY <1>1, <2>1 DEF ExpandedSoFar, Protocol
  <2> QED BY <1>1, <2>1, <2>2, ExpandedKept
<1> QED BY <1>2, <1>3, <1>4, <1>5, <1>6, <1>7 DEF Next

\* The nodes of a protocol are those of its whole definition in the order of the YAML,
\* and there are no more of them however deep one looks (node.go:133-171).
THEOREM NodesAreTheDefinition == Spec => []NodesAreExpansion
<1>1. Init => ExpansionInv
  BY ExpansionInit
<1>2. SetupInv /\ ExpansionInv /\ [Next]_vars => ExpansionInv'
  BY ExpansionStep
<1>3. ExpansionInv => NodesAreExpansion
  <2> SUFFICES ASSUME ExpansionInv, NEW d \in {MaxDepth, MaxDepth + 1} PROVE
                 \A i \in DOMAIN parsed : parsed[i].set =>
                   [j \in DOMAIN parsed[i].nodes |-> parsed[i].nodes[j].field]
                     = Expansion(scheme.structures)[d][scheme.protocols[i].fields]
    BY DEF NodesAreExpansion
  <2>1. d \in Nat /\ d >= MaxDepth
    BY BoundsAssumption
  <2> QED BY <2>1 DEF ExpansionInv, ExpandedSoFar, FieldsOf
<1> QED BY <1>1, <1>2, <1>3, SetupInvariant, PTL DEF Spec

=============================================================================
