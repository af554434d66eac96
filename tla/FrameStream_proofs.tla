-------------------------- MODULE FrameStream_proofs --------------------------
(* The scanner of FrameStream, for any legal framing rules, any sizes of the *)
(* buffer and any stream.                                                    *)
EXTENDS FrameStream, WellFoundedInduction, SequenceTheorems, TLAPS

Data == Seq(Byte)

\* A byte is a number.
LEMMA ByteIsNat == Byte \subseteq Nat /\ 0 \in Byte
  BY DEF Byte

\* What the peer sends, and the delimiters, are bytes.
LEMMA BytesAreData == Seq(Bytes) \subseteq Data
<1> SUFFICES ASSUME NEW s \in Seq(Bytes) PROVE s \in Data
  OBVIOUS
<1> QED BY BytesAssumption, SeqMonotonic DEF Data

-----------------------------------------------------------------------------
(* What the rules return.                                                    *)

\* Min of FiniteSetsExt is a least member.
LEMMA Least ==
  ASSUME NEW S \in SUBSET Nat, S # {}
  PROVE  Min(S) \in S /\ \A n \in S : Min(S) <= n
<1>1. PICK m \in S : \A n \in S : ~(<<n, m>> \in OpToRel(<, Nat))
  BY NatLessThanWellFounded, WFMin
<1>2. \A n \in S : m <= n
  <2> SUFFICES ASSUME NEW n \in S, n < m PROVE FALSE
    OBVIOUS
  <2>1. <<n, m>> \in Nat \X Nat /\ <<n, m>>[1] < <<n, m>>[2]
    OBVIOUS
  <2>2. <<n, m>> \in OpToRel(<, Nat)
    BY <2>1, Zenon DEF OpToRel
  <2> QED BY <1>1, <2>2
<1> QED BY <1>2 DEF Min

\* The positions of a pattern are natural numbers, and the pattern ends inside the
\* data.
LEMMA FoundInside ==
  ASSUME NEW pattern \in Data, NEW data \in Data,
         Occurrences(pattern, data) # {}
  PROVE  LET i == Min(Occurrences(pattern, data))
         IN  /\ i \in Nat /\ i + Len(pattern) \in 0..Len(data)
             /\ SubSeq(data, i + 1, i + Len(pattern)) = pattern
<1>1. Len(pattern) \in Nat /\ Len(data) \in Nat
  BY LenProperties DEF Data
<1>2. Occurrences(pattern, data) \in SUBSET Nat
  BY <1>1 DEF Occurrences
<1>3. Min(Occurrences(pattern, data)) \in Occurrences(pattern, data)
  <2> DEFINE places == Occurrences(pattern, data)
  <2>1. places \in SUBSET Nat /\ places # {}
    BY <1>2
  <2> HIDE DEF places
  <2>2. Min(places) \in places
    BY <2>1, Least
  <2> QED BY <2>2 DEF places
<1> DEFINE i == Min(Occurrences(pattern, data))
<1>4. /\ i \in 0..(Len(data) - Len(pattern))
      /\ SubSeq(data, i + 1, i + Len(pattern)) = pattern
  BY <1>3, Zenon DEF Occurrences
<1> HIDE DEF i
<1>5. i \in Nat /\ i + Len(pattern) \in 0..Len(data)
  BY <1>1, <1>4
<1> QED BY <1>4, <1>5 DEF i

Kinds == {"match", "wait", "abandon", "panic"}

LEMMA IntsAreInt == Ints \subseteq Int /\ MaxInt \in Nat
BY IntAssumption DEF Ints

\* The numbers of a binary rule.
BinaryNumbers(rule) ==
  /\ rule.header \in Int /\ rule.adjust \in Int
  /\ rule.offset \in Int /\ rule.offset >= -MaxInt - 1 /\ rule.offset <= MaxInt
  /\ rule.size \in Int /\ rule.size >= -MaxInt - 1 /\ rule.size <= MaxInt

LEMMA BinaryTyped ==
  ASSUME NEW rule \in Binaries
  PROVE  BinaryNumbers(rule) /\ rule.kind = "binary"
<1>1. /\ rule.header \in Ints /\ rule.offset \in Ints /\ rule.size \in Ints
      /\ rule.adjust \in Ints /\ rule.kind = "binary"
  BY DEF Binaries
<1> QED BY <1>1, IntAssumption DEF Ints, BinaryNumbers

\* The length of a frame: a number, and the sum itself for a sound adjustment.
LEMMA TotalIsInt ==
  ASSUME NEW rule, BinaryNumbers(rule), rule.kind = "binary", NEW a \in Byte, NEW b \in Byte
  PROVE  LET total == Wrap(rule.adjust + 256 * a + b)
         IN  /\ total \in Int /\ (total < 0 => Fragile(rule))
             /\ ~Fragile(rule) => total = rule.adjust + 256 * a + b
<1> DEFINE adjust == rule.adjust
           sum == adjust + 256 * a + b
           sound == adjust >= 0 /\ adjust + 65535 <= MaxInt
<1>1. adjust \in Int /\ a \in 0..255 /\ b \in 0..255
  BY DEF BinaryNumbers, Byte
<1>2. ~sound => Fragile(rule)
  BY <1>1, IntAssumption DEF Fragile
<1> HIDE DEF adjust
<1>3. sum \in Int /\ (sound => sum >= 0 /\ sum <= MaxInt)
  BY <1>1, IntAssumption
<1> HIDE DEF sum
<1>4. /\ Wrap(sum) \in Int /\ (Wrap(sum) < 0 => ~sound)
      /\ sound => Wrap(sum) = sum
  BY <1>3, IntAssumption DEF Wrap
<1>5. ~Fragile(rule) => sound
  BY <1>2
<1> HIDE DEF sound
<1> QED BY <1>2, <1>4, <1>5 DEF sum, adjust

\* A rule panics only if it is fragile, and takes no bytes unless it decides.
LEMMA TextOutcome ==
  ASSUME NEW rule \in Texts, rule.start # <<>>, NEW data \in Data, IsPrefix(rule.start, data)
  PROVE  LET out == TextSplit(rule, data)
         IN  /\ out.kind \in Kinds /\ out.advance \in Int
             /\ out.kind \in {"wait", "panic"} => out.advance = 0
             /\ out.kind = "panic" => Fragile(rule)
<1>1. /\ rule.start \in Data /\ rule.end \in Data
      /\ rule.length \in Int /\ rule.max \in Int /\ rule.contain \in BOOLEAN /\ rule.kind = "text"
  <2>1. /\ rule.start \in Seq(Bytes) /\ rule.end \in Seq(Bytes)
        /\ rule.length \in Int /\ rule.max \in Int /\ rule.contain \in BOOLEAN
        /\ rule.kind = "text"
    BY IntsAreInt DEF Texts
  <2> QED BY <2>1, BytesAreData
<1>2. /\ Len(rule.start) \in Nat \ {0} /\ Len(rule.end) \in Nat /\ Len(data) \in Nat
      /\ DOMAIN rule.end = 1..Len(rule.end)
  BY <1>1, LenProperties, EmptySeq DEF Data
<1> DEFINE out == TextSplit(rule, data)
           body == IF rule.contain THEN 0 ELSE Len(rule.start)
           found == Occurrences(rule.end, data)
<1>3. CASE rule.length > 0 /\ Len(data) < rule.length
  BY <1>1, <1>2, <1>3 DEF TextSplit, Wait, Outcome, Kinds
<1>4. CASE rule.length > 0 /\ Len(data) >= rule.length
  <2>1. out = Match(rule.length, body, rule.length)
    BY <1>1, <1>2, <1>4 DEF TextSplit
  <2>2. CASE body <= rule.length
    BY <1>1, <2>1, <2>2 DEF Match, Outcome, Kinds
  <2>3. CASE ~(body <= rule.length)
    <3>1. out = Panic
      BY <2>1, <2>3 DEF Match
    <3>2. rule.length \in 1..(Len(rule.start) - 1)
      BY <1>1, <1>2, <1>4, <2>3
    <3> QED BY <1>1, <3>1, <3>2 DEF Panic, Outcome, Kinds, Fragile
  <2> QED BY <2>2, <2>3
<1>5. CASE rule.length <= 0 /\ found # {}
  <2> DEFINE idx == Min(found)
             total == idx + Len(rule.end)
  <2>1. /\ idx \in Nat /\ total \in 0..Len(data)
        /\ SubSeq(data, idx + 1, idx + Len(rule.end)) = rule.end
    BY <1>1, <1>5, FoundInside
  <2>2. out = Match(total, body, IF rule.contain THEN total ELSE idx)
    BY <1>1, <1>2, <1>5 DEF TextSplit
  <2> HIDE DEF idx, total
  <2>3. CASE rule.contain \/ Len(rule.start) <= idx
    BY <1>1, <1>2, <2>1, <2>2, <2>3 DEF Match, Outcome, Kinds
  <2>4. CASE ~rule.contain /\ Len(rule.start) > idx
    <3>1. out = Panic
      BY <1>2, <2>1, <2>2, <2>4 DEF Match
    <3>2. \A j \in DOMAIN rule.end : idx + j <= Len(rule.start) => rule.end[j] = rule.start[idx + j]
      <4> SUFFICES ASSUME NEW j \in DOMAIN rule.end, idx + j <= Len(rule.start)
                   PROVE  rule.end[j] = rule.start[idx + j]
        OBVIOUS
      <4>1. rule.end[j] = data[idx + j]
        <5>1. idx + Len(rule.end) <= Len(data)
          BY <2>1 DEF total
        <5>2. idx + 1 \in Int /\ idx + Len(rule.end) \in Int /\ j \in Nat \ {0} /\ j <= Len(rule.end)
          BY <1>2, <2>1
        <5>3. /\ idx + 1 >= 1 /\ data \in Seq(Byte)
              /\ j \in 1..((idx + Len(rule.end)) - (idx + 1) + 1)
              /\ (idx + 1) + j - 1 = idx + j
          BY <1>2, <2>1, <5>2 DEF Data
        <5>4. \A k \in (idx + 1)..(idx + Len(rule.end)) : data[k] \in Byte
          BY <1>2, <2>1, <5>1, <5>3, ElementOfSeq
        <5>5. SubSeq(data, idx + 1, idx + Len(rule.end))[j] = data[(idx + 1) + j - 1]
          BY ONLY <5>2, <5>3, <5>4, SubSeqProperties
        <5> QED BY <2>1, <5>3, <5>5
      <4>2. rule.start[idx + j] = data[idx + j]
        BY <1>1, <1>2, <2>1, SubSeqProperties DEF IsPrefix, Data
      <4> QED BY <4>1, <4>2
    <3>3. idx \in 0..(Len(rule.start) - 1)
      BY <1>2, <2>1, <2>4
    <3>4. Overlap(rule)
      BY <1>1, <1>5, <3>2, <3>3 DEF Overlap
    <3> QED BY <1>1, <3>1, <3>4 DEF Panic, Outcome, Kinds, Fragile
  <2> QED BY <1>1, <1>2, <2>1, <2>3, <2>4
<1>6. CASE rule.length <= 0 /\ found = {}
  BY <1>1, <1>2, <1>6 DEF TextSplit, Wait, Abandon, Outcome, Kinds
<1> QED BY <1>1, <1>2, <1>3, <1>4, <1>5, <1>6

LEMMA BinaryOutcome ==
  ASSUME NEW rule \in Binaries, NEW data \in Data
  PROVE  LET out == BinarySplit(rule, data)
         IN  /\ out.kind \in Kinds /\ out.advance \in Int
             /\ out.kind \in {"wait", "panic"} => out.advance = 0
             /\ out.kind = "panic" => Fragile(rule)
<1>1. BinaryNumbers(rule) /\ rule.kind = "binary"
  BY BinaryTyped
<1>2. Len(data) \in Nat /\ \A i \in 1..Len(data) : data[i] \in Byte
  BY LenProperties, ElementOfSeq DEF Data
<1> DEFINE out == BinarySplit(rule, data)
           last == Wrap(rule.offset + rule.size)
           total == Wrap(rule.adjust + 256 * data[rule.offset + 1] + data[rule.offset + 2])
           tooShort == Len(data) < rule.header \/ Len(data) < last
           badField == rule.offset < 0 \/ last - rule.offset < 2
<1>h. last \in Int /\ rule.header \in Int
  BY <1>1, IntAssumption DEF BinaryNumbers, Wrap
<1>3. CASE tooShort
  <2>1. out = Wait
    BY <1>2, <1>3, <1>h DEF BinarySplit
  <2> QED BY <2>1 DEF Wait, Outcome, Kinds
<1>4. CASE ~tooShort /\ badField
  <2>1. Len(data) >= rule.header /\ Len(data) >= last
    BY <1>2, <1>4, <1>h
  <2>2. out = Panic
    BY <1>4, <2>1 DEF BinarySplit
  <2>3. Fragile(rule)
    <3>1. badField
      BY <1>4
    <3> QED BY <1>1, <3>1, IntAssumption DEF BinaryNumbers, Wrap, Fragile
  <2> QED BY <2>2, <2>3 DEF Panic, Outcome, Kinds
<1>5. CASE ~tooShort /\ ~badField
  <2>1. data[rule.offset + 1] \in Byte /\ data[rule.offset + 2] \in Byte
    <3> DEFINE offset == rule.offset
    <3>1. offset \in Int /\ offset >= 0 /\ last - offset >= 2 /\ last <= Len(data)
      BY <1>1, <1>2, <1>5, <1>h DEF BinaryNumbers
    <3> HIDE DEF offset, last
    <3>2. offset + 1 \in 1..Len(data) /\ offset + 2 \in 1..Len(data)
      BY <1>2, <1>h, <3>1
    <3> QED BY <1>2, <3>2 DEF offset
  <2>2. total \in Int /\ (total < 0 => Fragile(rule))
    BY <1>1, <2>1, TotalIsInt
  <2>3. out = IF Len(data) < total THEN Wait ELSE Match(total, 0, total)
    BY <1>5 DEF BinarySplit
  <2> HIDE DEF total
  <2> QED BY <1>1, <2>2, <2>3 DEF Match, Wait, Panic, Outcome, Kinds
<1> QED BY <1>3, <1>4, <1>5

\* Data that is there is always consumed, whatever the rules say, unless one of
\* them panics: Splitter never asks for more (codec.go:49-68).
LEMMA SplitterConsumes ==
  ASSUME scheme \in Schemes, NEW data \in Data, data # <<>>
  PROVE  LET out == Splitter(data)
         IN  \/ out.kind \in {"match", "abandon"} /\ out.advance \in Nat \ {0}
             \/ /\ out.kind = "panic"
                /\ \E i \in DOMAIN scheme : Fragile(scheme[i])
<1>1. /\ scheme \in Seq(Texts \cup Binaries) /\ DOMAIN scheme \in SUBSET Nat
      /\ \A i \in DOMAIN scheme : scheme[i] \in Texts \cup Binaries /\ Legal(scheme[i])
  <2>1. scheme \in Seq(Texts \cup Binaries) /\ \A i \in DOMAIN scheme : Legal(scheme[i])
    BY SchemesAssumption
  <2> QED BY <2>1, LenProperties, ElementOfSeq
<1>2. CASE Deciding(data) = {}
  BY <1>2 DEF Splitter, Abandon, Outcome
<1>3. CASE Deciding(data) # {}
  <2> DEFINE m == Min(Deciding(data))
  <2>1. m \in Deciding(data)
    BY <1>1, <1>3, Least DEF Deciding
  <2> HIDE DEF m
  <2>2. /\ m \in DOMAIN scheme /\ scheme[m].start # <<>> /\ IsPrefix(scheme[m].start, data)
        /\ RuleSplit(scheme[m], data).kind = "panic" \/ RuleSplit(scheme[m], data).advance > 0
    BY <2>1 DEF Deciding
  <2>3. /\ RuleSplit(scheme[m], data).kind \in Kinds /\ RuleSplit(scheme[m], data).advance \in Int
        /\ RuleSplit(scheme[m], data).kind \in {"wait", "panic"} => RuleSplit(scheme[m], data).advance = 0
        /\ RuleSplit(scheme[m], data).kind = "panic" => Fragile(scheme[m])
    <3>1. CASE scheme[m] \in Texts
      <4>1. scheme[m].kind = "text"
        BY <3>1 DEF Texts
      <4> QED BY <1>1, <2>2, <3>1, <4>1, TextOutcome DEF RuleSplit
    <3>2. CASE scheme[m] \in Binaries
      <4>1. scheme[m].kind = "binary"
        BY <3>2 DEF Binaries
      <4> QED BY <3>2, <4>1, BinaryOutcome DEF RuleSplit
    <3> QED BY <1>1, <2>2, <3>1, <3>2
  <2>4. Splitter(data) = RuleSplit(scheme[m], data)
    BY <1>3 DEF Splitter, m
  <2> QED BY <2>2, <2>3, <2>4 DEF Kinds
<1> QED BY <1>2, <1>3

-----------------------------------------------------------------------------
(* What the rules cut.                                                       *)

\* A part of some data.
LEMMA Slice ==
  ASSUME NEW data \in Data, NEW m \in 1..(Len(data) + 1), NEW n \in (m - 1)..Len(data)
  PROVE  /\ SubSeq(data, m, n) \in Data
         /\ Len(SubSeq(data, m, n)) = n - m + 1
         /\ \A i \in 1..(n - m + 1) : SubSeq(data, m, n)[i] = data[m + i - 1]
<1>1. Len(data) \in Nat /\ \A i \in 1..Len(data) : data[i] \in Byte
  BY LenProperties, ElementOfSeq DEF Data
<1>2. m \in Int /\ n \in Int /\ m <= n + 1 /\ \A i \in m..n : data[i] \in Byte
  <2>1. m \in Int /\ n \in Int /\ m <= n + 1 /\ \A i \in m..n : i \in 1..Len(data)
    BY <1>1
  <2> QED BY <1>1, <2>1
<1>3. /\ SubSeq(data, m, n) \in Data
      /\ Len(SubSeq(data, m, n)) = IF m <= n THEN n - m + 1 ELSE 0
      /\ \A i \in 1..(n - m + 1) : SubSeq(data, m, n)[i] = data[m + i - 1]
  BY <1>2, SubSeqProperties DEF Data
<1> QED BY <1>2, <1>3

\* Data begins with a prefix.
LEMMA PrefixPoints ==
  ASSUME NEW s \in Data, NEW t \in Data
  PROVE  IsPrefix(s, t) <=> Len(s) <= Len(t) /\ \A j \in 1..Len(s) : s[j] = t[j]
<1>1. Len(s) \in Nat /\ Len(t) \in Nat
  BY LenProperties DEF Data
<1>2. SubSeq(s, 1, Len(s)) = s
  BY SubSeqFull DEF Data
<1>3. CASE Len(s) <= Len(t)
  <2> DEFINE u == SubSeq(t, 1, Len(s))
  <2>1. u \in Data /\ Len(u) = Len(s) /\ \A j \in 1..Len(s) : u[j] = t[j]
    <3>1. /\ 1 \in 1..(Len(t) + 1) /\ Len(s) \in (1 - 1)..Len(t)
          /\ Len(s) - 1 + 1 = Len(s) /\ \A j \in 1..Len(s) : 1 + j - 1 = j
      BY <1>1, <1>3
    <3> QED BY <3>1, Slice
  <2> HIDE DEF u
  <2>2. s = u <=> \A j \in 1..Len(s) : s[j] = t[j]
    BY <2>1, SeqEqual DEF Data
  <2>3. IsPrefix(s, t) <=> s = u
    BY <1>2, <1>3 DEF IsPrefix, u
  <2> QED BY <1>3, <2>2, <2>3
<1> QED BY <1>3 DEF IsPrefix

\* Reverse keeps the type and the length.
LEMMA ReversePoints ==
  ASSUME NEW s \in Data
  PROVE  /\ Reverse(s) \in Data /\ Len(Reverse(s)) = Len(s)
         /\ \A j \in 1..Len(s) : Reverse(s)[j] = s[Len(s) - j + 1]
<1>1. Len(s) \in Nat /\ \A j \in 1..Len(s) : s[j] \in Byte
  BY LenProperties, ElementOfSeq DEF Data
<1> DEFINE r == Reverse(s)
<1>2. r \in [1..Len(s) -> Byte]
  <2>1. \A j \in 1..Len(s) : Len(s) - j + 1 \in 1..Len(s)
    BY <1>1
  <2> QED BY <1>1, <2>1 DEF Reverse
<1>3. r \in Data
  BY <1>1, <1>2, SeqDef DEF Data
<1>4. Len(r) = Len(s)
  <2>1. 1..Len(r) = 1..Len(s) /\ Len(r) \in Nat
    <3> HIDE DEF r
    <3> QED BY <1>2, <1>3, LenProperties DEF Data
  <2> QED BY <1>1, <2>1
<1> QED BY <1>3, <1>4 DEF Reverse

\* Data ends with a suffix.
LEMMA SuffixPoints ==
  ASSUME NEW s \in Data, NEW t \in Data
  PROVE  IsSuffix(s, t) <=>
           Len(s) <= Len(t) /\ \A j \in 1..Len(s) : s[j] = t[Len(t) - Len(s) + j]
<1> DEFINE rs == Reverse(s)
           rt == Reverse(t)
<1>1. Len(s) \in Nat /\ Len(t) \in Nat
  BY LenProperties DEF Data
<1>2. /\ rs \in Data /\ Len(rs) = Len(s) /\ \A j \in 1..Len(s) : rs[j] = s[Len(s) - j + 1]
      /\ rt \in Data /\ Len(rt) = Len(t) /\ \A j \in 1..Len(t) : rt[j] = t[Len(t) - j + 1]
  BY ReversePoints
<1>3. IsSuffix(s, t) <=> IsPrefix(rs, rt)
  BY DEF IsSuffix
<1> HIDE DEF rs, rt
<1>4. IsPrefix(rs, rt) <=> Len(s) <= Len(t) /\ \A j \in 1..Len(s) : rs[j] = rt[j]
  BY <1>2, PrefixPoints
<1>5. ASSUME Len(s) <= Len(t)
      PROVE  (\A j \in 1..Len(s) : rs[j] = rt[j])
               <=> \A j \in 1..Len(s) : s[j] = t[Len(t) - Len(s) + j]
  <2> DEFINE mirror(j) == Len(s) - j + 1
  <2>1. \A j \in 1..Len(s) : /\ mirror(j) \in 1..Len(s) /\ mirror(mirror(j)) = j
                             /\ j \in 1..Len(t)
                             /\ Len(t) - j + 1 = Len(t) - Len(s) + mirror(j)
    BY <1>1, <1>5
  <2>2. \A j \in 1..Len(s) : rs[j] = s[mirror(j)] /\ rt[j] = t[Len(t) - Len(s) + mirror(j)]
    BY <1>2, <2>1
  <2> HIDE DEF mirror
  <2>3. ASSUME \A j \in 1..Len(s) : rs[j] = rt[j], NEW j \in 1..Len(s)
        PROVE  s[j] = t[Len(t) - Len(s) + j]
    <3>1. mirror(j) \in 1..Len(s) /\ mirror(mirror(j)) = j
      BY <2>1
    <3>2. rs[mirror(j)] = rt[mirror(j)]
      BY <2>3, <3>1
    <3> QED BY <2>2, <3>1, <3>2
  <2>4. ASSUME \A j \in 1..Len(s) : s[j] = t[Len(t) - Len(s) + j], NEW j \in 1..Len(s)
        PROVE  rs[j] = rt[j]
    <3>1. mirror(j) \in 1..Len(s)
      BY <2>1
    <3> QED BY <2>2, <2>4, <3>1
  <2> QED BY <2>3, <2>4
<1> QED BY <1>3, <1>4, <1>5

\* The first end delimiter of data that begins with the start lies after it, unless
\* the two can overlap.
LEMMA EndAfterStart ==
  ASSUME NEW rule \in Texts, NEW data \in Data, IsPrefix(rule.start, data),
         rule.length <= 0, ~Overlap(rule), Occurrences(rule.end, data) # {}
  PROVE  Min(Occurrences(rule.end, data)) >= Len(rule.start)
<1>1. rule.start \in Data /\ rule.end \in Data /\ rule.kind = "text"
  <2>1. rule.start \in Seq(Bytes) /\ rule.end \in Seq(Bytes) /\ rule.kind = "text"
    BY DEF Texts
  <2> QED BY <2>1, BytesAreData
<1>2. /\ Len(rule.start) \in Nat /\ Len(rule.end) \in Nat /\ Len(data) \in Nat
      /\ DOMAIN rule.end = 1..Len(rule.end)
  BY <1>1, LenProperties DEF Data
<1> DEFINE idx == Min(Occurrences(rule.end, data))
<1>3. /\ idx \in Nat /\ idx + Len(rule.end) \in 0..Len(data)
      /\ SubSeq(data, idx + 1, idx + Len(rule.end)) = rule.end
  BY <1>1, FoundInside
<1> HIDE DEF idx
<1>4. ASSUME idx < Len(rule.start)
      PROVE  FALSE
  <2>1. ASSUME NEW j \in DOMAIN rule.end, idx + j <= Len(rule.start)
        PROVE  rule.end[j] = rule.start[idx + j]
    <3>1. rule.end[j] = data[idx + j]
      BY <1>2, <1>3, SubSeqProperties DEF Data
    <3>2. rule.start[idx + j] = data[idx + j]
      <4>1. idx + j \in 1..Len(rule.start)
        BY <1>2, <1>3, <2>1
      <4> QED BY <1>1, <4>1, PrefixPoints
    <3> QED BY <3>1, <3>2
  <2>2. idx \in 0..(Len(rule.start) - 1)
    BY <1>2, <1>3, <1>4
  <2> QED BY <1>1, <2>1, <2>2 DEF Overlap
<1> QED BY <1>2, <1>3, <1>4 DEF idx

\* The first end delimiter found is the first place where data, cut there, ends
\* with it.
LEMMA FirstEnd ==
  ASSUME NEW pattern \in Data, NEW data \in Data, Occurrences(pattern, data) # {}
  PROVE  LET total == Min(Occurrences(pattern, data)) + Len(pattern)
         IN  /\ IsSuffix(pattern, SubSeq(data, 1, total))
             /\ \A n \in 1..(total - 1) : ~IsSuffix(pattern, SubSeq(data, 1, n))
<1>1. Len(pattern) \in Nat /\ Len(data) \in Nat
  BY LenProperties DEF Data
<1> DEFINE idx == Min(Occurrences(pattern, data))
           total == idx + Len(pattern)
<1>2. /\ idx \in Nat /\ total \in 0..Len(data)
      /\ SubSeq(data, idx + 1, idx + Len(pattern)) = pattern
  BY FoundInside
<1>3. \A i \in Occurrences(pattern, data) : idx <= i
  <2>1. Occurrences(pattern, data) \in SUBSET Nat
    BY <1>1 DEF Occurrences
  <2> QED BY <2>1, Least
<1> HIDE DEF idx
\* A slice of data and its last bytes.
<1>4. ASSUME NEW n \in 0..Len(data)
      PROVE  /\ SubSeq(data, 1, n) \in Data /\ Len(SubSeq(data, 1, n)) = n
             /\ \A i \in 1..n : SubSeq(data, 1, n)[i] = data[i]
  <2>1. /\ 1 \in 1..(Len(data) + 1) /\ n \in (1 - 1)..Len(data) /\ n - 1 + 1 = n
        /\ \A i \in 1..n : 1 + i - 1 = i
    BY <1>1, <1>4
  <2> QED BY <2>1, Slice
<1>5. ASSUME NEW i \in 0..(Len(data) - Len(pattern))
      PROVE  /\ SubSeq(data, i + 1, i + Len(pattern)) \in Data
             /\ Len(SubSeq(data, i + 1, i + Len(pattern))) = Len(pattern)
             /\ \A j \in 1..Len(pattern) : SubSeq(data, i + 1, i + Len(pattern))[j] = data[i + j]
  <2>1. /\ i + 1 \in 1..(Len(data) + 1) /\ i + Len(pattern) \in ((i + 1) - 1)..Len(data)
        /\ (i + Len(pattern)) - (i + 1) + 1 = Len(pattern)
        /\ \A j \in 1..Len(pattern) : (i + 1) + j - 1 = i + j
    BY <1>1, <1>5
  <2> QED BY <2>1, Slice
<1>6. IsSuffix(pattern, SubSeq(data, 1, total))
  <2>1. /\ Len(pattern) <= total /\ total - Len(pattern) = idx
        /\ \A j \in 1..Len(pattern) : idx + j \in 1..total
        /\ idx \in 0..(Len(data) - Len(pattern))
    BY <1>1, <1>2
  <2>2. \A j \in 1..Len(pattern) : pattern[j] = data[idx + j]
    BY <1>2, <1>5, <2>1
  <2> HIDE DEF total
  <2>3. \A j \in 1..Len(pattern) : pattern[j] = SubSeq(data, 1, total)[total - Len(pattern) + j]
    BY <1>2, <1>4, <2>1, <2>2
  <2> DEFINE cut == SubSeq(data, 1, total)
  <2>4. /\ cut \in Data /\ Len(cut) = total
        /\ \A j \in 1..Len(pattern) : pattern[j] = cut[total - Len(pattern) + j]
    BY <1>2, <1>4, <2>3
  <2> HIDE DEF cut
  <2>5. \A j \in 1..Len(pattern) : pattern[j] = cut[Len(cut) - Len(pattern) + j]
    BY <2>4, Zenon
  <2>6. IsSuffix(pattern, cut)
    BY <2>1, <2>4, <2>5, SuffixPoints
  <2> QED BY <2>6 DEF cut
<1>7. ASSUME NEW n \in 1..(total - 1), IsSuffix(pattern, SubSeq(data, 1, n))
      PROVE  FALSE
  <2>1. n \in 0..Len(data) /\ n < total
    BY <1>1, <1>2, <1>7
  <2>2. /\ Len(pattern) <= n
        /\ \A j \in 1..Len(pattern) : pattern[j] = SubSeq(data, 1, n)[n - Len(pattern) + j]
    <3> DEFINE cut == SubSeq(data, 1, n)
    <3>1. cut \in Data /\ Len(cut) = n /\ IsSuffix(pattern, cut)
      BY <1>4, <1>7, <2>1
    <3> HIDE DEF cut
    <3>2. /\ Len(pattern) <= Len(cut)
          /\ \A j \in 1..Len(pattern) : pattern[j] = cut[Len(cut) - Len(pattern) + j]
      BY <3>1, SuffixPoints
    <3>3. /\ Len(pattern) <= n
          /\ \A j \in 1..Len(pattern) : pattern[j] = cut[n - Len(pattern) + j]
      BY <3>1, <3>2, Zenon
    <3> QED BY <3>3 DEF cut
  <2> DEFINE i == n - Len(pattern)
  <2>3. /\ i \in 0..(Len(data) - Len(pattern)) /\ i < idx /\ i \in Int
        /\ \A j \in 1..Len(pattern) : i + j \in 1..n
    <3>1. /\ idx \in Nat /\ idx + Len(pattern) <= Len(data) /\ n \in Nat
          /\ n < idx + Len(pattern) /\ Len(pattern) <= n
      BY <1>1, <1>2, <2>1, <2>2
    <3> QED BY ONLY <1>1, <3>1
  <2>4. \A j \in 1..Len(pattern) : pattern[j] = data[i + j]
    BY <1>4, <2>1, <2>2, <2>3
  <2> HIDE DEF i
  <2>5. SubSeq(data, i + 1, i + Len(pattern)) = pattern
    BY <1>5, <2>3, <2>4, SeqEqual DEF Data
  <2>6. i \in Occurrences(pattern, data)
    BY <2>3, <2>5 DEF Occurrences
  <2> QED BY <1>2, <1>3, <2>3, <2>6
<1> QED BY <1>6, <1>7 DEF idx

\* The front of data.
LEMMA FrontPoints ==
  ASSUME NEW data \in Data, NEW n \in 0..Len(data)
  PROVE  /\ SubSeq(data, 1, n) \in Data /\ Len(SubSeq(data, 1, n)) = n
         /\ \A i \in 1..n : SubSeq(data, 1, n)[i] = data[i]
<1>1. Len(data) \in Nat
  BY LenProperties DEF Data
<1>2. /\ 1 \in 1..(Len(data) + 1) /\ n \in (1 - 1)..Len(data) /\ n - 1 + 1 = n
      /\ \A i \in 1..n : 1 + i - 1 = i
  BY <1>1
<1>3. /\ SubSeq(data, 1, n) \in Data /\ Len(SubSeq(data, 1, n)) = n - 1 + 1
      /\ \A i \in 1..(n - 1 + 1) : SubSeq(data, 1, n)[i] = data[1 + i - 1]
  BY <1>2, Slice
<1> QED BY <1>2, <1>3

\* The front of data is what is before a point of it and what is after.
LEMMA FrontSplits ==
  ASSUME NEW data \in Data, NEW n \in 0..Len(data), NEW k \in 0..n
  PROVE  SubSeq(data, 1, n) = SubSeq(data, 1, k) \o SubSeq(data, k + 1, n)
<1>1. Len(data) \in Nat
  BY LenProperties DEF Data
<1>2. 1 \in 1..(Len(data) + 1) /\ k \in (1 - 1)..Len(data) /\ n \in k..Len(data)
  BY <1>1
<1> QED BY <1>2, ConcatAdjacentSubSeq DEF Data

\* A prefix is the front of what it begins.
LEMMA PrefixIsFront ==
  ASSUME NEW s \in Data, NEW data \in Data, IsPrefix(s, data)
  PROVE  /\ Len(s) \in 0..Len(data) /\ s = SubSeq(data, 1, Len(s))
         /\ \A n \in Len(s)..Len(data) : IsPrefix(s, SubSeq(data, 1, n))
<1>1. Len(s) \in Nat /\ Len(data) \in Nat /\ Len(s) <= Len(data)
  BY LenProperties DEF Data, IsPrefix
<1>2. \A j \in 1..Len(s) : s[j] = data[j]
  BY PrefixPoints
<1>3. s = SubSeq(data, 1, Len(s))
  BY SubSeqFull DEF IsPrefix, Data
<1>4. ASSUME NEW n \in Len(s)..Len(data)
      PROVE  IsPrefix(s, SubSeq(data, 1, n))
  <2>1. n \in 0..Len(data) /\ Len(s) <= n /\ \A j \in 1..Len(s) : j \in 1..n
    BY <1>1
  <2>2. /\ SubSeq(data, 1, n) \in Data /\ Len(SubSeq(data, 1, n)) = n
        /\ \A i \in 1..n : SubSeq(data, 1, n)[i] = data[i]
    BY <2>1, FrontPoints
  <2>3. \A j \in 1..Len(s) : s[j] = SubSeq(data, 1, n)[j]
    BY <1>2, <2>1, <2>2
  <2> QED BY <2>1, <2>2, <2>3, PrefixPoints
<1> QED BY <1>1, <1>3, <1>4

\* What a rule that matches cuts off the front of data.
Cuts(rule, data, out) ==
  /\ out.advance \in 0..Len(data)
  /\ FrameOf(rule, data, out.advance, SubSeq(data, out.from + 1, out.to))

LEMMA TextCut ==
  ASSUME NEW rule \in Texts, Legal(rule), ~Fragile(rule), NEW data \in Data,
         IsPrefix(rule.start, data), TextSplit(rule, data).kind = "match"
  PROVE  Cuts(rule, data, TextSplit(rule, data))
<1>1. /\ rule.start \in Data /\ rule.end \in Data
      /\ rule.length \in Int /\ rule.contain \in BOOLEAN /\ rule.kind = "text"
  <2>1. /\ rule.start \in Seq(Bytes) /\ rule.end \in Seq(Bytes)
        /\ rule.length \in Int /\ rule.contain \in BOOLEAN /\ rule.kind = "text"
    BY IntsAreInt DEF Texts
  <2> QED BY <2>1, BytesAreData
<1>2. Len(rule.start) \in Nat /\ Len(rule.end) \in Nat /\ Len(data) \in Nat
  BY <1>1, LenProperties DEF Data
<1>3. /\ ~Overlap(rule) /\ ~(rule.length \in 1..(Len(rule.start) - 1))
      /\ Len(rule.start) \in 0..Len(data) /\ rule.start = SubSeq(data, 1, Len(rule.start))
      /\ \A n \in Len(rule.start)..Len(data) : IsPrefix(rule.start, SubSeq(data, 1, n))
  BY <1>1, PrefixIsFront DEF Fragile
<1> DEFINE out == TextSplit(rule, data)
           s == Len(rule.start)
           body == IF rule.contain THEN 0 ELSE s
           found == Occurrences(rule.end, data)
<1>4. CASE rule.length > 0 /\ Len(data) < rule.length
  BY <1>1, <1>2, <1>4 DEF TextSplit, Wait, Outcome
<1>5. CASE rule.length > 0 /\ Len(data) >= rule.length
  <2> DEFINE n == rule.length
             frame == SubSeq(data, 1, n)
  <2>1. n \in s..Len(data) /\ n \in 0..Len(data) /\ s \in 0..n /\ body <= n
    BY <1>1, <1>2, <1>3, <1>5
  <2>2. out = [kind |-> "match", advance |-> n, from |-> body, to |-> n]
    BY <1>1, <1>2, <1>5, <2>1 DEF TextSplit, Match, Outcome
  <2>3. frame = rule.start \o SubSeq(data, s + 1, n)
    <3>1. frame = SubSeq(data, 1, s) \o SubSeq(data, s + 1, n)
      BY <2>1, FrontSplits
    <3> QED BY <1>3, <3>1
  <2> HIDE DEF out, frame
  <2>4. /\ out.advance = n /\ out.from = body /\ out.to = n
    BY <2>2
  <2>5. IsPrefix(rule.start, frame)
    BY <1>3, <2>1 DEF frame
  <2>6. CASE rule.contain
    <3>1. SubSeq(data, out.from + 1, out.to) = frame
      <4>1. out.from + 1 = 1 /\ out.to = n
        BY <2>4, <2>6
      <4> QED BY <4>1 DEF frame
    <3>2. FrameOf(rule, data, out.advance, frame)
      BY <1>1, <1>5, <2>4, <2>5, <2>6 DEF FrameOf, frame
    <3> QED BY <2>1, <2>4, <3>1, <3>2 DEF Cuts, out
  <2>7. CASE ~rule.contain
    <3> DEFINE token == SubSeq(data, s + 1, n)
    <3>1. SubSeq(data, out.from + 1, out.to) = token
      BY <2>4, <2>7
    <3>2. frame = rule.start \o token
      BY <2>3
    <3> HIDE DEF token
    <3>3. FrameOf(rule, data, out.advance, token)
      BY <1>1, <1>5, <2>4, <2>5, <2>7, <3>2 DEF FrameOf, frame
    <3> QED BY <2>1, <2>4, <3>1, <3>3 DEF Cuts, out
  <2> QED BY <2>6, <2>7
<1>6. CASE rule.length <= 0 /\ found # {}
  <2> DEFINE idx == Min(found)
             total == idx + Len(rule.end)
             frame == SubSeq(data, 1, total)
             to == IF rule.contain THEN total ELSE idx
  <2>1. /\ idx \in Nat /\ total \in 0..Len(data)
        /\ SubSeq(data, idx + 1, total) = rule.end
    BY <1>1, <1>6, FoundInside
  <2>2. idx >= s
    BY <1>3, <1>6, EndAfterStart
  <2>3. /\ IsSuffix(rule.end, frame)
        /\ \A n \in 1..(total - 1) : ~IsSuffix(rule.end, SubSeq(data, 1, n))
    BY <1>1, <1>6, FirstEnd
  <2>4. out = Match(total, body, to)
    BY <1>1, <1>2, <1>6 DEF TextSplit
  <2> HIDE DEF idx, out
  <2>5. /\ total \in s..Len(data) /\ s \in 0..idx /\ idx \in 0..total /\ idx \in 0..Len(data)
        /\ body <= to
    <3>1. \A l \in Nat : /\ idx + l \in s..Len(data) /\ s \in 0..idx
                        /\ idx \in 0..(idx + l) /\ idx \in 0..Len(data)
                        <=> idx + l <= Len(data)
      BY <1>2, <2>1, <2>2
    <3>2. total <= Len(data)
      BY <2>1
    <3>3. body <= to
      <4>1. CASE rule.contain
        BY <1>2, <2>1, <4>1
      <4>2. CASE ~rule.contain
        BY <2>2, <4>2
      <4> QED BY <4>1, <4>2
    <3> QED BY <1>2, <3>1, <3>2, <3>3
  <2> HIDE DEF total, to
  <2>6. out = [kind |-> "match", advance |-> total, from |-> body, to |-> to]
    BY <2>4, <2>5 DEF Match, Outcome
  <2>7. out.advance = total /\ out.from = body /\ out.to = to
    BY <2>6
  <2>8. IsPrefix(rule.start, frame)
    BY <1>3, <2>5
  <2>9. frame = rule.start \o SubSeq(data, s + 1, idx) \o rule.end
    <3>1. frame = SubSeq(data, 1, idx) \o SubSeq(data, idx + 1, total)
      BY <2>1, <2>5, FrontSplits
    <3>2. SubSeq(data, 1, idx) = rule.start \o SubSeq(data, s + 1, idx)
      <4>1. SubSeq(data, 1, idx) = SubSeq(data, 1, s) \o SubSeq(data, s + 1, idx)
        BY <2>5, FrontSplits
      <4> QED BY <1>3, <4>1
    <3> QED BY <2>1, <3>1, <3>2
  <2>10. CASE rule.contain
    <3>1. SubSeq(data, out.from + 1, out.to) = frame
      <4>1. out.from + 1 = 1 /\ out.to = total
        BY <2>7, <2>10 DEF to
      <4> QED BY <4>1
    <3>2. FrameOf(rule, data, out.advance, frame)
      BY <1>1, <1>6, <2>3, <2>7, <2>8, <2>10 DEF FrameOf
    <3> QED BY <2>1, <2>7, <3>1, <3>2 DEF Cuts, out
  <2>11. CASE ~rule.contain
    <3> DEFINE token == SubSeq(data, s + 1, idx)
    <3>1. SubSeq(data, out.from + 1, out.to) = token
      BY <2>7, <2>11 DEF to
    <3>2. frame = rule.start \o token \o rule.end
      BY <2>9
    <3> HIDE DEF token
    <3>3. FrameOf(rule, data, out.advance, token)
      <4>1. SubSeq(data, 1, out.advance) = frame /\ out.advance = total /\ ~(rule.length > 0)
        BY <1>1, <1>6, <2>7
      <4> HIDE DEF frame
      <4> QED BY <1>1, <1>6, <2>3, <2>8, <2>11, <3>2, <4>1 DEF FrameOf
    <3> QED BY <2>1, <2>7, <3>1, <3>3 DEF Cuts, out
  <2> QED BY <2>10, <2>11
<1>7. CASE rule.length <= 0 /\ found = {}
  BY <1>1, <1>2, <1>7 DEF TextSplit, Wait, Abandon, Outcome
<1> QED BY <1>1, <1>2, <1>4, <1>5, <1>6, <1>7

LEMMA BinaryCut ==
  ASSUME NEW rule \in Binaries, ~Fragile(rule), NEW data \in Data,
         IsPrefix(rule.start, data), BinarySplit(rule, data).kind = "match",
         BinarySplit(rule, data).advance > 0
  PROVE  /\ Cuts(rule, data, BinarySplit(rule, data))
         /\ rule.offset \in Nat /\ rule.offset + 2 <= Len(data)
<1>n. BinaryNumbers(rule) /\ rule.kind = "binary"
  BY BinaryTyped
<1>1. /\ rule.offset \in Nat /\ rule.size \in Nat \ {0, 1} /\ rule.offset + rule.size <= MaxInt
      /\ Len(data) \in Nat /\ rule.adjust \in Int /\ rule.header \in Int
  <2>1. Len(data) \in Nat
    BY LenProperties DEF Data
  <2>2. ~(rule.offset < 0 \/ rule.size < 2 \/ rule.offset + rule.size > MaxInt)
    BY <1>n DEF Fragile
  <2> QED BY <1>n, <2>1, <2>2, IntAssumption DEF BinaryNumbers
<1>w. Wrap(rule.offset + rule.size) = rule.offset + rule.size
  BY <1>1, IntAssumption DEF Wrap
<1>2. /\ ~(Len(data) < rule.header \/ Len(data) < rule.offset + rule.size)
      /\ ~(rule.offset < 0 \/ (rule.offset + rule.size) - rule.offset < 2)
  <2>1. ~(Len(data) < rule.header \/ Len(data) < Wrap(rule.offset + rule.size))
    <3> SUFFICES ASSUME Len(data) < rule.header \/ Len(data) < Wrap(rule.offset + rule.size)
                 PROVE  FALSE
      OBVIOUS
    <3>1. BinarySplit(rule, data) = Wait
      BY <1>1, <1>w DEF BinarySplit
    <3> QED BY <3>1 DEF Wait, Outcome
  <2>2. (rule.offset + rule.size) - rule.offset = rule.size /\ rule.size >= 2
    BY <1>1
  <2> QED BY <1>1, <1>w, <2>1, <2>2
<1>3. rule.offset + 2 <= Len(data)
  BY <1>1, <1>2
<1> DEFINE total == rule.adjust + 256 * data[rule.offset + 1] + data[rule.offset + 2]
           out == BinarySplit(rule, data)
<1>4. total \in Int /\ Wrap(total) = total
  <2>1. data[rule.offset + 1] \in Byte /\ data[rule.offset + 2] \in Byte
    <3>1. rule.offset + 1 \in 1..Len(data) /\ rule.offset + 2 \in 1..Len(data)
      BY <1>1, <1>3
    <3> QED BY <3>1, ElementOfSeq DEF Data
  <2> DEFINE a == data[rule.offset + 1]
             b == data[rule.offset + 2]
  <2>2. a \in Byte /\ b \in Byte
    BY <2>1
  <2> HIDE DEF a, b
  <2>3. /\ Wrap(rule.adjust + 256 * a + b) = rule.adjust + 256 * a + b
        /\ Wrap(rule.adjust + 256 * a + b) \in Int
    BY <1>n, <2>2, TotalIsInt
  <2> QED BY <2>3 DEF a, b
<1>5. out = IF Len(data) < total THEN Wait ELSE Match(total, 0, total)
  <2> DEFINE last == Wrap(rule.offset + rule.size)
             announced == Wrap(rule.adjust + 256 * data[rule.offset + 1] + data[rule.offset + 2])
  <2>1. /\ ~(Len(data) < rule.header \/ Len(data) < last)
        /\ ~(rule.offset < 0 \/ last - rule.offset < 2)
    BY <1>2, <1>w
  <2>2. out = IF Len(data) < announced THEN Wait ELSE Match(announced, 0, announced)
    BY <2>1 DEF BinarySplit
  <2>3. announced = total
    BY <1>4
  <2> QED BY <2>2, <2>3
<1>6. FrameOf(rule, data, total, SubSeq(data, 1, total))
  BY <1>n DEF FrameOf
<1> HIDE DEF total, out
<1>7. out.kind = "match" /\ out.advance > 0
  BY DEF out
<1>8. ~(Len(data) < total) /\ out = Match(total, 0, total)
  BY <1>5, <1>7 DEF Wait, Outcome
<1>9. out = [kind |-> "match", advance |-> total, from |-> 0, to |-> total]
  BY <1>4, <1>7, <1>8 DEF Match, Panic, Outcome
<1>10. /\ total \in 0..Len(data) /\ out.advance = total
       /\ SubSeq(data, out.from + 1, out.to) = SubSeq(data, 1, total)
  BY <1>1, <1>4, <1>7, <1>8, <1>9
<1> QED BY <1>1, <1>3, <1>6, <1>10 DEF Cuts, out

-----------------------------------------------------------------------------
(* The buffer.                                                               *)

\* copy() changes neither the length nor the type of a buffer.
LEMMA OverwriteKeeps ==
  ASSUME NEW b \in Data, NEW at \in Nat, NEW data \in Data
  PROVE  /\ Overwrite(b, at, data) \in Data
         /\ Len(Overwrite(b, at, data)) = Len(b)
         /\ \A i \in 1..Len(data) : at + i <= Len(b) => Overwrite(b, at, data)[at + i] = data[i]
<1>1. /\ Len(b) \in Nat /\ DOMAIN b = 1..Len(b) /\ b \in [1..Len(b) -> Byte]
      /\ Len(data) \in Nat /\ DOMAIN data = 1..Len(data) /\ data \in [1..Len(data) -> Byte]
  BY LenProperties DEF Data
<1> DEFINE new == Overwrite(b, at, data)
<1>2. new \in [1..Len(b) -> Byte]
  BY <1>1 DEF Overwrite
<1>3. \A i \in 1..Len(data) : at + i <= Len(b) => new[at + i] = data[i]
  BY <1>1 DEF Overwrite
<1> HIDE DEF new
<1>4. new \in Data
  <2>1. \A n \in Nat : [1..n -> Byte] \subseteq Data
    BY SeqDef DEF Data
  <2> QED BY <1>1, <1>2, <2>1
<1>5. Len(new) = Len(b)
  <2>1. 1..Len(new) = 1..Len(b) /\ Len(new) \in Nat
    BY <1>2, <1>4, LenProperties DEF Data
  <2> QED BY <1>1, <2>1
<1> QED BY <1>3, <1>4, <1>5 DEF new

\* A result is reported where the last one ended.
ReportsFollow == (\E S : results \in Seq(S)) /\ Reported \in Nat

\* What Splitter gets is what the peer sent after the last result.
Unread ==
  phase \in {"split", "read"} =>
    /\ end - start = Len(received) - Reported
    /\ \A i \in 1..(end - start) : buf[start + i] = received[Reported + i]

Inv == TypeOK /\ NeverBuffers /\ ReportsFollow /\ Unread

\* The data between start and end.
LEMMA PendingIsData ==
  ASSUME TypeOK
  PROVE  /\ Pending \in Data /\ Len(Pending) = end - start
         /\ \A i \in 1..(end - start) : Pending[i] = buf[start + i]
<1>1. /\ Len(buf) \in Nat /\ \A i \in 1..Len(buf) : buf[i] \in Byte
      /\ start \in Nat /\ end \in Nat /\ start <= end /\ end <= Len(buf)
  BY LenProperties, ElementOfSeq DEF TypeOK
<1>2. \A i \in (start + 1)..end : buf[i] \in Byte
  <2>1. \A i \in (start + 1)..end : i \in 1..Len(buf)
    BY <1>1
  <2> QED BY <1>1, <2>1
<1> QED BY <1>1, <1>2, SubSeqProperties DEF Pending, Data

\* Initially nothing was received.
LEMMA InvInit ==
  ASSUME Init
  PROVE  Inv
<1> USE SizesAssumption DEF Init
<1>1. /\ <<>> \in Data /\ <<>> \in Seq(Bytes) /\ Len(<<>>) = 0
      /\ <<>> \in Seq({})
  BY EmptySeq DEF Data
<1>2. TypeOK
  BY <1>1 DEF TypeOK, Data
<1>3. ReportsFollow /\ Reported = 0
  BY <1>1 DEF ReportsFollow, Reported
<1> QED BY <1>1, <1>2, <1>3 DEF Inv, NeverBuffers, Unread

\* A result takes from the front of the data what it reports.
LEMMA DeliverStep ==
  ASSUME Inv, Deliver
  PROVE  Inv'
<1> DEFINE out == Splitter(Pending)
<1>1. /\ phase = "split" /\ out.kind \in {"match", "abandon"}
      /\ UNCHANGED <<scheme, buf, end, received>>
  BY DEF Deliver
<1>2. /\ TypeOK /\ NeverBuffers /\ ReportsFollow /\ Unread
      /\ start \in Nat /\ end \in Nat /\ start <= end /\ end <= Len(buf)
  BY DEF Inv, TypeOK
<1>3. CASE out.advance > end - start
  <2>1. err' \in {"tooFar", err} /\ phase' = "returned" /\ UNCHANGED <<start, results>>
    BY <1>3 DEF Deliver
  <2>2. TypeOK' /\ NeverBuffers'
    BY <1>1, <1>2, <2>1 DEF TypeOK, NeverBuffers
  <2>3. ReportsFollow' /\ Unread'
    BY <1>2, <2>1 DEF ReportsFollow, Reported, Unread
  <2> QED BY <2>2, <2>3 DEF Inv
<1>4. CASE ~(out.advance > end - start)
  <2>1. Pending \in Data /\ Len(Pending) = end - start
    BY <1>2, PendingIsData
  <2>2. Pending # <<>>
    BY <1>1 DEF Splitter, Nothing, Outcome
  <2>3. out.advance \in 1..(end - start)
    <3>1. out.advance \in Nat \ {0}
      BY <1>1, <1>2, <2>1, <2>2, SplitterConsumes DEF TypeOK
    <3> QED BY <1>2, <1>4, <3>1
  <2> DEFINE n == out.advance
             new == [kind |-> out.kind, rule |-> Deciding(Pending),
                     at |-> Reported, advance |-> out.advance,
                     lo |-> start + out.from, hi |-> start + out.to,
                     bytes |-> SubSeq(Pending, out.from + 1, out.to)]
  <2>4. start' = start + n /\ results' = Append(results, new) /\ UNCHANGED <<err, phase>>
    BY <1>4 DEF Deliver
  <2>5. new.at = Reported /\ new.advance = n
    OBVIOUS
  <2> HIDE DEF n, new
  <2>6. (\E S : results' \in Seq(S)) /\ results' # <<>> /\ Last(results') = new
    <3>1. PICK S : results \in Seq(S)
      BY <1>2 DEF ReportsFollow
    <3>2. results \in Seq(S \cup {new})
      BY <3>1, SeqMonotonic
    <3>3. /\ results' \in Seq(S \cup {new}) /\ results' # <<>>
          /\ Len(results') = Len(results) + 1 /\ results'[Len(results) + 1] = new
      BY <2>4, <3>2, AppendProperties
    <3> QED BY <3>3 DEF Last
  <2>7. Reported' = Reported + n /\ Reported \in Nat /\ n \in 1..(end - start)
    BY <1>2, <2>3, <2>5, <2>6 DEF Reported, ReportsFollow, n
  <2>8. TypeOK' /\ NeverBuffers'
    BY <1>1, <1>2, <2>4, <2>7 DEF TypeOK, NeverBuffers
  <2>9. ReportsFollow'
    BY <1>2, <2>6, <2>7 DEF ReportsFollow
  <2>10. Unread'
    <3>1. /\ end - start = Len(received) - Reported
          /\ \A i \in 1..(end - start) : buf[start + i] = received[Reported + i]
      BY <1>1, <1>2 DEF Unread
    <3>2. Len(received) \in Nat
      BY <1>2, LenProperties DEF TypeOK
    <3>3. end' - start' = Len(received') - Reported'
      BY <1>1, <1>2, <2>4, <2>7, <3>1, <3>2
    <3>4. ASSUME NEW i \in 1..(end' - start')
          PROVE  buf'[start' + i] = received'[Reported' + i]
      <4>1. n + i \in 1..(end - start)
        BY <1>1, <1>2, <2>4, <2>7, <3>4
      <4>2. buf[start + (n + i)] = received[Reported + (n + i)]
        BY <3>1, <4>1
      <4>3. start' + i = start + (n + i) /\ Reported' + i = Reported + (n + i)
        BY <1>2, <2>4, <2>7
      <4> QED BY <1>1, <4>2, <4>3
    <3> QED BY <3>3, <3>4 DEF Unread
  <2> QED BY <2>8, <2>9, <2>10 DEF Inv
<1> QED BY <1>3, <1>4

\* Scan asks for more only when it has nothing left.
LEMMA NoTokenStep ==
  ASSUME Inv, NoToken
  PROVE  Inv'
<1>1. /\ TypeOK /\ NeverBuffers /\ ReportsFollow /\ Unread
      /\ phase = "split" /\ Splitter(Pending).kind = "none"
      /\ UNCHANGED <<scheme, buf, err, received, results>>
  BY DEF Inv, NoToken
<1>2. Pending = <<>>
  BY <1>1, PendingIsData, SplitterConsumes DEF TypeOK
<1>3. start = end
  BY <1>1, <1>2, PendingIsData, EmptySeq DEF TypeOK
<1>4. \/ phase' = "read" /\ UNCHANGED <<start, end>>
      \/ phase' = "returned" /\ start' = 0 /\ end' = 0
  BY DEF NoToken
<1>5. TypeOK' /\ NeverBuffers'
  <2>1. Len(buf) \in Nat
    BY <1>1, LenProperties DEF TypeOK
  <2> QED BY <1>1, <1>3, <1>4, <2>1 DEF TypeOK, NeverBuffers
<1>6. ReportsFollow' /\ Unread'
  BY <1>1, <1>4 DEF ReportsFollow, Reported, Unread
<1> QED BY <1>5, <1>6 DEF Inv

\* With an empty backlog the buffer is shifted to nothing or made, never grown.
LEMMA RoomIsEmpty ==
  ASSUME Inv, phase = "read"
  PROVE  /\ ~TooLong
         /\ Room.buf \in Data /\ Len(Room.buf) = StartBufSize
         /\ Room.start \in Nat /\ Room.end = Room.start /\ Room.end <= StartBufSize
<1>1. /\ TypeOK /\ start = end /\ Len(buf) \in {0, StartBufSize}
      /\ start \in Nat /\ start <= Len(buf) /\ buf \in Data
      /\ Pending \in Data /\ Len(Pending) = 0
  BY PendingIsData DEF Inv, NeverBuffers, TypeOK, Data
<1>2. StartBufSize \in Nat \ {0} /\ MaxTokenSize \in Nat /\ StartBufSize <= MaxTokenSize
  BY SizesAssumption
<1>3. /\ Shifted.buf \in Data /\ Len(Shifted.buf) = Len(buf)
      /\ Shifted.start \in Nat /\ Shifted.end = Shifted.start
      /\ Shifted.end <= Len(buf)
      /\ Shifted.end = Len(buf) => Len(buf) = 0
  <2>1. CASE MustShift
    <3>1. Shifted = [buf |-> Overwrite(buf, 0, Pending), start |-> 0, end |-> 0]
      BY <1>1, <2>1 DEF Shifted
    <3> QED BY <1>1, <3>1, OverwriteKeeps
  <2>2. CASE ~MustShift
    <3>1. Shifted = [buf |-> buf, start |-> start, end |-> end]
      BY <2>2 DEF Shifted
    <3>2. start = 0 \/ end # Len(buf)
      BY <1>1, <2>2 DEF MustShift
    <3> QED BY <1>1, <3>1, <3>2
  <2> QED BY <2>1, <2>2
<1>4. Full <=> Len(buf) = 0
  BY <1>1, <1>3 DEF Full
<1>5. ~TooLong
  BY <1>2, <1>3, <1>4 DEF TooLong
<1>6. CASE ~Full
  <2>1. Room = Shifted
    BY <1>6 DEF Room
  <2>2. Len(buf) = StartBufSize
    BY <1>1, <1>4, <1>6
  <2> QED BY <1>3, <1>5, <2>1, <2>2
<1>7. CASE Full
  <2> DEFINE blank == [i \in 1..StartBufSize |-> 0]
             data == SubSeq(Shifted.buf, Shifted.start + 1, Shifted.end)
  <2>1. Min({StartBufSize, MaxTokenSize}) = StartBufSize
    <3>1. {StartBufSize, MaxTokenSize} \in SUBSET Nat
      BY <1>2
    <3>2. /\ Min({StartBufSize, MaxTokenSize}) \in {StartBufSize, MaxTokenSize}
          /\ Min({StartBufSize, MaxTokenSize}) <= StartBufSize
      BY <3>1, Least
    <3> QED BY <1>2, <3>2
  <2>2. data = <<>> /\ Len(data) = 0 /\ data \in Data
    BY <1>3, SubSeqEmpty, EmptySeq DEF Data
  <2>3. blank \in Data /\ Len(blank) = StartBufSize
    <3>1. blank \in [1..StartBufSize -> Byte]
      BY ByteIsNat
    <3>2. blank \in Data
      BY <1>2, <3>1, SeqDef DEF Data
    <3>3. 1..Len(blank) = 1..StartBufSize /\ Len(blank) \in Nat
      BY <3>1, <3>2, LenProperties DEF Data
    <3> QED BY <1>2, <3>2, <3>3
  <2>4. Room = [buf |-> Overwrite(blank, 0, data), start |-> 0, end |-> Len(data)]
    BY <1>3, <1>4, <1>5, <1>7, <2>1 DEF Room
  <2> HIDE DEF blank, data
  <2>5. Overwrite(blank, 0, data) \in Data /\ Len(Overwrite(blank, 0, data)) = StartBufSize
    BY <2>2, <2>3, OverwriteKeeps
  <2>6. Room.buf = Overwrite(blank, 0, data) /\ Room.start = 0 /\ Room.end = 0
    BY <2>2, <2>4
  <2> QED BY <1>2, <1>5, <2>5, <2>6
<1> QED BY <1>5, <1>6, <1>7

\* A failed read changes the room only.
LEMMA ReadFailsStep ==
  ASSUME Inv, NEW e \in {"EOF", "closed"}, ReadFails(e)
  PROVE  Inv'
<1>1. /\ TypeOK /\ NeverBuffers /\ ReportsFollow /\ Unread /\ phase = "read"
      /\ UNCHANGED <<scheme, received, results>>
      /\ buf' = Room.buf /\ start' = Room.start /\ end' = Room.end
  BY DEF Inv, ReadFails
<1>2. err' = e /\ phase' = "split"
  BY <1>1, RoomIsEmpty DEF ReadFails
<1>3. /\ buf' \in Data /\ Len(buf') = StartBufSize
      /\ start' \in Nat /\ end' = start' /\ end' <= StartBufSize
  BY <1>1, RoomIsEmpty
<1>4. TypeOK' /\ NeverBuffers'
  BY <1>1, <1>2, <1>3, SizesAssumption DEF TypeOK, NeverBuffers, Data
<1>5. ReportsFollow'
  BY <1>1 DEF ReportsFollow, Reported
<1>6. Unread'
  <2>1. Len(received) = Reported /\ Len(received) \in Nat
    BY <1>1, LenProperties DEF Unread, NeverBuffers, TypeOK, ReportsFollow
  <2>2. Reported' = Reported
    BY <1>1 DEF Reported
  <2> QED BY <1>1, <1>3, <2>1, <2>2 DEF Unread
<1> QED BY <1>4, <1>5, <1>6 DEF Inv

\* What a read delivers is all there is to split.
LEMMA FillStep ==
  ASSUME Inv, NEW chunk \in Seq(Bytes), Fill(chunk)
  PROVE  Inv'
<1>1. /\ TypeOK /\ NeverBuffers /\ ReportsFollow /\ Unread /\ phase = "read"
      /\ UNCHANGED <<scheme, err, results>>
      /\ buf' = Overwrite(Room.buf, Room.end, chunk)
      /\ start' = Room.start /\ end' = Room.end + Len(chunk)
      /\ received' = received \o chunk /\ phase' = "split"
      /\ Len(chunk) <= Len(Room.buf) - Room.end
      /\ Len(received) + Len(chunk) <= MaxBytes
  BY DEF Inv, Fill
<1>2. /\ Room.buf \in Data /\ Len(Room.buf) = StartBufSize /\ StartBufSize \in Nat
      /\ Room.start \in Nat /\ Room.end = Room.start
      /\ Len(chunk) \in Nat /\ Len(received) \in Nat /\ chunk \in Data
      /\ StartBufSize <= MaxTokenSize
  BY <1>1, RoomIsEmpty, BytesAreData, LenProperties, SizesAssumption DEF TypeOK
<1>3. /\ buf' \in Data /\ Len(buf') = StartBufSize
      /\ \A i \in 1..Len(chunk) : buf'[start' + i] = chunk[i]
  <2> DEFINE b == Room.buf
             at == Room.end
  <2>1. b \in Data /\ at \in Nat /\ chunk \in Data /\ buf' = Overwrite(b, at, chunk)
        /\ Len(b) = StartBufSize /\ at + Len(chunk) <= Len(b) /\ start' = at
    BY <1>1, <1>2
  <2> HIDE DEF b, at
  <2>2. \A i \in 1..Len(chunk) : at + i <= Len(b)
    BY <1>2, <2>1
  <2> QED BY <2>1, <2>2, OverwriteKeeps
<1>4. /\ received' \in Seq(Bytes) /\ Len(received') = Len(received) + Len(chunk)
      /\ \A i \in 1..Len(chunk) : received'[Len(received) + i] = chunk[i]
  BY <1>1, <1>2, ConcatProperties DEF TypeOK
<1>5. TypeOK' /\ NeverBuffers'
  BY <1>1, <1>2, <1>3, <1>4 DEF TypeOK, NeverBuffers, Data
<1>6. ReportsFollow'
  BY <1>1 DEF ReportsFollow, Reported
<1>7. Unread'
  <2>1. Len(received) = Reported /\ Reported' = Reported
    BY <1>1, <1>2 DEF Unread, NeverBuffers, TypeOK, ReportsFollow, Reported
  <2>2. end' - start' = Len(chunk) /\ Len(received') - Reported' = Len(chunk)
    BY <1>1, <1>2, <1>4, <2>1
  <2> QED BY <1>3, <1>4, <2>1, <2>2 DEF Unread
<1> QED BY <1>5, <1>6, <1>7 DEF Inv

\* What one read delivers.
LEMMA ChunksAreBytes == Chunks \subseteq Seq(Bytes)
<1> SUFFICES ASSUME NEW chunk \in Chunks PROVE chunk \in Seq(Bytes)
  OBVIOUS
<1>1. PICK n \in 1..Min({StartBufSize, MaxBytes}) : chunk \in [1..n -> Bytes]
  BY DEF Chunks
<1>2. n \in Nat
  OBVIOUS
<1> QED BY <1>1, <1>2, SeqDef

LEMMA InvStep ==
  ASSUME Inv, [Next]_vars
  PROVE  Inv'
<1>1. CASE SplitPanics
  BY <1>1 DEF SplitPanics, Inv, TypeOK, NeverBuffers, ReportsFollow, Reported, Unread
<1>2. ASSUME NEW chunk \in Chunks, Fill(chunk) PROVE Inv'
  <2>1. chunk \in Seq(Bytes)
    BY ChunksAreBytes
  <2> QED BY <1>2, <2>1, FillStep
<1>3. CASE UNCHANGED vars
  BY <1>3 DEF vars, Inv, TypeOK, NeverBuffers, ReportsFollow, Reported, Unread, Pending
<1> QED BY <1>1, <1>2, <1>3, DeliverStep, NoTokenStep, ReadFailsStep DEF Next, ScanStep

\* Positions, bytes and the backlog.
THEOREM ScannerInvariant == Spec => []Inv
  BY InvInit, InvStep, PTL DEF Spec

\* Positions stay inside the buffer and the buffer inside MaxScanTokenSize
\* (scanner.go:152-216).
THEOREM ScannerTypes == Spec => []TypeOK
<1>1. Inv => TypeOK
  BY DEF Inv
<1> QED BY <1>1, ScannerInvariant, PTL

\* Under any framing rules the scanner reads with an empty backlog: a frame that
\* arrives in two reads is never put together.
THEOREM NothingKept == Spec => []NeverBuffers
<1>1. Inv => NeverBuffers
  BY DEF Inv
<1> QED BY <1>1, ScannerInvariant, PTL

\* What Splitter gets is the stream from the last result on.
LEMMA UnreadIsPending ==
  ASSUME Inv, phase \in {"split", "read"}
  PROVE  Pending = SubSeq(received, Reported + 1, Len(received))
<1> DEFINE rest == SubSeq(received, Reported + 1, Len(received))
<1>1. /\ Pending \in Data /\ Len(Pending) = end - start
      /\ \A i \in 1..(end - start) : Pending[i] = buf[start + i]
  BY PendingIsData DEF Inv
<1>2. /\ end - start = Len(received) - Reported /\ end - start \in Nat
      /\ \A i \in 1..(end - start) : buf[start + i] = received[Reported + i]
      /\ Reported \in Nat /\ Len(received) \in Nat /\ received \in Data
      /\ \A i \in 1..Len(received) : received[i] \in Byte
  BY BytesAreData, LenProperties, ElementOfSeq DEF Inv, Unread, TypeOK, ReportsFollow, Data
<1>3. \A i \in (Reported + 1)..Len(received) : received[i] \in Byte
  BY <1>2
<1>4. /\ rest \in Data
      /\ Len(rest) = Len(received) - Reported
      /\ \A i \in 1..(Len(received) - Reported) : rest[i] = received[Reported + i]
  <2> DEFINE m == Reported + 1
             n == Len(received)
  <2>1. m \in Int /\ n \in Int /\ \A i \in m..n : received[i] \in Byte
    BY <1>2, <1>3
  <2>2. /\ SubSeq(received, m, n) \in Data
        /\ Len(SubSeq(received, m, n)) = IF m <= n THEN n - m + 1 ELSE 0
        /\ \A i \in 1..(n - m + 1) : SubSeq(received, m, n)[i] = received[m + i - 1]
    BY <2>1, SubSeqProperties DEF Data
  <2>3. \A i \in 1..(n - Reported) : i \in 1..(n - m + 1) /\ m + i - 1 = Reported + i
    BY <1>2
  <2>4. rest = SubSeq(received, m, n)
    OBVIOUS
  <2>5. m = Reported + 1 /\ n = Len(received) /\ n - Reported \in Nat
    BY <1>2
  <2> HIDE DEF m, n, rest
  <2>6. Len(rest) = n - Reported
    BY <1>2, <2>2, <2>4, <2>5
  <2>7. \A i \in 1..(n - Reported) : rest[i] = received[Reported + i]
    <3> SUFFICES ASSUME NEW i \in 1..(n - Reported)
                 PROVE  rest[i] = received[Reported + i]
      OBVIOUS
    <3>1. i \in 1..(n - m + 1) /\ m + i - 1 = Reported + i
      BY <2>3
    <3>2. rest[i] = received[m + i - 1]
      BY <2>2, <2>4, <3>1
    <3> QED BY <3>1, <3>2
  <2> QED BY <2>2, <2>4, <2>5, <2>6, <2>7
<1> HIDE DEF rest
<1>5. Len(rest) = Len(Pending)
  BY <1>1, <1>2, <1>4
<1>6. \A i \in 1..Len(Pending) : Pending[i] = rest[i]
  BY <1>1, <1>2, <1>4
<1>7. Pending = rest
  BY <1>1, <1>4, <1>5, <1>6, SeqEqual DEF Data
<1> QED BY <1>7 DEF rest

\* No byte is lost, repeated or reordered between the socket and Splitter.
THEOREM NothingSkipped == Spec => []PendingIsUnread
<1>1. Inv => PendingIsUnread
  BY UnreadIsPending DEF PendingIsUnread
<1> QED BY <1>1, ScannerInvariant, PTL

\* Of all that Setup accepts, negative numbers and empty literals included, only
\* these rules can make Split panic: an end delimiter that is empty or overlaps the
\* start where no positive length replaces it, a length inside the start, a length
\* field of less than two bytes or at a negative offset, a negative adjustment, or
\* numbers whose sum wraps (text.go:23-33, 64, 79, binary.go:21-56).
THEOREM SoundRulesDoNotPanic == Spec => []PanicsNeedFragileRule
<1>1. Init => PanicsNeedFragileRule
  BY DEF Init, PanicsNeedFragileRule
<1>2. ASSUME Inv, PanicsNeedFragileRule, [Next]_vars
      PROVE  PanicsNeedFragileRule'
  <2>1. CASE SplitPanics
    <3>1. /\ Pending \in Data /\ Pending # <<>> /\ scheme \in Schemes
          /\ Splitter(Pending).kind = "panic" /\ scheme' = scheme
      BY <1>2, <2>1, PendingIsData DEF Inv, TypeOK, SplitPanics, Splitter, Nothing, Outcome
    <3>2. \E i \in DOMAIN scheme : Fragile(scheme[i])
      BY <3>1, SplitterConsumes
    <3> QED BY <3>1, <3>2 DEF PanicsNeedFragileRule
  <2>2. CASE ~SplitPanics
    <3>1. scheme' = scheme /\ (phase' = "panicked" => phase = "panicked")
      BY <1>2, <2>2 DEF Next, ScanStep, Deliver, NoToken, Fill, ReadFails, vars
    <3> QED BY <1>2, <3>1 DEF PanicsNeedFragileRule
  <2> QED BY <2>1, <2>2
<1> QED BY <1>1, <1>2, ScannerInvariant, PTL DEF Spec

-----------------------------------------------------------------------------
(* The packets.                                                              *)

\* A token that Splitter takes from the front of data is cut by one of the rules.
LEMMA SplitterCut ==
  ASSUME scheme \in Schemes, NEW data \in Data,
         Splitter(data).kind = "match", Splitter(data).advance <= Len(data)
  PROVE  LET rule == scheme[Min(Deciding(data))]
             out == Splitter(data)
         IN  /\ rule \in Texts \cup Binaries /\ out.advance \in 0..Len(data)
             /\ \/ Fragile(rule)
                \/ /\ Cuts(rule, data, out)
                   /\ rule.kind = "binary" => rule.offset \in Nat /\ rule.offset + 2 <= Len(data)
<1> DEFINE m == Min(Deciding(data))
           rule == scheme[m]
           out == Splitter(data)
<1>1. /\ DOMAIN scheme \in SUBSET Nat
      /\ \A i \in DOMAIN scheme : scheme[i] \in Texts \cup Binaries /\ Legal(scheme[i])
  <2>1. scheme \in Seq(Texts \cup Binaries) /\ \A i \in DOMAIN scheme : Legal(scheme[i])
    BY SchemesAssumption
  <2> QED BY <2>1, LenProperties, ElementOfSeq
<1>2. data # <<>> /\ Deciding(data) # {}
  BY DEF Splitter, Nothing, Abandon, Outcome
<1>3. out = RuleSplit(rule, data) /\ m \in Deciding(data)
  BY <1>1, <1>2, Least DEF Splitter, Deciding
<1> HIDE DEF m
<1>4. /\ rule \in Texts \cup Binaries /\ Legal(rule) /\ IsPrefix(rule.start, data)
      /\ RuleSplit(rule, data).kind = "panic" \/ RuleSplit(rule, data).advance > 0
  BY <1>1, <1>3 DEF Deciding
<1>5. out.kind = "match" /\ out.advance > 0 /\ out.advance <= Len(data)
  BY <1>3, <1>4
<1>6. out.advance \in 0..Len(data)
  <2>1. out.advance \in Nat
    BY <1>2, <1>5, SplitterConsumes
  <2> QED BY <1>5, <2>1, LenProperties DEF Data
<1> HIDE DEF out
<1>7. CASE Fragile(rule)
  BY <1>4, <1>6, <1>7 DEF m, out
<1>8. CASE rule \in Texts /\ ~Fragile(rule)
  <2>1. rule.kind = "text"
    BY <1>8 DEF Texts
  <2>2. out = TextSplit(rule, data)
    BY <1>3, <2>1 DEF RuleSplit
  <2>3. Cuts(rule, data, out)
    BY <1>4, <1>5, <1>8, <2>2, TextCut
  <2> QED BY <1>4, <1>6, <2>1, <2>3 DEF m, out
<1>9. CASE rule \in Binaries /\ ~Fragile(rule)
  <2>1. rule.kind = "binary"
    BY <1>9 DEF Binaries
  <2>2. out = BinarySplit(rule, data)
    BY <1>3, <2>1 DEF RuleSplit
  <2>3. Cuts(rule, data, out) /\ rule.offset \in Nat /\ rule.offset + 2 <= Len(data)
    BY <1>4, <1>5, <1>9, <2>2, BinaryCut
  <2> QED BY <1>4, <1>6, <2>3 DEF m, out
<1> QED BY <1>4, <1>7, <1>8, <1>9

\* A frame stays one when more of the stream arrives.
LEMMA FrameGrows ==
  ASSUME NEW rule \in Texts \cup Binaries, NEW data \in Data, NEW more \in Data,
         IsPrefix(data, more), NEW n \in 0..Len(data), NEW token,
         rule.kind = "binary" => rule.offset \in Nat /\ rule.offset + 2 <= Len(data),
         FrameOf(rule, data, n, token)
  PROVE  FrameOf(rule, more, n, token)
<1>1. /\ Len(data) \in Nat /\ Len(more) \in Nat /\ Len(data) <= Len(more)
      /\ \A j \in 1..Len(data) : data[j] = more[j]
  BY PrefixPoints, LenProperties DEF Data
<1>2. ASSUME NEW k \in 0..Len(data)
      PROVE  SubSeq(more, 1, k) = SubSeq(data, 1, k)
  <2>1. k \in 0..Len(more) /\ \A j \in 1..k : j \in 1..Len(data)
    BY <1>1
  <2> DEFINE a == SubSeq(more, 1, k)
             b == SubSeq(data, 1, k)
  <2>2. a \in Data /\ Len(a) = k /\ \A i \in 1..k : a[i] = more[i]
    BY <2>1, FrontPoints
  <2>3. b \in Data /\ Len(b) = k /\ \A i \in 1..k : b[i] = data[i]
    BY FrontPoints
  <2> HIDE DEF a, b
  <2>4. Len(a) = Len(b) /\ \A i \in 1..Len(a) : a[i] = b[i]
    BY <1>1, <2>1, <2>2, <2>3
  <2>5. a = b
    BY <2>2, <2>3, <2>4, SeqEqual DEF Data
  <2> QED BY <2>5 DEF a, b
<1>3. CASE rule \in Binaries
  <2>1. /\ rule.start \in Data /\ rule.offset \in Nat /\ rule.kind = "binary"
    <3>1. rule.start \in Seq(Bytes) /\ rule.kind = "binary"
      BY <1>3 DEF Binaries
    <3> QED BY <3>1, BytesAreData
  <2>2. /\ IsPrefix(rule.start, data) /\ token = SubSeq(data, 1, n)
        /\ n = rule.adjust + 256 * data[rule.offset + 1] + data[rule.offset + 2]
    BY <2>1 DEF FrameOf
  <2>3. rule.offset + 1 \in 1..Len(data) /\ rule.offset + 2 \in 1..Len(data)
    BY <1>1, <2>1
  <2>4. more[rule.offset + 1] = data[rule.offset + 1] /\ more[rule.offset + 2] = data[rule.offset + 2]
    BY <1>1, <2>3
  <2>5. IsPrefix(rule.start, more)
    <3>1. /\ Len(rule.start) \in Nat /\ Len(rule.start) <= Len(data)
          /\ \A j \in 1..Len(rule.start) : rule.start[j] = data[j]
      BY <2>1, <2>2, PrefixPoints, LenProperties DEF Data
    <3>2. /\ Len(rule.start) <= Len(more)
          /\ \A j \in 1..Len(rule.start) : rule.start[j] = more[j]
      BY <1>1, <3>1
    <3> QED BY <2>1, <3>2, PrefixPoints
  <2> QED BY <1>2, <2>1, <2>2, <2>4, <2>5 DEF FrameOf
<1>4. CASE rule \in Texts
  <2>1. rule.kind # "binary"
    BY <1>4 DEF Texts
  <2>2. SubSeq(more, 1, n) = SubSeq(data, 1, n)
    BY <1>2
  <2>3. \A k \in 1..(n - 1) : SubSeq(more, 1, k) = SubSeq(data, 1, k)
    <3>1. \A k \in 1..(n - 1) : k \in 0..Len(data)
      BY <1>1
    <3> QED BY <1>2, <3>1
  <2> QED BY <2>1, <2>2, <2>3 DEF FrameOf
<1> QED BY <1>3, <1>4

\* A result stands for bytes that arrived, and a packet for a frame among them.
CutFromStream(r) ==
  LET rule == scheme[Min(r.rule)] IN
  r.kind = "match" =>
    /\ r.at \in Nat /\ r.advance \in Nat /\ r.at + r.advance <= Len(received)
    /\ rule \in Texts \cup Binaries
    /\ \/ Fragile(rule)
       \/ /\ FrameOf(rule, From(r), r.advance, r.bytes)
          /\ rule.kind = "binary" => rule.offset \in Nat /\ r.at + (rule.offset + 2) <= Len(received)

CutInv == \A i \in DOMAIN results : CutFromStream(results[i])

\* The stream from a result on.
LEMMA FromPoints ==
  ASSUME NEW stream \in Data, NEW at \in 0..Len(stream)
  PROVE  /\ SubSeq(stream, at + 1, Len(stream)) \in Data
         /\ Len(SubSeq(stream, at + 1, Len(stream))) = Len(stream) - at
         /\ \A i \in 1..(Len(stream) - at) :
              SubSeq(stream, at + 1, Len(stream))[i] = stream[at + i]
<1>1. Len(stream) \in Nat
  BY LenProperties DEF Data
<1>2. /\ at + 1 \in 1..(Len(stream) + 1) /\ Len(stream) \in ((at + 1) - 1)..Len(stream)
      /\ Len(stream) - (at + 1) + 1 = Len(stream) - at
      /\ \A i \in 1..(Len(stream) - at) : (at + 1) + i - 1 = at + i
  BY <1>1
<1> DEFINE m == at + 1
           n == Len(stream)
           rest == SubSeq(stream, m, n)
<1>3. /\ rest \in Data /\ Len(rest) = n - m + 1
      /\ \A i \in 1..(n - m + 1) : rest[i] = stream[m + i - 1]
  <2>1. m \in 1..(Len(stream) + 1) /\ n \in (m - 1)..Len(stream)
    BY <1>2
  <2> HIDE DEF m, n
  <2> QED BY <2>1, Slice
<1>4. n - m + 1 = Len(stream) - at /\ \A i \in 1..(Len(stream) - at) : m + i - 1 = at + i
  BY <1>2
<1> HIDE DEF m, n, rest
<1>5. Len(rest) = Len(stream) - at /\ \A i \in 1..(Len(stream) - at) : rest[i] = stream[at + i]
  BY <1>3, <1>4
<1> QED BY <1>3, <1>5 DEF rest, m, n

LEMMA CutDeliver ==
  ASSUME Inv, CutInv, Deliver
  PROVE  CutInv'
<1> DEFINE out == Splitter(Pending)
<1>1. /\ phase = "split" /\ UNCHANGED <<scheme, received>> /\ TypeOK /\ ReportsFollow /\ Unread
      /\ scheme \in Schemes /\ Pending \in Data /\ Len(Pending) = end - start
  BY PendingIsData DEF Deliver, Inv, TypeOK
<1>2. CASE UNCHANGED results
  BY <1>1, <1>2 DEF CutInv, CutFromStream, From
<1>3. CASE ~UNCHANGED results
  <2> DEFINE new == [kind |-> out.kind, rule |-> Deciding(Pending),
                     at |-> Reported, advance |-> out.advance,
                     lo |-> start + out.from, hi |-> start + out.to,
                     bytes |-> SubSeq(Pending, out.from + 1, out.to)]
  <2>1. ~(out.advance > end - start) /\ results' = Append(results, new)
    BY <1>3 DEF Deliver
  <2>2. ASSUME out.kind = "match"
        PROVE  CutFromStream(new)
    <3> DEFINE rule == scheme[Min(Deciding(Pending))]
    <3>1. /\ end \in Nat /\ start \in Nat /\ end - start = Len(received) - Reported
          /\ Reported \in Nat /\ Len(received) \in Nat
      BY <1>1, LenProperties DEF TypeOK, Unread, ReportsFollow
    <3>2. /\ out.advance \in Nat /\ out.advance <= Len(Pending)
      <4>1. Pending # <<>>
        BY <2>2 DEF Splitter, Nothing, Outcome
      <4>2. out.advance \in Nat
        BY <1>1, <2>2, <4>1, SplitterConsumes
      <4> QED BY <1>1, <2>1, <3>1, <4>2
    <3>3. /\ rule \in Texts \cup Binaries
          /\ \/ Fragile(rule)
             \/ /\ Cuts(rule, Pending, out)
                /\ rule.kind = "binary" => rule.offset \in Nat /\ rule.offset + 2 <= Len(Pending)
      BY <1>1, <2>2, <3>2, SplitterCut
    <3>4. /\ new.kind = "match" /\ new.at = Reported /\ new.advance = out.advance
          /\ new.bytes = SubSeq(Pending, out.from + 1, out.to) /\ new.rule = Deciding(Pending)
      BY <2>2
    <3>5. From(new) = Pending
      BY <1>1, <3>4, UnreadIsPending DEF From, Inv
    <3> HIDE DEF out, new
    <3>6. \/ Fragile(rule)
          \/ /\ FrameOf(rule, From(new), new.advance, new.bytes)
             /\ rule.kind = "binary" => rule.offset \in Nat /\ new.at + (rule.offset + 2) <= Len(received)
      <4>1. CASE Fragile(rule)
        BY <4>1
      <4>2. CASE /\ Cuts(rule, Pending, out)
                 /\ rule.kind = "binary" => rule.offset \in Nat /\ rule.offset + 2 <= Len(Pending)
        <5>1. FrameOf(rule, From(new), new.advance, new.bytes)
          BY <3>4, <3>5, <4>2 DEF Cuts
        <5>2. ASSUME rule.kind = "binary"
              PROVE  rule.offset \in Nat /\ new.at + (rule.offset + 2) <= Len(received)
          <6>1. rule.offset \in Nat
            BY <4>2, <5>2
          <6> QED BY <1>1, <3>1, <3>4, <4>2, <5>2, <6>1
        <5> QED BY <5>1, <5>2
      <4> QED BY <3>3, <4>1, <4>2
    <3>7. new.at \in Nat /\ new.advance \in Nat /\ new.at + new.advance <= Len(received)
      BY <1>1, <3>1, <3>2, <3>4
    <3> QED BY <3>3, <3>4, <3>6, <3>7 DEF CutFromStream
  <2>3. CutFromStream(new)
    <3>1. CASE out.kind = "match"
      BY <2>2, <3>1
    <3>2. CASE out.kind # "match"
      BY <3>2 DEF CutFromStream
    <3> QED BY <3>1, <3>2
  <2> HIDE DEF new
  <2>4. \A i \in DOMAIN results' : results'[i] = new \/ (i \in DOMAIN results /\ results'[i] = results[i])
    <3>1. PICK S : results \in Seq(S)
      BY <1>1 DEF ReportsFollow
    <3>2. results \in Seq(S \cup {new})
      BY <3>1, SeqMonotonic
    <3>3. /\ results' \in Seq(S \cup {new})
          /\ Len(results') = Len(results) + 1 /\ results'[Len(results) + 1] = new
          /\ \A i \in 1..Len(results) : results'[i] = results[i]
      BY <2>1, <3>2, AppendProperties
    <3>4. /\ DOMAIN results' = 1..(Len(results) + 1) /\ DOMAIN results = 1..Len(results)
          /\ Len(results) \in Nat
      BY <3>2, <3>3, LenProperties
    <3> QED BY <3>3, <3>4
  <2> QED BY <1>1, <2>3, <2>4 DEF CutInv, CutFromStream, From
<1> QED BY <1>2, <1>3

\* More of the stream disturbs no packet.
LEMMA CutFill ==
  ASSUME Inv, CutInv, NEW chunk \in Seq(Bytes), Fill(chunk)
  PROVE  CutInv'
<1>1. /\ UNCHANGED <<scheme, results>> /\ received' = received \o chunk
      /\ received \in Data /\ chunk \in Data
  BY BytesAreData DEF Fill, Inv, TypeOK
<1>2. /\ received' \in Data /\ Len(received) \in Nat /\ Len(received') \in Nat
      /\ Len(received) <= Len(received')
      /\ \A i \in 1..Len(received) : received'[i] = received[i]
  <2>1. Len(received) \in Nat /\ Len(chunk) \in Nat
    BY <1>1, LenProperties DEF Data
  <2> QED BY <1>1, <2>1, ConcatProperties DEF Data
<1>3. SUFFICES ASSUME NEW i \in DOMAIN results, results[i].kind = "match"
               PROVE  CutFromStream(results[i])'
  BY <1>1 DEF CutInv, CutFromStream
<1> DEFINE r == results[i]
           rule == scheme[Min(r.rule)]
           old == SubSeq(received, r.at + 1, Len(received))
           more == SubSeq(received', r.at + 1, Len(received'))
<1>4. CutFromStream(r)
  BY DEF CutInv
<1>5. /\ r.at \in Nat /\ r.advance \in Nat /\ r.at + r.advance <= Len(received)
      /\ rule \in Texts \cup Binaries
  BY <1>3, <1>4 DEF CutFromStream
<1>6. /\ old \in Data /\ Len(old) = Len(received) - r.at /\ r.advance \in 0..Len(old)
      /\ more \in Data /\ Len(more) = Len(received') - r.at
      /\ \A j \in 1..Len(old) : old[j] = received[r.at + j] /\ more[j] = received'[r.at + j]
  <2>1. r.at \in 0..Len(received) /\ r.at \in 0..Len(received')
    BY <1>2, <1>5
  <2>2. /\ old \in Data /\ Len(old) = Len(received) - r.at
        /\ \A j \in 1..(Len(received) - r.at) : old[j] = received[r.at + j]
    BY <1>1, <2>1, FromPoints
  <2>3. /\ more \in Data /\ Len(more) = Len(received') - r.at
        /\ \A j \in 1..(Len(received') - r.at) : more[j] = received'[r.at + j]
    BY <1>2, <2>1, FromPoints
  <2> HIDE DEF old, more, r
  <2> QED BY <1>2, <1>5, <2>1, <2>2, <2>3
<1>7. IsPrefix(old, more)
  <2> HIDE DEF old, more, r
  <2>1. Len(old) <= Len(more) /\ \A j \in 1..Len(old) : r.at + j \in 1..Len(received)
    <3>1. \A at, l, new \in Nat : l <= new =>
            /\ l - at <= new - at
            /\ \A j \in 1..(l - at) : at + j \in 1..l
      OBVIOUS
    <3>2. Len(old) = Len(received) - r.at /\ Len(more) = Len(received') - r.at
      BY <1>6
    <3> QED BY <1>2, <1>5, <3>1, <3>2
  <2>2. \A j \in 1..Len(old) : old[j] = more[j]
    BY <1>2, <1>6, <2>1
  <2> QED BY <1>6, <2>1, <2>2, PrefixPoints
<1>8. CASE Fragile(rule)
  BY <1>1, <1>2, <1>5, <1>8 DEF CutFromStream
<1>9. CASE /\ FrameOf(rule, old, r.advance, r.bytes)
           /\ rule.kind = "binary" => rule.offset \in Nat /\ r.at + (rule.offset + 2) <= Len(received)
  <2>1. ASSUME rule.kind = "binary"
        PROVE  /\ rule.offset \in Nat /\ rule.offset + 2 <= Len(old)
               /\ r.at + (rule.offset + 2) <= Len(received')
    <3>1. rule.offset \in Nat
      BY <1>9, <2>1
    <3>2. r.at + (rule.offset + 2) <= Len(received)
      BY <1>9, <2>1
    <3> HIDE DEF old, more, r, rule
    <3>3. /\ Len(old) = Len(received) - r.at /\ r.at \in Nat
          /\ Len(received) \in Nat /\ Len(received') \in Nat /\ Len(received) <= Len(received')
      BY <1>2, <1>5, <1>6
    <3> QED BY ONLY <3>1, <3>2, <3>3
  <2>2. FrameOf(rule, more, r.advance, r.bytes)
    <3> HIDE DEF old, more, r, rule
    <3> QED BY <1>5, <1>6, <1>7, <1>9, <2>1, FrameGrows
  <2>3. r.at + r.advance <= Len(received')
    BY <1>2, <1>5
  <2> QED BY <1>1, <1>5, <2>1, <2>2, <2>3 DEF CutFromStream, From
<1> QED BY <1>3, <1>4, <1>8, <1>9 DEF CutFromStream, From

\* Every packet handed on is a frame of the rule that cut it, in the place of the
\* stream where the results before it end (text.go:47-92, binary.go:38-57,
\* codec.go:129-219), for any rules but the fragile ones and any chunking.
THEOREM TokensAreFrames == Spec => []TokenIsFrame
<1>1. Init => CutInv
  BY EmptySeq DEF Init, CutInv
<1>2. Inv /\ CutInv /\ [Next]_vars => CutInv'
  <2> SUFFICES ASSUME Inv, CutInv, [Next]_vars PROVE CutInv'
    OBVIOUS
  <2>1. CASE UNCHANGED <<scheme, received, results>>
    BY <2>1 DEF CutInv, CutFromStream, From
  <2>2. ASSUME NEW chunk \in Chunks, Fill(chunk) PROVE CutInv'
    <3>1. chunk \in Seq(Bytes)
      BY ChunksAreBytes
    <3> QED BY <2>2, <3>1, CutFill
  <2>3. CASE SplitPanics \/ NoToken \/ (\E e \in {"EOF", "closed"} : ReadFails(e)) \/ UNCHANGED vars
    BY <2>1, <2>3 DEF SplitPanics, NoToken, ReadFails, vars
  <2> QED BY <2>2, <2>3, CutDeliver DEF Next, ScanStep
<1>3. CutInv => TokenIsFrame
  BY DEF CutInv, CutFromStream, TokenIsFrame
<1> QED BY <1>1, <1>2, <1>3, ScannerInvariant, PTL DEF Spec
=============================================================================
