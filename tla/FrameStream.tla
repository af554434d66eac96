------------------------------ MODULE FrameStream ------------------------------
(* Cutting one connection's byte stream into packets: Scanner.Scan with its  *)
(* buffer (utils/scanner.go), the Splitter closure and the Codec.Scan loop   *)
(* over it (core/codec.go), and the two framing rules (framing/).  The       *)
(* reader is the socket: it returns any bytes that fit, or an error.  Buffer *)
(* positions are the code's, from 0.  Decoding a packet (Protocol.Decode) is *)
(* synchronous and only decides what the result says: it is left out.        *)
EXTENDS Integers, SequencesExt

CONSTANTS Bytes,         \* bytes a peer may send
          Schemes,       \* sequences of framing rules, one per protocol
          StartBufSize,  \* 4096 in the code
          MaxTokenSize,  \* MaxScanTokenSize: 64K in the code
          MaxInt,        \* the largest int: 2^63 - 1 in the code
          MaxBytes       \* bound: bytes ever received

ASSUME SizesAssumption ==
  MaxTokenSize \in Nat /\ StartBufSize \in 1..MaxTokenSize /\ MaxBytes \in Nat
ASSUME IntAssumption == MaxInt \in Nat /\ MaxInt > 65535
Byte == 0..255
ASSUME BytesAssumption == Bytes \subseteq Byte

\* The sum of two ints is one that wraps around.
Wrap(n) ==
  IF n > MaxInt THEN n - 2 * (MaxInt + 1)
  ELSE IF n < -MaxInt - 1 THEN n + 2 * (MaxInt + 1) ELSE n
Ints == (-MaxInt - 1)..MaxInt

\* Setup refuses zeros and empty literals only: a negative number passes, and so
\* does a literal that parses to no byte at all, such as 0x or e'1' (decoder.go).
\* A text rule has a length or a maximum, a binary one a length field and an
\* adjustment.
Texts == [kind : {"text"}, start : Seq(Bytes), end : Seq(Bytes),
          contain : BOOLEAN, length : Ints, max : Ints]
Binaries == [kind : {"binary"}, start : Seq(Bytes), header : Ints,
             offset : Ints, size : Ints \ {0}, adjust : Ints \ {0}]
Legal(rule) ==
  \/ rule \in Texts /\ (rule.length # 0 \/ rule.max # 0)
  \/ rule \in Binaries
ASSUME SchemesAssumption ==
  \A s \in Schemes : s \in Seq(Texts \cup Binaries) /\ \A i \in DOMAIN s : Legal(s[i])

VARIABLES
  scheme,      \* the Codec's scheme
  buf,         \* s.buf
  start, end,  \* s.start, s.end
  err,         \* s.err
  phase,       \* where Scan is: "split", "read", "returned" or "panicked"
  received,    \* history: every byte the socket delivered
  results      \* history: the results emitted, in order

vars == <<scheme, buf, start, end, err, phase, received, results>>

-----------------------------------------------------------------------------
(* What Split of a rule and Splitter return: advance and the token, which is *)
(* data[from:to] (a copy of data[0] for an abandoned byte).                  *)
Outcome(kind, advance, from, to) ==
  [kind |-> kind, advance |-> advance, from |-> from, to |-> to]
Wait == Outcome("wait", 0, 0, 0)
Nothing == Outcome("none", 0, 0, 0)
Abandon == Outcome("abandon", 1, 0, 1)
Panic == Outcome("panic", 0, 0, 0)
\* Slicing data[from:to] panics when the bounds cross.
Match(advance, from, to) ==
  IF from <= to THEN Outcome("match", advance, from, to) ELSE Panic

Occurrences(pattern, data) ==
  {i \in 0..(Len(data) - Len(pattern)) : SubSeq(data, i + 1, i + Len(pattern)) = pattern}

\* Mutation: idx >= 0 is not tested.
TextSplitUntested(rule, data) ==
  LET found == Occurrences(rule.end, data) \cup {-1}
      idx == Max(found)
      body == IF rule.contain THEN 0 ELSE Len(rule.start)
  IN  CASE rule.length > 0 /\ Len(data) < rule.length -> Wait
        [] rule.length > 0 /\ Len(data) >= rule.length -> Match(rule.length, body, rule.length)
        [] OTHER -> Match(idx + Len(rule.end), body, idx)

\* Mutation: the end delimiter is left in the stream.
TextSplitKeepsEnd(rule, data) ==
  LET found == Occurrences(rule.end, data)
      body == IF rule.contain THEN 0 ELSE Len(rule.start)
  IN  CASE rule.length > 0 /\ Len(data) < rule.length -> Wait
        [] rule.length > 0 /\ Len(data) >= rule.length -> Match(rule.length, body, rule.length)
        [] rule.length <= 0 /\ found # {} ->
             Match(Min(found), body, Min(found))
        [] OTHER -> IF Len(data) > rule.max THEN Abandon ELSE Wait

TextSplit(rule, data) ==
  LET found == Occurrences(rule.end, data)
      body == IF rule.contain THEN 0 ELSE Len(rule.start)
  IN  CASE rule.length > 0 /\ Len(data) < rule.length -> Wait
        [] rule.length > 0 /\ Len(data) >= rule.length -> Match(rule.length, body, rule.length)
        [] rule.length <= 0 /\ found # {} ->
             LET idx == Min(found)
                 total == idx + Len(rule.end)
             IN  Match(total, body, IF rule.contain THEN total ELSE idx)
        [] OTHER -> IF Len(data) > rule.max THEN Abandon ELSE Wait

\* The length is read as a 16 bit number whatever length_size says: of a longer
\* field only two bytes count, of a shorter one Uint16 panics, as slicing does
\* from a negative offset.
BinarySplit(rule, data) ==
  LET last == Wrap(rule.offset + rule.size)
      total == Wrap(rule.adjust + 256 * data[rule.offset + 1] + data[rule.offset + 2])
  IN  CASE Len(data) < rule.header \/ Len(data) < last -> Wait
        [] /\ Len(data) >= rule.header /\ Len(data) >= last
           /\ rule.offset < 0 \/ last - rule.offset < 2 -> Panic
        [] OTHER -> IF Len(data) < total THEN Wait ELSE Match(total, 0, total)

RuleSplit(rule, data) ==
  IF rule.kind = "text" THEN TextSplit(rule, data) ELSE BinarySplit(rule, data)

\* The rules with a marker that begins data and whose Split panics or is accepted:
\* one that consumes nothing is not.
Deciding(data) ==
  {i \in DOMAIN scheme :
     /\ scheme[i].start # <<>> /\ IsPrefix(scheme[i].start, data)
     /\ LET out == RuleSplit(scheme[i], data) IN out.kind = "panic" \/ out.advance > 0}

\* Mutation: a rule that waits is honoured.
SplitterWaits(data) ==
  IF data = <<>> THEN Nothing
  ELSE IF Deciding(data) # {} THEN RuleSplit(scheme[Min(Deciding(data))], data)
  ELSE IF \E i \in DOMAIN scheme : /\ scheme[i].start # <<>> /\ IsPrefix(scheme[i].start, data)
                                   /\ RuleSplit(scheme[i], data).kind = "wait"
       THEN Nothing
  ELSE Abandon

\* A rule that waits is a rule that did not match: the first byte is dropped.
Splitter(data) ==
  IF data = <<>> THEN Nothing
  ELSE IF Deciding(data) # {} THEN RuleSplit(scheme[Min(Deciding(data))], data)
  ELSE Abandon

-----------------------------------------------------------------------------
Pending == SubSeq(buf, start + 1, end)
Reported == IF results = <<>> THEN 0 ELSE Last(results).at + Last(results).advance

Init ==
  /\ scheme \in Schemes
  /\ buf = <<>> /\ start = 0 /\ end = 0
  /\ err = "none" /\ phase = "split"
  /\ received = <<>> /\ results = <<>>

\* A token: Scan returns true, Codec.Scan emits a result and calls Scan again.
\* advance refuses to go past the end of the data.
Deliver ==
  LET out == Splitter(Pending) IN
  /\ phase = "split" /\ out.kind \in {"match", "abandon"}
  /\ IF out.advance > end - start
       THEN /\ err' = IF err \in {"none", "EOF"} THEN "tooFar" ELSE err
            /\ phase' = "returned" /\ UNCHANGED <<start, results>>
       ELSE /\ start' = start + out.advance
            /\ results' = Append(results,
                 [kind |-> out.kind, rule |-> Deciding(Pending),
                  at |-> Reported, advance |-> out.advance,
                  lo |-> start + out.from, hi |-> start + out.to,
                  bytes |-> SubSeq(Pending, out.from + 1, out.to)])
            /\ UNCHANGED <<err, phase>>
  /\ UNCHANGED <<scheme, buf, end, received>>

SplitPanics ==
  /\ phase = "split" /\ Splitter(Pending).kind = "panic"
  /\ phase' = "panicked"
  /\ UNCHANGED <<scheme, buf, start, end, err, received, results>>

\* No token: read on, or stop if the reader already failed.
NoToken ==
  /\ phase = "split" /\ Splitter(Pending).kind = "none"
  /\ IF err = "none"
       THEN phase' = "read" /\ UNCHANGED <<start, end>>
       ELSE phase' = "returned" /\ start' = 0 /\ end' = 0
  /\ UNCHANGED <<scheme, buf, err, received, results>>

\* copy(b[at:], data)
Overwrite(b, at, data) ==
  [i \in DOMAIN b |-> IF i - at \in DOMAIN data THEN data[i - at] ELSE b[i]]

MustShift == start > 0 /\ (end = Len(buf) \/ start > Len(buf) \div 2)

\* Mutation: the shift does not move end with the data.
ShiftedKeepsEnd ==
  IF MustShift THEN [buf |-> Overwrite(buf, 0, Pending), start |-> 0, end |-> end]
  ELSE [buf |-> buf, start |-> start, end |-> end]

Shifted ==
  IF MustShift THEN [buf |-> Overwrite(buf, 0, Pending), start |-> 0, end |-> end - start]
  ELSE [buf |-> buf, start |-> start, end |-> end]

Full == Shifted.end = Len(Shifted.buf)
TooLong == Full /\ Len(Shifted.buf) >= MaxTokenSize

\* The buffer Read is given: doubled when it is full, with the data at its
\* front; fresh bytes are zero.
Room ==
  IF ~Full \/ TooLong THEN Shifted
  ELSE LET old == Len(Shifted.buf)
           new == IF old = 0 THEN Min({StartBufSize, MaxTokenSize})
                  ELSE Min({2 * old, MaxTokenSize})
           data == SubSeq(Shifted.buf, Shifted.start + 1, Shifted.end)
       IN  [buf |-> Overwrite([i \in 1..new |-> 0], 0, data),
            start |-> 0, end |-> Len(data)]

\* The socket delivers some bytes, as many as fit at most.
Fill(chunk) ==
  /\ phase = "read" /\ ~TooLong
  /\ Len(chunk) <= Len(Room.buf) - Room.end
  /\ Len(received) + Len(chunk) <= MaxBytes
  /\ buf' = Overwrite(Room.buf, Room.end, chunk)
  /\ start' = Room.start /\ end' = Room.end + Len(chunk)
  /\ received' = received \o chunk
  /\ phase' = "split"
  /\ UNCHANGED <<scheme, err, results>>

\* The socket fails: the peer left ("EOF"), or Close or a reset ("closed").  A
\* buffer that cannot grow stops Scan before it reads.
ReadFails(e) ==
  /\ phase = "read"
  /\ IF TooLong
       THEN err' = "tooLong" /\ phase' = "returned"
       ELSE err' = e /\ phase' = "split"
  /\ buf' = Room.buf /\ start' = Room.start /\ end' = Room.end
  /\ UNCHANGED <<scheme, received, results>>

Chunks == UNION {[1..n -> Bytes] : n \in 1..Min({StartBufSize, MaxBytes})}
ScanStep == Deliver \/ SplitPanics \/ NoToken
Next ==
  \/ ScanStep
  \/ \E chunk \in Chunks : Fill(chunk)
  \/ \E e \in {"EOF", "closed"} : ReadFails(e)

Spec == Init /\ [][Next]_vars
\* The scanning goroutine runs; the peer and the socket promise nothing.
FairSpec == Spec /\ WF_vars(ScanStep)

-----------------------------------------------------------------------------
\* Positions stay inside the buffer and the buffer inside its limit.
TypeOK ==
  /\ scheme \in Schemes
  /\ buf \in Seq(Byte) /\ Len(buf) <= MaxTokenSize
  /\ start \in Nat /\ end \in Nat /\ start <= end /\ end <= Len(buf)
  /\ err \in {"none", "EOF", "closed", "tooLong", "tooFar"}
  /\ phase \in {"split", "read", "returned", "panicked"}
  /\ received \in Seq(Bytes) /\ Len(received) <= MaxBytes

\* While Scan runs, the data between start and end is what the peer sent and no
\* result has reported yet: shifting, growing and reading into the buffer lose,
\* repeat and reorder nothing.
PendingIsUnread ==
  phase \in {"split", "read"} =>
    Pending = SubSeq(received, Reported + 1, Len(received))

\* Scan reads only with an empty backlog, since Splitter consumes whenever there
\* is data: nothing is ever carried from one read to the next, the buffer never
\* grows past its first size and ErrTooLong is never met.
NeverBuffers ==
  /\ phase = "read" => start = end
  /\ Len(buf) \in {0, StartBufSize}
  /\ err # "tooLong"

\* The end delimiter can begin before the start delimiter ends, as an empty one
\* does: laid over the start at i, it agrees with it as far as the start goes.
Overlap(rule) ==
  /\ rule.kind = "text" /\ rule.length <= 0
  /\ \E i \in 0..(Len(rule.start) - 1) : \A j \in DOMAIN rule.end :
       i + j <= Len(rule.start) => rule.end[j] = rule.start[i + j]
Fragile(rule) ==
  IF rule.kind = "text" THEN Overlap(rule) \/ rule.length \in 1..(Len(rule.start) - 1)
  ELSE \/ rule.offset < 0 \/ rule.size < 2 \/ rule.offset + rule.size > MaxInt
       \/ rule.adjust < 0 \/ rule.adjust + 65535 > MaxInt

\* Every packet handed on is a frame of a configured rule, taken from the place
\* in the stream that the results before it leave off: it begins
\* with the marker; a delimited frame ends at its first end delimiter, a fixed one
\* has its length, a binary one the length its header gives, even when that ends
\* inside the header or the marker (binary.go:50).
FrameOf(rule, stream, length, token) ==
  LET frame == SubSeq(stream, 1, length) IN
  /\ IsPrefix(rule.start, IF rule.kind = "binary" THEN stream ELSE frame)
  /\ IF rule.kind = "binary" THEN
          /\ length = rule.adjust + 256 * stream[rule.offset + 1] + stream[rule.offset + 2]
          /\ token = frame
     ELSE /\ \/ rule.length > 0 /\ length = rule.length
             \/ /\ rule.length <= 0 /\ IsSuffix(rule.end, frame)
                /\ \A n \in 1..(length - 1) : ~IsSuffix(rule.end, SubSeq(stream, 1, n))
          /\ IF rule.contain THEN token = frame
             ELSE IF rule.length > 0 THEN frame = rule.start \o token
             ELSE frame = rule.start \o token \o rule.end
From(r) == SubSeq(received, r.at + 1, Len(received))
TokenIsFrame ==
  \A i \in DOMAIN results :
    LET r == results[i]
        rule == scheme[Min(r.rule)]
    IN  r.kind = "match" =>
          /\ r.at + r.advance <= Len(received)
          /\ Fragile(rule) \/ FrameOf(rule, From(r), r.advance, r.bytes)

\* Splitting panics only under a rule that Setup should have refused: an end
\* delimiter that is empty or overlaps the start and a length that does not
\* replace it, a length inside the start, a length field of less than two bytes
\* or at a negative offset, a negative adjustment, or numbers whose sum wraps.
PanicsNeedFragileRule ==
  phase = "panicked" => \E i \in DOMAIN scheme : Fragile(scheme[i])

\* Every byte the peer sent ends in a result, a packet or an abandoned byte,
\* whatever comes after it, unless splitting panics.
EveryByteReported ==
  Reported < Len(received) ~> (Reported = Len(received) \/ phase = "panicked")

\* text.go:57, 89: a rule with too little data to decide waits and consumes
\* nothing.
WaitConsumesNothing ==
  [][\A i \in DOMAIN scheme :
       /\ phase = "split" /\ err = "none" /\ Pending # <<>> /\ Deciding(Pending) = {}
       /\ scheme[i].start # <<>> /\ IsPrefix(scheme[i].start, Pending)
       /\ RuleSplit(scheme[i], Pending).kind = "wait"
       => Reported' = Reported]_vars

\* codec.go:17: the Packet of a result is the packet that was cut.  Handlers and
\* the history read it through the scanner's buffer, later than the scan.
PacketsKeepTheirBytes ==
  \A i \in DOMAIN results :
    LET r == results[i] IN
    r.kind = "match" => SubSeq(buf, r.lo + 1, r.hi) = r.bytes

=============================================================================
