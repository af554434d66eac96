---------------------------- MODULE CircularBuffer ----------------------------
(* utils/lock_free_circular_buffer.go: Add and GetAll, each a sequence of    *)
(* atomic operations on head, count and the slots, the history that a Codec  *)
(* keeps of its scan results.  An element is named by the position its Add   *)
(* took.  Positions stay below MaxAdds, where the int32 head does not wrap.  *)
EXTENDS Integers, Sequences, FiniteSets

CONSTANTS Adders,   \* goroutines that call Add
          Size,     \* cb.size: 10 in NewCodec
          MaxAdds,  \* bound: calls of Add
          Nil       \* an empty slot

ASSUME SizeAssumption == Size \in Nat \ {0} /\ MaxAdds \in Nat
ASSUME AddersAssumption == IsFiniteSet(Adders)
ASSUME NilAssumption == Nil \notin Nat

VARIABLES
  head, count, data,  \* the fields of the buffer
  adder,              \* [pc, pos] of each goroutine in Add
  reader,             \* [pc, n, start, got] of a goroutine in GetAll, and history:
                      \* late, the positions not yet stored when it read head
  overtaken           \* history: the positions whose slot was taken again before
                      \* their store

vars == <<head, count, data, adder, reader, overtaken>>

Slots == 0..(Size - 1)
Slot(pos) == pos % Size
NotReading == [pc |-> "idle", n |-> 0, start |-> 0, got |-> <<>>, late |-> {}]
\* The positions that are taken and wait for their store.
Unstored == {adder[a].pos : a \in {b \in Adders : adder[b].pc \in {"evict", "store"}}}

TypeOK ==
  /\ head \in 0..MaxAdds /\ count \in Int
  /\ data \in [Slots -> Nat \cup {Nil}]
  /\ \A s \in Slots : data[s] # Nil => Slot(data[s]) = s
  /\ adder \in [Adders -> [pc : {"idle", "evict", "store", "publish"}, pos : Nat]]
  /\ reader \in [pc : {"idle", "head", "read", "panic"}, n : Int, start : Int,
                 got : Seq(Nat \cup {Nil}), late : SUBSET Nat]
  /\ overtaken \in SUBSET Nat

Init ==
  /\ head = 0 /\ count = 0
  /\ data = [s \in Slots |-> Nil]
  /\ adder = [a \in Adders |-> [pc |-> "idle", pos |-> 0]]
  /\ reader = NotReading
  /\ overtaken = {}

-----------------------------------------------------------------------------
(* Add.                                                                      *)
Evicts(pos) == pos >= Size
\* Mutation: the first position of the second lap evicts nothing.
EvictsLate(pos) == pos > Size

ClaimWith(a, evicts(_)) ==
  /\ adder[a].pc = "idle" /\ head < MaxAdds
  /\ adder' = [adder EXCEPT ![a] = [pc |-> IF evicts(head) THEN "evict" ELSE "store",
                                    pos |-> head]]
  /\ head' = head + 1
  /\ overtaken' = overtaken \cup (Unstored \cap {head - Size})
  /\ UNCHANGED <<count, data, reader>>
\* Mutation: Claim with EvictsLate.
ClaimLate(a) == ClaimWith(a, EvictsLate)

\* Adds one to head, and looks whether the position is past the first lap.
Claim(a) == ClaimWith(a, Evicts)

\* The element about to be overwritten is no longer counted.
Evict(a) ==
  /\ adder[a].pc = "evict"
  /\ count' = count - 1
  /\ adder' = [adder EXCEPT ![a].pc = "store"]
  /\ UNCHANGED <<head, data, reader, overtaken>>

\* Mutation: the slot is taken one too far.
StoreAhead(a) ==
  /\ adder[a].pc = "store"
  /\ data' = [data EXCEPT ![Slot(adder[a].pos + 1)] = adder[a].pos]
  /\ adder' = [adder EXCEPT ![a].pc = "publish"]
  /\ UNCHANGED <<head, count, reader, overtaken>>

Store(a) ==
  /\ adder[a].pc = "store"
  /\ data' = [data EXCEPT ![Slot(adder[a].pos)] = adder[a].pos]
  /\ adder' = [adder EXCEPT ![a].pc = "publish"]
  /\ UNCHANGED <<head, count, reader, overtaken>>

Publish(a) ==
  /\ adder[a].pc = "publish"
  /\ count' = count + 1
  /\ adder' = [adder EXCEPT ![a].pc = "idle"]
  /\ UNCHANGED <<head, data, reader, overtaken>>

(* GetAll.                                                                   *)
\* An empty buffer returns nil at once; make panics on a negative length.
LoadCount ==
  /\ reader.pc = "idle" /\ count # 0
  /\ reader' = [NotReading EXCEPT !.pc = IF count > 0 THEN "head" ELSE "panic", !.n = count]
  /\ UNCHANGED <<head, count, data, adder, overtaken>>

LoadHead ==
  /\ reader.pc = "head"
  /\ reader' = [reader EXCEPT !.pc = "read", !.start = head - reader.n,
                                !.late = Unstored]
  /\ UNCHANGED <<head, count, data, adder, overtaken>>

\* Mutation: the walk begins one position late.
ReadSlotAhead ==
  /\ reader.pc = "read" /\ Len(reader.got) < reader.n
  /\ reader' = [reader EXCEPT !.got = Append(@, data[Slot(reader.start + Len(@) + 1)])]
  /\ UNCHANGED <<head, count, data, adder, overtaken>>

ReadSlot ==
  /\ reader.pc = "read" /\ Len(reader.got) < reader.n
  /\ reader' = [reader EXCEPT !.got = Append(@, data[Slot(reader.start + Len(@))])]
  /\ UNCHANGED <<head, count, data, adder, overtaken>>

Return ==
  /\ reader.pc = "read" /\ Len(reader.got) = reader.n
  /\ reader' = NotReading
  /\ UNCHANGED <<head, count, data, adder, overtaken>>

Next ==
  \/ \E a \in Adders : Claim(a) \/ Evict(a) \/ Store(a) \/ Publish(a)
  \/ LoadCount \/ LoadHead \/ ReadSlot \/ Return

Spec == Init /\ [][Next]_vars

(* ----------------------------- Properties -------------------------------- *)
Filled == IF head < Size THEN head ELSE Size
\* The Adds whose element count does not, or no longer, include.
Uncounted == {a \in Adders : adder[a].pc \in {"store", "publish"}}

\* Although head, count and the slots are separate atomics, count is at every
\* instant the number of filled slots less the Adds between eviction and
\* publication.
CountAccounted == count = Filled - Cardinality(Uncounted)

\* With no more concurrent Adds than slots, GetAll never sees a count for which
\* make panics or that reaches over a slot twice.
CountInRange == Cardinality(Adders) <= Size => count \in 0..Size

\* Once every Add has returned, the slots hold the last elements in the order of
\* their positions, which is what GetAll then returns: in the place of a newer
\* element there is an older one only if that one's Add was overtaken by a whole
\* lap before its store.
QuietContents ==
  (\A a \in Adders : adder[a].pc = "idle")
    => \A p \in (head - Filled)..(head - 1) : data[Slot(p)] \in {p} \cup overtaken

\* What the slot of a position holds when its Add takes it.
LapBefore(p) == IF p < Size THEN Nil ELSE p - Size

\* Whatever Adds run during a GetAll, it returns no element twice, and in the place
\* of each position that element or a newer one, unless the Add of the position
\* had yet to store when GetAll read head: there it may find the element of the
\* lap before, almost two laps behind head, or nil in the first lap.  Where an
\* Add was overtaken by a whole lap, its element may come instead, or one older.
ReadsAreRecent ==
  \A i \in DOMAIN reader.got :
    LET p == reader.start + i - 1
        e == reader.got[i]
    IN /\ \/ e # Nil /\ e >= p
          \/ p \in reader.late /\ (e = LapBefore(p) \/ p - Size \in overtaken)
          \/ e \in overtaken
       /\ e # Nil => \A j \in DOMAIN reader.got : j # i => reader.got[j] # e
=============================================================================
