--------------------------- MODULE SharedData_proofs ---------------------------
(* What goroutines share without a lock: the ring of CircularBuffer, for any   *)
(* size and number of goroutines in Add, and the tables of CrcTables, for any  *)
(* messages and number of goroutines that compute checksums.                   *)
EXTENDS CircularBuffer, CrcTables, FiniteSetTheorems, SequenceTheorems,
        WellFoundedInduction, TLAPS

\* head and the Adds: a goroutine in Add owns a position of its own below head.
Owners ==
  /\ head \in 0..MaxAdds /\ count \in Int
  /\ adder \in [Adders -> [pc : {"idle", "evict", "store", "publish"}, pos : Nat]]
  /\ \A a, b \in Adders :
       adder[a].pc # "idle" =>
         /\ adder[a].pos < head
         /\ adder[b].pc # "idle" /\ adder[a].pos = adder[b].pos => a = b

\* No position is given out twice, whatever goroutines call Add at once
\* (lock_free_circular_buffer.go:28).
THEOREM PositionsOwned == Spec => []Owners
<1> USE SizeAssumption DEF Owners
<1>1. Init => Owners
  BY DEF Init
<1>2. ASSUME Owners, [Next]_vars PROVE Owners'
  <2>1. ASSUME NEW a \in Adders, Claim(a) PROVE Owners'
    BY <1>2, <2>1 DEF Claim, ClaimWith
  <2>2. ASSUME NEW a \in Adders, Evict(a) PROVE Owners' BY <1>2, <2>2 DEF Evict
  <2>3. ASSUME NEW a \in Adders, Store(a) PROVE Owners' BY <1>2, <2>3 DEF Store
  <2>4. ASSUME NEW a \in Adders, Publish(a) PROVE Owners' BY <1>2, <2>4 DEF Publish
  <2>5. ASSUME LoadCount \/ LoadHead \/ ReadSlot \/ Return \/ UNCHANGED vars PROVE Owners'
    BY <1>2, <2>5 DEF LoadCount, LoadHead, ReadSlot, Return, vars
  <2> QED BY <1>2, <2>1, <2>2, <2>3, <2>4, <2>5 DEF Next
<1> QED BY <1>1, <1>2, PTL DEF Spec

\* One Add more or less between eviction and publication changes their number
\* by one.
LEMMA OneUncounted ==
  ASSUME NEW S \in SUBSET Adders, NEW a \in Adders
  PROVE  /\ Cardinality(S) \in Nat
         /\ a \notin S => Cardinality(S \cup {a}) = Cardinality(S) + 1
         /\ a \in S => Cardinality(S \ {a}) = Cardinality(S) - 1
<1>1. IsFiniteSet(S)
  BY AddersAssumption, FS_Subset
<1> QED BY <1>1, FS_CardinalityType, FS_AddElement, FS_RemoveElement

\* The Adds under way are goroutines, finitely many.
LEMMA UncountedFinite ==
  Uncounted \in SUBSET Adders /\ IsFiniteSet(Uncounted) /\ Cardinality(Uncounted) \in Nat
<1>1. Uncounted \in SUBSET Adders BY DEF Uncounted
<1> QED BY <1>1, AddersAssumption, FS_Subset, FS_CardinalityType

\* The count is exact at every instant: the slots filled so far less the Adds
\* that have yet to publish (lock_free_circular_buffer.go:28-35).
THEOREM CountExact == Spec => []CountAccounted
<1> USE SizeAssumption DEF Owners, Evicts
<1>1. Init => CountAccounted
  <2> SUFFICES ASSUME Init PROVE CountAccounted
    OBVIOUS
  <2>1. Uncounted = {} BY DEF Init, Uncounted
  <2> QED BY <2>1, FS_EmptySet DEF Init, CountAccounted, Filled
<1>2. ASSUME Owners, CountAccounted, [Next]_vars PROVE CountAccounted'
  <2> DEFINE n == Cardinality(Uncounted)
  <2>1. n \in Nat /\ Uncounted \in SUBSET Adders BY UncountedFinite
  <2>2. count = Filled - n BY <1>2 DEF CountAccounted
  <2>3. ASSUME NEW a \in Adders, Claim(a) PROVE CountAccounted'
    <3>1. a \notin Uncounted BY <1>2, <2>3 DEF Claim, ClaimWith, Uncounted
    <3>2. CASE head >= Size
      <4>1. Uncounted' = Uncounted
        BY <1>2, <2>3, <3>2 DEF Claim, ClaimWith, Uncounted
      <4> QED BY <1>2, <2>2, <2>3, <3>2, <4>1 DEF Claim, ClaimWith, CountAccounted, Filled
    <3>3. CASE head < Size
      <4>1. Uncounted' = Uncounted \cup {a}
        BY <1>2, <2>3, <3>3 DEF Claim, ClaimWith, Uncounted
      <4>2. Cardinality(Uncounted') = n + 1 BY <2>1, <3>1, <4>1, OneUncounted
      <4>3. Filled' = Filled + 1 /\ count' = count
        BY <1>2, <2>3, <3>3 DEF Claim, ClaimWith, Filled
      <4>4. Filled \in Int BY <1>2 DEF Filled
      <4> QED BY <2>1, <2>2, <4>2, <4>3, <4>4 DEF CountAccounted
    <3> QED BY <1>2, <3>2, <3>3
  <2>4. ASSUME NEW a \in Adders, Evict(a) PROVE CountAccounted'
    <3>1. a \notin Uncounted /\ Uncounted' = Uncounted \cup {a}
      BY <1>2, <2>4 DEF Evict, Uncounted
    <3>2. Cardinality(Uncounted') = n + 1 BY <2>1, <3>1, OneUncounted
    <3>3. Filled' = Filled /\ Filled \in Int /\ count' = count - 1
      BY <1>2, <2>4 DEF Evict, Filled
    <3> QED BY <2>1, <2>2, <3>2, <3>3 DEF CountAccounted
  <2>5. ASSUME NEW a \in Adders, Store(a) PROVE CountAccounted'
    <3>1. Uncounted' = Uncounted BY <1>2, <2>5 DEF Store, Uncounted
    <3> QED BY <2>2, <2>5, <3>1 DEF Store, CountAccounted, Filled
  <2>6. ASSUME NEW a \in Adders, Publish(a) PROVE CountAccounted'
    <3>1. a \in Uncounted /\ Uncounted' = Uncounted \ {a}
      BY <1>2, <2>6 DEF Publish, Uncounted
    <3>2. Cardinality(Uncounted') = n - 1 BY <2>1, <3>1, OneUncounted
    <3>3. Filled' = Filled /\ Filled \in Int /\ count' = count + 1
      BY <1>2, <2>6 DEF Publish, Filled
    <3> QED BY <2>1, <2>2, <3>2, <3>3 DEF CountAccounted
  <2>7. ASSUME LoadCount \/ LoadHead \/ ReadSlot \/ Return \/ UNCHANGED vars
        PROVE  CountAccounted'
    BY <1>2, <2>7
    DEF LoadCount, LoadHead, ReadSlot, Return, vars, CountAccounted, Filled, Uncounted
  <2> QED BY <1>2, <2>3, <2>4, <2>5, <2>6, <2>7 DEF Next
<1> QED BY <1>1, <1>2, PositionsOwned, PTL DEF Spec

\* With no more goroutines in Add than slots, GetAll makes a slice of a legal
\* length (lock_free_circular_buffer.go:40-46).
THEOREM CountNeverNegative == Spec => []CountInRange
<1>1. ASSUME Owners, CountAccounted, Cardinality(Adders) <= Size PROVE count \in 0..Size
  <2>1. Cardinality(Uncounted) \in Nat /\ IsFiniteSet(Uncounted) BY UncountedFinite
  <2>2. Cardinality(Uncounted) <= Filled
    <3>1. CASE head >= Size
      <4>1. Cardinality(Uncounted) <= Cardinality(Adders) /\ Cardinality(Adders) \in Nat
        BY UncountedFinite, AddersAssumption, FS_Subset, FS_CardinalityType
      <4> QED BY <1>1, <2>1, <3>1, <4>1, SizeAssumption DEF Filled, Owners
    <3>2. CASE head < Size
      <4> DEFINE pos == [a \in Uncounted |-> adder[a].pos]
      <4>1. pos \in Injection(Uncounted, 0..(head - 1))
        BY <1>1 DEF Owners, Uncounted, Injection, IsInjective
      <4>2. IsFiniteSet(0..(head - 1)) /\ Cardinality(0..(head - 1)) = head
        BY <1>1, FS_Interval DEF Owners
      <4>3. Cardinality(Uncounted) <= head
        BY <4>1, <4>2, FS_Injection
      <4> QED BY <3>2, <4>3, <1>1, SizeAssumption DEF Filled, Owners
    <3> QED BY <1>1, <3>1, <3>2, SizeAssumption DEF Owners
  <2> QED BY <1>1, <2>1, <2>2, SizeAssumption DEF CountAccounted, Filled, Owners
<1>2. Owners /\ CountAccounted => CountInRange
  BY <1>1 DEF CountInRange
<1> QED BY <1>2, PositionsOwned, CountExact, PTL

-----------------------------------------------------------------------------
(* The contents.                                                             *)
\* A position lies in a slot.
LEMMA SlotOfPosition ==
  ASSUME NEW p \in Nat
  PROVE  p = Size * (p \div Size) + (p % Size) /\ p % Size \in Slots /\ p \div Size \in Int
<1>1. p % Size \in Slots BY SizeAssumption DEF Slots
<1>2. p \div Size \in Int BY SizeAssumption
<1>3. p = Size * (p \div Size) + (p % Size) BY SizeAssumption
<1> QED BY <1>1, <1>2, <1>3

\* The only multiple of Size nearer to zero than Size is zero.
LEMMA SmallMultiple ==
  ASSUME NEW k \in Int, NEW d \in Int, d = Size * k, d < Size, d > 0 - Size
  PROVE  d = 0
<1>1. CASE k = 0 BY <1>1, SizeAssumption
<1>2. CASE k >= 1
  <2>1. ASSUME NEW S \in Nat PROVE S * k >= S BY <1>2
  <2> QED BY <2>1, SizeAssumption
<1>3. CASE k <= -1
  <2>1. ASSUME NEW S \in Nat PROVE S * k <= 0 - S BY <1>3
  <2> QED BY <2>1, SizeAssumption
<1> QED BY <1>1, <1>2, <1>3

\* Positions less than a lap apart have slots of their own.
LEMMA SlotsApart ==
  ASSUME NEW p \in Nat, NEW q \in Nat, p - q < Size, q - p < Size, Slot(p) = Slot(q)
  PROVE  p = q
<1> DEFINE k == (p \div Size) - (q \div Size)
<1>1. k \in Int BY SlotOfPosition
<1>2. p - q = Size * k
  <2>1. p = Size * (p \div Size) + (p % Size) /\ q = Size * (q \div Size) + (q % Size)
    BY SlotOfPosition
  <2>2. p \div Size \in Int /\ q \div Size \in Int /\ p % Size \in Int
    BY SlotOfPosition DEF Slots
  <2>3. ASSUME NEW a \in Int, NEW b \in Int, NEW S \in Int PROVE S * (a - b) = S * a - S * b
    OBVIOUS
  <2> QED BY <2>1, <2>2, <2>3, SizeAssumption DEF Slot
<1> HIDE DEF k
<1>3. p - q = 0 BY <1>1, <1>2, SmallMultiple, SizeAssumption
<1> QED BY <1>3

\* The position a lap earlier has the same slot.
LEMMA LapHasSlot ==
  ASSUME NEW p \in Nat, p >= Size
  PROVE  p - Size \in Nat /\ Slot(p - Size) = Slot(p)
<1> USE SizeAssumption
<1> DEFINE q == p - Size
<1>1. q \in Nat OBVIOUS
<1> DEFINE kp == p \div Size
           kq == q \div Size
           rp == p % Size
           rq == q % Size
<1>2. /\ p = Size * kp + rp /\ q = Size * kq + rq
      /\ kp \in Int /\ kq \in Int /\ rp \in 0..(Size - 1) /\ rq \in 0..(Size - 1)
  BY <1>1, SlotOfPosition DEF Slots
<1>3. p - q = Size OBVIOUS
<1>4. rq = rp => Slot(q) = Slot(p) BY DEF Slot
<1> HIDE DEF q, kp, kq, rp, rq
<1>5. ASSUME NEW a \in Int, NEW b \in Int, NEW S \in Int
      PROVE  S * (a - b - 1) = S * a - S * b - S
  OBVIOUS
<1>6. Size * (kp - kq - 1) = Size * kp - Size * kq - Size BY <1>2, <1>5
<1>7. rq - rp = Size * (kp - kq - 1) BY <1>1, <1>2, <1>3, <1>6
<1>8. rq - rp = 0
  <2>1. rq - rp \in Int /\ kp - kq - 1 \in Int /\ rq - rp < Size /\ rq - rp > 0 - Size
    BY <1>2
  <2> QED BY <1>7, <2>1, SmallMultiple
<1>9. rq = rp BY <1>2, <1>8
<1> QED BY <1>1, <1>4, <1>9 DEF q

\* An Add has taken the position and not stored yet.
InFlight(p) == \E a \in Adders : adder[a].pc \in {"evict", "store"} /\ adder[a].pos = p
LEMMA UnstoredInFlight == \A p : p \in Unstored <=> InFlight(p)
BY DEF Unstored, InFlight

\* The slot of a position that was taken has its element or a newer one, or what it
\* had before while the Add is under way, or the element of an Add overtaken.
Placed(p) ==
  \/ data[Slot(p)] # Nil /\ data[Slot(p)] >= p
  \/ data[Slot(p)] \in overtaken
  \/ InFlight(p) /\ (data[Slot(p)] = LapBefore(p) \/ p - Size \in overtaken)

\* An Add that has yet to store is less than a lap behind head, or overtaken; an
\* element is in the slot of its position; every position is Placed.
Cells ==
  /\ data \in [Slots -> Nat \cup {Nil}] /\ overtaken \in SUBSET Nat
  /\ \A s \in Slots : data[s] # Nil => data[s] < head /\ Slot(data[s]) = s
  /\ \A a \in Adders : adder[a].pc \in {"evict", "store"}
                         => adder[a].pos >= head - Size \/ adder[a].pos \in overtaken
  /\ \A p \in 0..(head - 1) : Placed(p)

\* The Add that takes a position finds the element of the lap before in its slot,
\* unless that Add is overtaken now.
LEMMA ClaimKeepsCells ==
  ASSUME Owners, Cells, NEW a \in Adders, Claim(a)
  PROVE  Cells'
<1> USE SizeAssumption DEF Owners
<1>1. /\ adder[a].pc = "idle" /\ head \in Nat /\ head' = head + 1 /\ UNCHANGED data
      /\ adder'[a].pc \in {"evict", "store"} /\ adder'[a].pos = head
      /\ \A b \in Adders : b # a => adder'[b] = adder[b]
      /\ overtaken' = overtaken \cup (Unstored \cap {head - Size})
  BY DEF Claim, ClaimWith
<1>2. /\ data \in [Slots -> Nat \cup {Nil}] /\ overtaken \in SUBSET Nat
      /\ \A s \in Slots : data[s] # Nil => data[s] < head /\ Slot(data[s]) = s
  BY DEF Cells
<1>3. overtaken' \in SUBSET Nat /\ overtaken \subseteq overtaken'
  <2>1. \A p \in Unstored : p \in Nat
    BY DEF Unstored
  <2> QED BY <1>1, <1>2, <2>1
<1>4. \A s \in Slots : data[s] # Nil => data[s] < head + 1 /\ Slot(data[s]) = s
  BY <1>1, <1>2
<1>5. ASSUME NEW b \in Adders, adder'[b].pc \in {"evict", "store"}
      PROVE  adder'[b].pos >= head' - Size \/ adder'[b].pos \in overtaken'
  <2>1. CASE b = a BY <1>1, <2>1
  <2>2. CASE b # a
    <3>1. adder'[b] = adder[b] /\ adder[b].pos \in Nat BY <1>1, <2>2
    <3>2. adder[b].pos >= head - Size \/ adder[b].pos \in overtaken BY <1>5, <3>1 DEF Cells
    <3>3. adder[b].pos \in Unstored BY <1>5, <3>1 DEF Unstored
    <3>4. CASE adder[b].pos = head - Size BY <1>1, <3>1, <3>3, <3>4
    <3>5. CASE adder[b].pos # head - Size BY <1>1, <1>3, <3>1, <3>2, <3>5
    <3> QED BY <3>4, <3>5
  <2> QED BY <2>1, <2>2
<1>6. ASSUME NEW p \in Nat, p = head PROVE Placed(p)'
  <2>1. InFlight(p)' BY <1>1, <1>6 DEF InFlight
  <2> SUFFICES \/ data[Slot(head)] \in overtaken
               \/ data[Slot(head)] = LapBefore(head)
               \/ head - Size \in overtaken'
    BY <1>1, <1>3, <1>6, <2>1 DEF Placed, Slot, LapBefore
  <2>2. CASE head >= Size
    <3>1. head - Size \in Nat /\ Slot(head - Size) = Slot(head) BY <1>1, <2>2, LapHasSlot
    <3>2. Placed(head - Size)
      <4>1. head - Size \in 0..(head - 1) BY <1>1, <3>1
      <4> QED BY <4>1 DEF Cells
    <3>3. CASE data[Slot(head)] # Nil /\ data[Slot(head)] >= head - Size
      <4>1. Slot(head) \in Slots BY <1>1, SlotOfPosition DEF Slot
      <4>2. /\ data[Slot(head)] \in Nat /\ data[Slot(head)] < head
            /\ Slot(data[Slot(head)]) = Slot(head - Size)
        BY <1>2, <3>1, <3>3, <4>1
      <4>3. data[Slot(head)] = head - Size
        <5> DEFINE d == data[Slot(head)]
                   q == head - Size
        <5>1. d \in Nat /\ q \in Nat /\ d - q < Size /\ q - d < Size /\ Slot(d) = Slot(q)
          BY <1>1, <3>1, <3>3, <4>2
        <5> HIDE DEF d, q
        <5>2. d = q BY <5>1, SlotsApart
        <5> QED BY <5>2 DEF d, q
      <4> QED BY <2>2, <4>3, <1>1 DEF LapBefore
    <3>4. CASE InFlight(head - Size)
      <4>1. head - Size \in Unstored BY <3>4, UnstoredInFlight
      <4> QED BY <1>1, <4>1
    <3> QED BY <3>1, <3>2, <3>3, <3>4 DEF Placed
  <2>3. CASE head < Size
    <3>1. Slot(head) \in Slots BY <1>1, SlotOfPosition DEF Slot
    <3> DEFINE d == data[Slot(head)]
    <3>2. d \in Nat \cup {Nil} /\ (d # Nil => d < head /\ Slot(d) = Slot(head))
      BY <1>2, <3>1
    <3>3. ASSUME d # Nil PROVE FALSE
      <4>1. d \in Nat /\ d < head /\ Slot(d) = Slot(head) BY <3>2, <3>3
      <4> HIDE DEF d
      <4>2. d - head < Size /\ head - d < Size BY <1>1, <2>3, <4>1
      <4>3. d = head BY <1>1, <4>1, <4>2, SlotsApart
      <4> QED BY <1>1, <4>1, <4>3
    <3> QED BY <2>3, <3>3 DEF LapBefore
  <2> QED BY <1>1, <2>2, <2>3
<1>7. ASSUME NEW p \in 0..(head - 1) PROVE Placed(p)'
  <2>1. Placed(p) BY DEF Cells
  <2>2. InFlight(p) => InFlight(p)'
    <3> SUFFICES ASSUME NEW b \in Adders, adder[b].pc \in {"evict", "store"}, adder[b].pos = p
                 PROVE  InFlight(p)'
      BY DEF InFlight
    <3>1. b # a BY <1>1
    <3> QED BY <1>1, <3>1 DEF InFlight
  <2> QED BY <1>1, <1>3, <2>1, <2>2 DEF Placed, Slot, LapBefore
<1>8. \A p \in 0..(head' - 1) : Placed(p)'
  <2> SUFFICES ASSUME NEW p \in 0..(head' - 1) PROVE Placed(p)'
    OBVIOUS
  <2>1. CASE p = head BY <1>1, <1>6, <2>1
  <2>2. CASE p # head
    <3>1. p \in 0..(head - 1) BY <1>1, <2>2
    <3> QED BY <1>7, <3>1
  <2> QED BY <2>1, <2>2
<1> QED BY <1>1, <1>2, <1>3, <1>4, <1>5, <1>8 DEF Cells, Slot

\* A store puts its element in its own slot; one a lap or more behind was
\* overtaken.
LEMMA StoreKeepsCells ==
  ASSUME Owners, Cells, NEW a \in Adders, Store(a)
  PROVE  Cells'
<1> USE SizeAssumption DEF Owners
<1> DEFINE q == adder[a].pos
<1>1. /\ q \in Nat /\ q < head /\ head \in Nat
      /\ data' = [data EXCEPT ![Slot(q)] = q]
      /\ adder[a].pc = "store" /\ adder'[a].pc = "publish"
      /\ \A b \in Adders : b # a => adder'[b] = adder[b]
      /\ UNCHANGED <<head, overtaken>>
  BY DEF Store
<1>2. Slot(q) \in Slots BY <1>1, SlotOfPosition DEF Slot
<1>3. /\ data \in [Slots -> Nat \cup {Nil}] /\ overtaken \in SUBSET Nat
      /\ \A s \in Slots : data[s] # Nil => data[s] < head /\ Slot(data[s]) = s
      /\ q >= head - Size \/ q \in overtaken
  BY <1>1 DEF Cells
<1>4. /\ data' \in [Slots -> Nat \cup {Nil}]
      /\ \A s \in Slots : data'[s] # Nil => data'[s] < head /\ Slot(data'[s]) = s
  <2> HIDE DEF q
  <2> QED BY <1>1, <1>2, <1>3
<1>5. \A b \in Adders : adder'[b].pc \in {"evict", "store"}
                          => adder'[b].pos >= head - Size \/ adder'[b].pos \in overtaken
  BY <1>1 DEF Cells
<1>6. ASSUME NEW p \in 0..(head - 1) PROVE Placed(p)'
  <2>1. Slot(p) \in Slots BY <1>1, SlotOfPosition DEF Slot
  <2>2. CASE Slot(p) = Slot(q)
    <3> HIDE DEF q
    <3>1. data'[Slot(p)] = q BY <1>1, <1>2, <1>3, <2>2
    <3>2. q >= p \/ q \in overtaken
      <4> SUFFICES ASSUME q < p, q >= head - Size PROVE FALSE
        BY <1>1, <1>3
      <4>1. p - q < Size /\ q - p < Size BY <1>1
      <4>2. p = q BY <1>1, <2>2, <4>1, SlotsApart
      <4> QED BY <1>1, <4>2
    <3>3. q # Nil BY <1>1, NilAssumption
    <3> QED BY <1>1, <3>1, <3>2, <3>3 DEF Placed, Slot
  <2>3. CASE Slot(p) # Slot(q)
    <3>1. data'[Slot(p)] = data[Slot(p)] BY <1>1, <1>3, <2>1, <2>3
    <3>2. InFlight(p) => InFlight(p)'
      <4> SUFFICES ASSUME NEW b \in Adders, adder[b].pc \in {"evict", "store"}, adder[b].pos = p
                   PROVE  InFlight(p)'
        BY DEF InFlight
      <4>1. b # a BY <2>3
      <4> QED BY <1>1, <4>1 DEF InFlight
    <3>3. Placed(p) BY DEF Cells
    <3> QED BY <1>1, <3>1, <3>2, <3>3 DEF Placed, Slot, LapBefore
  <2> QED BY <2>2, <2>3
<1> QED BY <1>1, <1>3, <1>4, <1>5, <1>6 DEF Cells, Slot

\* Evict and Publish move an Add without storing anything.
LEMMA OthersKeepCells ==
  ASSUME Owners, Cells, NEW a \in Adders, Evict(a) \/ Publish(a)
  PROVE  Cells'
<1> USE DEF Owners
<1>1. /\ UNCHANGED <<head, data, overtaken>> /\ adder'[a].pos = adder[a].pos
      /\ adder'[a].pc \in {"evict", "store"} <=> adder[a].pc \in {"evict", "store"}
      /\ \A b \in Adders : b # a => adder'[b] = adder[b]
  BY DEF Evict, Publish
<1>2. \A p \in Int : InFlight(p) => InFlight(p)' BY <1>1 DEF InFlight
<1>3. \A b \in Adders : /\ adder'[b].pos = adder[b].pos
                        /\ adder'[b].pc \in {"evict", "store"} <=> adder[b].pc \in {"evict", "store"}
  BY <1>1
<1>4. \A p \in 0..(head - 1) : Placed(p)'
  <2> SUFFICES ASSUME NEW p \in 0..(head - 1) PROVE Placed(p)'
    OBVIOUS
  <2>1. Placed(p) /\ p \in Int BY DEF Cells
  <2> QED BY <1>1, <1>2, <2>1 DEF Placed, Slot, LapBefore
<1> QED BY <1>1, <1>3, <1>4 DEF Cells, Slot

\* Every position is in its slot or on its way, or its slot has an element that is
\* newer or of an Add overtaken.
THEOREM CellsKept == Spec => []Cells
<1>1. Init => Cells
  <2> SUFFICES ASSUME Init PROVE Cells
    OBVIOUS
  <2>1. 0..(head - 1) = {} BY DEF Init
  <2>2. data \in [Slots -> Nat \cup {Nil}] /\ \A s \in Slots : data[s] = Nil BY DEF Init
  <2>3. overtaken \in SUBSET Nat BY DEF Init
  <2>4. \A a \in Adders : adder[a].pc \notin {"evict", "store"} BY DEF Init
  <2> QED BY <2>1, <2>2, <2>3, <2>4 DEF Cells
<1>2. ASSUME Owners, Cells, [Next]_vars PROVE Cells'
  <2>1. ASSUME LoadCount \/ LoadHead \/ ReadSlot \/ Return \/ UNCHANGED vars PROVE Cells'
    <3>1. UNCHANGED <<head, data, adder, overtaken>>
      BY <2>1 DEF LoadCount, LoadHead, ReadSlot, Return, vars
    <3>2. \A p : Placed(p)' = Placed(p)
      BY <3>1 DEF Placed, InFlight, Slot, LapBefore
    <3> QED BY <1>2, <3>1, <3>2 DEF Cells, Slot
  <2> QED BY <1>2, <2>1, ClaimKeepsCells, StoreKeepsCells, OthersKeepCells DEF Next
<1> QED BY <1>1, <1>2, PositionsOwned, PTL DEF Spec

\* When every Add has returned the slots hold the last elements, each at its
\* position, whatever Adds ran at once; only the element of an Add overtaken by
\* a lap can be in the place of a newer one (lock_free_circular_buffer.go:27-36).
THEOREM LastLapKept == Spec => []QuietContents
<1> USE SizeAssumption
<1>1. ASSUME Owners, Cells, \A a \in Adders : adder[a].pc = "idle",
             NEW p \in (head - Filled)..(head - 1)
      PROVE  data[Slot(p)] \in {p} \cup overtaken
  <2>1. head \in Nat /\ p \in Nat /\ p \in 0..(head - 1) /\ head - p <= Size
    BY <1>1 DEF Owners, Filled
  <2>2. Placed(p) /\ ~InFlight(p) BY <1>1, <2>1 DEF Cells, InFlight
  <2> SUFFICES ASSUME data[Slot(p)] # Nil, data[Slot(p)] >= p PROVE data[Slot(p)] = p
    BY <2>2 DEF Placed
  <2>3. Slot(p) \in Slots BY <2>1, SlotOfPosition DEF Slot
  <2> DEFINE d == data[Slot(p)]
  <2>4. d \in Nat /\ d < head /\ Slot(d) = Slot(p) BY <1>1, <2>3 DEF Cells
  <2>5. d >= p OBVIOUS
  <2> HIDE DEF d
  <2>6. d - p < Size /\ p - d < Size BY <2>1, <2>4, <2>5
  <2>7. d = p BY <2>1, <2>4, <2>6, SlotsApart
  <2> QED BY <2>7 DEF d
<1>2. Owners /\ Cells => QuietContents
  BY <1>1 DEF QuietContents
<1> QED BY <1>2, PositionsOwned, CellsKept, PTL

\* An element is only ever stored in the slot of its position, and GetAll reads
\* elements and empty slots only (lock_free_circular_buffer.go:32, 52-56).
THEOREM CellsTyped == Spec => []TypeOK
<1> USE SizeAssumption DEF TypeOK
<1>1. Init => TypeOK
  <2> SUFFICES ASSUME Init PROVE TypeOK
    OBVIOUS
  <2>1. reader \in [pc : {"idle", "head", "read", "panic"}, n : Int, start : Int,
                    got : Seq(Nat \cup {Nil}), late : SUBSET Nat]
    BY DEF Init, NotReading
  <2>2. data \in [Slots -> Nat \cup {Nil}] /\ \A s \in Slots : data[s] = Nil BY DEF Init
  <2>3. head \in 0..MaxAdds /\ count \in Int
    <3>1. head = 0 /\ count = 0 BY DEF Init
    <3> QED BY <3>1
  <2>5. overtaken \in SUBSET Nat BY DEF Init
  <2>4. adder \in [Adders -> [pc : {"idle", "evict", "store", "publish"}, pos : Nat]] BY DEF Init
  <2> QED BY <2>1, <2>2, <2>3, <2>4, <2>5
<1>2. ASSUME TypeOK, [Next]_vars PROVE TypeOK'
  <2>1. ASSUME NEW a \in Adders, Claim(a) PROVE TypeOK'
    <3>1. overtaken' \in SUBSET Nat
      <4>1. overtaken' = overtaken \cup (Unstored \cap {head - Size})
        BY <2>1 DEF Claim, ClaimWith
      <4>2. \A p \in Unstored : p \in Nat BY <1>2 DEF Unstored
      <4> QED BY <1>2, <4>1, <4>2
    <3>2. adder' \in [Adders -> [pc : {"idle", "evict", "store", "publish"}, pos : Nat]]
      BY <1>2, <2>1 DEF Claim, ClaimWith
    <3>3. head' \in 0..MaxAdds BY <1>2, <2>1 DEF Claim, ClaimWith
    <3>4. UNCHANGED <<count, data, reader>> BY <2>1 DEF Claim, ClaimWith
    <3> QED BY <1>2, <3>1, <3>2, <3>3, <3>4
  <2>2. ASSUME NEW a \in Adders, Evict(a) \/ Publish(a) PROVE TypeOK'
    <3>1. adder' \in [Adders -> [pc : {"idle", "evict", "store", "publish"}, pos : Nat]]
      BY <1>2, <2>2, SMTT(30) DEF Evict, Publish
    <3>2. count' \in Int /\ UNCHANGED <<head, data, reader, overtaken>>
      BY <1>2, <2>2 DEF Evict, Publish
    <3> QED BY <1>2, <3>1, <3>2
  <2>3. ASSUME NEW a \in Adders, Store(a) PROVE TypeOK'
    <3>1. adder[a].pos \in Nat /\ Slot(adder[a].pos) \in Slots
      BY <1>2, SlotOfPosition DEF Slot
    <3>2. data' \in [Slots -> Nat \cup {Nil}] BY <1>2, <2>3, <3>1 DEF Store
    <3>3. \A s \in Slots : data'[s] # Nil => Slot(data'[s]) = s
      BY <1>2, <2>3, <3>1 DEF Store
    <3>4. adder' \in [Adders -> [pc : {"idle", "evict", "store", "publish"}, pos : Nat]]
      BY <1>2, <2>3 DEF Store
    <3>5. UNCHANGED <<head, count, reader, overtaken>> BY <2>3 DEF Store
    <3> QED BY <1>2, <3>2, <3>3, <3>4, <3>5
  <2>4. CASE LoadCount \/ LoadHead \/ Return
    <3>1. reader' \in [pc : {"idle", "head", "read", "panic"}, n : Int, start : Int,
                       got : Seq(Nat \cup {Nil}), late : SUBSET Nat]
      <4>1. CASE LoadCount
        <5>1. reader' = [pc |-> IF count > 0 THEN "head" ELSE "panic", n |-> count, start |-> 0,
                         got |-> <<>>, late |-> {}]
          BY <4>1 DEF LoadCount, NotReading
        <5> QED BY <1>2, <5>1
      <4>2. CASE LoadHead
        <5>1. head - reader.n \in Int /\ Unstored \in SUBSET Nat BY <1>2 DEF Unstored
        <5> QED BY <1>2, <4>2, <5>1 DEF LoadHead
      <4>3. CASE Return BY <4>3 DEF Return, NotReading
      <4> QED BY <2>4, <4>1, <4>2, <4>3
    <3>2. UNCHANGED <<head, count, data, adder, overtaken>>
      BY <2>4 DEF LoadCount, LoadHead, Return
    <3> QED BY <1>2, <3>1, <3>2
  <2>5. CASE ReadSlot
    <3>1. Slot(reader.start + Len(reader.got)) \in Slots
      BY <1>2, <2>5 DEF ReadSlot, Slot, Slots
    <3>2. data[Slot(reader.start + Len(reader.got))] \in Nat \cup {Nil} BY <1>2, <3>1
    <3>3. reader' = [reader EXCEPT !.got = Append(reader.got,
                                             data[Slot(reader.start + Len(reader.got))])]
      BY <2>5 DEF ReadSlot
    <3>4. reader' \in [pc : {"idle", "head", "read", "panic"}, n : Int, start : Int,
                       got : Seq(Nat \cup {Nil}), late : SUBSET Nat]
      <4>1. Append(reader.got, data[Slot(reader.start + Len(reader.got))]) \in Seq(Nat \cup {Nil})
        BY <1>2, <3>2
      <4> QED BY <1>2, <3>3, <4>1
    <3>5. UNCHANGED <<head, count, data, adder, overtaken>> BY <2>5 DEF ReadSlot
    <3> QED BY <1>2, <3>4, <3>5
  <2>6. CASE UNCHANGED vars BY <1>2, <2>6 DEF vars
  <2> QED BY <1>2, <2>1, <2>2, <2>3, <2>4, <2>5, <2>6 DEF Next
<1> QED BY <1>1, <1>2, PTL DEF Spec

-----------------------------------------------------------------------------
(* What a reader sees.                                                       *)
\* GetAll walks over positions that were taken, in as many slots; an Add of one of
\* them that has yet to store had yet to store when GetAll read head.
Walk ==
  /\ reader.pc = "head" => reader.n \in 1..Size /\ reader.n <= head
  /\ reader.pc = "read" => /\ reader.n \in 1..Size /\ reader.start \in Nat
                           /\ reader.start + reader.n <= head /\ Len(reader.got) <= reader.n
                           /\ \A p \in 0..(reader.start + reader.n - 1) :
                                InFlight(p) => p \in reader.late
  /\ reader.pc # "read" => reader.got = <<>>

\* What it has got came from the slot of its position, as it was Placed then.
GotAt(e, p) ==
  /\ e # Nil => Slot(e) = Slot(p)
  /\ \/ e # Nil /\ e >= p
     \/ p \in reader.late /\ (e = LapBefore(p) \/ p - Size \in overtaken)
     \/ e \in overtaken
Got == \A i \in DOMAIN reader.got : GotAt(reader.got[i], reader.start + i - 1)

\* Adds leave a reader alone.
LEMMA AddsKeepWalk ==
  ASSUME Walk, Got, TypeOK, NEW a \in Adders, Claim(a) \/ Evict(a) \/ Store(a) \/ Publish(a)
  PROVE  Walk' /\ Got'
<1>1. UNCHANGED reader /\ head \in Nat /\ head' \in {head, head + 1}
      /\ overtaken \subseteq overtaken'
  BY DEF Claim, ClaimWith, Evict, Store, Publish, TypeOK
<1>2. reader.n \in Int /\ reader.start \in Int BY DEF TypeOK
<1>3. ASSUME NEW p \in 0..(head - 1), InFlight(p)' PROVE InFlight(p)
  <2>1. PICK b \in Adders : adder'[b].pc \in {"evict", "store"} /\ adder'[b].pos = p
    BY <1>3 DEF InFlight
  <2>2. adder \in [Adders -> [pc : {"idle", "evict", "store", "publish"}, pos : Nat]]
    BY DEF TypeOK
  <2>3. CASE Claim(a)
    <3>1. adder'[a].pos = head BY <2>2, <2>3 DEF Claim, ClaimWith
    <3>2. b # a BY <1>1, <2>1, <3>1
    <3>3. adder'[b] = adder[b] BY <2>2, <2>3, <3>2 DEF Claim, ClaimWith
    <3> QED BY <2>1, <3>3 DEF InFlight
  <2>4. CASE Evict(a) \/ Store(a) \/ Publish(a)
    <3>1. adder[b].pc \in {"evict", "store"} /\ adder[b].pos = p
      BY <2>1, <2>2, <2>4 DEF Evict, Store, Publish
    <3> QED BY <3>1 DEF InFlight
  <2> QED BY <2>3, <2>4
<1>4. Walk'
  <2>1. (reader.pc = "head" => reader.n <= head') /\ (reader.pc = "read" => reader.start + reader.n <= head')
    BY <1>1, <1>2, SizeAssumption DEF Walk
  <2>2. ASSUME reader.pc = "read", NEW p \in 0..(reader.start + reader.n - 1), InFlight(p)'
        PROVE  p \in reader.late
    <3>1. p \in 0..(head - 1) BY <1>1, <1>2, <2>2 DEF Walk
    <3> QED BY <1>3, <2>2, <3>1 DEF Walk
  <2> QED BY <1>1, <2>1, <2>2 DEF Walk
<1>5. Got' BY <1>1 DEF Got, GotAt, Slot, LapBefore
<1> QED BY <1>4, <1>5

\* The count is that of slots filled at most, so that a walk meets no slot twice.
LEMMA LoadsKeepWalk ==
  ASSUME Walk, Got, TypeOK, CountAccounted, LoadCount \/ LoadHead \/ Return
  PROVE  Walk' /\ Got'
<1> USE SizeAssumption
<1>1. head \in Nat /\ count \in Int /\ UNCHANGED <<head, adder, overtaken>>
      /\ reader.n \in Int /\ reader.start \in Int
  BY DEF TypeOK, LoadCount, LoadHead, Return
<1>2. CASE LoadCount
  <2>1. reader' = [pc |-> IF count > 0 THEN "head" ELSE "panic", n |-> count, start |-> 0,
                   got |-> <<>>, late |-> {}]
    BY <1>2 DEF LoadCount, NotReading
  <2>2. count <= Filled /\ Filled \in Nat /\ Filled <= Size /\ Filled <= head
    <3>1. Cardinality(Uncounted) \in Nat BY UncountedFinite
    <3>2. Filled \in Nat /\ Filled <= Size /\ Filled <= head BY <1>1 DEF Filled
    <3> QED BY <3>1, <3>2 DEF CountAccounted
  <2>3. DOMAIN reader'.got = {} BY <2>1
  <2>4. Got' BY <2>3 DEF Got
  <2>5. Walk' BY <1>1, <2>1, <2>2 DEF Walk
  <2> QED BY <2>4, <2>5
<1>3. CASE LoadHead
  <2>1. /\ reader.pc = "head" /\ reader'.pc = "read" /\ reader'.start = head - reader.n
        /\ reader'.n = reader.n /\ reader'.got = reader.got /\ reader'.late = Unstored
    BY <1>3 DEF LoadHead, TypeOK
  <2>2. reader.got = <<>> /\ reader.n \in 1..Size /\ reader.n <= head BY <2>1 DEF Walk
  <2>3. Walk'
    <3>1. \A p : InFlight(p)' => p \in reader'.late
      BY <1>1, <2>1, UnstoredInFlight DEF InFlight
    <3>2. reader'.start \in Nat /\ reader'.start + reader'.n <= head /\ Len(reader'.got) <= reader'.n
      BY <1>1, <2>1, <2>2
    <3> QED BY <1>1, <2>1, <2>2, <3>1, <3>2 DEF Walk
  <2>4. DOMAIN reader'.got = {} BY <2>1, <2>2
  <2>5. Got' BY <2>4 DEF Got
  <2> QED BY <2>3, <2>5
<1>4. CASE Return
  <2>1. reader'.pc = "idle" /\ reader'.got = <<>> BY <1>4 DEF Return, NotReading
  <2>2. DOMAIN reader'.got = {} BY <2>1
  <2> QED BY <2>1, <2>2 DEF Walk, Got
<1> QED BY <1>2, <1>3, <1>4

\* The next position is Placed.
LEMMA ReadKeepsWalk ==
  ASSUME Walk, Got, TypeOK, Cells, ReadSlot
  PROVE  Walk' /\ Got'
<1> USE SizeAssumption
<1> DEFINE m == Len(reader.got)
           p == reader.start + m
           d == data[Slot(p)]
<1>1. /\ reader.pc = "read" /\ m \in Nat /\ m < reader.n /\ UNCHANGED <<head, data, adder, overtaken>>
      /\ reader' = [reader EXCEPT !.got = Append(reader.got, d)]
      /\ reader.got \in Seq(Nat \cup {Nil}) /\ head \in Nat
      /\ data \in [Slots -> Nat \cup {Nil}] /\ \A s \in Slots : data[s] # Nil => Slot(data[s]) = s
  BY DEF ReadSlot, TypeOK
<1>2. /\ reader.start \in Nat /\ reader.n \in 1..Size /\ reader.start + reader.n <= head
      /\ p \in 0..(head - 1)
  BY <1>1 DEF Walk
<1>3. Slot(p) \in Slots BY <1>2, SlotOfPosition DEF Slot
<1>4. d \in Nat \cup {Nil} /\ (d # Nil => Slot(d) = Slot(p)) BY <1>1, <1>3
<1>5. GotAt(d, p)
  <2>1. Placed(p) BY <1>2 DEF Cells
  <2>2. InFlight(p) => p \in reader.late
    <3>1. p \in 0..(reader.start + reader.n - 1) BY <1>1, <1>2
    <3> QED BY <1>1, <3>1 DEF Walk
  <2> QED BY <1>4, <2>1, <2>2 DEF Placed, GotAt
<1> HIDE DEF d
<1>6. /\ reader'.pc = "read" /\ reader'.n = reader.n /\ reader'.start = reader.start
      /\ reader'.late = reader.late
      /\ reader'.got = Append(reader.got, d)
  BY <1>1 DEF TypeOK
<1>7. /\ Len(reader'.got) = m + 1 /\ DOMAIN reader'.got = 1..(m + 1)
      /\ reader'.got[m + 1] = d /\ \A i \in 1..m : reader'.got[i] = reader.got[i]
  BY <1>1, <1>4, <1>6
<1>8. Walk'
  <2>1. \A r : InFlight(r)' => InFlight(r) BY <1>1 DEF InFlight
  <2> QED BY <1>1, <1>2, <1>6, <1>7, <2>1 DEF Walk
<1>9. Got'
  <2> SUFFICES ASSUME NEW i \in 1..(m + 1)
               PROVE  GotAt(reader'.got[i], reader.start + i - 1)
    BY <1>1, <1>6, <1>7 DEF Got, GotAt, Slot, LapBefore
  <2>1. CASE i = m + 1
    <3>1. reader.start + i - 1 = p BY <1>1, <1>2, <2>1
    <3> QED BY <1>4, <1>5, <1>7, <2>1, <3>1
  <2>2. CASE i # m + 1
    <3>1. i \in 1..m /\ DOMAIN reader.got = 1..m BY <1>1, <2>2
    <3> QED BY <1>7, <3>1 DEF Got
  <2> QED BY <2>1, <2>2
<1> QED BY <1>8, <1>9

\* A walk of no more positions than slots gets no element twice.
LEMMA GotOnce ==
  ASSUME Walk, Got, TypeOK, NEW i \in DOMAIN reader.got, NEW j \in DOMAIN reader.got, j # i,
         reader.got[i] # Nil
  PROVE  reader.got[j] # reader.got[i]
<1> USE SizeAssumption
<1> SUFFICES ASSUME reader.got[j] = reader.got[i] PROVE FALSE
  OBVIOUS
<1>1. /\ reader.got \in Seq(Nat \cup {Nil}) /\ DOMAIN reader.got = 1..Len(reader.got)
      /\ Len(reader.got) \in Nat
  BY DEF TypeOK
<1>2. reader.got # <<>> BY <1>1
<1>3. /\ reader.start \in Nat /\ reader.n \in 1..Size /\ Len(reader.got) <= reader.n
      /\ i \in 1..Len(reader.got) /\ j \in 1..Len(reader.got)
  BY <1>1, <1>2 DEF Walk
<1> DEFINE p == reader.start + i - 1
           q == reader.start + j - 1
<1>4. p \in Nat /\ q \in Nat /\ p - q < Size /\ q - p < Size /\ p # q
  <2>1. ASSUME NEW b \in Nat, NEW n \in 1..Size, NEW l \in Nat, l <= n,
               NEW x \in 1..l, NEW y \in 1..l, x # y
        PROVE  /\ b + x - 1 \in Nat /\ b + y - 1 \in Nat
               /\ (b + x - 1) - (b + y - 1) < Size /\ (b + y - 1) - (b + x - 1) < Size
               /\ b + x - 1 # b + y - 1
    BY <2>1
  <2> QED BY <1>1, <1>3, <2>1
<1>5. Slot(reader.got[i]) = Slot(p) /\ Slot(reader.got[i]) = Slot(q) BY DEF Got, GotAt
<1> HIDE DEF p, q
<1> QED BY <1>4, <1>5, SlotsApart

\* Whatever Adds run during a GetAll, it returns no element twice, and in the place
\* of each position that element or a newer one, unless the Add of the position
\* had yet to store when GetAll read head: there it may find the element of the
\* lap before, or nil in the first lap.  Where an Add was overtaken by a whole
\* lap, its element may come instead, or one older
\* (lock_free_circular_buffer.go:39-58).
THEOREM ReadersSeeRecent == Spec => []ReadsAreRecent
<1>1. Init => Walk /\ Got
  <2> SUFFICES ASSUME Init PROVE Walk /\ Got
    OBVIOUS
  <2>1. reader.pc = "idle" /\ reader.got = <<>> BY DEF Init, NotReading
  <2>2. DOMAIN reader.got = {} BY <2>1
  <2> QED BY <2>1, <2>2 DEF Walk, Got
<1>2. ASSUME Cells, TypeOK, CountAccounted, Walk, Got, [Next]_vars
      PROVE  Walk' /\ Got'
  <2>1. ASSUME UNCHANGED vars PROVE Walk' /\ Got'
    BY <1>2, <2>1 DEF vars, Walk, Got, GotAt, Slot, LapBefore, InFlight
  <2> QED BY <1>2, <2>1, AddsKeepWalk, LoadsKeepWalk, ReadKeepsWalk DEF Next
<1>3. Walk /\ Got /\ TypeOK => ReadsAreRecent
  BY GotOnce DEF Got, GotAt, ReadsAreRecent
<1> QED BY <1>1, <1>2, <1>3, CountExact, CellsTyped, CellsKept, PTL DEF Spec

-----------------------------------------------------------------------------
(* A loop over a sequence.                                                    *)
\* A set of numbers that is not empty has a least one.
LEMMA Least ==
  ASSUME NEW S \in SUBSET Nat, S # {}
  PROVE  \E m \in S : \A n \in S : m <= n
<1>1. PICK m \in S : \A n \in S : ~(<<n, m>> \in OpToRel(<, Nat))
  BY NatLessThanWellFounded, WFMin
<1>2. \A n \in S : m <= n
  <2> SUFFICES ASSUME NEW n \in S, n < m PROVE FALSE
    OBVIOUS
  <2>1. <<n, m>> \in Nat \X Nat /\ <<n, m>>[1] < <<n, m>>[2]
    OBVIOUS
  <2>2. <<n, m>> \in OpToRel(<, Nat)
    BY <2>1, Zenon DEF OpToRel
  <2> QED BY <1>1, <2>2
<1> QED BY <1>2

\* What it means to be the loop over s that begins with x.
Loops(after, step, x, s) ==
  after[0] = x /\ \A i \in Nat : after[i + 1] = step[after[i]][s[i + 1]]

\* After is that loop: the function that its recursion asks for exists.
LEMMA AfterSteps ==
  ASSUME NEW step, NEW x, NEW s
  PROVE  Loops(After(step, x, s), step, x, s)
<1> DEFINE Approx(n, h) == h = [i \in 0..n |-> IF i = 0 THEN x ELSE step[h[i - 1]][s[i]]]
<1>1. \A n \in Nat : \E h : Approx(n, h)
  <2> DEFINE Missing == {n \in Nat : ~\E h : Approx(n, h)}
  <2> SUFFICES ASSUME Missing # {} PROVE FALSE
    OBVIOUS
  <2>1. PICK n \in Missing : \A m \in Missing : n <= m
    <3>1. Missing \in SUBSET Nat OBVIOUS
    <3> HIDE DEF Missing
    <3> QED BY <3>1, Least
  <2>2. CASE n = 0
    <3> DEFINE h == [i \in 0..0 |-> x]
    <3>1. h = [i \in 0..0 |-> IF i = 0 THEN x ELSE step[h[i - 1]][s[i]]]
      <4>1. \A i \in 0..0 : i = 0 OBVIOUS
      <4> QED BY <4>1
    <3> QED BY <2>2, <3>1
  <2>3. CASE n # 0
    <3>1. n \in Nat /\ n - 1 \in Nat /\ n - 1 \notin Missing
      <4>1. n \in Nat
        BY <2>1
      <4>2. n - 1 \in Nat /\ ~(n <= n - 1)
        BY <2>3, <4>1
      <4> HIDE DEF Missing
      <4> QED BY <2>1, <4>1, <4>2
    <3>2. PICK h : Approx(n - 1, h)
      BY <3>1
    <3> DEFINE g == [i \in 0..n |-> IF i = 0 THEN x ELSE step[h[i - 1]][s[i]]]
    <3>3. ASSUME NEW e \in 0..(n - 1) PROVE h[e] = g[e]
      <4>1. h[e] = IF e = 0 THEN x ELSE step[h[e - 1]][s[e]]
        BY <3>2
      <4>2. e \in 0..n
        BY <3>1
      <4> QED BY <4>1, <4>2
    <3>4. ASSUME NEW i \in 0..n, i # 0 PROVE h[i - 1] = g[i - 1]
      <4>1. i - 1 \in 0..(n - 1)
        BY <3>1, <3>4
      <4> QED BY <3>3, <4>1
    <3>5. g = [i \in 0..n |-> IF i = 0 THEN x ELSE step[g[i - 1]][s[i]]]
      <4> DEFINE k == [i \in 0..n |-> IF i = 0 THEN x ELSE step[g[i - 1]][s[i]]]
      <4>1. ASSUME NEW i \in 0..n PROVE g[i] = k[i]
        BY <3>4, <4>1
      <4> QED BY <4>1
    <3> QED BY <2>1, <3>5
  <2> QED BY <2>2, <2>3
<1>2. ASSUME NEW n \in Nat, NEW m \in Nat, NEW h, NEW k, Approx(n, h), Approx(m, k)
      PROVE  \A i \in 0..n : i \in 0..m => h[i] = k[i]
  <2> DEFINE Apart == {i \in 0..n : i \in 0..m /\ h[i] # k[i]}
  <2> SUFFICES ASSUME Apart # {} PROVE FALSE
    OBVIOUS
  <2>1. PICK i \in Apart : \A e \in Apart : i <= e
    <3>1. Apart \in SUBSET Nat OBVIOUS
    <3> HIDE DEF Apart
    <3> QED BY <3>1, Least
  <2>2. /\ h[i] = IF i = 0 THEN x ELSE step[h[i - 1]][s[i]]
        /\ k[i] = IF i = 0 THEN x ELSE step[k[i - 1]][s[i]]
    BY <1>2, <2>1
  <2>3. i # 0 => i - 1 \in 0..n /\ i - 1 \in 0..m /\ i - 1 \notin Apart
    BY <2>1
  <2> QED BY <2>1, <2>2, <2>3
<1> DEFINE h(n) == CHOOSE h : Approx(n, h)
           G == [i \in Nat |-> h(i)[i]]
<1>3. ASSUME NEW n \in Nat PROVE Approx(n, h(n))
  BY <1>1, Zenon
<1>4. G = [i \in Nat |-> IF i = 0 THEN x ELSE step[G[i - 1]][s[i]]]
  <2> DEFINE k == [i \in Nat |-> IF i = 0 THEN x ELSE step[G[i - 1]][s[i]]]
  <2>1. ASSUME NEW i \in Nat PROVE G[i] = k[i]
    <3> HIDE DEF h
    <3>1. h(i)[i] = IF i = 0 THEN x ELSE step[h(i)[i - 1]][s[i]]
      <4>1. Approx(i, h(i))
        BY <1>3
      <4>2. i \in 0..i
        OBVIOUS
      <4> QED BY <4>1, <4>2
    <3>2. CASE i # 0
      <4>1. i - 1 \in Nat /\ i - 1 \in 0..i /\ i - 1 \in 0..(i - 1)
        BY <3>2
      <4>2. Approx(i, h(i)) /\ Approx(i - 1, h(i - 1))
        BY <1>3, <4>1
      <4> HIDE DEF Approx
      <4>3. h(i)[i - 1] = h(i - 1)[i - 1]
        BY <1>2, <4>1, <4>2
      <4> QED BY <3>1, <3>2, <4>1, <4>3
    <3> QED BY <3>1, <3>2
  <2> HIDE DEF h
  <2> QED BY <2>1
<1>5. After(step, x, s)
        = [i \in Nat |-> IF i = 0 THEN x ELSE step[After(step, x, s)[i - 1]][s[i]]]
  <2> HIDE DEF G
  <2> QED BY <1>4, Zenon DEF After
<1> HIDE DEF Approx, h, G
<1>6. After(step, x, s)[0] = x
  BY <1>5
<1>7. ASSUME NEW i \in Nat PROVE After(step, x, s)[i + 1] = step[After(step, x, s)[i]][s[i + 1]]
  <2>1. i + 1 \in Nat /\ i + 1 # 0 /\ (i + 1) - 1 = i
    OBVIOUS
  <2> QED BY <1>5, <2>1
<1> QED BY <1>6, <1>7 DEF Loops

\* The states of a loop whose step stays within S are in S.
LEMMA AfterTyped ==
  ASSUME NEW S, NEW E, NEW step \in [S -> [E -> S]], NEW x \in S, NEW s \in Seq(E)
  PROVE  \A i \in 0..Len(s) : After(step, x, s)[i] \in S
<1> DEFINE A == After(step, x, s)
<1>1. A[0] = x /\ \A i \in Nat : A[i + 1] = step[A[i]][s[i + 1]]
  <2>1. Loops(A, step, x, s) BY AfterSteps
  <2> QED BY <2>1 DEF Loops
<1> HIDE DEF A
<1> DEFINE Outside == {i \in 0..Len(s) : A[i] \notin S}
<1>2. Outside = {}
  <2> SUFFICES ASSUME Outside # {} PROVE FALSE
    OBVIOUS
  <2>1. PICK i \in Outside : \A e \in Outside : i <= e
    <3>1. Outside \in SUBSET Nat OBVIOUS
    <3> HIDE DEF Outside
    <3> QED BY <3>1, Least
  <2>2. i # 0
    BY <1>1, <2>1
  <2>3. i - 1 \in 0..Len(s) /\ i - 1 \in Nat /\ i - 1 \notin Outside /\ (i - 1) + 1 = i
    BY <2>1, <2>2
  <2>4. s[i] \in E /\ A[i - 1] \in S
    BY <2>1, <2>2, <2>3
  <2>5. A[i] = step[A[i - 1]][s[i]]
    BY <1>1, <2>3
  <2> QED BY <2>1, <2>4, <2>5
<1> QED BY <1>2 DEF A

\* A loop over two sequences in turn is a loop over the whole.
LEMMA FoldConcat ==
  ASSUME NEW step, NEW x, NEW E, NEW s \in Seq(E), NEW t \in Seq(E)
  PROVE  Fold(step, x, s \o t) = Fold(step, Fold(step, x, s), t)
<1> DEFINE A == After(step, x, s)
           B == After(step, x, s \o t)
           C == After(step, A[Len(s)], t)
<1>0. s \o t \in Seq(E) /\ Len(s \o t) = Len(s) + Len(t) /\ Len(s) \in Nat /\ Len(t) \in Nat
  OBVIOUS
<1>4. /\ A[0] = x /\ \A i \in Nat : A[i + 1] = step[A[i]][s[i + 1]]
      /\ B[0] = x /\ \A i \in Nat : B[i + 1] = step[B[i]][(s \o t)[i + 1]]
      /\ C[0] = A[Len(s)] /\ \A i \in Nat : C[i + 1] = step[C[i]][t[i + 1]]
  <2>1. Loops(A, step, x, s) BY AfterSteps
  <2>2. Loops(B, step, x, s \o t) BY AfterSteps
  <2>3. Loops(C, step, A[Len(s)], t)
    <3> HIDE DEF A
    <3> QED BY AfterSteps
  <2> HIDE DEF A, B, C
  <2> QED BY <2>1, <2>2, <2>3 DEF Loops
<1> HIDE DEF A, B, C
<1>1. \A i \in 0..Len(s) : B[i] = A[i]
  <2> DEFINE Apart == {i \in 0..Len(s) : B[i] # A[i]}
  <2> SUFFICES ASSUME Apart # {} PROVE FALSE
    OBVIOUS
  <2>1. PICK i \in Apart : \A e \in Apart : i <= e
    <3>1. Apart \in SUBSET Nat OBVIOUS
    <3> HIDE DEF Apart
    <3> QED BY <3>1, Least
  <2>2. i # 0
    BY <1>4, <2>1
  <2>3. i - 1 \in 0..Len(s) /\ i - 1 \in Nat /\ i - 1 \notin Apart /\ (i - 1) + 1 = i
    BY <2>1, <2>2
  <2>4. (s \o t)[i] = s[i]
    BY <2>1, <2>2
  <2>5. A[i] = step[A[i - 1]][s[i]] /\ B[i] = step[B[i - 1]][(s \o t)[i]]
    BY <1>4, <2>3
  <2> QED BY <2>1, <2>3, <2>4, <2>5
<1>2. \A j \in 0..Len(t) : B[Len(s) + j] = C[j]
  <2> DEFINE Apart == {j \in 0..Len(t) : B[Len(s) + j] # C[j]}
  <2> SUFFICES ASSUME Apart # {} PROVE FALSE
    OBVIOUS
  <2>1. PICK j \in Apart : \A e \in Apart : j <= e
    <3>1. Apart \in SUBSET Nat OBVIOUS
    <3> HIDE DEF Apart
    <3> QED BY <3>1, Least
  <2>2. j # 0
    <3>1. B[Len(s) + 0] = A[Len(s)] BY <1>0, <1>1
    <3> QED BY <1>4, <2>1, <3>1
  <2>3. j - 1 \in 0..Len(t) /\ j - 1 \in Nat /\ j - 1 \notin Apart /\ (j - 1) + 1 = j
        /\ Len(s) + (j - 1) \in Nat /\ (Len(s) + (j - 1)) + 1 = Len(s) + j
    BY <1>0, <2>1, <2>2
  <2>4. (s \o t)[Len(s) + j] = t[j]
    BY <1>0, <2>1, <2>2
  <2>5. C[j] = step[C[j - 1]][t[j]]
    BY <1>4, <2>3
  <2>7. B[Len(s) + j] = step[B[Len(s) + (j - 1)]][(s \o t)[Len(s) + j]]
    BY <1>4, <2>3
  <2>6. B[Len(s) + (j - 1)] = C[j - 1]
    BY <2>3
  <2> QED BY <2>1, <2>4, <2>5, <2>6, <2>7
<1>3. B[Len(s \o t)] = C[Len(t)]
  BY <1>0, <1>2
<1> QED BY <1>3 DEF Fold, A, B, C

-----------------------------------------------------------------------------
Octets == [0..7 -> {0, 1}]

\* The operations on words and bytes give words and bytes.
LEMMA WordsClosed ==
  /\ \A n \in Int : Word(n) \in Words /\ Octet(n) \in Octets
  /\ \A u, v \in Words : Xor(u, v) \in Words
  /\ \A u, v \in Octets : Xor(u, v) \in Octets
  /\ \A w \in Words, k \in 0..15 : ShiftLeft(w, k) \in Words
  /\ \A w \in Words : HighByte(w) \in Octets /\ ReverseBits(16, w) \in Words
  /\ \A o \in Octets : ReverseBits(8, o) \in Octets
<1>1. \A n \in Int : Word(n) \in Words /\ Octet(n) \in Octets
  BY DEF Word, Octet, Words, Octets
<1>2. \A u, v \in Words : Xor(u, v) \in Words
  BY DEF Xor, Words
<1>3. \A u, v \in Octets : Xor(u, v) \in Octets
  BY DEF Xor, Octets
<1>4. \A w \in Words, k \in 0..15 : ShiftLeft(w, k) \in Words
  BY DEF ShiftLeft, Words
<1>5. \A w \in Words : HighByte(w) \in Octets /\ ReverseBits(16, w) \in Words
  BY DEF HighByte, ReverseBits, Words, Octets
<1>6. \A o \in Octets : ReverseBits(8, o) \in Octets
  BY DEF ReverseBits, Octets
<1> QED BY <1>1, <1>2, <1>3, <1>4, <1>5, <1>6

LEMMA ShiftClosed ==
  ASSUME NEW poly \in Words, NEW crc \in Words
  PROVE  Shift(poly, crc) \in Words
BY WordsClosed DEF Shift

\* Eight rounds of MakeTable.
Rows(poly, n) ==
  After([crc \in Words |-> [i \in 1..8 |-> Shift(poly, crc)]],
        [i \in 0..15 |-> IF i < 8 THEN 0 ELSE n[i - 8]], [i \in 1..8 |-> i])

\* An entry is made in eight steps, each a shift of the one before.
LEMMA RowsSteps ==
  ASSUME NEW poly \in Words, NEW n \in Octets
  PROVE  /\ Rows(poly, n)[0] = [i \in 0..15 |-> IF i < 8 THEN 0 ELSE n[i - 8]]
         /\ \A k \in 0..8 : Rows(poly, n)[k] \in Words
         /\ \A k \in 0..7 : Rows(poly, n)[k + 1] = Shift(poly, Rows(poly, n)[k])
         /\ TableEntry(poly, n) = Rows(poly, n)[8]
<1> DEFINE step == [crc \in Words |-> [i \in 1..8 |-> Shift(poly, crc)]]
           first == [i \in 0..15 |-> IF i < 8 THEN 0 ELSE n[i - 8]]
           rounds == [i \in 1..8 |-> i]
           A == After(step, first, rounds)
<1>1. step \in [Words -> [1..8 -> Words]]
  BY ShiftClosed
<1>2. first \in Words
  BY DEF Octets, Words
<1>3. rounds \in Seq(1..8) /\ Len(rounds) = 8
  OBVIOUS
<1>4. A[0] = first /\ \A i \in Nat : A[i + 1] = step[A[i]][rounds[i + 1]]
  <2>1. Loops(A, step, first, rounds) BY AfterSteps
  <2> QED BY <2>1 DEF Loops
<1>5. \A k \in 0..8 : A[k] \in Words
  <2> HIDE DEF step, first, rounds
  <2> QED BY <1>1, <1>2, <1>3, AfterTyped
<1>6. \A k \in 0..7 : A[k + 1] = Shift(poly, A[k])
  <2> SUFFICES ASSUME NEW k \in 0..7 PROVE A[k + 1] = Shift(poly, A[k])
    OBVIOUS
  <2>1. A[k + 1] = step[A[k]][rounds[k + 1]]
    <3> HIDE DEF A, step, rounds
    <3> QED BY <1>4
  <2>2. A[k] \in Words /\ rounds[k + 1] \in 1..8
    BY <1>5
  <2> HIDE DEF A
  <2> QED BY <2>1, <2>2
<1>7. TableEntry(poly, n) = A[8]
  <2>1. TableEntry(poly, n) = A[Len(rounds)]
    BY DEF TableEntry, Fold
  <2> QED BY <1>3, <2>1
<1> QED BY <1>4, <1>5, <1>6, <1>7 DEF Rows



\* Eight bits of the circuit are one step of the table: what the table adds is what
\* the high byte of the register, together with the byte, becomes in eight shifts.
LEMMA EightBits ==
  ASSUME NEW p, p.poly \in Words, NEW crc \in Words, NEW o \in Octets, NEW g, g[0] = crc,
         \A j \in 0..7 : g[j + 1] = Circuit(p, g[j], o[7 - j])
  PROVE  g[8] = Xor(ShiftLeft(crc, 8), TableEntry(p.poly, Xor(HighByte(crc), o)))
<1> DEFINE n == Xor(HighByte(crc), o)
           T == Rows(p.poly, n)
           Rest(k) == [i \in 0..15 |-> IF i < k THEN 0
                                       ELSE IF i < k + 8 THEN crc[i - k] ELSE o[i - 8 - k]]
<1>1. n \in Octets
  BY WordsClosed
<1>2. /\ T[0] = [i \in 0..15 |-> IF i < 8 THEN 0 ELSE n[i - 8]]
      /\ \A k \in 0..8 : T[k] \in Words
      /\ \A k \in 0..7 : T[k + 1] = Shift(p.poly, T[k])
      /\ TableEntry(p.poly, n) = T[8]
  <2> HIDE DEF n
  <2> QED BY <1>1, RowsSteps
<1>3. \A k \in 0..8 : Rest(k) \in Words
  BY DEF Words, Octets
<1>4. g[0] = Xor(T[0], Rest(0))
  <2>1. \A i \in 0..7 : n[i] = IF crc[i + 8] = o[i] THEN 0 ELSE 1
    BY DEF Xor, HighByte
  <2> HIDE DEF n, T
  <2> DEFINE x == Xor(T[0], Rest(0))
  <2>2. x = [i \in 0..15 |-> IF T[0][i] = Rest(0)[i] THEN 0 ELSE 1]
    BY <1>2 DEF Xor
  <2>3. \A i \in 0..15 : x[i] = crc[i]
    <3> SUFFICES ASSUME NEW i \in 0..15 PROVE x[i] = crc[i]
      OBVIOUS
    <3>1. CASE i < 8
      BY <1>2, <2>2, <3>1 DEF Words
    <3>2. CASE ~(i < 8)
      <4>1. i - 8 \in 0..7 /\ (i - 8) + 8 = i BY <3>2
      <4>2. T[0][i] = (IF crc[i] = o[i - 8] THEN 0 ELSE 1) /\ Rest(0)[i] = o[i - 8]
        BY <1>2, <2>1, <3>2, <4>1
      <4> QED BY <2>2, <4>1, <4>2 DEF Words, Octets
    <3> QED BY <3>1, <3>2
  <2>4. x \in Words BY <1>2, <1>3, WordsClosed
  <2> HIDE DEF x
  <2>5. x = crc BY <2>3, <2>4 DEF Words
  <2> QED BY <2>5 DEF x
<1> HIDE DEF n, T
<1>5. ASSUME NEW k \in 0..7, g[k] = Xor(T[k], Rest(k))
      PROVE  g[k + 1] = Xor(T[k + 1], Rest(k + 1))
  <2>1. g[k + 1] = Circuit(p, g[k], o[7 - k]) /\ T[k] \in Words /\ Rest(k) \in Words
        /\ T[k + 1] = Shift(p.poly, T[k])
    BY <1>2, <1>3
  <2>2. Rest(k)[15] = o[7 - k]
    BY DEF Words
  <2>3. Rest(k + 1) = ShiftLeft(Rest(k), 1)
    <3>1. \A i \in 0..15 : Rest(k + 1)[i] = ShiftLeft(Rest(k), 1)[i]
      BY DEF ShiftLeft
    <3> QED BY <3>1 DEF ShiftLeft
  <2> DEFINE t == T[k]
             r == Rest(k)
             u == Xor(t, r)
  <2>4. t \in Words /\ r \in Words /\ u \in Words
    BY <2>1, WordsClosed
  <2>5. u = [i \in 0..15 |-> IF t[i] = r[i] THEN 0 ELSE 1]
    BY <2>4, SMTT(30) DEF Xor, Words
  <2>6. u[15] # o[7 - k] <=> t[15] = 1
    BY <2>2, <2>4, <2>5 DEF Words, Octets
  <2> HIDE DEF t, r, u, Rest
  <2>7. ShiftLeft(u, 1) = Xor(ShiftLeft(t, 1), ShiftLeft(r, 1))
    BY <2>4, <2>5 DEF ShiftLeft, Xor, Words
  <2>8. CASE t[15] = 1
    <3>1. g[k + 1] = Xor(ShiftLeft(u, 1), p.poly)
      BY <1>5, <2>1, <2>6, <2>8 DEF Circuit, t, r, u
    <3>2. T[k + 1] = Xor(ShiftLeft(t, 1), p.poly)
      BY <2>1, <2>8 DEF Shift, t
    <3> DEFINE a == ShiftLeft(t, 1)
               b == ShiftLeft(r, 1)
    <3>3. a \in Words /\ b \in Words
      BY <2>4, WordsClosed
    <3> HIDE DEF a, b
    <3>4. Xor(Xor(a, b), p.poly) = Xor(Xor(a, p.poly), b)
      BY <3>3 DEF Xor, Words
    <3> QED BY <2>3, <2>7, <3>1, <3>2, <3>4 DEF r, a, b
  <2>9. CASE t[15] # 1
    <3>1. g[k + 1] = ShiftLeft(u, 1)
      BY <1>5, <2>1, <2>6, <2>9 DEF Circuit, t, r, u
    <3>2. T[k + 1] = ShiftLeft(t, 1)
      BY <2>1, <2>9 DEF Shift, t
    <3> QED BY <2>3, <2>7, <3>1, <3>2 DEF r
  <2> QED BY <2>8, <2>9
<1>6. g[8] = Xor(T[8], Rest(8))
  <2> DEFINE P(k) == g[k] = Xor(T[k], Rest(k))
  <2>1. \A k \in 0..7 : P(k) => P(k + 1) BY <1>5
  <2>2. P(0) BY <1>4
  <2> HIDE DEF P
  <2>3. P(1) /\ P(2) /\ P(3) /\ P(4)
    <3>1. P(0 + 1) BY <2>1, <2>2
    <3>2. P(1 + 1) BY <2>1, <3>1
    <3>3. P(2 + 1) BY <2>1, <3>2
    <3>4. P(3 + 1) BY <2>1, <3>3
    <3> QED BY <3>1, <3>2, <3>3, <3>4
  <2>4. P(5) /\ P(6) /\ P(7) /\ P(8)
    <3>1. P(4 + 1) BY <2>1, <2>3
    <3>2. P(5 + 1) BY <2>1, <3>1
    <3>3. P(6 + 1) BY <2>1, <3>2
    <3>4. P(7 + 1) BY <2>1, <3>3
    <3> QED BY <3>1, <3>2, <3>3, <3>4
  <2> QED BY <2>4 DEF P
<1>7. Rest(8) = ShiftLeft(crc, 8)
  BY DEF ShiftLeft
<1>8. ShiftLeft(crc, 8) \in Words /\ T[8] \in Words
  BY <1>2, WordsClosed
<1>9. Xor(T[8], ShiftLeft(crc, 8)) = Xor(ShiftLeft(crc, 8), T[8])
  BY <1>8 DEF Xor, Words
<1> QED BY <1>2, <1>6, <1>7, <1>9 DEF n



Parameters(p) ==
  /\ p.poly \in Words /\ p.init \in Words /\ p.xorOut \in Words
  /\ {p.refIn, p.refOut} \subseteq BOOLEAN
Circuits(p) == [crc \in Words |-> [b \in {0, 1} |-> Circuit(p, crc, b)]]
Updates(p) == [acc \in Words |-> [d \in 0..255 |-> Update(p, acc, d)]]

\* The byte as Update takes it.
Turned(p, d) == IF p.refIn THEN ReverseBits(8, Octet(d)) ELSE Octet(d)

\* Both the table loop and the circuit stay within words.
LEMMA UpdateTyped ==
  ASSUME NEW p, Parameters(p)
  PROVE  /\ \A crc \in Words, d \in 0..255 : Turned(p, d) \in Octets /\ Update(p, crc, d) \in Words
         /\ \A crc \in Words, b \in {0, 1} : Circuit(p, crc, b) \in Words
<1>1. \A d \in 0..255 : Turned(p, d) \in Octets
  BY WordsClosed DEF Turned
<1>2. ASSUME NEW crc \in Words, NEW d \in 0..255 PROVE Update(p, crc, d) \in Words
  <2> DEFINE n == Xor(HighByte(crc), Turned(p, d))
  <2>1. n \in Octets BY <1>1, WordsClosed
  <2>2. TableEntry(p.poly, n) \in Words
    <3> HIDE DEF n
    <3>1. p.poly \in Words BY DEF Parameters
    <3>2. TableEntry(p.poly, n) = Rows(p.poly, n)[8] /\ \A k \in 0..8 : Rows(p.poly, n)[k] \in Words
      BY <2>1, <3>1, RowsSteps
    <3> QED BY <3>2
  <2>3. Update(p, crc, d) = Xor(ShiftLeft(crc, 8), TableEntry(p.poly, n))
    BY DEF Update, Turned
  <2> HIDE DEF n
  <2> QED BY <2>2, <2>3, WordsClosed
<1>3. \A crc \in Words, b \in {0, 1} : Circuit(p, crc, b) \in Words
  BY WordsClosed DEF Circuit, Parameters
<1> QED BY <1>1, <1>2, <1>3

\* The bits of a byte in the message, in the order of the circuit.
LEMMA BitsOfMessage ==
  ASSUME NEW p, Parameters(p), NEW bytes \in Seq(0..255), NEW k \in 0..(Len(bytes) - 1),
         NEW j \in 0..7
  PROVE  /\ 8 * k + j \in Nat /\ 8 * k + j + 1 \in 1..(8 * Len(bytes))
         /\ MessageBits(p, bytes)[8 * k + j + 1] = Turned(p, bytes[k + 1])[7 - j]
<1>1. 8 * k + j + 1 \in 1..(8 * Len(bytes)) /\ 8 * k + j \in Nat
  OBVIOUS
<1>2. ((8 * k + j + 1) - 1) \div 8 = k /\ ((8 * k + j + 1) - 1) % 8 = j
  OBVIOUS
<1>3. 1 + k = k + 1
  OBVIOUS
<1> DEFINE o == Octet(bytes[k + 1])
<1>4. MessageBits(p, bytes)[8 * k + j + 1] = o[IF p.refIn THEN j ELSE 7 - j]
  BY <1>1, <1>2, <1>3 DEF MessageBits
<1>5. ReverseBits(8, o)[7 - j] = o[j]
  <2> HIDE DEF o
  <2> QED BY DEF ReverseBits
<1> QED BY <1>1, <1>4, <1>5 DEF Turned

\* A bit of the message is of a byte of the message.
LEMMA PlaceOfBit ==
  ASSUME NEW len \in Nat, NEW i \in 1..(8 * len)
  PROVE  (i - 1) \div 8 \in 0..(len - 1) /\ (i - 1) % 8 \in 0..7
OBVIOUS

LEMMA ElementsOf ==
  ASSUME NEW E, NEW s \in Seq(E)
  PROVE  Len(s) \in Nat /\ \A i \in 1..Len(s) : s[i] \in E
OBVIOUS

\* A message of so many bytes has eight times as many bits.
LEMMA MessageBitsTyped ==
  ASSUME NEW p, Parameters(p), NEW bytes \in Seq(0..255)
  PROVE  MessageBits(p, bytes) \in Seq({0, 1}) /\ Len(MessageBits(p, bytes)) = 8 * Len(bytes)
<1>1. ASSUME NEW i \in 1..(8 * Len(bytes)) PROVE MessageBits(p, bytes)[i] \in {0, 1}
  <2> DEFINE q == (i - 1) \div 8
             place == (i - 1) % 8
             d == bytes[1 + q]
  <2>0. Len(bytes) \in Nat /\ \A e \in 1..Len(bytes) : bytes[e] \in 0..255
    BY ElementsOf
  <2>1. q \in 0..(Len(bytes) - 1) /\ place \in 0..7
    BY <2>0, PlaceOfBit
  <2>2. MessageBits(p, bytes)[i] = Octet(d)[IF p.refIn THEN place ELSE 7 - place]
    BY DEF MessageBits
  <2> HIDE DEF q, place
  <2>3. d \in 0..255
    <3>1. 1 + q \in 1..Len(bytes) BY <2>0, <2>1
    <3> QED BY <2>0, <3>1
  <2> HIDE DEF d
  <2>4. Octet(d) \in Octets BY <2>3, WordsClosed
  <2> QED BY <2>1, <2>2, <2>4 DEF Octets
<1>2. MessageBits(p, bytes) = [i \in 1..(8 * Len(bytes)) |-> MessageBits(p, bytes)[i]]
  BY DEF MessageBits
<1> QED BY <1>1, <1>2

\* The register after so many bytes is that of the circuit after eight times as many bits.
LEMMA ByteByByte ==
  ASSUME NEW p, Parameters(p), NEW bytes \in Seq(0..255)
  PROVE  Fold(Updates(p), p.init, bytes) = Fold(Circuits(p), p.init, MessageBits(p, bytes))
<1> DEFINE bits == MessageBits(p, bytes)
           F == After(Updates(p), p.init, bytes)
           G == After(Circuits(p), p.init, bits)
<1>0. Len(bytes) \in Nat /\ \A i \in 1..Len(bytes) : bytes[i] \in 0..255
  BY ElementsOf
<1>1. bits \in Seq({0, 1}) /\ Len(bits) = 8 * Len(bytes)
  BY MessageBitsTyped
<1>2. Updates(p) \in [Words -> [0..255 -> Words]] /\ Circuits(p) \in [Words -> [{0, 1} -> Words]]
  BY UpdateTyped DEF Updates, Circuits
<1>3. /\ F[0] = p.init /\ \A i \in Nat : F[i + 1] = Updates(p)[F[i]][bytes[i + 1]]
      /\ G[0] = p.init /\ \A i \in Nat : G[i + 1] = Circuits(p)[G[i]][bits[i + 1]]
  <2>1. Loops(F, Updates(p), p.init, bytes) /\ Loops(G, Circuits(p), p.init, bits)
    BY AfterSteps, Zenon
  <2> QED BY <2>1 DEF Loops
<1>4. \A k \in 0..Len(bytes) : F[k] \in Words
  <2>1. p.init \in Words BY DEF Parameters
  <2> DEFINE Byte == 0..255
  <2>2. bytes \in Seq(Byte) /\ Updates(p) \in [Words -> [Byte -> Words]]
    BY <1>2
  <2> HIDE DEF Byte
  <2> QED BY <2>1, <2>2, AfterTyped
<1>5. \A m \in 0..(8 * Len(bytes)) : G[m] \in Words
  <2>1. p.init \in Words BY DEF Parameters
  <2> HIDE DEF bits
  <2> QED BY <1>1, <1>2, <2>1, AfterTyped
<1> HIDE DEF F, G
<1>6. ASSUME NEW k \in 0..(Len(bytes) - 1), G[8 * k] = F[k]
      PROVE  G[8 * (k + 1)] = F[k + 1]
  <2> DEFINE d == bytes[k + 1]
             o == Turned(p, d)
             g == [j \in 0..8 |-> G[8 * k + j]]
  <2>1. d \in 0..255 /\ o \in Octets /\ F[k] \in Words /\ k \in 0..Len(bytes)
    <3>1. k \in 0..Len(bytes) /\ k + 1 \in 1..Len(bytes)
      BY <1>0
    <3>2. d \in 0..255
      BY <1>0, <3>1
    <3>3. o \in Octets
      <4> HIDE DEF d
      <4> QED BY <1>4, <3>1, <3>2, UpdateTyped
    <3> QED BY <1>4, <3>1, <3>2, <3>3
  <2>2. g[0] = F[k]
    BY <1>6
  <2>3. ASSUME NEW j \in 0..7 PROVE g[j + 1] = Circuit(p, g[j], o[7 - j])
    <3>1. /\ 8 * k + j \in Nat /\ 8 * k + j \in 0..(8 * Len(bytes))
          /\ bits[8 * k + j + 1] = o[7 - j]
      <4>1. 8 * k + j \in 0..(8 * Len(bytes)) OBVIOUS
      <4> QED BY <4>1, BitsOfMessage
    <3>2. (8 * k + j) + 1 = 8 * k + (j + 1) OBVIOUS
    <3> HIDE DEF o, bits
    <3>3. G[(8 * k + j) + 1] = Circuits(p)[G[8 * k + j]][bits[(8 * k + j) + 1]]
      BY <1>3, <3>1
    <3>4. G[8 * k + j] \in Words /\ o[7 - j] \in {0, 1}
      BY <1>5, <2>1, <3>1 DEF Octets
    <3>5. G[(8 * k + j) + 1] = Circuit(p, G[8 * k + j], o[7 - j])
      BY <3>1, <3>3, <3>4 DEF Circuits
    <3> QED BY ONLY <3>2, <3>5, SMTT(30)
  <2>4. g[8] = Xor(ShiftLeft(F[k], 8), TableEntry(p.poly, Xor(HighByte(F[k]), o)))
    <3>1. p.poly \in Words BY DEF Parameters
    <3> HIDE DEF g, o
    <3> QED BY <2>1, <2>2, <2>3, <3>1, EightBits
  <2>5. F[k + 1] = Update(p, F[k], d)
    <3>1. F[k + 1] = Updates(p)[F[k]][d] BY <1>3
    <3> HIDE DEF d
    <3> QED BY <2>1, <3>1 DEF Updates
  <2>6. g[8] = F[k + 1]
    BY <2>4, <2>5 DEF Update, Turned
  <2>7. 8 * (k + 1) = 8 * k + 8
    OBVIOUS
  <2> QED BY <2>6, <2>7
<1>7. \A k \in 0..Len(bytes) : G[8 * k] = F[k]
  <2> DEFINE Apart == {k \in 0..Len(bytes) : G[8 * k] # F[k]}
  <2> SUFFICES ASSUME Apart # {} PROVE FALSE
    OBVIOUS
  <2>1. PICK k \in Apart : \A e \in Apart : k <= e
    <3>1. Apart \in SUBSET Nat OBVIOUS
    <3> HIDE DEF Apart
    <3> QED BY <3>1, Least
  <2>2. k # 0
    <3>1. 8 * 0 = 0 OBVIOUS
    <3>2. G[8 * 0] = F[0] BY <1>3, <3>1
    <3> QED BY <2>1, <3>2
  <2>3. k - 1 \in 0..(Len(bytes) - 1) /\ k - 1 \notin Apart /\ k - 1 \in 0..Len(bytes)
        /\ (k - 1) + 1 = k
    <3>1. k \in 0..Len(bytes) /\ k # 0 /\ Len(bytes) \in Nat BY <1>0, <2>1, <2>2
    <3>2. /\ k - 1 \in 0..(Len(bytes) - 1) /\ k - 1 \in 0..Len(bytes)
          /\ (k - 1) + 1 = k /\ k - 1 \in Nat /\ ~(k <= k - 1)
      BY <3>1
    <3> HIDE DEF Apart
    <3> QED BY <2>1, <3>2
  <2>4. G[8 * (k - 1)] = F[k - 1]
    BY <2>3
  <2>5. G[8 * ((k - 1) + 1)] = F[(k - 1) + 1]
    BY <1>6, <2>3, <2>4
  <2> QED BY <2>1, <2>3, <2>5
<1>8. G[Len(bits)] = F[Len(bytes)]
  <2> HIDE DEF bits
  <2> QED BY <1>1, <1>7
<1> QED BY <1>8 DEF Fold, F, G

-----------------------------------------------------------------------------
(* The algorithms.                                                           *)
\* The 23 names.
LEMMA AlgorithmNames ==
  DOMAIN Algorithms =
    {"arc", "aug_ccitt", "buypass", "ccitt_false", "cdma2000", "dds_110", "dect_r",
    "dect_x", "dnp", "en_13757", "genibus", "maxim", "mcrf4xx", "riello", "t10_dif",
    "teledisk", "tms37157", "usb", "crc_a", "kermit", "modbus", "x_25", "xmodem"}
BY DEF Algorithms

\* The two lists agree: the index of a key is that of its algorithm.
LEMMA NamesInOrder ==
  \A name \in DOMAIN Algorithms :
    Crc16Map[name] \in 0..22 /\ ParamsList[Crc16Map[name] + 1] = name
BY AlgorithmNames, SMT DEF Crc16Map, ParamsList

\* The parameters of each algorithm are words.
LEMMA AlgorithmsTyped ==
  \A name \in DOMAIN Algorithms : Parameters(Algorithms[name])
<1>1. \A n \in Nat : Word(n) \in Words
  BY WordsClosed
<1>2. Parameters(Algorithms["arc"])
  <2>1. Algorithms["arc"] = Params(32773, 0, TRUE, 0, 47933) BY SMT DEF Algorithms
  <2> QED BY <1>1, <2>1, SMT DEF Params, Parameters
<1>3. Parameters(Algorithms["aug_ccitt"])
  <2>1. Algorithms["aug_ccitt"] = Params(4129, 7439, FALSE, 0, 58828) BY SMT DEF Algorithms
  <2> QED BY <1>1, <2>1, SMT DEF Params, Parameters
<1>4. Parameters(Algorithms["buypass"])
  <2>1. Algorithms["buypass"] = Params(32773, 0, FALSE, 0, 65256) BY SMT DEF Algorithms
  <2> QED BY <1>1, <2>1, SMT DEF Params, Parameters
<1>5. Parameters(Algorithms["ccitt_false"])
  <2>1. Algorithms["ccitt_false"] = Params(4129, 65535, FALSE, 0, 10673) BY SMT DEF Algorithms
  <2> QED BY <1>1, <2>1, SMT DEF Params, Parameters
<1>6. Parameters(Algorithms["cdma2000"])
  <2>1. Algorithms["cdma2000"] = Params(51303, 65535, FALSE, 0, 19462) BY SMT DEF Algorithms
  <2> QED BY <1>1, <2>1, SMT DEF Params, Parameters
<1>7. Parameters(Algorithms["dds_110"])
  <2>1. Algorithms["dds_110"] = Params(32773, 32781, FALSE, 0, 40655) BY SMT DEF Algorithms
  <2> QED BY <1>1, <2>1, SMT DEF Params, Parameters
<1>8. Parameters(Algorithms["dect_r"])
  <2>1. Algorithms["dect_r"] = Params(1417, 0, FALSE, 1, 126) BY SMT DEF Algorithms
  <2> QED BY <1>1, <2>1, SMT DEF Params, Parameters
<1>9. Parameters(Algorithms["dect_x"])
  <2>1. Algorithms["dect_x"] = Params(1417, 0, FALSE, 0, 127) BY SMT DEF Algorithms
  <2> QED BY <1>1, <2>1, SMT DEF Params, Parameters
<1>10. Parameters(Algorithms["dnp"])
  <2>1. Algorithms["dnp"] = Params(15717, 0, TRUE, 65535, 60034) BY SMT DEF Algorithms
  <2> QED BY <1>1, <2>1, SMT DEF Params, Parameters
<1>11. Parameters(Algorithms["en_13757"])
  <2>1. Algorithms["en_13757"] = Params(15717, 0, FALSE, 65535, 49847) BY SMT DEF Algorithms
  <2> QED BY <1>1, <2>1, SMT DEF Params, Parameters
<1>12. Parameters(Algorithms["genibus"])
  <2>1. Algorithms["genibus"] = Params(4129, 65535, FALSE, 65535, 54862) BY SMT DEF Algorithms
  <2> QED BY <1>1, <2>1, SMT DEF Params, Parameters
<1>13. Parameters(Algorithms["maxim"])
  <2>1. Algorithms["maxim"] = Params(32773, 0, TRUE, 65535, 17602) BY SMT DEF Algorithms
  <2> QED BY <1>1, <2>1, SMT DEF Params, Parameters
<1>14. Parameters(Algorithms["mcrf4xx"])
  <2>1. Algorithms["mcrf4xx"] = Params(4129, 65535, TRUE, 0, 28561) BY SMT DEF Algorithms
  <2> QED BY <1>1, <2>1, SMT DEF Params, Parameters
<1>15. Parameters(Algorithms["riello"])
  <2>1. Algorithms["riello"] = Params(4129, 45738, TRUE, 0, 25552) BY SMT DEF Algorithms
  <2> QED BY <1>1, <2>1, SMT DEF Params, Parameters
<1>16. Parameters(Algorithms["t10_dif"])
  <2>1. Algorithms["t10_dif"] = Params(35767, 0, FALSE, 0, 53467) BY SMT DEF Algorithms
  <2> QED BY <1>1, <2>1, SMT DEF Params, Parameters
<1>17. Parameters(Algorithms["teledisk"])
  <2>1. Algorithms["teledisk"] = Params(41111, 0, FALSE, 0, 4019) BY SMT DEF Algorithms
  <2> QED BY <1>1, <2>1, SMT DEF Params, Parameters
<1>18. Parameters(Algorithms["tms37157"])
  <2>1. Algorithms["tms37157"] = Params(4129, 35308, TRUE, 0, 9905) BY SMT DEF Algorithms
  <2> QED BY <1>1, <2>1, SMT DEF Params, Parameters
<1>19. Parameters(Algorithms["usb"])
  <2>1. Algorithms["usb"] = Params(32773, 65535, TRUE, 65535, 46280) BY SMT DEF Algorithms
  <2> QED BY <1>1, <2>1, SMT DEF Params, Parameters
<1>20. Parameters(Algorithms["crc_a"])
  <2>1. Algorithms["crc_a"] = Params(4129, 50886, TRUE, 0, 48901) BY SMT DEF Algorithms
  <2> QED BY <1>1, <2>1, SMT DEF Params, Parameters
<1>21. Parameters(Algorithms["kermit"])
  <2>1. Algorithms["kermit"] = Params(4129, 0, TRUE, 0, 8585) BY SMT DEF Algorithms
  <2> QED BY <1>1, <2>1, SMT DEF Params, Parameters
<1>22. Parameters(Algorithms["modbus"])
  <2>1. Algorithms["modbus"] = Params(32773, 65535, TRUE, 0, 19255) BY SMT DEF Algorithms
  <2> QED BY <1>1, <2>1, SMT DEF Params, Parameters
<1>23. Parameters(Algorithms["x_25"])
  <2>1. Algorithms["x_25"] = Params(4129, 65535, TRUE, 65535, 36974) BY SMT DEF Algorithms
  <2> QED BY <1>1, <2>1, SMT DEF Params, Parameters
<1>24. Parameters(Algorithms["xmodem"])
  <2>1. Algorithms["xmodem"] = Params(4129, 0, FALSE, 0, 12739) BY SMT DEF Algorithms
  <2> QED BY <1>1, <2>1, SMT DEF Params, Parameters
<1> QED
  BY AlgorithmNames, <1>2, <1>3, <1>4, <1>5, <1>6, <1>7, <1>8, <1>9, <1>10, <1>11,
     <1>12, <1>13, <1>14, <1>15, <1>16, <1>17, <1>18, <1>19, <1>20, <1>21, <1>22,
     <1>23, <1>24

\* So are those of a table seen before it is filled.
LEMMA BlankTyped == Parameters(Blank)
BY WordsClosed, SMT DEF Blank, Params, Parameters

-----------------------------------------------------------------------------
(* The sums.                                                                 *)
LEMMA UpdateAllIsFold ==
  ASSUME NEW p, NEW crc, NEW bytes
  PROVE  UpdateAll(p, crc, bytes) = Fold(Updates(p), crc, bytes)
BY Zenon DEF UpdateAll, Updates

\* The sum of any bytes is a word, whatever it began with.
LEMMA UpdateAllTyped ==
  ASSUME NEW p, Parameters(p), NEW crc \in Words, NEW bytes \in Seq(0..255)
  PROVE  UpdateAll(p, crc, bytes) \in Words
<1> DEFINE Byte == 0..255
<1>1. bytes \in Seq(Byte) /\ Updates(p) \in [Words -> [Byte -> Words]]
  BY UpdateTyped DEF Updates
<1>2. Len(bytes) \in 0..Len(bytes) OBVIOUS
<1> HIDE DEF Byte
<1>3. After(Updates(p), crc, bytes)[Len(bytes)] \in Words BY <1>1, <1>2, AfterTyped
<1> QED BY <1>3, UpdateAllIsFold DEF Fold

\* Nothing written leaves the sum; two Writes are one of both pieces.
LEMMA UpdateAllConcat ==
  ASSUME NEW p, NEW crc, NEW s \in Seq(0..255), NEW t \in Seq(0..255)
  PROVE  /\ UpdateAll(p, crc, s \o t) = UpdateAll(p, UpdateAll(p, crc, s), t)
         /\ UpdateAll(p, crc, <<>>) = crc
<1>1. Fold(Updates(p), crc, s \o t) = Fold(Updates(p), Fold(Updates(p), crc, s), t)
  BY FoldConcat
<1>2. Fold(Updates(p), crc, <<>>) = crc
  <2>1. Loops(After(Updates(p), crc, <<>>), Updates(p), crc, <<>>) BY AfterSteps, Zenon
  <2>2. Len(<<>>) = 0 OBVIOUS
  <2> QED BY <2>1, <2>2 DEF Loops, Fold
<1> QED BY <1>1, <1>2, UpdateAllIsFold

LEMMA CompleteTyped ==
  ASSUME NEW p, Parameters(p), NEW crc \in Words
  PROVE  Complete(p, crc) \in Words
BY WordsClosed DEF Complete, Parameters

\* The number of a word takes two bytes.
LEMMA NumberTyped ==
  ASSUME NEW w \in Words
  PROVE  Number(w) \in Nat /\ Number(w) <= 65535
<1> DEFINE digit(i) == w[i] + 2 * w[i + 1] + 4 * w[i + 2] + 8 * w[i + 3]
<1>1. \A i \in 0..12 : digit(i) \in 0..15
  <2> SUFFICES ASSUME NEW i \in 0..12 PROVE digit(i) \in 0..15
    OBVIOUS
  <2>1. w[i] \in 0..1 /\ w[i + 1] \in 0..1 /\ w[i + 2] \in 0..1 /\ w[i + 3] \in 0..1
    BY DEF Words
  <2> QED BY <2>1
<1>2. Number(w) = digit(0) + 16 * (digit(4) + 16 * (digit(8) + 16 * digit(12)))
  BY DEF Number
<1> HIDE DEF digit
<1>3. digit(0) \in 0..15 /\ digit(4) \in 0..15 /\ digit(8) \in 0..15 /\ digit(12) \in 0..15
  BY <1>1
<1>4. ASSUME NEW m \in Nat, NEW a \in 0..15, NEW limit \in Nat, m <= limit
      PROVE  a + 16 * m \in Nat /\ a + 16 * m <= 16 * limit + 15
  BY <1>4
<1> DEFINE a == digit(8) + 16 * digit(12)
           b == digit(4) + 16 * a
<1>5. a \in Nat /\ a <= 255 BY <1>3, <1>4, SMT
<1>6. Number(w) = digit(0) + 16 * b BY <1>2
<1> HIDE DEF a
<1>7. b \in Nat /\ b <= 4095 BY <1>3, <1>4, <1>5, SMT
<1> HIDE DEF b
<1> QED BY <1>3, <1>4, <1>6, <1>7, SMT

\* What Checksum computes with the table of an algorithm is the remainder of the division
\* by its polynomial, for messages of any length.
LEMMA TableDivides ==
  ASSUME NEW name \in DOMAIN Algorithms, NEW bytes \in Seq(0..255)
  PROVE  Complete(Algorithms[name], UpdateAll(Algorithms[name], Algorithms[name].init, bytes))
           = Division(name, bytes)
<1> DEFINE p == Algorithms[name]
<1>1. Parameters(p) BY AlgorithmsTyped
<1>2. Division(name, bytes) = Complete(p, Fold(Circuits(p), p.init, MessageBits(p, bytes)))
  BY Zenon DEF Division, Circuits
<1> HIDE DEF p
<1>3. UpdateAll(p, p.init, bytes) = Fold(Circuits(p), p.init, MessageBits(p, bytes))
  BY <1>1, ByteByByte, UpdateAllIsFold
<1> QED BY <1>2, <1>3 DEF p

-----------------------------------------------------------------------------
(* The tables, and the calls of the goroutines.                              *)
Tabulated == {ParamsOf(t) : t \in 0..22} \cup {Blank}
Record(P, O, N, I, T, D, S) ==
  [pc : P, op : O, name : N, t : I, table : T, data : D, sum : S]
Places == {"idle", "test", "make", "load", "ready", "refused", "nil"}
Operations == {"none", "Checksum", "New"}
Keys == Names \cup {NoTable}
Indexes == -1..23
Messages == Seq(0..255)
Calls == Record(Places, Operations, Keys, Indexes, Tabulated, Messages, Words)

\* A call that has passed its test is of an algorithm of the list and has, or is
\* about to make, the table of that algorithm; its sum is that of its bytes.
CallInv(w) ==
  /\ w.pc # "nil"
  /\ w.pc \in {"test", "make", "load", "ready"} => w.name \in Names /\ w.t = Crc16Map[w.name]
  /\ w.pc = "load" => tables[w.t] # NoTable
  /\ w.pc = "ready" => w.sum = UpdateAll(w.table, w.table.init, w.data)
  /\ w.pc = "ready" /\ StoresInOrder => w.table = Algorithms[w.name]

TablesInv ==
  /\ tables = [t \in 0..22 |-> tables[t]]
  /\ \A t \in 0..22 : tables[t] = NoTable \/ \E g \in Goroutines :
                         tables[t] = [maker |-> g, params |-> ParamsOf(t)]
  /\ worker \in [Goroutines -> Calls]
  /\ \A g \in Goroutines : CallInv(worker[g])

\* The calls that actions make of a call.
Started(c, op, name, t, pc) == [c EXCEPT !.op = op, !.name = name, !.t = t, !.pc = pc]
Given(c, op, pc, name, t, d) ==
  [c EXCEPT !.op = op, !.pc = pc, !.name = name, !.t = t, !.data = d]
Moved(c, pc) == [c EXCEPT !.pc = pc]
Fed(c, sum, d) == [c EXCEPT !.sum = sum, !.data = d]
Loaded(c, table, sum) == [c EXCEPT !.table = table, !.pc = "ready", !.sum = sum]

\* Each of them is a call, and has the fields it was given.
LEMMA CallStarted ==
  ASSUME NEW c \in Calls, NEW op \in Operations, NEW name \in Keys,
         NEW t \in Indexes, NEW pc \in Places
  PROVE  LET w == Started(c, op, name, t, pc)
         IN w \in Calls /\ w.pc = pc /\ w.name = name /\ w.t = t
BY DEF Calls, Record, Started

LEMMA CallGiven ==
  ASSUME NEW c \in Calls, NEW op \in Operations, NEW pc \in Places,
         NEW name \in Keys, NEW t \in Indexes, NEW d \in Messages
  PROVE  LET w == Given(c, op, pc, name, t, d)
         IN w \in Calls /\ w.pc = pc /\ w.name = name /\ w.t = t
BY DEF Calls, Record, Given

LEMMA CallMoved ==
  ASSUME NEW c \in Calls, NEW pc \in Places
  PROVE  LET w == Moved(c, pc)
         IN w \in Calls /\ w.pc = pc /\ w.t = c.t /\ w.name = c.name
BY DEF Calls, Record, Moved

LEMMA CallFed ==
  ASSUME NEW c \in Calls, NEW sum \in Words, NEW d \in Messages
  PROVE  LET w == Fed(c, sum, d)
         IN /\ w \in Calls /\ w.pc = c.pc /\ w.t = c.t /\ w.name = c.name /\ w.table = c.table
            /\ w.sum = sum /\ w.data = d
BY DEF Calls, Record, Fed

LEMMA CallLoaded ==
  ASSUME NEW c \in Calls, NEW table \in Tabulated, NEW sum \in Words
  PROVE  LET w == Loaded(c, table, sum)
         IN /\ w \in Calls /\ w.pc = "ready" /\ w.t = c.t /\ w.name = c.name /\ w.table = table
            /\ w.sum = sum /\ w.data = c.data
BY DEF Calls, Record, Loaded, Places

\* The fields of a call.
LEMMA CallTyped ==
  ASSUME NEW c \in Calls
  PROVE  /\ c.name \in Names \cup {NoTable} /\ c.t \in -1..23
         /\ c.pc \in {"idle", "test", "make", "load", "ready", "refused", "nil"}
         /\ c.op \in {"none", "Checksum", "New"}
         /\ c.table \in Tabulated /\ c.data \in Seq(0..255) /\ c.sum \in Words
BY DEF Calls, Record, Places, Operations, Keys, Indexes, Messages

\* Whatever table a goroutine sees, its parameters are words.
LEMMA TabulatedTyped ==
  ASSUME NEW p \in Tabulated
  PROVE  Parameters(p)
<1>1. CASE p = Blank BY <1>1, BlankTyped
<1>2. ASSUME NEW t \in 0..22, p = ParamsOf(t) PROVE Parameters(p)
  <2>1. ParamsList[t + 1] \in DOMAIN Algorithms
    BY AlgorithmNames, SMT DEF ParamsList
  <2> QED BY <1>2, <2>1, AlgorithmsTyped DEF ParamsOf
<1> QED BY <1>1, <1>2 DEF Tabulated

\* What a goroutine goes on with: its name has an index, a table of the list.
LEMMA NameOfCall ==
  ASSUME NEW name \in Names
  PROVE  /\ Crc16Map[name] \in 0..22 /\ ParamsOf(Crc16Map[name]) = Algorithms[name]
         /\ name \in DOMAIN Algorithms
BY NamesAssumption, NamesInOrder DEF ParamsOf

\* A goroutine moves; the tables stay, or get one more.
LEMMA OneCallMoves ==
  ASSUME TablesInv, NEW g \in Goroutines, NEW w \in Calls, worker' = [worker EXCEPT ![g] = w],
         UNCHANGED tables, CallInv(w)
  PROVE  TablesInv'
<1>1. worker' \in [Goroutines -> Calls] BY DEF TablesInv
<1>2. ASSUME NEW h \in Goroutines PROVE CallInv(worker[h])'
  <2>1. worker'[h] = IF h = g THEN w ELSE worker[h] BY DEF TablesInv
  <2>2. CallInv(worker'[h]) BY <2>1 DEF TablesInv
  <2> QED BY <2>2 DEF CallInv
<1> QED BY <1>1, <1>2 DEF TablesInv

\* No action, whatever the others have done since the last one, leaves TablesInv.
LEMMA TablesInvKept ==
  TablesInv /\ [TablesNext]_tablesVars => TablesInv'
<1> SUFFICES ASSUME TablesInv, [TablesNext]_tablesVars PROVE TablesInv'
  OBVIOUS
<1> DEFINE Moves(g) == \E w \in Calls : CallInv(w) /\ worker' = [worker EXCEPT ![g] = w]
<1>0. ASSUME NEW g \in Goroutines, Moves(g), UNCHANGED tables PROVE TablesInv'
  BY <1>0, OneCallMoves
<1>i. Idle \in Calls /\ <<>> \in Seq(0..255) /\ <<>> \in Messages
  <2>1. Word(0) \in Words /\ Blank \in Tabulated BY WordsClosed DEF Tabulated
  <2> QED BY <2>1 DEF Idle, Calls, Record, Places, Operations, Keys, Indexes, Messages
<1>w. ASSUME NEW g \in Goroutines
      PROVE  /\ worker[g] \in Calls /\ CallInv(worker[g])
             /\ worker[g].table \in Tabulated /\ worker[g].data \in Seq(0..255)
             /\ worker[g].sum \in Words /\ worker[g].pc \in Places
  BY CallTyped DEF TablesInv, Places
<1>1. ASSUME NEW g \in Goroutines, NEW name \in Names, NEW bytes \in Chunks,
             CallCrc16(g, name, bytes)
      PROVE  TablesInv'
  <2> DEFINE w == Given(Idle, "Checksum", "test", name, Crc16Map[name], bytes)
  <2>1. Crc16Map[name] \in -1..23 /\ bytes \in Seq(0..255)
    BY NameOfCall, ChunksAssumption
  <2>2. w \in Calls /\ w.pc = "test" /\ w.name = name /\ w.t = Crc16Map[name]
    <3>1. /\ "Checksum" \in Operations /\ "test" \in Places /\ name \in Keys
          /\ Crc16Map[name] \in Indexes /\ bytes \in Messages
      BY <2>1 DEF Places, Operations, Keys, Indexes, Messages
    <3> QED BY <1>i, <3>1, CallGiven
  <2>3. w \in Calls /\ CallInv(w)
    <3> HIDE DEF w
    <3> QED BY <2>2 DEF CallInv
  <2>4. worker' = [worker EXCEPT ![g] = w] /\ UNCHANGED tables
    BY <1>1 DEF CallCrc16, Given
  <2> HIDE DEF w
  <2> QED BY <2>3, <2>4, OneCallMoves
<1>2. ASSUME NEW g \in Goroutines, NEW name \in Names \cup {NoTable}, NEW t \in -1..23,
             InRange(t) => name \in Names /\ t = Crc16Map[name], CallNew(g, name, t)
      PROVE  TablesInv'
  <2> DEFINE pc == IF InRange(t) THEN "test" ELSE "refused"
             w == Started(Idle, "New", name, t, pc)
  <2>1. pc \in {"test", "refused"} /\ (pc = "test" => InRange(t)) OBVIOUS
  <2> HIDE DEF pc
  <2>2. w \in Calls /\ CallInv(w)
    <3>0. "New" \in Operations /\ pc \in Places /\ name \in Keys /\ t \in Indexes
      BY <2>1 DEF Places, Operations, Keys, Indexes
    <3>1. w \in Calls /\ w.pc = pc /\ w.name = name /\ w.t = t
      BY <1>i, <3>0, CallStarted
    <3> HIDE DEF w
    <3> QED BY <1>2, <2>1, <3>1 DEF CallInv
  <2>3. worker' = [worker EXCEPT ![g] = w] /\ UNCHANGED tables
    BY <1>2 DEF CallNew, Started, pc
  <2> HIDE DEF w
  <2> QED BY <2>2, <2>3, OneCallMoves
<1>3. ASSUME NEW g \in Goroutines, Test(g) PROVE TablesInv'
  <2> DEFINE pc == IF tables[worker[g].t] = NoTable THEN "make" ELSE "load"
             w == Moved(worker[g], pc)
  <2>1. worker[g].pc = "test" /\ worker' = [worker EXCEPT ![g] = w] /\ UNCHANGED tables
    BY <1>3, <1>w DEF Test, At, GoTo, TablesInv, Moved
  <2>2. pc \in {"make", "load"} /\ (pc = "load" => tables[worker[g].t] # NoTable) OBVIOUS
  <2> HIDE DEF pc
  <2>3. w \in Calls /\ w.pc = pc /\ w.t = worker[g].t /\ w.name = worker[g].name
    BY <1>w, <2>2, CallMoved DEF Places
  <2> HIDE DEF w
  <2>4. CallInv(w) BY <1>w, <2>1, <2>2, <2>3 DEF CallInv
  <2> QED BY <2>1, <2>3, <2>4, OneCallMoves
<1>4. ASSUME NEW g \in Goroutines, MakeTable(g) PROVE TablesInv'
  <2> DEFINE t == worker[g].t
             entry == [maker |-> g, params |-> ParamsOf(t)]
             w == Moved(worker[g], "load")
  <2>1. /\ worker[g].pc = "make" /\ t = Crc16Map[worker[g].name] /\ worker[g].name \in Names
        /\ tables' = [tables EXCEPT ![t] = entry]
        /\ worker' = [worker EXCEPT ![g] = w]
    BY <1>4, <1>w DEF MakeTable, At, GoTo, TablesInv, CallInv, Moved
  <2>2. t \in 0..22 BY <2>1, NameOfCall
  <2>3. entry # NoTable BY <2>2, NoTableAssumption
  <2> HIDE DEF entry
  <2>4. /\ tables' = [s \in 0..22 |-> tables'[s]] /\ tables'[t] = entry
        /\ \A s \in 0..22 : s # t => tables'[s] = tables[s]
    BY <2>1, <2>2 DEF TablesInv
  <2>5. \A s \in 0..22 : tables'[s] = NoTable \/ \E h \in Goroutines :
                            tables'[s] = [maker |-> h, params |-> ParamsOf(s)]
    BY <2>4 DEF TablesInv, entry
  <2>6. w \in Calls /\ w.pc = "load" /\ w.t = t /\ w.name = worker[g].name
    BY <1>w, CallMoved DEF Places
  <2> HIDE DEF w, t
  <2>7. worker' \in [Goroutines -> Calls] /\ worker'[g] = w
        /\ \A h \in Goroutines : h # g => worker'[h] = worker[h]
    BY <2>1, <2>6 DEF TablesInv
  <2>8. ASSUME NEW h \in Goroutines PROVE CallInv(worker[h])'
    <3>1. CASE h = g
      <4>1. worker'[h] = w BY <2>7, <3>1
      <4> QED BY <2>1, <2>3, <2>4, <2>6, <4>1 DEF CallInv
    <3>2. CASE h # g
      <4>1. worker'[h] = worker[h] /\ CallInv(worker[h]) BY <1>w, <2>7, <3>2
      <4>2. worker[h].pc = "load" => worker[h].t \in 0..22
        BY <4>1, NameOfCall DEF CallInv
      <4>3. worker[h].pc = "load" => tables'[worker[h].t] # NoTable
        BY <2>3, <2>4, <4>1, <4>2 DEF CallInv
      <4> QED BY <4>1, <4>3 DEF CallInv
    <3> QED BY <3>1, <3>2
  <2> QED BY <2>4, <2>5, <2>7, <2>8 DEF TablesInv
<1>5. ASSUME NEW g \in Goroutines, Load(g) PROVE TablesInv'
  <2> DEFINE name == worker[g].name
             t == worker[g].t
  <2>1. worker[g].pc = "load" /\ name \in Names /\ t = Crc16Map[name] /\ tables[t] # NoTable
        /\ UNCHANGED tables
    BY <1>5, <1>w, ZenonT(30) DEF Load, At, CallInv
  <2>2. t \in 0..22 /\ ParamsOf(t) = Algorithms[name] BY <2>1, NameOfCall, SMTT(30)
  <2>3. PICK p \in Seen(g, tables[t]) :
          worker' = [worker EXCEPT ![g].table = p, ![g].pc = "ready",
                                   ![g].sum = UpdateAll(p, p.init, worker[g].data)]
    BY <1>5, <2>1 DEF Load
  <2>4. tables[t].params = ParamsOf(t) BY <2>1, <2>2 DEF TablesInv
  <2>5. p \in {ParamsOf(t), Blank} /\ (StoresInOrder => p = ParamsOf(t))
    BY <2>3, <2>4 DEF Seen
  <2>6. p \in Tabulated BY <2>2, <2>5 DEF Tabulated
  <2> DEFINE sum == UpdateAll(p, p.init, worker[g].data)
             w == Loaded(worker[g], p, sum)
  <2>7. sum \in Words
    <3>1. Parameters(p) /\ p.init \in Words /\ worker[g].data \in Seq(0..255)
      BY <1>w, <2>6, CallTyped, TabulatedTyped DEF Parameters
    <3> QED BY <3>1, UpdateAllTyped
  <2> HIDE DEF sum
  <2>8. worker' = [worker EXCEPT ![g] = w]
    BY <1>w, <2>3 DEF TablesInv, sum, Loaded
  <2>9. w \in Calls /\ w.name = name /\ w.t = t /\ w.pc = "ready" /\ w.table = p
        /\ w.data = worker[g].data /\ w.sum = sum
    BY <1>w, <2>6, <2>7, CallLoaded
  <2> HIDE DEF w
  <2>10. CallInv(w) BY <2>1, <2>2, <2>5, <2>9 DEF CallInv, sum
  <2> QED BY <2>1, <2>8, <2>9, <2>10, OneCallMoves
<1>6. ASSUME NEW g \in Goroutines, Reset(g) PROVE TablesInv'
  <2> DEFINE p == worker[g].table
             w == Fed(worker[g], p.init, <<>>)
  <2>1. worker[g].pc = "ready" /\ worker' = [worker EXCEPT ![g] = w] /\ UNCHANGED tables
    BY <1>6, <1>w DEF Reset, Holds, At, TablesInv, Fed
  <2>2. p \in Tabulated BY <1>w, CallTyped
  <2>3. p.init \in Words BY <2>2, TabulatedTyped DEF Parameters
  <2>4. w \in Calls /\ w.pc = "ready" /\ w.name = worker[g].name /\ w.t = worker[g].t
        /\ w.table = p /\ w.sum = p.init /\ w.data = <<>>
    BY <1>i, <1>w, <2>1, <2>3, CallFed
  <2>5. p.init = UpdateAll(p, p.init, <<>>) BY <1>i, UpdateAllConcat, ZenonT(30)
  <2> HIDE DEF w
  <2>6. CallInv(w) BY <1>w, <2>1, <2>4, <2>5 DEF CallInv
  <2> QED BY <2>1, <2>4, <2>6, OneCallMoves
<1>7. ASSUME NEW g \in Goroutines, NEW bytes \in Chunks, Write(g, bytes) PROVE TablesInv'
  <2> DEFINE p == worker[g].table
             old == worker[g].data
             sum == UpdateAll(p, worker[g].sum, bytes)
             all == old \o bytes
             w == Fed(worker[g], sum, all)
  <2>1. worker[g].pc = "ready" /\ worker' = [worker EXCEPT ![g] = w] /\ UNCHANGED tables
    BY <1>7, <1>w DEF Write, Holds, At, TablesInv, Fed
  <2>2. p \in Tabulated /\ worker[g].sum \in Words /\ old \in Seq(0..255)
    BY <1>w, CallTyped
  <2>3. bytes \in Seq(0..255) BY ChunksAssumption
  <2>4. old \o bytes \in Seq(0..255) /\ sum \in Words
    BY <2>2, <2>3, TabulatedTyped, UpdateAllTyped
  <2>5. sum = UpdateAll(p, p.init, old \o bytes)
    <3>1. worker[g].sum = UpdateAll(p, p.init, old) BY <1>w, <2>1 DEF CallInv
    <3> QED BY <2>2, <2>3, <3>1, UpdateAllConcat
  <2>6. all \in Messages BY <2>4 DEF Messages
  <2> HIDE DEF sum, all
  <2>7. w \in Calls /\ w.pc = "ready" /\ w.name = worker[g].name /\ w.t = worker[g].t
        /\ w.table = p /\ w.sum = sum /\ w.data = all
    BY <1>w, <2>1, <2>4, <2>6, CallFed
  <2> HIDE DEF w
  <2>8. CallInv(w) BY <1>w, <2>1, <2>5, <2>7 DEF CallInv, all
  <2> QED BY <2>1, <2>7, <2>8, OneCallMoves
<1>8. ASSUME NEW g \in Goroutines, Finish(g) PROVE TablesInv'
  <2>1. CallInv(Idle) BY DEF Idle, CallInv
  <2> QED BY <1>i, <1>8, <2>1, OneCallMoves DEF Finish
<1>9. CASE UNCHANGED tablesVars
  BY <1>9 DEF tablesVars, TablesInv, CallInv
<1>10. ASSUME NEW g \in Goroutines, NEW name \in Names, CallNew(g, name, Crc16Map[name])
       PROVE  TablesInv'
  <2>1. Crc16Map[name] \in -1..23 BY NameOfCall
  <2> QED BY <1>2, <1>10, <2>1
<1>11. ASSUME NEW g \in Goroutines, NEW t \in {-1, 23}, CallNew(g, NoTable, t) PROVE TablesInv'
  <2>1. ~InRange(t) /\ t \in -1..23 BY DEF InRange
  <2> QED BY <1>2, <1>11, <2>1
<1> QED
  BY <1>1, <1>3, <1>4, <1>5, <1>6, <1>7, <1>8, <1>9, <1>10, <1>11 DEF TablesNext

\* Holds of every state: what the goroutines share and what each has of it.
THEOREM TablesInvariant == TablesSpec => []TablesInv
<1>1. TablesInit => TablesInv
  <2> SUFFICES ASSUME TablesInit PROVE TablesInv
    OBVIOUS
  <2>1. Word(0) \in Words /\ Blank \in Tabulated BY WordsClosed DEF Tabulated
  <2>2. Idle \in Calls /\ CallInv(Idle)
    BY <2>1
    DEF Idle, Calls, Record, Places, Operations, Keys, Indexes, Messages, CallInv
  <2>3. worker \in [Goroutines -> Calls] /\ \A g \in Goroutines : worker[g] = Idle
    BY <2>2 DEF TablesInit
  <2> QED BY <2>2, <2>3 DEF TablesInit, TablesInv
<1> QED BY <1>1, TablesInvKept, PTL DEF TablesSpec

\* No interleaving of first uses, by any number of goroutines, leaves the table of another
\* algorithm at an index or lets a goroutine use a table that is not there
\* (crc16.go:114-119).
THEOREM TablesThere == TablesSpec => []TableIsThere
<1>1. ASSUME TablesInv PROVE TableIsThere
  <2>1. \A t \in 0..22 :
          tables[t] = NoTable \/ (tables[t].maker \in Goroutines /\ tables[t].params = ParamsOf(t))
    BY <1>1 DEF TablesInv
  <2>2. ASSUME NEW g \in Goroutines PROVE worker[g] \in Calls /\ CallInv(worker[g])
    BY <1>1 DEF TablesInv
  <2>3. TablesTypeOK BY <2>1, <2>2, CallTyped DEF TablesTypeOK
  <2>4. ASSUME NEW g \in Goroutines
        PROVE  ~At(g, "nil") /\ (worker[g].pc \in {"test", "make", "load", "ready"}
                                    => InRange(worker[g].t))
    BY <2>2, NameOfCall DEF CallInv, At, InRange
  <2> QED BY <2>3, <2>4 DEF TableIsThere
<1> QED BY <1>1, TablesInvariant, PTL

\* The sum of a call that is ready is the remainder for its bytes.
LEMMA SumOfCall ==
  ASSUME TablesInv, StoresInOrder, NEW g \in Goroutines, At(g, "ready")
  PROVE  /\ Sum16(g) = Division(worker[g].name, worker[g].data)
         /\ Sum16(g) \in Words
<1>1. worker[g] \in Calls /\ CallInv(worker[g]) /\ worker[g].pc = "ready"
  BY DEF TablesInv, At
<1> DEFINE name == worker[g].name
           bytes == worker[g].data
           p == worker[g].table
<1>2. name \in Names /\ p = Algorithms[name] /\ worker[g].sum = UpdateAll(p, p.init, bytes)
  BY <1>1 DEF CallInv
<1>3. bytes \in Seq(0..255) /\ p \in Tabulated /\ worker[g].sum \in Words BY <1>1, CallTyped
<1>4. name \in DOMAIN Algorithms BY <1>2, NameOfCall
<1>5. Sum16(g) \in Words BY <1>3, TabulatedTyped, CompleteTyped DEF Sum16
<1>6. Sum16(g) = Complete(Algorithms[name],
                          UpdateAll(Algorithms[name], Algorithms[name].init, bytes))
  BY <1>2 DEF Sum16
<1> HIDE DEF name, bytes, p
<1>7. Sum16(g) = Division(name, bytes) BY <1>3, <1>4, <1>6, TableDivides
<1> QED BY <1>5, <1>7 DEF name, bytes

\* Where stores are seen in order, what Checksum returns is the remainder of the division
\* by the polynomial that the key names, for every message and whatever tables other
\* goroutines make meanwhile (crc16.go:101-119).
THEOREM ChecksumsDivide ==
  ASSUME StoresInOrder
  PROVE  TablesSpec => []ChecksumIsRemainder
<1>1. TablesInv => ChecksumIsRemainder
  BY SumOfCall DEF ChecksumIsRemainder
<1> QED BY <1>1, TablesInvariant, PTL

\* Likewise a digest gives the checksum of all that was written since the last Reset,
\* however it was cut into Writes, and Sum gives its two bytes in order (hash.go:77-109).
THEOREM DigestsRun ==
  ASSUME StoresInOrder
  PROVE  TablesSpec => []DigestIsRunning
<1>1. ASSUME TablesInv, NEW g \in Goroutines, Holds(g)
      PROVE  /\ Sum16(g) = Division(worker[g].name, worker[g].data)
             /\ 256 * Sum(g, <<7>>)[2] + Sum(g, <<7>>)[3] = Number(Sum16(g))
  <2>1. Sum16(g) = Division(worker[g].name, worker[g].data) /\ Sum16(g) \in Words
    BY <1>1, SumOfCall DEF Holds
  <2> DEFINE n == Number(Sum16(g))
  <2>2. n \in Nat BY <2>1, NumberTyped
  <2>3. Sum(g, <<7>>)[2] = n \div 256 /\ Sum(g, <<7>>)[3] = n % 256
    BY DEF Sum
  <2> HIDE DEF n
  <2>4. 256 * (n \div 256) + (n % 256) = n BY <2>2, SMT
  <2> QED BY <2>1, <2>3, <2>4 DEF n
<1>2. TablesInv => DigestIsRunning
  BY <1>1 DEF DigestIsRunning
<1> QED BY <1>2, TablesInvariant, PTL

\* What PacketCodec takes of a crc field: the checksum of every message is a number of two
\* bytes (core/crc.go:77-86).
THEOREM CrcOfTwoBytes ==
  ASSUME NEW name \in DOMAIN Algorithms, NEW bytes \in Seq(0..255)
  PROVE  Crc(name, bytes) \in Nat /\ Crc(name, bytes) <= 65535
<1> DEFINE p == Algorithms[name]
<1>1. Parameters(p) /\ p.init \in Words BY AlgorithmsTyped DEF Parameters
<1>2. Complete(p, UpdateAll(p, p.init, bytes)) \in Words
  <2> HIDE DEF p
  <2> QED BY <1>1, UpdateAllTyped, CompleteTyped
<1> DEFINE n == Number(Complete(p, UpdateAll(p, p.init, bytes)))
<1>3. n \in Nat /\ n <= 65535 BY <1>2, NumberTyped
<1>4. Crc(name, bytes) \in {0, n} BY DEF Crc
<1> HIDE DEF n
<1> QED BY <1>3, <1>4, SMT
==============================================================================
