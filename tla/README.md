# vpacket: specification and proofs

vpacket is a Go library that accepts TCP connections from field devices, cuts
their byte streams into packets, decodes the packets by a protocol written in
YAML, keeps a directory of which device is behind which connection, and sends
commands back. This directory holds TLA+ modules of its parts, the TLC
configurations that check them, and TLAPS proofs about eight of them. Line numbers
refer to the files under `src/`.

## Inventory

| Part | State | Operations | Interacts with |
|---|---|---|---|
| Server lifecycle (`tcp/server.go`) | `connectionCounts`, `wg`, `ctx`, `listener`, `connections` | `Start`, `acceptConnection`, `handleConnection` and its deferred calls, `connectionCleaner`, `Stop` | one goroutine per connection, one cleaner, one waiter inside `Stop` |
| Device registry (`tcp/server.go`, `tcp/connection.go`) | `connections`, `devices` (two `sync.Map`), per connection `sn` and `subDevices` | `AddDevice`, `RemoveDeviceSn`, `RemoveConnection`, `RemoveSn`, `GetDeviceConnection`, `setupDeviceSn`, `Heartbeat`, the sweep | handlers, one goroutine per packet, the cleaner, callers of `SendCommand` |
| Connection writer (`tcp/connection.go`) | `mu`, `msgQueue`, `lastActiveTime` | `Write`, `writeLoop`, `UpdateActiveTime`, `Close` | any sender, the write loop, the packet handlers; the cleaner sends to every connection in turn; `handleConnection`, `RemoveSn` and `Stop` end it |
| Stream framing (`utils/scanner.go`, `core/codec.go`, `framing/`) | scanner buffer and positions, its error, the results | `Scan`, `Splitter`, `TextRule.Split`, `BinaryRule.Split`, `EmitResult` | the socket; a new goroutine for every result, which keeps a slice of the buffer |
| Packet codec (`core/ctx.go`, `core/node.go`, `core/protocol.go`, `node/`) | a `Context` for each Encode and Decode; the node tree, shared | `Protocol.Encode` in rounds, `Protocol.Decode`, one pair of methods for each node kind | nodes are shared by all connections and `Decode` assigns to them |
| CRC-16 (`crc16/`, `core/crc.go`) | lazily made tables, shared by all goroutines; a digest | `MakeTable`, `Update`, `Complete`, `Checksum`; `New`, `Write`, `Sum`, `Reset` | checksum fields of the codec |
| History ring (`utils/lock_free_circular_buffer.go`) | `head`, `count`, `data` | `Add`, `GetAll` | packet emission of each codec |
| Scheme loading (`core/schema.go`, `core/field.go`, `core/node.go`, `Compile` methods) | registries of rules and nodes; the parsed rules and nodes of each protocol | parsing, registration, `Setup` | gives the node trees and framing rules |
| CEL (`core/evaluator.go`) | none | `Execute` | sizes, conditions, formulas, checks |
| `vpacket.go`, `dsl.go`, `log/`, other helpers | none | registration, logging; `dsl.go` is commented out | |

What makes it hard: goroutines that meet on atomics and `sync.Map`s without a
common lock; deferred calls whose order matters; a panic recovery that changes
counters; a handler goroutine for each packet, which reorders announcements and
outlives its connection; a queue that drops; a sleep without the mutex; streams
cut anywhere; a buffer that is reused while others read it; packets written in
several rounds by counting nodes; tables made on first use without a lock; a
mutex held for as long as a peer takes to read; a compiler that recurses through
references. `PROJECT.json` lists each hazard at its line
with the properties that watch it, or the reason why none does.

What makes each part correct:

* lifecycle: every permit is taken and given back once; the wait group counts
  what is to be waited for; sockets and map entries always have an owner;
  disconnected peers are cleaned up; `Start` returns after `Stop`;
* registry: a serial number leads only to a connection that announced or
  discovered it and is still there; nobody removes what another one serves;
* sending: a caller waits only for its own peer, a connection whose write loop is
  dead is unregistered, and shutdown gets the cleaner out;
* writer: order, at most one drop for a write and only under pressure, spacing,
  and every accepted message handled;
* framing: no byte is lost, repeated or reordered, and every token is a frame;
* codec: later rounds write in place, every field is computed once, what is
  encoded can be decoded, checksums are the published ones;
* CRC tables: whoever makes or replaces a table, a checksum is the remainder;
* scheme loading: what `Setup` accepts is sound as a whole, what it refuses has a
  reason, and it returns;
* history: the count is exact at every instant, readers see recent elements.

## Modules

| Module | Models | State and actions |
|---|---|---|
| `ConnectionSlots` | abstract | A semaphore: the set of holders and the extra permits. |
| `ServerLifecycle` | lifecycle | A program counter for the acceptor, each handler, the cleaner and `Stop`; one action for each shared-memory step, so the load and the compare-and-swap of `acceptConnection` are two, and each deferred call is one. The wait group has the panics of Go's: whoever takes it to zero wakes the waiter in a step of its own. |
| `Directory` | abstract | Where a command for each serial number goes, which connections are there, what was claimed over each. |
| `DeviceRegistry` | registry | Both maps, one client, one heartbeat tick, `Handles` packet goroutines. Each operation on a `sync.Map` that changes it is a step of its own; the loops of `RemoveDeviceSn` and of the sweep, which delete nothing, are one each. That a packet speaks of a sub-device is a field of it, whatever number it carries. Map values are typed interface values, because the code compares them. |
| `MCDeviceRegistry` | | What is announced and discovered, symmetry and a view for TLC. |
| `ConnWriter` | writer | Mutex, channel, the write loop's program counter, a clock in abstract milliseconds. |
| `ServerSends` | writer, cleaner, handlers, `Stop` | Their composition around the mutex and the socket of each connection: who holds `mu`, who waits for it, which peer reads. The queue is a length, the delay a flag. |
| `FrameStream` | framing | The buffer and positions of the scanner; `Deliver` is the part of `Scan` that finds a token, `Fill` one `Read` of any bytes that fit. |
| `MCFrameStream` | | Seventeen schemes of framing rules, with negative numbers and empty delimiters among them. |
| `PacketCodec` | codec | One Encode and one Decode side by side. A context holds the nodes still to do; a group puts its children in front. Floats are four or eight bytes that nobody computes with. |
| `Crc16` | CRC-16 | Words as functions of their bits, the table driven checksum, and the bit-serial division as a reference. |
| `CrcTables` | CRC-16 | One program counter for each goroutine in `Checksum` or `New`: test, make and load of a table are steps. A table is its parameters, with the goroutine that made it; a digest is what was written. |
| `MCCrcTables` | | Pieces of data. |
| `MCPacketCodec` | | Twelve small protocols in the shapes of `resources/protocols.yaml`. |
| `SchemeSetup` | scheme loading | `Compile` as a machine: a list of what is still to compile, each entry with the depth of its call, and the nodes made so far; the literals of delimiters and defaults with their failures. |
| `SchemeExpansion` | scheme loading | No state: the nodes a definition stands for, written recursively, as a reference. |
| `MCSchemeSetup` | | 2700 schemes: sound, incomplete and cyclic ones. |
| `CircularBuffer` | history | One action for each atomic operation of `Add` and `GetAll`. |
| `ServerLifecycle_proofs`, `DeviceRegistry_proofs`, `ConnWriter_proofs`, `FrameStream_proofs`, `SharedData_proofs`, `ServerSends_proofs`, `PacketCodec_proofs`, `SchemeSetup_proofs` | | Theorems. |

The components meet where the code does: `ServerLifecycle` abstracts what a
scan does to "it returns", `FrameStream` abstracts decoding, `DeviceRegistry`
sees a packet as the serial number it announces. A handler that ends in
`ServerLifecycle` is `RemoveConnection` in `DeviceRegistry`.
`ServerLifecycle` implements `ConnectionSlots` under the refinement mapping
`held <- Holders, extra <- panics - stray`, checked by TLC and proved.
`DeviceRegistry` implements `Directory` with the route of a serial number being
what `GetDeviceConnection` answers for it, `alive` the keys of `connections`, and
a request the call of a client; also checked and proved. The abstract
specification says what callers may rely on and what they may not: a late claim
of a connection that has left makes a number unreachable (`Lose`), but never
leads anybody to a connection that did not claim it.
`ServerSends` composes what the other modules keep apart: `ConnWriter` has the
contents of the queue and the clock, `ServerLifecycle` the slots and the wait
group, `DeviceRegistry` the names.

History variables (`claims`, `forgotten`, `sent`, `received`, `log`, ...) record
what the properties speak about, and no action reads them, except where
`PROJECT.json` maps them to code. Definitions marked "Mutation" are changed
versions of the definition below them. They are used nowhere; substituted for
the original, they break the property that guards it.

## Runs

| Run | Bounds | Shows |
|---|---|---|
| `lifecycle` | 2 connections, limit 1, up to 1 cleaner panic | Permits, limit, wait group, ownership of sockets and entries, refinement of `ConnectionSlots`; a disconnect releases everything; `Stop` drains what it can see, and leaves nobody behind when it reports success but what the acceptor still has in hand; `Start` returns. |
| `registry` | 2 connections, 2 serial numbers, 2 packet handlers | Routes and entries, below; refinement of `Directory`. |
| `writer` | 2 writers, delay 0 or 3, queue of 3, 6 messages | Order, accounting, drops, spacing, every message handled. |
| `history` | 3 adders, 3 slots, 6 additions | The count and what readers see, over two laps, and what becomes of an adder that is overtaken. |
| `sends` | 1 connection, 1 caller, queue of 2, with and without a delay, 1 stall or departure, `Stop` | A sender waits only for its own peer; a dead write loop's connection is unregistered; `Stop` frees the cleaner from a peer that stalls. |
| `stream` | 17 schemes; bytes 0, 1, 9; streams up to 5 bytes; buffers of 4 to 8 | Framing under every chunking. |
| `codec` | 12 protocols with their inputs, every received packet in turn | Encoding, decoding, round trip, bit fields. |
| `crc_tables` | 2 goroutines, 3 algorithms, digests of up to 3 bytes | Every checksum and every digest is the remainder of the bit by bit division, whoever makes the table. |
| `scheme_setup` | 2700 schemes, calls nested up to 8 deep, 2 `Setup`s | What `Setup` accepts, why it stops, which nodes it makes, what becomes of defaults. |
| `stop_misses_connection`, `partial_frame_dropped`, `packet_overwritten` | small | A violation: where a comment says one thing and the code does another, see Findings. |

Why the bounds are enough. Two connections and a limit of one let an acceptor
find the server full, and a permit that is given back be taken again, while
another handler is anywhere in its exit. One panic is a stray release of a permit
and a `Done` too many, after which the wait group reaches zero too early and crosses
it. An `Add` that finds it at -2, which takes two panics, is left to the proofs, which
hold for any number; the other panics of the wait group need none and are reached.
Two serial numbers are a gateway and a meter that is announced as a sub-device over
any connection or discovered behind the gateway; two handlers reorder. The view of
`registry` leaves out a history that no property of the run reads, and the serial
numbers of a connection that has left and that nobody holds any more. A queue of three and six messages overflow while the
loop holds a message. Three adders fill a ring of three in flight, which is
where an adder can be overtaken by a lap. Streams of five bytes hold every frame
of the rules, cut in any way, with a byte to spare. In `sends` all that can wait for
one mutex and one socket is there: a caller, the cleaner, the write loop, `Handle`
and `Stop`. They share nothing with those of another connection but the cleaner,
which its one connection stalls as well as any. Two
goroutines race for a table; a third would make it once more. A cycle of
references through every kind of node closes within eight calls, and a second
`Setup` meets everything that the first one left behind. Real sizes (4096 and 64 K for
the buffer, 100 for the queue, 10 for the ring) enter as constants only.
A run that stops has `CHECK_DEADLOCK FALSE`: a server that has stopped, a closed
connection, a stream at its end and a bound that is used up are ends.

Fairness. `ServerLifecycle`: weak fairness for each goroutine, as the Go
scheduler gives; nobody has to connect, hang up, panic or call `Stop`. `Accept` may
fail at any time and must fail only once the listener is closed.
`ConnWriter`: the clock ticks, a writer with the mutex goes on; taking the mutex
is strongly fair because `sync.Mutex` hands itself to a waiter that starves.
That a `conn.Write` ends assumes that the peer reads or the connection closes:
the code sets no write deadline. `FrameStream`: the scan loop takes its next
step; the reader owes nothing. `ServerSends`: each goroutine that can run
does; entering a mutex is strongly fair, as above, and so is the branch of the
cleaner's `select` that ends it, because `select` chooses at random among ready
branches. Peers may stall for ever and nobody has to call `Stop`.

What the runs show that is worth knowing:

* The limit can be exceeded only by stray releases of a panicked cleaner: one
  for each panic (`LimitHolds`). The same recovery takes one from the wait group
  that it never added (`WgAccounted`).
* A `Stop` that reports success has waited for all but one: `Start` calls `wg.Add` for a
  connection that `Accept` returned before the listener was closed, and `Wait` may
  have returned by then (`StopLeavesNobody`). When that `Add` runs beside the `Wait`, the
  wait group may panic, in `Start` or in the goroutine that `Stop` starts, and nothing
  recovers: the process ends (`crashed`). No panic of the cleaner is needed for it.
  The properties under fairness are met, or the process has ended this way.
* `RemoveDeviceSn` compares a tuple with a string and so deletes nothing.
  `GoneIsUnreachable` holds all the same, because `GetDeviceConnection` goes
  through `connections`, and `OwnedIsKnown` holds because nothing is deleted.
* A sender can wait for ever only for a peer that reads no more, never because of
  the cleaner or the packets it receives (`SendReturns`). The cleaner itself can,
  and with it the heartbeats of all connections, because `conn.Write` has no
  deadline, until `Stop` closes the socket under it (`CleanerEndsAfterStop`).
* Splitting panics only under rules that `Setup` could have refused, but it refuses
  zeros and empty literals only (`PanicsNeedFragileRule`): an end delimiter inside the
  start or across its end (start `AB`, end `BC`, data `ABC`), or without any byte, as
  `0x` gives, where the length is not positive; a length inside the start; a length
  field of less than two bytes or at a negative offset; a negative adjustment; numbers
  whose sum is no `int`. A negative text length is as good as none.
* In a quiet history an old element stands in the place of a newer one only where an
  `Add` was overtaken by a whole lap before it stored (`QuietContents`), and while it is
  written, a reader may get elements almost two laps behind `head`, for Adds that
  have taken their position and have still to store (`ReadsAreRecent`).
* The races on the CRC tables are harmless where stores are seen in order: each
  goroutine makes the same table and the pointer comes last (`TableIsThere`,
  `ChecksumIsRemainder`). Where another goroutine may see the pointer
  before what it points to (`StoresInOrder` false), a checksum comes from an
  empty table.
* A scheme whose structure refers to itself overflows the stack at start-up
  (`StopsForAReason`); so would one with more different fields below each other than
  the stack has room for. Every other refusal is an error or a panic for a fault in
  the protocol at hand.
* The scanner never keeps anything from one read to the next: `Splitter` always
  consumes (`NeverBuffers`). That is why frames must arrive in one read.
* A patch of a later round lands inside the bytes that the first round reserved for
  its node (`PatchesStayInPlace`) as long as no Decode resizes a shared node between
  the rounds of an Encode; with one, it may land on a neighbour, so the property
  excludes it. It also excludes a default whose length is not that of its field
  (`Loose`), which pushes what follows it.
* `RoundTrip` leaves out arrays, whose elements Encode writes as zeros, fields
  declared by `bits`, which Encode does not write before a Decode has given them a
  size, and two kinds that Decode always refuses (`Unreadable`), listed below.
* `FieldsComputed` leaves out a nested node whose round no top-level node has:
  `Protocol.Setup` does not see it and the node stays zero. It also leaves out a
  formula that gives a Boolean, for which `BytesNode` has no encoding and writes
  nothing (`Unwritten`, `node/bytes.go:178`).
* A checksum whose name is not known is an error when it is computed, not in `Setup`
  (`Crc16Of`, `core/crc.go:62-84`). Of two cases of a switch with one value the last
  counts, because `Compile` puts them into a map (`Children`, `node/switch.go:34`).

### Findings

1. `Stop` says that it closes all connections (`tcp/server.go:330`); one that
   registers after its `Range` stays open (`stop_misses_connection`).
2. A framing rule that waits for more data (`framing/text.go:57`, `89`) loses a
   byte, because `Splitter` takes no advance for no match
   (`partial_frame_dropped`).
3. `ScanResult.Packet` is documented as the original packet (`core/codec.go:17`);
   it aliases the scanner's buffer, which changes under its readers
   (`packet_overwritten`).

The models follow the code in these divergences too; they are plain from one place
in the code, so no run is spent on them:

* The sweep of expired devices removes none: it asks for the entry named by
  `ToString` of a tuple, the empty string (`tcp/server.go:300`, lemma `NothingSwept`).
* `MessageDelayTime` is documented to count from sent and received messages
  (`tcp/server.go:34`); a packet received during the sleep does not count.
* `Stop` says that it waits for all goroutines (`tcp/server.go:338`); write loops and
  `checkCancel` are not counted and some never end.
* The default of a field sized by an expression or bits is cut to nothing when it is
  compiled (`node/bytes.go:275` documents otherwise).
* `endian: little` is documented (`core/field.go:31`); the code looks for `litter`.
* Floats of 4 and 8 bytes are refused by the message that asks for 4 or 8
  (`node/bytes.go:192`).
* The default end of a checksum is documented as the start of its field
  (`node/bytes.go:233`); for a field declared by size it is the end.
* `Round` is documented as the round a node is computed in (`core/node.go:36`); the
  rounds of nested nodes are not counted.
* `ReadBits` refuses more than 64 bits (`core/ctx.go:186`), but returns up to seven
  bits of the field before with those asked for; `BitFieldsDecode` says what comes
  out.

## Proofs

`ServerLifecycle_proofs` proves, for every finite set of connections, every
limit and every bound on panics:

* `Ownership`: the inductive invariant `Inv`. Type correctness and
  `NoOrphanSocket` are not inductive by themselves. `Fresh` adds that the
  connection in the acceptor's hand has a socket and no handler yet, and that no
  handler runs without a socket; `RegisteredRun` that the handler of an entry of
  `connections` is between `NewDeviceConnection` and `RemoveConnection`;
  `CleanerUnborn` that no cleaner exists before `StartCleaner`. The proof has
  one case for each action.
* `PermitsConserved`, `LimitRespected`: the counter equals the holders less the
  stray releases. Each step either changes no permit, takes one, gives one back
  or is a stray release (`PermitSteps`). The limit needs `Bounded` as well: what
  the acceptor loaded before its swap was below the limit, and the swap succeeds
  only on that value.
* `Semaphore`: each of those four kinds of step is a step of `ConnectionSlots`.
* `WgConserved`: the same argument for the wait group.
* `StopWaitsForAll`: `Wait` returns at zero, where without a panic nobody is enrolled
  (`NobodyAtZero`). Afterwards only the acceptor can enrol somebody, and with the
  listener closed it has at most the connection that it had in hand at that moment
  (`Drained`, which speaks of every moment after the return and not of the
  return only). `StopOrder` is what `Stop` has done by then.
* `RegisteredServed`, `NoSocketLeaks`: consequences of `Inv`.

`SharedData_proofs` is about what goroutines share without a lock. Of the history it
proves, for any number of adders and slots:
`PositionsOwned` (no position is claimed twice), `CountExact`, and from it
`CountNeverNegative` when there are no more adders than slots. Each goroutine in
`Add` owning a position of its own below `head` is what makes the number of them
that have yet to publish the gap between `count` and the slots filled.
`CellsTyped` ties each element to the slot of its position: positions below `head`
were claimed once, and the element of a position goes to that position modulo
`Size`. `CellsKept` is about every position ever taken: its slot has its
element or a newer one, or what was there before while its Add has still to store,
or the element of an Add that was overtaken by a lap (`Placed`). An Add keeps it
because the lap before it had the same slot (`ClaimKeepsCells`, `StoreKeepsCells`,
`OthersKeepCells`), and `LastLapKept` is what is left of it when no Add is under way:
two positions of the last lap never share a slot (`SlotsApart`).
`ReadersSeeRecent` is the history while it is written. A reader walks over positions
that were taken, in as many slots, and whose Add is under way was so when it read
`head` (`Walk`); what it has got came from the slot of its position, as that was
`Placed` then (`Got`). `GotOnce` follows: an element got twice would have come from two slots.

Of the checksums it proves, for any goroutines, any messages and all 23 algorithms:

* `TablesInvariant`, `TablesThere`: a call past its test has the index of its name, and
  the entry at an index has the parameters of that index, whoever made it last; so
  no call dereferences a nil table. This does not depend on the order of stores.
* `ChecksumsDivide`, `DigestsRun`: a checksum is the remainder of the division by the
  polynomial of its key, and a digest that of all it was given since its `Reset`,
  however it was cut. They assume `StoresInOrder`, as the passing run does:
  `crc16.go` fills a table before it publishes it, and on weakly ordered hardware
  another goroutine could see the pointer first. The argument is `EightBits`: `Xor` is
  linear, so eight shifts of the circuit are one step over the table. `ByteByByte`
  carries that over a message and `TableDivides` to the result. Both folds are recursive
  functions on the naturals; `AfterSteps` shows that they exist.
* `CrcOfTwoBytes`: `Crc` of any bytes is a number of two bytes.

That the parameters of the 23 algorithms are the published ones (`CheckValues`) is a
computation and stays with TLC.

`DeviceRegistry_proofs` proves, for any sets of connections, serial numbers and
packet handlers, every safety property of the registry:

* `RegistryInvariant`: the inductive invariant, six parts with one lemma for each.
  `Typed` has the interface types of what the maps hold, which the code's
  comparisons depend on: a `Tuple2` never equals a string, so `RemoveDeviceSn`
  deletes nothing (`NothingRemoved`) and the sweep neither (`NothingSwept`).
  `PendingAreClaims` says the same of what a handler, a tick or a discovery still
  carries as `RoutesAreClaims` says of the map, since a claim is stored steps after
  it was read. `ClaimsFollowConnect` dates a claim after its connection. `OwnedIsKnown`
  needs `FoundIsKnown`: while a heartbeat stores the new sub-devices one by one, the
  others that it found are in the map (`KnownStays`).
* `RoutesClaimed`, `NoneLedAstray`, `OwnedKnown`, `EntriesKept`: consequences.
* `ImplementsItsDirectory`: each action changes what `GetDeviceConnection` answers as
  one step of `Directory` allows. The lemmas say it for the operations that several
  actions share: `StoredImplements` (a claim that is stored routes to a live
  connection or to none), `ClaimImplements`, `ConnectImplements`,
  `RemovalImplements`, `CallerImplements`.

`ConnWriter_proofs` proves every safety property of the writer, for any senders,
delays and capacity:

* `WriterInvariant`: types with mutual exclusion, what each mode uses, and
  `RoomIsKept`: between its drop and its second attempt a Write keeps the room it
  made, because `writeLoop` cannot get past `mu` for a second message.
  `QueueAlwaysTakes` and `DropsBounded` follow.
* `DelayKept`, from `Spaced`: what is left to sleep, and the time since the last
  message, make at least the delay.
* `NothingLost`, `OrderKept`: each step moves a message from one place to the next
  (`FiledStep`); `AppendOrder` and `TailOrder` say what that does to a sequence.

`FrameStream_proofs` proves every safety property of the scanner, for any rules that
`Setup` accepts, negative numbers and empty literals included, any sizes and any stream:

* `SplitterConsumes`: on data that is there, `Splitter` takes at least a byte or
  panics under a fragile rule, whatever the rules are.
* `ScannerInvariant`: from that, every read finds an empty backlog (`RoomIsEmpty`:
  the buffer is emptied or made, never grown), and what lies in the buffer is the
  stream after the last result (`Unread`). `NothingKept`, `NothingSkipped` and
  `SoundRulesDoNotPanic` follow. The proof of the last one showed that an end
  delimiter that only begins inside the start panics too; a scheme of `stream` now
  has one. Numbers are those of an `int`, whose sums wrap around (`Wrap`).
* `TokensAreFrames`: what is emitted is cut where the rule says. `TextCut` and
  `BinaryCut` say what `Split` cuts off the buffer, `FoundInside` and `FirstEnd` that
  the delimiter found is the first one; `FrameGrows` that bytes which arrive later do
  not change a frame. `CutInv` ties every result so far to the stream from its
  place on. The first statement of `TokenIsFrame` was not provable: a length field
  may announce a packet that ends inside its own header (`framing/binary.go:48` tests
  it only against the buffer), and then the packet is cut there, so that a
  frame of a binary rule has its header in the stream and not always in the packet;
  a scheme of `stream` has such a rule. Nothing is said of rules under which
  `Split` may panic.

`ServerSends_proofs` proves for any connections and callers (`OneWriterAtATime`)
that callers, the cleaner and the write loop are never in `conn.Write` of one
connection at once. `HeldInWrite` ties the owner of `mu` to the program counters;
`NoLoopYet` strengthens it: no write loop runs, and so none holds `mu`, before
`Register` starts it.

`PacketCodec_proofs` proves, for any node trees, inputs and received bytes:

* `CodecInvariant`: the inductive invariant. Encode counts the nodes it passes and
  looks up by that count where the first round put them. So the invariant says that
  every round is on the same walk: `Walk` has the places of the first round, each
  what was still to do and how many nodes had been entered, and a later round is at
  one of them, because conditions, switches and array lengths depend on the input only
  (`ChildrenFrozen`, `SizeFrozen`). `WalkGrows` and `WalkGoesOn` say what entering a
  node does to it, `EnterStep`, `LeafSound` and `GroupSound` that a step stays on it,
  `NextRoundSound` that the next round begins it anew. `LogOf` ties every write to the node of
  the walk at its index, `Reserved` says which bytes are kept for the later rounds,
  `Valued` that the nodes whose round has come have their value. `SoundGrows` is the other actor: a
  Decode that resizes a shared node in between.
* `PatchesAreInPlace`, `AllFieldsComputed` (with `LastRoundSound`), `CodecTypes`:
  consequences. The proofs showed two exceptions that small protocols had not: a
  default that is not as long as its field, and a formula that gives a Boolean. Both
  are now protocols of `codec`.
* `BitsAreDecoded`: the read position in bytes and bits is what the fields have
  consumed, also across fields of whole bytes, and every value read consists of the
  bits of the packet at its place. `ShiftedSteps` shows that the function `Shifted`
  exists, from finite approximations; `BigEndianBits` that the bits of a big endian
  number are those of its bytes, `LastBits` what shifting in a part of the next
  byte adds. From them `FieldBits` says what `ReadBits` gives.
* `NumbersReadBack`: `OctetsMake` says that a number whose higher bits are all zero is made of
  its octets, by eight shifts at a time (`ByteShift`).
* `FixedSizesRoundTrip`: `RoundTrip` over every protocol of `FixedSizes`, fields of fixed size
  in any rounds and structures. `TripInv` has two halves, one for each actor. For
  Encode there is a list of spots (`Laid`), each the nodes still to do and the
  place where the next one begins; the first round makes it, no field of it begins
  before an earlier one has ended, and a later round is at one of its spots (`On`). A
  field whose round has come carries its value (`Kept`), and nothing that is
  written afterwards touches it (`KeptGoesOn`). For Decode, as long as it reads what
  Encode has made, it is at a spot of the same list, and what it has stored
  agrees with the input (`Agree`); `FieldBack` is the step. `FixedNodes` is asked of some
  set of nodes that holds those of the protocol and all below them, so that nothing is
  said of the other protocols of the Scheme. The protocol `Record` of `codec` is one
  of `FixedSizes`.

The theorems about `Spec` are proved under `ChecksumsAreNumbers`: what `Crc` returns is a
number, as the type `uint16` says, for the names that are known. For the algorithms of `Crc16` that is `CrcOfTwoBytes`
above. `NodesAssumption` and `ProtocolsAssumption` are what `Compile` accepts, with floats in
the inputs whole and below 32.

`SchemeSetup_proofs` proves, for any schemes, references and depths of the stack:

* `SetupInvariant`: every field of the definition is a node already or is on the list,
  and so is every group of a node (`Complete`); what is on the list lies on the level
  of the definition that its depth says (`Reached`); what stopped Setup was wrong
  on one of those levels (`Faulty`).
* `AcceptedIsSound`: at the end the list is empty, and then the nodes hold every level
  of the definition (`CompleteLevels`). No field leads to itself, since it would be
  compiled again at a greater depth, and of the depths of its nodes one is the
  greatest (`CompleteIsAcyclic`).
* `StopsOnAFault`: a call as deep as the stack has a chain of fields above it, so two
  of them are the same field or there are as many fields as calls (`DeepIsCyclic`, the
  pigeonhole principle).
* `DefaultsAreRead`: `DigitsMakeRemainder` for the bytes, `NumberReads` for both orders.
* `NodesAreTheDefinition`: nothing is lost, doubled or moved: the nodes, read in
  order, are the fields of the definition with every structure in its place.
  `ExpansionInv` says it at every step of Setup: the fields of the nodes made so
  far, followed by what the list of the fields to come stands for (`Rest`), are
  the expansion of the definition. `FieldMoves` and `GroupMoves` take a field and a
  group from the list to the nodes; `FlattenConcat` says that flattening goes over
  concatenation, `ExpansionSteps` that one level more of `Expansion` opens every
  structure once.

The levels and the expansion of a definition are recursive functions on the naturals. The library's
theorems about such functions take operators and cannot be used, so
`LevelsSteps` and `Recursion` show that the functions exist, from finite approximations
and the least number at which two of them differ. The attempt also showed that two definitions of
the model had `CASE` arms that overlapped, which left them undetermined; they are
written with `IF` now.

Assumptions are the named `ASSUME`s of the modules: finite sets, sizes that
are natural numbers, and the shapes of nodes and schemes. TLC evaluates each of them in
a passing run.

The type invariants of all components are theorems.

Only model-checked: all liveness, since it needs fairness; `CheckValues`; and `RoundTrip`
of the protocols that are not of `FixedSizes`, those with branches, checksums, formulas and sizes
that come from fields. It does not hold of every protocol that the assumptions
allow: a branch may look at a field that the packet has only later, a checksum may
cover bytes that a later round writes. It is checked on protocols in the shapes of the
resources.

## Not modelled

* YAML decoding and CEL itself: external. `Eval` stands for the expression forms
  in use; that an expression compiles is a choice of `SchemeSetup`.
* Decimal strings that the code would take for numbers, formulas that give
  strings, bytes or floats.
* `dsl.go` is commented out. The line, word and rune splitters that
  `utils/scanner.go` took from `bufio`, a reader that returns nothing for ever, and
  custom split functions have no caller.
* The torn writes of unsynchronised fields (`sn`,
  `subDevices`, `Type` of a shared node): values are read whole in the model.
* More than one message of a Heartbeat for each visit in `ServerSends`; the wrap of
  the `int32` head of the history after 2^31 packets; `Histories`, which filters
  out what `EmitResult` stores, for every input alike.
* Logging and socket options, other than that setting them may fail.

## Plan

1. Done: all modules above, with the proofs of every safety property of
   `ServerLifecycle`, `DeviceRegistry`, `ConnWriter`, `ServerSends`, `CircularBuffer`,
   `CrcTables`, `FrameStream` and `SchemeSetup`,
   and of `PacketCodec`, `RoundTrip` there of fields of fixed size.
2. Model next: the history with `ScanResult`s of `FrameStream` in it; a switch on
   values of every type; several messages in one Heartbeat; `ServerSends` on two
   connections, where the cleaner has to come round to the other one.
3. Prove next: `RoundTrip` with the sizes that fields give, which needs that a field is
   read before it is used, and with checksums over what earlier rounds have written.
