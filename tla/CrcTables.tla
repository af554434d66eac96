------------------------------- MODULE CrcTables -------------------------------
(* Checksum and New of crc16, called by goroutines of all connections: each  *)
(* algorithm has a table in the package variable `tables`, made on first use *)
(* without a lock, and a digest keeps a running sum over a table.  A table is *)
(* modelled by its parameters, from which its entries follow (TableEntry of  *)
(* Crc16): a table whose parameters are all zero has only zero entries.      *)
EXTENDS Crc16

CONSTANTS Goroutines,
          Names,          \* keys of Crc16Map that the goroutines use
          Chunks,         \* pieces of data given to Checksum or Write
          MaxFed,         \* bound: bytes written to a digest between resets
          StoresInOrder,  \* other goroutines see stores in program order
          NoTable

ASSUME NamesAssumption == Names \subseteq DOMAIN Algorithms
ASSUME ChunksAssumption == Chunks \subseteq Seq(0..255) /\ MaxFed \in Nat
ASSUME OrderAssumption == StoresInOrder \in BOOLEAN

\* Crc16Map, by which a key of a protocol becomes an index.
Crc16Map ==
  [arc |-> 0, aug_ccitt |-> 1, buypass |-> 2, ccitt_false |-> 3, cdma2000 |-> 4,
   dds_110 |-> 5, dect_r |-> 6, dect_x |-> 7, dnp |-> 8, en_13757 |-> 9,
   genibus |-> 10, maxim |-> 11, mcrf4xx |-> 12, riello |-> 13, t10_dif |-> 14,
   teledisk |-> 15, tms37157 |-> 16, usb |-> 17, crc_a |-> 18, kermit |-> 19,
   modbus |-> 20, x_25 |-> 21, xmodem |-> 22]

\* The list params, by which an index becomes an algorithm.
ParamsList ==
  <<"arc", "aug_ccitt", "buypass", "ccitt_false", "cdma2000", "dds_110", "dect_r",
    "dect_x", "dnp", "en_13757", "genibus", "maxim", "mcrf4xx", "riello", "t10_dif",
    "teledisk", "tms37157", "usb", "crc_a", "kermit", "modbus", "x_25", "xmodem">>

ParamsOf(t) == Algorithms[ParamsList[t + 1]]
ASSUME NoTableAssumption ==
  \A g \in Goroutines, t \in 0..22 : NoTable # [maker |-> g, params |-> ParamsOf(t)]
InRange(t) == t \in 0..22
Blank == Params(0, 0, FALSE, 0, 0)

VARIABLES
  tables,  \* the package variable: NoTable, or the maker and the parameters
  worker   \* [pc, op, name, t, table, data, sum]: the call of each goroutine;
           \* data is a history of the bytes since the last Reset

tablesVars == <<tables, worker>>

Idle == [pc |-> "idle", op |-> "none", name |-> NoTable, t |-> 0, table |-> Blank,
         data |-> <<>>, sum |-> Word(0)]
TablesInit ==
  /\ tables = [t \in 0..22 |-> NoTable]
  /\ worker = [g \in Goroutines |-> Idle]

At(g, pc) == worker[g].pc = pc
GoTo(g, pc) == worker' = [worker EXCEPT ![g].pc = pc]

-----------------------------------------------------------------------------
\* Crc16: no data has checksum 0 whatever the key is.
CallCrc16(g, name, data) ==
  /\ At(g, "idle") /\ data # <<>>
  /\ worker' = [worker EXCEPT ![g] = [Idle EXCEPT !.op = "Checksum", !.pc = "test",
                                        !.name = name, !.t = Crc16Map[name], !.data = data]]
  /\ UNCHANGED tables

\* New of an index, which panics outside of 0 to 22.
CallNew(g, name, t) ==
  /\ At(g, "idle")
  /\ worker' = [worker EXCEPT ![g] = [Idle EXCEPT !.op = "New", !.name = name, !.t = t,
                                        !.pc = IF InRange(t) THEN "test" ELSE "refused"]]
  /\ UNCHANGED tables

\* Mutation: the test is left out.
TestMissing(g) ==
  /\ At(g, "test")
  /\ GoTo(g, "load")
  /\ UNCHANGED tables

\* The first read of tables[t].
Test(g) ==
  /\ At(g, "test")
  /\ GoTo(g, IF tables[worker[g].t] = NoTable THEN "make" ELSE "load")
  /\ UNCHANGED tables

\* MakeTable, and the store; the table of another goroutine may be replaced.
MakeTable(g) ==
  /\ At(g, "make")
  /\ tables' = [tables EXCEPT ![worker[g].t] = [maker |-> g, params |-> ParamsOf(worker[g].t)]]
  /\ GoTo(g, "load")

\* Mutation: the table is published before it is filled.
SeenEarly(g, entry) == {entry.params} \cup IF entry.maker = g THEN {} ELSE {Blank}

\* What a goroutine sees of a table that is in `tables`: the pointer says
\* nothing of the contents, unless it made the table or stores keep their order.
Seen(g, entry) ==
  {entry.params} \cup IF StoresInOrder \/ entry.maker = g THEN {} ELSE {Blank}

\* The second read.  Checksum computes at once; New makes a digest and resets it.
\* A nil table would be dereferenced.
Load(g) ==
  /\ At(g, "load")
  /\ IF tables[worker[g].t] = NoTable THEN GoTo(g, "nil")
     ELSE \E p \in Seen(g, tables[worker[g].t]) :
            worker' = [worker EXCEPT ![g].table = p, ![g].pc = "ready",
                                     ![g].sum = UpdateAll(p, p.init, worker[g].data)]
  /\ UNCHANGED tables

(* ------------------------------ The digest ------------------------------- *)
Holds(g) == At(g, "ready") /\ worker[g].op = "New"

Write(g, data) ==
  /\ Holds(g) /\ Len(worker[g].data) + Len(data) <= MaxFed
  /\ worker' = [worker EXCEPT ![g].sum = UpdateAll(worker[g].table, @, data),
                              ![g].data = @ \o data]
  /\ UNCHANGED tables

\* Mutation: Reset clears the register.
ResetToZero(g) ==
  /\ Holds(g)
  /\ worker' = [worker EXCEPT ![g].sum = Word(0), ![g].data = <<>>]
  /\ UNCHANGED tables

Reset(g) ==
  /\ Holds(g)
  /\ worker' = [worker EXCEPT ![g].sum = worker[g].table.init, ![g].data = <<>>]
  /\ UNCHANGED tables

\* Sum16, and the result of Checksum.
Sum16(g) == Complete(worker[g].table, worker[g].sum)

\* Sum appends the leftmost byte first.
Sum(g, b) == b \o <<Number(Sum16(g)) \div 256, Number(Sum16(g)) % 256>>

Finish(g) ==
  /\ At(g, "ready") \/ At(g, "refused")
  /\ worker' = [worker EXCEPT ![g] = Idle]
  /\ UNCHANGED tables

-----------------------------------------------------------------------------
TablesNext ==
  \E g \in Goroutines :
    \/ \E name \in Names, data \in Chunks : CallCrc16(g, name, data)
    \/ \E name \in Names : CallNew(g, name, Crc16Map[name])
    \/ \E t \in {-1, 23} : CallNew(g, NoTable, t)
    \/ Test(g) \/ MakeTable(g) \/ Load(g) \/ Reset(g) \/ Finish(g)
    \/ \E data \in Chunks : Write(g, data)

TablesSpec == TablesInit /\ [][TablesNext]_tablesVars

(* ----------------------------- Properties -------------------------------- *)
TablesTypeOK ==
  /\ \A t \in 0..22 :
       tables[t] = NoTable \/ (tables[t].maker \in Goroutines /\ tables[t].params = ParamsOf(t))
  /\ \A g \in Goroutines :
       /\ worker[g].pc \in {"idle", "test", "make", "load", "ready", "refused", "nil"}
       /\ worker[g].op \in {"none", "Checksum", "New"}
       /\ worker[g].name \in Names \cup {NoTable} /\ worker[g].t \in -1..23
       /\ worker[g].data \in Seq(0..255) /\ worker[g].sum \in Words

\* No interleaving of first uses leaves the table of another algorithm at an
\* index, nor lets a goroutine go on with a table that is not there or with an
\* index outside of the list (crc16.go:114-119).
TableIsThere ==
  /\ TablesTypeOK
  /\ \A g \in Goroutines :
       /\ ~At(g, "nil")
       /\ worker[g].pc \in {"test", "make", "load", "ready"} => InRange(worker[g].t)

\* What Checksum returns is the remainder of the division by the polynomial that
\* the key names, while other goroutines make and replace the same table.
\* crc16.go:102 says so: the checksum using the specified algorithm.
ChecksumIsRemainder ==
  \A g \in Goroutines :
    At(g, "ready") /\ worker[g].op = "Checksum"
      => Sum16(g) = Division(worker[g].name, worker[g].data)

\* A digest gives the checksum of all that was written since the last Reset,
\* however it was cut into Writes, and Sum gives the two bytes of it in order.
DigestIsRunning ==
  \A g \in Goroutines :
    Holds(g) => /\ Sum16(g) = Division(worker[g].name, worker[g].data)
                /\ 256 * Sum(g, <<7>>)[2] + Sum(g, <<7>>)[3] = Number(Sum16(g))
=============================================================================
