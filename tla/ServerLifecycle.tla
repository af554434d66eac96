--------------------------- MODULE ServerLifecycle ---------------------------
(* tcp/server.go: the accept loop of Start, the handleConnection goroutine   *)
(* of every accepted connection, connectionCleaner with its panic recovery,  *)
(* and Stop, sharing connectionCounts (an atomic), wg (a WaitGroup), ctx,    *)
(* listener and the sync.Map connections.  Every atomic operation on shared  *)
(* state is a step of its own.                                               *)
EXTENDS Integers, FiniteSets

CONSTANTS Conns,           \* the TCP connections that clients ever open
          MaxConnections,  \* config.MaxConnections
          MaxPanics,       \* bound: panics of connectionCleaner that are caught
          NoConn           \* the acceptor holds no connection

ASSUME ConnsAssumption == IsFiniteSet(Conns) /\ NoConn \notin Conns
ASSUME MaxAssumption == MaxConnections \in Nat /\ MaxPanics \in Nat

VARIABLES
  counts,       \* s.connectionCounts
  wg,           \* the counter of s.wg
  waiter,       \* Stop's goroutine that calls s.wg.Wait
  late,         \* history: what Start had still to enrol when that Wait returned
  crashed,      \* a goroutine that recovers nothing has panicked
  ctxDone,      \* s.ctx is cancelled
  listener,     \* s.listener: nil, open or closed
  connections,  \* keys of s.connections
  acceptor,     \* [pc, conn, current]: the goroutine that runs Start
  handler,      \* pc of the goroutine of each connection
  sock,         \* the socket of each connection, seen from the server
  ended,        \* the peer hung up, or its bytes make Scan fail or panic
  cleaner,      \* pc of connectionCleaner
  panics,       \* caught panics of connectionCleaner so far
  stray,        \* `go s.releaseConnection()` goroutines that have not run
  stop,         \* pc of Stop
  toClose       \* keys that Stop's Range has still to visit

vars == <<counts, wg, waiter, late, crashed, ctxDone, listener, connections,
          acceptor, handler, sock, ended, cleaner, panics, stray, stop, toClose>>

sharedMaps == <<connections, sock, ended, toClose>>
waitVars == <<waiter, late, crashed>>
stopVars == <<waitVars, ctxDone, listener, stop>>
cleanerVars == <<cleaner, panics, stray>>

AcceptorPcs == {"listen", "cleaner", "accept", "load", "swap", "reject",
                "add", "wake", "spawn", "returned"}
HandlerPcs == {"none", "start", "scan", "remove", "release", "done", "wake", "close",
               "gone"}
CleanerPcs == {"none", "loop", "panicking", "returning", "panicWake", "wake", "catch",
               "gone"}
StopPcs == {"idle", "listener", "range", "wait", "select", "nil", "timeout"}

TypeOK ==
  /\ counts \in Int /\ wg \in Int
  /\ waiter \in {"none", "waiting", "woken", "returned"}
  /\ crashed \in BOOLEAN
  /\ ctxDone \in BOOLEAN
  /\ listener \in {"nil", "open", "closed"}
  /\ connections \subseteq Conns /\ toClose \subseteq Conns
  /\ acceptor \in [pc : AcceptorPcs, conn : Conns \cup {NoConn}, current : Int]
  /\ late \in [conn : Conns \cup {NoConn}, cleaner : 0..1]
  /\ handler \in [Conns -> HandlerPcs]
  /\ sock \in [Conns -> {"none", "open", "closed"}]
  /\ ended \in [Conns -> BOOLEAN]
  /\ cleaner \in CleanerPcs
  /\ panics \in 0..MaxPanics /\ stray \in 0..panics
  /\ stop \in StopPcs
  /\ (acceptor.conn = NoConn) <=> acceptor.pc \in {"listen", "cleaner", "accept", "returned"}

Init ==
  /\ counts = 0 /\ wg = 0 /\ waiter = "none" /\ crashed = FALSE
  /\ ctxDone = FALSE /\ listener = "nil"
  /\ connections = {} /\ toClose = {}
  /\ acceptor = [pc |-> "listen", conn |-> NoConn, current |-> 0]
  /\ late = [conn |-> NoConn, cleaner |-> 0]
  /\ handler = [c \in Conns |-> "none"]
  /\ sock = [c \in Conns |-> "none"]
  /\ ended = [c \in Conns |-> FALSE]
  /\ cleaner = "none" /\ panics = 0 /\ stray = 0
  /\ stop = "idle"

-----------------------------------------------------------------------------
(* sync.WaitGroup.  The goroutine whose Add or Done takes the counter to zero *)
(* under a waiter wakes it in a step of its own, and panics in place of that  *)
(* when the counter has changed in between.                                   *)
WgAdd(d) == wg' = wg + d

LastOut(d) == waiter = "waiting" /\ wg + d = 0

WaiterIsAsleep == waiter = "waiting" /\ wg = 0
WakeWaiter == waiter' = IF WaiterIsAsleep THEN "woken" ELSE waiter

\* Add(1) panics on a counter that stays negative, and on one that it raises
\* from zero while a waiter waits.  Start recovers from neither.
EnrolOne ==
  /\ WgAdd(1)
  /\ crashed' = (wg + 1 < 0 \/ WaiterIsAsleep)

(* Program counters.  Nothing runs in a process that has crashed.            *)
AcceptorAt(pc) == acceptor.pc = pc /\ ~crashed
CleanerAt(pc) == cleaner = pc /\ ~crashed
StopAt(pc) == stop = pc /\ ~crashed
HandlerStep(c, from, to) ==
  /\ handler[c] = from /\ ~crashed
  /\ handler' = [handler EXCEPT ![c] = to]

(* ------------------------------ Start ------------------------------------ *)
GoTo(pc) == acceptor' = [acceptor EXCEPT !.pc = pc]
NextAccept == acceptor' = [pc |-> "accept", conn |-> NoConn, current |-> 0]

Listen ==
  /\ AcceptorAt("listen")
  /\ listener' = "open"
  /\ GoTo("cleaner")
  /\ UNCHANGED <<counts, wg, waitVars, ctxDone, stop, handler, sharedMaps, cleanerVars>>

ListenFails ==
  /\ AcceptorAt("listen")
  /\ GoTo("returned")
  /\ UNCHANGED <<counts, wg, handler, sharedMaps, stopVars, cleanerVars>>

\* Nobody was counted before: a Stop that came first did not have to wait.
StartCleaner ==
  /\ AcceptorAt("cleaner")
  /\ EnrolOne
  /\ cleaner' = "loop"
  /\ GoTo("accept")
  /\ UNCHANGED <<counts, waiter, late, ctxDone, listener, stop, handler, sharedMaps,
                 panics, stray>>

Accept(c) ==
  /\ AcceptorAt("accept")
  /\ listener = "open"
  /\ sock[c] = "none"
  /\ sock' = [sock EXCEPT ![c] = "open"]
  /\ acceptor' = [pc |-> "load", conn |-> c, current |-> 0]
  /\ UNCHANGED <<counts, wg, connections, ended, toClose, handler, stopVars, cleanerVars>>

\* Mutation: the loop continues on every Accept error.
AcceptFailsContinues ==
  /\ AcceptorAt("accept")
  /\ GoTo("accept")
  /\ UNCHANGED <<counts, wg, handler, sharedMaps, stopVars, cleanerVars>>

\* Any error of Accept: it ends the loop if ctx is cancelled and is retried
\* otherwise.  A closed listener gives one every time, an open one at times.
AcceptFails ==
  /\ AcceptorAt("accept")
  /\ GoTo(IF ctxDone THEN "returned" ELSE "accept")
  /\ UNCHANGED <<counts, wg, handler, sharedMaps, stopVars, cleanerVars>>

\* Mutation: the limit is compared with > instead of >=.
LoadCountsOffByOne ==
  /\ AcceptorAt("load")
  /\ acceptor' = [acceptor EXCEPT
                    !.pc = IF counts > MaxConnections THEN "reject" ELSE "swap",
                    !.current = counts]
  /\ UNCHANGED <<counts, wg, handler, sharedMaps, stopVars, cleanerVars>>

\* acceptConnection, first half: the load and the comparison with the limit.
LoadCounts ==
  /\ AcceptorAt("load")
  /\ acceptor' = [acceptor EXCEPT
                    !.pc = IF counts >= MaxConnections THEN "reject" ELSE "swap",
                    !.current = counts]
  /\ UNCHANGED <<counts, wg, handler, sharedMaps, stopVars, cleanerVars>>

\* Mutation: the loaded value plus one is stored without comparing.
SwapCountsBlind ==
  /\ AcceptorAt("swap")
  /\ counts' = acceptor.current + 1 /\ GoTo("add")
  /\ UNCHANGED <<wg, handler, sharedMaps, stopVars, cleanerVars>>

\* Second half: one CompareAndSwap, which fails when a release came between.
SwapCounts ==
  /\ AcceptorAt("swap")
  /\ IF counts = acceptor.current
       THEN counts' = counts + 1 /\ GoTo("add")
       ELSE UNCHANGED counts /\ GoTo("reject")
  /\ UNCHANGED <<wg, handler, sharedMaps, stopVars, cleanerVars>>

\* Mutation: the rejected socket is dropped without Close.
RejectLeaksSocket ==
  /\ AcceptorAt("reject")
  /\ NextAccept
  /\ UNCHANGED <<counts, wg, handler, sharedMaps, stopVars, cleanerVars>>

Reject ==
  /\ AcceptorAt("reject")
  /\ sock' = [sock EXCEPT ![acceptor.conn] = "closed"]
  /\ NextAccept
  /\ UNCHANGED <<counts, wg, connections, ended, toClose, handler, stopVars, cleanerVars>>

\* Mutation: wg.Add is left to the handler goroutine, which forgets it.
AddHandlerUncounted ==
  /\ AcceptorAt("add")
  /\ GoTo("spawn")
  /\ UNCHANGED <<counts, wg, handler, sharedMaps, stopVars, cleanerVars>>

\* From -1, where a respawned cleaner may have left it, it comes to zero itself.
AddHandler ==
  /\ AcceptorAt("add")
  /\ EnrolOne
  /\ GoTo(IF LastOut(1) THEN "wake" ELSE "spawn")
  /\ UNCHANGED <<counts, waiter, late, ctxDone, listener, stop, handler, sharedMaps,
                 cleanerVars>>

AcceptorWakes ==
  /\ AcceptorAt("wake")
  /\ WakeWaiter
  /\ crashed' = ~WaiterIsAsleep
  /\ GoTo("spawn")
  /\ UNCHANGED <<counts, wg, late, ctxDone, listener, stop, handler, sharedMaps,
                 cleanerVars>>

SpawnHandler ==
  /\ AcceptorAt("spawn")
  /\ handler' = [handler EXCEPT ![acceptor.conn] = "start"]
  /\ NextAccept
  /\ UNCHANGED <<counts, wg, sharedMaps, stopVars, cleanerVars>>

(* ------------------------- handleConnection ------------------------------ *)
\* Mutation: the early return comes before `defer s.wg.Done()`.
OptimalFailsUncounted(c) ==
  /\ HandlerStep(c, "start", "close")
  /\ counts' = counts - 1
  /\ UNCHANGED <<wg, acceptor, sharedMaps, stopVars, cleanerVars>>

\* OptimalTcpConn fails: the deferred calls run, nothing was registered.
OptimalFails(c) ==
  /\ HandlerStep(c, "start", "release")
  /\ UNCHANGED <<counts, wg, acceptor, sharedMaps, stopVars, cleanerVars>>

\* NewDeviceConnection stores the connection; Scan begins.
Register(c) ==
  /\ HandlerStep(c, "start", "scan")
  /\ connections' = connections \cup {c}
  /\ UNCHANGED <<counts, wg, acceptor, sock, ended, toClose, stopVars, cleanerVars>>

\* Mutation: Scan retries at the end of the stream and returns on Close only.
ScanIgnoresPeer(c) ==
  /\ sock[c] = "closed"
  /\ HandlerStep(c, "scan", "remove")
  /\ UNCHANGED <<counts, wg, acceptor, sharedMaps, stopVars, cleanerVars>>

\* Scan returns, or panics into the deferred calls.
ScanReturns(c) ==
  /\ ended[c] \/ sock[c] = "closed"
  /\ HandlerStep(c, "scan", "remove")
  /\ UNCHANGED <<counts, wg, acceptor, sharedMaps, stopVars, cleanerVars>>

RemoveConnection(c) ==
  /\ HandlerStep(c, "remove", "release")
  /\ connections' = connections \ {c}
  /\ UNCHANGED <<counts, wg, acceptor, sock, ended, toClose, stopVars, cleanerVars>>

ReleaseConnection(c) ==
  /\ HandlerStep(c, "release", "done")
  /\ counts' = counts - 1
  /\ UNCHANGED <<wg, acceptor, sharedMaps, stopVars, cleanerVars>>

\* A negative counter makes Done panic; the remaining deferred calls still run
\* and NormalRecover swallows the panic, so the next step is the same.
HandlerDone(c) ==
  /\ HandlerStep(c, "done", IF LastOut(-1) THEN "wake" ELSE "close")
  /\ WgAdd(-1)
  /\ UNCHANGED <<counts, acceptor, sharedMaps, stopVars, cleanerVars>>

HandlerWakes(c) ==
  /\ HandlerStep(c, "wake", "close")
  /\ WakeWaiter
  /\ UNCHANGED <<counts, wg, late, crashed, ctxDone, listener, stop, acceptor,
                 sharedMaps, cleanerVars>>

CloseSocket(c) ==
  /\ HandlerStep(c, "close", "gone")
  /\ sock' = [sock EXCEPT ![c] = "closed"]
  /\ UNCHANGED <<counts, wg, acceptor, connections, ended, toClose, stopVars, cleanerVars>>

\* The peer: hangs up, or sends bytes on which Scan returns an error or panics.
\* Once Scan has returned, nobody reads what the peer does.
PeerEnds(c) ==
  /\ sock[c] = "open" /\ ~ended[c] /\ ~crashed
  /\ handler[c] \in {"none", "start", "scan"}
  /\ ended' = [ended EXCEPT ![c] = TRUE]
  /\ UNCHANGED <<counts, wg, acceptor, handler, connections, sock, toClose,
                 stopVars, cleanerVars>>

(* ------------------------- connectionCleaner ----------------------------- *)
\* The discovery function, an encoder or a racing slice read panics in a tick.
CleanerPanics ==
  /\ CleanerAt("loop") /\ panics < MaxPanics
  /\ cleaner' = "panicking"
  /\ UNCHANGED <<counts, wg, acceptor, handler, sharedMaps, stopVars, panics, stray>>

CleanerReturns ==
  /\ CleanerAt("loop") /\ ctxDone
  /\ cleaner' = "returning"
  /\ UNCHANGED <<counts, wg, acceptor, handler, sharedMaps, stopVars, panics, stray>>

\* The deferred wg.Done, which panics itself when the counter gets negative.
CleanerDone ==
  /\ CleanerAt("panicking") \/ CleanerAt("returning")
  /\ WgAdd(-1)
  /\ cleaner' = CASE LastOut(-1) /\ cleaner = "panicking" -> "panicWake"
                  [] LastOut(-1) /\ cleaner = "returning" -> "wake"
                  [] OTHER -> IF cleaner = "panicking" \/ wg - 1 < 0 THEN "catch" ELSE "gone"
  /\ UNCHANGED <<counts, acceptor, handler, sharedMaps, stopVars, panics, stray>>

CleanerWakes ==
  /\ CleanerAt("panicWake") \/ CleanerAt("wake")
  /\ WakeWaiter
  /\ cleaner' = IF cleaner = "wake" /\ WaiterIsAsleep THEN "gone" ELSE "catch"
  /\ UNCHANGED <<counts, wg, late, crashed, ctxDone, listener, stop, acceptor, handler,
                 sharedMaps, panics, stray>>

\* The handler given to Catch: one stray release, and a new cleaner for which
\* nobody calls wg.Add.
CleanerCatch ==
  /\ CleanerAt("catch") /\ panics < MaxPanics
  /\ panics' = panics + 1
  /\ stray' = stray + 1
  /\ cleaner' = "loop"
  /\ UNCHANGED <<counts, wg, acceptor, handler, sharedMaps, stopVars>>

StrayRelease ==
  /\ stray > 0 /\ ~crashed
  /\ stray' = stray - 1
  /\ counts' = counts - 1
  /\ UNCHANGED <<wg, acceptor, handler, sharedMaps, stopVars, cleaner, panics>>

(* -------------------------------- Stop ----------------------------------- *)
StopCancel ==
  /\ StopAt("idle")
  /\ ctxDone' = TRUE
  /\ stop' = "listener"
  /\ UNCHANGED <<counts, wg, waitVars, listener, acceptor, handler, sharedMaps, cleanerVars>>

\* A Stop that overtakes Start finds a nil listener and closes nothing.
StopListener ==
  /\ StopAt("listener")
  /\ listener' = IF listener = "nil" THEN "nil" ELSE "closed"
  /\ toClose' = connections
  /\ stop' = "range"
  /\ UNCHANGED <<counts, wg, waitVars, ctxDone, acceptor, handler, connections, sock,
                 ended, cleanerVars>>

\* Mutation: Close cancels the context and leaves the socket open.
StopVisitCancelsOnly(c) ==
  /\ StopAt("range")
  /\ c \in connections \cap toClose
  /\ toClose' = toClose \ {c}
  /\ UNCHANGED <<counts, wg, acceptor, handler, connections, sock, ended, stopVars,
                 cleanerVars>>

\* sync.Map.Range visits every key that stays in the map from its start, and
\* may or may not visit one stored meanwhile.
StopVisit(c) ==
  /\ StopAt("range")
  /\ c \in connections
  /\ c \in toClose \/ sock[c] = "open"
  /\ sock' = [sock EXCEPT ![c] = "closed"]
  /\ toClose' = toClose \ {c}
  /\ UNCHANGED <<counts, wg, acceptor, handler, connections, ended, stopVars, cleanerVars>>

StopRangeEnds ==
  /\ StopAt("range")
  /\ toClose \cap connections = {}
  /\ toClose' = {}
  /\ stop' = "wait"
  /\ UNCHANGED <<counts, wg, waitVars, ctxDone, listener, acceptor, handler, connections,
                 sock, ended, cleanerVars>>

WaiterReturns ==
  /\ waiter' = "returned"
  /\ late' = [conn |-> acceptor.conn,
             cleaner |-> IF acceptor.pc = "cleaner" THEN 1 ELSE 0]

\* The goroutine that Stop starts: Wait returns at once on zero.
StopWaits ==
  /\ StopAt("wait")
  /\ IF wg = 0 THEN WaiterReturns ELSE waiter' = "waiting" /\ UNCHANGED late
  /\ stop' = "select"
  /\ UNCHANGED <<counts, wg, crashed, ctxDone, listener, acceptor, handler, sharedMaps,
                 cleanerVars>>

\* It panics, unrecovered, when it wakes up and finds the counter in use again.
WaitReturns ==
  /\ waiter = "woken" /\ ~crashed
  /\ IF wg = 0 THEN WaiterReturns /\ UNCHANGED crashed
               ELSE crashed' = TRUE /\ UNCHANGED <<waiter, late>>
  /\ UNCHANGED <<counts, wg, ctxDone, listener, stop, acceptor, handler, sharedMaps,
                 cleanerVars>>

StopReturns ==
  /\ StopAt("select")
  /\ waiter = "returned"
  /\ stop' = "nil"
  /\ UNCHANGED <<counts, wg, waitVars, ctxDone, listener, acceptor, handler, sharedMaps,
                 cleanerVars>>

StopTimesOut ==
  /\ StopAt("select")
  /\ stop' = "timeout"
  /\ UNCHANGED <<counts, wg, waitVars, ctxDone, listener, acceptor, handler, sharedMaps,
                 cleanerVars>>

-----------------------------------------------------------------------------
AcceptorNext ==
  \/ Listen \/ ListenFails \/ StartCleaner \/ LoadCounts \/ SwapCounts
  \/ Reject \/ AddHandler \/ AcceptorWakes \/ SpawnHandler

HandlerNext(c) ==
  \/ OptimalFails(c) \/ Register(c) \/ ScanReturns(c) \/ RemoveConnection(c)
  \/ ReleaseConnection(c) \/ HandlerDone(c) \/ HandlerWakes(c) \/ CloseSocket(c)

CleanerNext == CleanerReturns \/ CleanerDone \/ CleanerWakes \/ CleanerCatch

StopNext ==
  \/ StopListener \/ StopRangeEnds \/ StopWaits \/ StopReturns \/ StopTimesOut
  \/ \E c \in Conns : StopVisit(c)

Next ==
  \/ AcceptorNext \/ AcceptFails \/ CleanerNext \/ CleanerPanics \/ StrayRelease
  \/ StopCancel \/ StopNext \/ WaitReturns
  \/ \E c \in Conns : Accept(c) \/ HandlerNext(c) \/ PeerEnds(c)

Spec == Init /\ [][Next]_vars

\* The Go scheduler runs every goroutine that can run.  No client has to
\* connect or hang up, nobody has to call Stop, no panic has to happen, and an
\* open listener owes Accept no error.
FairSpec ==
  /\ Spec
  /\ WF_vars(AcceptorNext \/ (listener = "closed" /\ AcceptFails))
  /\ WF_vars(CleanerNext)
  /\ WF_vars(StopNext)
  /\ WF_vars(WaitReturns)
  /\ \A c \in Conns : WF_vars(HandlerNext(c))

-----------------------------------------------------------------------------
Serving(c) == handler[c] \in {"start", "scan", "remove", "release"}

\* The connections that own a permit of connectionCounts.
Holders ==
  {c \in Conns : Serving(c) \/ (acceptor.conn = c /\ acceptor.pc \in {"add", "wake", "spawn"})}

\* The goroutines that wg.Add counted and that have not called Done.
Enrolled ==
  {c \in Conns : Serving(c) \/ handler[c] = "done"
                 \/ (acceptor.conn = c /\ acceptor.pc \in {"wake", "spawn"})}

CleanerLive == IF cleaner \in {"loop", "panicking", "returning"} THEN 1 ELSE 0

(* ----------------------------- Properties -------------------------------- *)
\* The atomic counter equals the permits really taken, less the releases that
\* panic recoveries made for nobody: across the accept loop, every handler and
\* the cleaner, each permit is taken once and given back once.
PermitsAccounted == counts = Cardinality(Holders) - (panics - stray)

\* The check of the limit and the increment are two atomics, yet connections
\* with a permit never exceed MaxConnections, except by one for every panic of
\* the cleaner (server.go:123-133).
LimitHolds == Cardinality(Holders) <= MaxConnections + (panics - stray)

\* The WaitGroup counts the live handlers, from wg.Add in Start to Done in
\* their deferred calls, and the cleaner; every respawn of a panicked cleaner
\* takes away one count that is not its own (server.go:114, 273-277).
WgAccounted == wg = Cardinality(Enrolled) + CleanerLive - panics

\* A connection that SendCommand or Stop can find is served by a handler that
\* still holds its permit: s.connections never has more entries than permits.
RegisteredAreServed == \A c \in connections : Serving(c)

\* Every socket the server has open belongs to the acceptor or to a handler
\* that will close it, on the reject path and on every exit of a handler.
NoOrphanSocket ==
  \A c \in Conns :
    sock[c] = "open" => acceptor.conn = c \/ handler[c] \notin {"none", "gone"}

\* Unless the cleaner has panicked or Stop overtook Start, a Stop that reports
\* success leaves no handler behind that is enrolled, registered or holds a
\* permit, but for the one connection that the acceptor had in hand when Wait
\* returned; and no cleaner, unless Start had still to begin it
\* (server.go:136-140, 338-348).
StopLeavesNobody ==
  stop = "nil" /\ listener = "closed" /\ panics = 0
    => /\ Holders \cup Enrolled \cup connections \subseteq {late.conn}
       /\ CleanerLive <= late.cleaner

\* The server admits connections as a semaphore of MaxConnections permits
\* does, extended by one permit for each panic of the cleaner.
Slots == INSTANCE ConnectionSlots WITH held <- Holders, extra <- panics - stray
ImplementsSlots == Slots!Spec

\* A connection whose peer goes away is unregistered, gives back its permit
\* and its count, and has its socket closed, whatever the rest of the server
\* is doing.
DisconnectReleases ==
  \A c \in Conns : handler[c] = "scan" /\ ended[c] ~> handler[c] = "gone" \/ crashed

\* A connection registered when the Range of Stop begins is closed by it and
\* unregistered by its own handler, though its peer stays connected.
StopDrainsRegistered ==
  \A c \in Conns : stop = "range" /\ c \in toClose ~> c \notin connections \/ crashed

\* Start returns after Stop has closed the listener, whatever connection the
\* acceptor was busy with.
StartReturns == listener = "closed" ~> AcceptorAt("returned") \/ crashed

(* What a comment of the code says and the code does not do.                 *)
\* server.go:330 announces that Stop closes all connections: once the listener
\* is closed and the Range is over, no registered connection has an open socket.
StopClosesAll ==
  listener = "closed" /\ stop \in {"wait", "select", "nil", "timeout"}
    => \A c \in connections : sock[c] = "closed"
=============================================================================
