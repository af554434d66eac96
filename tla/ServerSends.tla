----------------------------- MODULE ServerSends -----------------------------
(* Who waits for whom when the server sends, tcp/server.go and               *)
(* tcp/connection.go composed: SendCommand callers and the connectionCleaner *)
(* goroutine enter Write of a connection, its writeLoop and its Handle       *)
(* goroutines take the same mutex mu, conn.Write holds mu for as long as the *)
(* peer takes to read, and handleConnection, RemoveSn and Stop end the       *)
(* connection meanwhile.  ConnWriter has the queue in detail, ServerLifecycle *)
(* the slots and the wait group, DeviceRegistry the serial numbers.          *)
EXTENDS Naturals, FiniteSets

CONSTANTS Conns,      \* the TCP connections that clients ever open
          Callers,    \* goroutines of the application that call SendCommand
          Cleaner,    \* connectionCleaner, as a caller of Write
          QueueSize,  \* capacity of msgQueue: 100 in the code
          Delays,     \* values of config.MessageDelayTime > 0 to start with
          MaxTroubles,\* bound: peers that stall or leave
          MaxStops,   \* bound: calls of Stop, 0 or 1
          NoOne

ASSUME ConnsAssumption == IsFiniteSet(Conns) /\ NoOne \notin Conns
ASSUME WritersAssumption ==
  {Cleaner, NoOne, "loop"} \cap Callers = {} /\ NoOne \notin {Cleaner, "loop"} /\ Cleaner # "loop"
ASSUME QueueAssumption == QueueSize \in Nat \ {0}
ASSUME BoundsAssumption == Delays \subseteq BOOLEAN /\ MaxTroubles \in Nat /\ MaxStops \in 0..1

Writers == Callers \cup {Cleaner}

VARIABLES
  delayed,      \* config.MessageDelayTime > 0: every connection has a writeLoop
  connections,  \* keys of s.connections
  handler,      \* pc of handleConnection
  peer,         \* reading, stalled (reads no more, keeps the connection), gone
  sock,         \* open, closed by its handler, or cancelled: Close was called
  packet,       \* Handle of received packets: none yet, handling, handled
  mu,           \* holder of the mu of each connection
  queue,        \* length of its msgQueue
  loop,         \* pc of its writeLoop
  writer,       \* [pc, conn]: the Write each caller is in
  cleaner,      \* pc of connectionCleaner
  todo,         \* keys that the cleaner's Range has still to visit
  stop,         \* pc of Stop
  toClose       \* keys that Stop's Range has still to visit

vars == <<delayed, connections, handler, peer, sock, packet, mu, queue, loop, writer,
          cleaner, todo, stop, toClose>>
links == <<handler, peer, sock, packet>>
sending == <<mu, queue, loop, writer>>
sweeping == <<cleaner, todo>>
stopping == <<stop, toClose>>

Calls == [pc : {"idle"}, conn : {NoOne}] \cup [pc : {"lock", "write"}, conn : Conns]
Typed ==
  /\ delayed \in Delays
  /\ connections \subseteq Conns /\ todo \subseteq Conns /\ toClose \subseteq Conns
  /\ handler \in [Conns -> {"none", "start", "scan", "left", "gone"}]
  /\ peer \in [Conns -> {"reading", "stalled", "gone"}]
  /\ sock \in [Conns -> {"open", "closed", "cancelled"}]
  /\ packet \in [Conns -> {"none", "handling", "handled"}]
  /\ mu \in [Conns -> Writers \cup {"loop", NoOne}]
  /\ queue \in [Conns -> 0..QueueSize]
  /\ loop \in [Conns -> {"none", "receive", "lock", "write", "stopped"}]
  /\ writer \in [Writers -> Calls]
  /\ cleaner \in {"select", "range", "gone"}
  /\ stop \in {"idle", "cancelled", "range", "wait", "nil", "timeout"}

\* mu is held exactly by who is in conn.Write.
HeldInWrite ==
  \A c \in Conns :
    /\ mu[c] = "loop" <=> loop[c] = "write"
    /\ \A w \in Writers : mu[c] = w <=> writer[w] = [pc |-> "write", conn |-> c]
TypeOK == Typed /\ HeldInWrite

Idle == [pc |-> "idle", conn |-> NoOne]
Init ==
  /\ delayed \in Delays
  /\ connections = {}
  /\ handler = [c \in Conns |-> "none"]
  /\ peer = [c \in Conns |-> "reading"]
  /\ sock = [c \in Conns |-> "open"]
  /\ packet = [c \in Conns |-> "none"]
  /\ mu = [c \in Conns |-> NoOne]
  /\ queue = [c \in Conns |-> 0]
  /\ loop = [c \in Conns |-> "none"]
  /\ writer = [w \in Writers |-> Idle]
  /\ cleaner = "select" /\ todo = {}
  /\ stop = "idle" /\ toClose = {}

-----------------------------------------------------------------------------
ctxDone == stop # "idle"
Free(c) == mu[c] = NoOne
Step(f, c, from, to) == f[c] = from /\ f' = [f EXCEPT ![c] = to]

\* The device is known: setupDeviceSn has seen a serial number.
Known(c) == packet[c] # "none"

\* conn.Write blocks while the peer does not read, until the socket is closed.
\* What the kernel still takes from the server counts as read.
WriteCanEnd(c) == sock[c] # "open" \/ peer[c] # "stalled"
WriteCanFail(c) == sock[c] # "open" \/ peer[c] = "gone"
WriteCanSucceed(c) == sock[c] = "open" /\ peer[c] # "stalled"

(* ---------------------------- The connection ----------------------------- *)
\* Start accepts until Stop has closed the listener.
Accept(c) ==
  /\ stop \in {"idle", "cancelled"}
  /\ Step(handler, c, "none", "start")
  /\ UNCHANGED <<delayed, connections, peer, sock, packet, sending, sweeping, stopping>>

\* NewDeviceConnection, and Scan begins.  A Range that runs may or may not
\* come upon the new entry.
Register(c) ==
  /\ Step(handler, c, "start", "scan")
  /\ connections' = connections \cup {c}
  /\ loop' = IF delayed THEN [loop EXCEPT ![c] = "receive"] ELSE loop
  /\ \E S \in IF cleaner = "range" THEN {{}, {c}} ELSE {{}} : todo' = todo \cup S
  /\ \E S \in IF stop = "range" THEN {{}, {c}} ELSE {{}} : toClose' = toClose \cup S
  /\ UNCHANGED <<delayed, peer, sock, packet, mu, queue, writer, cleaner, stop>>

\* Mutation: Scan goes on until Close cancels it.
ScanReturnsOnCancel(c) ==
  /\ sock[c] # "open"
  /\ Step(handler, c, "scan", "left")
  /\ connections' = connections \ {c}
  /\ UNCHANGED <<delayed, peer, sock, packet, sending, sweeping, stopping>>

\* The peer is gone, or Close was called: checkCancel has set the read deadline
\* and the socket is closed.  The deferred calls unregister and call wg.Done.
ScanReturns(c) ==
  /\ peer[c] = "gone" \/ sock[c] # "open"
  /\ Step(handler, c, "scan", "left")
  /\ connections' = connections \ {c}
  /\ UNCHANGED <<delayed, peer, sock, packet, sending, sweeping, stopping>>

\* The last deferred call closes the socket, without Close of the connection.
CloseSocket(c) ==
  /\ Step(handler, c, "left", "gone")
  /\ sock' = [sock EXCEPT ![c] = IF @ = "open" THEN "closed" ELSE @]
  /\ UNCHANGED <<delayed, connections, peer, packet, sending, sweeping, stopping>>

Troubled == {c \in Conns : peer[c] # "reading"}
Served(c) == handler[c] \in {"start", "scan"} /\ Cardinality(Troubled \ {c}) < MaxTroubles
PeerStalls(c) ==
  /\ Served(c) /\ Step(peer, c, "reading", "stalled")
  /\ UNCHANGED <<delayed, connections, handler, sock, packet, sending, sweeping, stopping>>

PeerLeaves(c) ==
  /\ Served(c) /\ peer[c] # "gone"
  /\ peer' = [peer EXCEPT ![c] = "gone"]
  /\ UNCHANGED <<delayed, connections, handler, sock, packet, sending, sweeping, stopping>>

\* A packet arrives: EmitResult starts a goroutine for Handle, whose
\* setupDeviceSn announces the device.
Packet(c) ==
  /\ handler[c] = "scan" /\ sock[c] = "open" /\ peer[c] # "gone"
  /\ packet[c] # "handling"
  /\ packet' = [packet EXCEPT ![c] = "handling"]
  /\ UNCHANGED <<delayed, connections, handler, peer, sock, sending, sweeping, stopping>>

\* The rest of Handle: a critical section of its own, and messageHandle.
UpdateActiveTime(c) ==
  /\ Free(c)
  /\ Step(packet, c, "handling", "handled")
  /\ UNCHANGED <<delayed, connections, handler, peer, sock, sending, sweeping, stopping>>

Cancelled(c) == [sock EXCEPT ![c] = IF @ = "open" THEN "cancelled" ELSE @]

\* RemoveSn of a device that the connection announced; `close` closes it too.
RemoveSn(c, close) ==
  /\ c \in connections /\ Known(c)
  /\ connections' = connections \ {c}
  /\ sock' = IF close THEN Cancelled(c) ELSE sock
  /\ UNCHANGED <<delayed, handler, peer, packet, sending, sweeping, stopping>>

(* ------------------------------- Write ----------------------------------- *)
SendCommand(w, c) ==
  /\ w # Cleaner /\ writer[w] = Idle
  /\ c \in connections /\ Known(c)
  /\ writer' = [writer EXCEPT ![w] = [pc |-> "lock", conn |-> c]]
  /\ UNCHANGED <<delayed, connections, links, mu, queue, loop, sweeping, stopping>>

Return(w) == writer' = [writer EXCEPT ![w] = Idle]
AtLock(w, c) == writer[w] = [pc |-> "lock", conn |-> c] /\ Free(c)

\* With a delay the message is queued; a full queue drops its oldest message.
Enqueue(w, c) ==
  /\ delayed /\ AtLock(w, c)
  /\ queue' = [queue EXCEPT ![c] = IF @ < QueueSize THEN @ + 1 ELSE @]
  /\ Return(w)
  /\ UNCHANGED <<delayed, connections, links, mu, loop, sweeping, stopping>>

\* Without, conn.Write is called under mu.
Lock(w, c) ==
  /\ ~delayed /\ AtLock(w, c)
  /\ mu' = [mu EXCEPT ![c] = w]
  /\ writer' = [writer EXCEPT ![w].pc = "write"]
  /\ UNCHANGED <<delayed, connections, links, queue, loop, sweeping, stopping>>

\* It returns, with an error or without: no caller tells them apart.
WriteEnds(w, c) ==
  /\ writer[w] = [pc |-> "write", conn |-> c] /\ WriteCanEnd(c)
  /\ mu' = [mu EXCEPT ![c] = NoOne]
  /\ Return(w)
  /\ UNCHANGED <<delayed, connections, links, queue, loop, sweeping, stopping>>

(* ------------------------------ writeLoop -------------------------------- *)
Receive(c) ==
  /\ queue[c] > 0
  /\ Step(loop, c, "receive", "lock")
  /\ queue' = [queue EXCEPT ![c] = @ - 1]
  /\ UNCHANGED <<delayed, connections, links, mu, writer, sweeping, stopping>>

\* Once the delay is over.
LoopLocks(c) ==
  /\ Free(c) /\ Step(loop, c, "lock", "write")
  /\ mu' = [mu EXCEPT ![c] = "loop"]
  /\ UNCHANGED <<delayed, connections, links, queue, writer, sweeping, stopping>>

LoopSends(c) ==
  /\ WriteCanSucceed(c) /\ Step(loop, c, "write", "receive")
  /\ mu' = [mu EXCEPT ![c] = NoOne]
  /\ UNCHANGED <<delayed, connections, links, queue, writer, sweeping, stopping>>

\* Mutation: the early return does not unlock.
LoopFailsLocked(c) ==
  /\ WriteCanFail(c) /\ Step(loop, c, "write", "stopped")
  /\ UNCHANGED <<delayed, connections, links, mu, queue, writer, sweeping, stopping>>

\* The goroutine ends; the queue stays and nobody closes it.
LoopFails(c) ==
  /\ WriteCanFail(c) /\ Step(loop, c, "write", "stopped")
  /\ mu' = [mu EXCEPT ![c] = NoOne]
  /\ UNCHANGED <<delayed, connections, links, queue, writer, sweeping, stopping>>

(* -------------------------- connectionCleaner ---------------------------- *)
\* The select takes any branch that is ready.
CleanerTicks ==
  /\ cleaner = "select" /\ cleaner' = "range"
  /\ todo' = connections
  /\ UNCHANGED <<delayed, connections, links, sending, stopping>>

CleanerReturns ==
  /\ cleaner = "select" /\ ctxDone
  /\ cleaner' = "gone"
  /\ UNCHANGED <<delayed, connections, links, sending, todo, stopping>>

\* Heartbeat of one connection: it sends to a known device whose interval is
\* over and whose discovery finds a sub-device, and else returns at once.
CleanerVisits(c) ==
  /\ cleaner = "range" /\ writer[Cleaner] = Idle
  /\ c \in todo \cap connections
  /\ todo' = todo \ {c}
  /\ \/ UNCHANGED writer
     \/ Known(c) /\ writer' = [writer EXCEPT ![Cleaner] = [pc |-> "lock", conn |-> c]]
  /\ UNCHANGED <<delayed, connections, links, mu, queue, loop, cleaner, stopping>>

CleanerRangeEnds ==
  /\ cleaner = "range" /\ writer[Cleaner] = Idle
  /\ todo \cap connections = {}
  /\ cleaner' = "select" /\ todo' = {}
  /\ UNCHANGED <<delayed, connections, links, sending, stopping>>

(* -------------------------------- Stop ----------------------------------- *)
StopTo(from, to) == stop = from /\ stop' = to

StopCancels ==
  /\ MaxStops > 0 /\ StopTo("idle", "cancelled")
  /\ UNCHANGED <<delayed, connections, links, sending, sweeping, toClose>>

\* The listener is closed and the Range begins.
StopCloses ==
  /\ StopTo("cancelled", "range")
  /\ toClose' = connections
  /\ UNCHANGED <<delayed, connections, links, sending, sweeping>>

\* Mutation: Close waits for mu before it closes the socket.
StopVisitsLocked(c) ==
  /\ stop = "range" /\ c \in toClose \cap connections /\ Free(c)
  /\ toClose' = toClose \ {c}
  /\ sock' = Cancelled(c)
  /\ UNCHANGED <<delayed, connections, handler, peer, packet, sending, sweeping, stop>>

StopVisits(c) ==
  /\ stop = "range" /\ c \in toClose \cap connections
  /\ toClose' = toClose \ {c}
  /\ sock' = Cancelled(c)
  /\ UNCHANGED <<delayed, connections, handler, peer, packet, sending, sweeping, stop>>

StopRangeEnds ==
  /\ toClose \cap connections = {}
  /\ StopTo("range", "wait") /\ toClose' = {}
  /\ UNCHANGED <<delayed, connections, links, sending, sweeping>>

\* The wait group counts the handlers before their Done, and the cleaner.
Drained == cleaner = "gone" /\ \A c \in Conns : handler[c] \notin {"start", "scan"}

StopReturns ==
  /\ Drained /\ StopTo("wait", "nil")
  /\ UNCHANGED <<delayed, connections, links, sending, sweeping, toClose>>

StopTimesOut ==
  /\ StopTo("wait", "timeout")
  /\ UNCHANGED <<delayed, connections, links, sending, sweeping, toClose>>

-----------------------------------------------------------------------------
HandlerNext(c) == Register(c) \/ ScanReturns(c) \/ CloseSocket(c)
PeerNext(c) == PeerStalls(c) \/ PeerLeaves(c) \/ Packet(c)
LoopNext(c) == Receive(c) \/ LoopSends(c) \/ LoopFails(c)
CleanerNext == CleanerTicks \/ CleanerRangeEnds \/ \E c \in Conns : CleanerVisits(c)
StopNext ==
  StopCloses \/ StopRangeEnds \/ StopReturns \/ StopTimesOut \/ \E c \in Conns : StopVisits(c)

Next ==
  \/ \E c \in Conns :
       \/ Accept(c) \/ HandlerNext(c) \/ PeerNext(c) \/ UpdateActiveTime(c)
       \/ LoopLocks(c) \/ LoopNext(c)
       \/ \E close \in BOOLEAN : RemoveSn(c, close)
       \/ \E w \in Writers :
            SendCommand(w, c) \/ Enqueue(w, c) \/ Lock(w, c) \/ WriteEnds(w, c)
  \/ CleanerNext \/ CleanerReturns \/ StopCancels \/ StopNext

Spec == Init /\ [][Next]_vars

\* Every goroutine that can run does.  sync.Mutex hands itself to a waiter that
\* starves, and select chooses among its ready branches at random: these are
\* strongly fair.  Nothing is assumed of peers, of the application, or of Stop
\* being called.
Running ==
  /\ \A c \in Conns : WF_vars(HandlerNext(c)) /\ WF_vars(LoopNext(c))
  /\ \A w \in Writers : WF_vars(\E c \in Conns : WriteEnds(w, c))
  /\ WF_vars(CleanerNext) /\ WF_vars(StopNext)
SelectIsFair == SF_vars(CleanerReturns)
WritersGetMu == \A w \in Writers : SF_vars(\E c \in Conns : Enqueue(w, c) \/ Lock(w, c))
OthersGetMu == \A c \in Conns : SF_vars(UpdateActiveTime(c)) /\ SF_vars(LoopLocks(c))

FairSpec == Spec /\ Running /\ SelectIsFair /\ WritersGetMu /\ OthersGetMu

(* ----------------------------- Properties -------------------------------- *)
\* Nobody will ever read from this connection, and nobody has closed it.
Stuck(c) == sock[c] = "open" /\ peer[c] = "stalled"

\* Nobody waits for ever for the mutex of a connection, whatever the cleaner, the
\* write loop, the callers and the packets do with it and however the connection
\* ends: SendCommand returns, and Handle of a received packet gets past the mutex,
\* unless the peer reads no more (connection.go:71, 102-117, 123-127).
CommandReturns == \A w \in Callers, c \in Conns : writer[w].conn = c ~> writer[w].conn # c \/ Stuck(c)
HandleReturns ==
  \A c \in Conns : packet[c] = "handling" ~> packet[c] = "handled" \/ Stuck(c)
SendReturns == CommandReturns /\ HandleReturns

\* When the write loop has given up on a connection, the messages that Write
\* goes on to accept are lost; but not for long: the connection is
\* unregistered, and SendCommand no longer finds it.
DeadLoopIsUnregistered ==
  \A c \in Conns : loop[c] = "stopped" ~> c \notin connections

\* Stop gets the cleaner out of a Write to a peer that stalls by closing the
\* socket, without the mutex that the Write holds (server.go:331-336,
\* connection.go:260-263), unless the connection is removed without Close before
\* its turn.
StopFreesCleaner ==
  \A c \in Conns :
    stop = "range" /\ c \in toClose /\ writer[Cleaner].conn = c
      ~> writer[Cleaner].conn # c \/ c \notin connections

\* So the cleaner ends, as Stop waits for it to, if no connection that the Range
\* did not see, being registered too late or removed, holds it for ever.
CleanerEndsAfterStop ==
  /\ StopFreesCleaner
  /\ ctxDone ~> cleaner = "gone" \/ \E c \in Conns : []Stuck(c)
=============================================================================
