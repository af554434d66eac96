------------------------------ MODULE ConnWriter ------------------------------
(* Sending on one connection, tcp/connection.go: Write, called by            *)
(* SendCommand and by Heartbeat, the writeLoop goroutine behind msgQueue,    *)
(* UpdateActiveTime of the Handle goroutines, and Close, around the mutex mu *)
(* and lastActiveTime.  Timers count ticks, and stop at the delay: no code   *)
(* tells longer times apart.  Messages are numbered as Write accepts them.   *)
EXTENDS Integers, FiniteSets, SequencesExt

CONSTANTS Writers,      \* goroutines that call Write
          Delays,       \* values of config.MessageDelayTime to start with
          QueueSize,    \* capacity of msgQueue: 100 in the code
          MaxMessages,  \* bound: messages ever accepted
          NoOne

ASSUME DelaysAssumption == Delays \subseteq Nat /\ MaxMessages \in Nat
ASSUME QueueAssumption == QueueSize \in Nat \ {0}
ASSUME WritersAssumption == NoOne \notin Writers \cup {"loop"} /\ "loop" \notin Writers

VARIABLES
  delay,      \* config.MessageDelayTime
  mu,         \* holder of this.mu
  writer,     \* pc of each Write
  queue,      \* this.msgQueue
  loop,       \* [pc, msg, wait]: writeLoop, its message, its time to sleep
  elapsed,    \* ticks since lastActiveTime
  socket,     \* open or closed
  accepted,   \* history: messages accepted by Write
  sent,       \* history: messages put on the wire, in order
  dropped,    \* history: messages thrown out of the queue or failed
  sinceSend   \* history: ticks since the last conn.Write of writeLoop ended

vars == <<delay, mu, writer, queue, loop, elapsed, socket, accepted, sent, dropped,
          sinceSend>>
timers == <<elapsed, sinceSend>>
history == <<accepted, sent, dropped>>

Messages == 1..MaxMessages
TypeOK ==
  /\ delay \in Delays
  /\ mu \in Writers \cup {"loop", NoOne}
  /\ writer \in [Writers -> {"idle", "try", "drop", "retry", "write", "error"}]
  /\ queue \in Seq(Messages) /\ Len(queue) <= QueueSize
  /\ loop \in [pc : {"none", "receive", "check", "sleep", "relock", "write", "stopped"},
               msg : 0..MaxMessages, wait : 0..delay]
  /\ elapsed \in 0..delay /\ sinceSend \in 0..delay
  /\ socket \in {"open", "closed"}
  /\ accepted \in 0..MaxMessages /\ sent \in Seq(Messages) /\ dropped \subseteq Messages
  \* mu is held exactly where the code is between Lock and Unlock.
  /\ \A w \in Writers : mu = w <=> writer[w] \in {"try", "drop", "retry", "write"}
  /\ mu = "loop" <=> loop.pc = "write"

Init ==
  /\ delay \in Delays
  /\ mu = NoOne
  /\ writer = [w \in Writers |-> "idle"]
  /\ queue = <<>>
  /\ loop = [pc |-> IF delay > 0 THEN "receive" ELSE "none", msg |-> 0, wait |-> 0]
  /\ elapsed = 0 /\ sinceSend = delay
  /\ socket = "open"
  /\ accepted = 0 /\ sent = <<>> /\ dropped = {}

-----------------------------------------------------------------------------
(* Write.                                                                    *)
GoTo(w, pc) == writer' = [writer EXCEPT ![w] = pc]
Return(w) == GoTo(w, "idle") /\ mu' = NoOne

Lock(w) ==
  /\ writer[w] = "idle" /\ accepted < MaxMessages
  /\ mu = NoOne
  /\ mu' = w
  /\ GoTo(w, IF delay = 0 THEN "write" ELSE "try")
  /\ UNCHANGED <<delay, queue, loop, socket, timers, history>>

\* Without a delay the message is written at once, and the lock is held while
\* the socket takes it; Write returns what conn.Write returned.
WriteNow(w) ==
  /\ writer[w] = "write"
  /\ accepted' = accepted + 1
  /\ IF socket = "open"
       THEN sent' = Append(sent, accepted') /\ UNCHANGED dropped
       ELSE dropped' = dropped \cup {accepted'} /\ UNCHANGED sent
  /\ Return(w)
  /\ UNCHANGED <<delay, queue, loop, socket, timers>>

Full == Len(queue) = QueueSize
Enqueue(w) ==
  /\ accepted' = accepted + 1
  /\ queue' = Append(queue, accepted')
  /\ Return(w)

\* Mutation: a full queue is taken for success.
TryQueueSilently(w) ==
  /\ writer[w] = "try"
  /\ IF Full THEN accepted' = accepted + 1 /\ Return(w) /\ UNCHANGED queue ELSE Enqueue(w)
  /\ UNCHANGED <<delay, loop, socket, timers, sent, dropped>>

\* The first select.
TryQueue(w) ==
  /\ writer[w] = "try"
  /\ IF Full THEN GoTo(w, "drop") /\ UNCHANGED <<mu, queue, accepted>> ELSE Enqueue(w)
  /\ UNCHANGED <<delay, loop, socket, timers, sent, dropped>>

\* Mutation: the queue is emptied to make room.
DropAll(w) ==
  /\ writer[w] = "drop"
  /\ dropped' = dropped \cup ToSet(queue) /\ queue' = <<>>
  /\ GoTo(w, "retry")
  /\ UNCHANGED <<delay, mu, loop, socket, timers, accepted, sent>>

\* Mutation: the newest message makes room.
DropNewest(w) ==
  /\ writer[w] = "drop" /\ queue # <<>>
  /\ dropped' = dropped \cup {Last(queue)} /\ queue' = Front(queue)
  /\ GoTo(w, "retry")
  /\ UNCHANGED <<delay, mu, loop, socket, timers, accepted, sent>>

\* The second: whatever is oldest now goes, for writeLoop receives without mu.
DropOldest(w) ==
  /\ writer[w] = "drop"
  /\ IF queue = <<>> THEN UNCHANGED <<queue, dropped>>
     ELSE dropped' = dropped \cup {Head(queue)} /\ queue' = Tail(queue)
  /\ GoTo(w, "retry")
  /\ UNCHANGED <<delay, mu, loop, socket, timers, accepted, sent>>

\* The third: room, or the error that Write reports.
RetryQueue(w) ==
  /\ writer[w] = "retry"
  /\ IF Full THEN GoTo(w, "error") /\ mu' = NoOne /\ UNCHANGED <<queue, accepted>>
     ELSE Enqueue(w)
  /\ UNCHANGED <<delay, loop, socket, timers, sent, dropped>>

-----------------------------------------------------------------------------
(* writeLoop.                                                                *)
Receive ==
  /\ loop.pc = "receive" /\ queue # <<>>
  /\ loop' = [loop EXCEPT !.pc = "check", !.msg = Head(queue)]
  /\ queue' = Tail(queue)
  /\ UNCHANGED <<delay, mu, writer, socket, timers, history>>

\* Mutation: the message is written without looking at the time.
CheckSkipped ==
  /\ loop.pc = "check" /\ mu = NoOne
  /\ loop' = [loop EXCEPT !.pc = "write"] /\ mu' = "loop"
  /\ UNCHANGED <<delay, writer, queue, socket, timers, history>>

\* Lock, and either sleep for what is left of the delay, unlocked, or write.
Check ==
  /\ loop.pc = "check" /\ mu = NoOne
  /\ IF elapsed < delay
       THEN loop' = [loop EXCEPT !.pc = "sleep", !.wait = delay - elapsed] /\ UNCHANGED mu
       ELSE loop' = [loop EXCEPT !.pc = "write"] /\ mu' = "loop"
  /\ UNCHANGED <<delay, writer, queue, socket, timers, history>>

Wake ==
  /\ loop.pc = "sleep" /\ loop.wait = 0
  /\ loop' = [loop EXCEPT !.pc = "relock"]
  /\ UNCHANGED <<delay, mu, writer, queue, socket, timers, history>>

\* Mutation: after the sleep the time is checked again.
RelockRechecks ==
  /\ loop.pc = "relock" /\ mu = NoOne
  /\ loop' = [loop EXCEPT !.pc = "check"]
  /\ UNCHANGED <<delay, mu, writer, queue, socket, timers, history>>

\* Lock again; the time is not looked at a second time.
Relock ==
  /\ loop.pc = "relock" /\ mu = NoOne
  /\ loop' = [loop EXCEPT !.pc = "write"]
  /\ mu' = "loop"
  /\ UNCHANGED <<delay, writer, queue, socket, timers, history>>

\* conn.Write, under mu, for as long as the peer takes to read.
Send ==
  /\ loop.pc = "write" /\ socket = "open"
  /\ sent' = Append(sent, loop.msg)
  /\ loop' = [pc |-> "receive", msg |-> 0, wait |-> 0]
  /\ elapsed' = 0 /\ sinceSend' = 0
  /\ mu' = NoOne
  /\ UNCHANGED <<delay, writer, queue, socket, accepted, dropped>>

\* conn.Write fails on a closed socket: the goroutine ends, nobody else drains
\* the queue, and later Writes still queue.
SendFails ==
  /\ loop.pc = "write" /\ socket = "closed"
  /\ dropped' = dropped \cup {loop.msg}
  /\ loop' = [pc |-> "stopped", msg |-> 0, wait |-> 0]
  /\ mu' = NoOne
  /\ UNCHANGED <<delay, writer, queue, socket, timers, accepted, sent>>

-----------------------------------------------------------------------------
\* Handle of a received packet: UpdateActiveTime, a critical section of its own.
UpdateActiveTime ==
  /\ mu = NoOne
  /\ elapsed' = 0
  /\ UNCHANGED <<delay, mu, writer, queue, loop, socket, history, sinceSend>>

Close ==
  /\ socket = "open"
  /\ socket' = "closed"
  /\ UNCHANGED <<delay, mu, writer, queue, loop, timers, history>>

UpTo(t) == IF t < delay THEN t + 1 ELSE t
Tick ==
  /\ elapsed' = UpTo(elapsed) /\ sinceSend' = UpTo(sinceSend)
  /\ loop' = [loop EXCEPT !.wait = IF @ > 0 THEN @ - 1 ELSE 0]
  /\ UNCHANGED <<delay, mu, writer, queue, socket, history>>

WriteNext(w) == WriteNow(w) \/ TryQueue(w) \/ DropOldest(w) \/ RetryQueue(w)
LoopNext == Receive \/ Check \/ Wake \/ Relock \/ Send \/ SendFails

Next ==
  \/ \E w \in Writers : Lock(w) \/ WriteNext(w)
  \/ LoopNext \/ UpdateActiveTime \/ Close \/ Tick

Spec == Init /\ [][Next]_vars

\* Time passes, a Write that holds mu goes on, and so does writeLoop: Go hands a
\* contended mutex to a waiter that starves (sync.Mutex), so taking it is
\* strongly fair.  That Send is fair assumes a peer that reads or a Close.
FairSpec ==
  /\ Spec
  /\ WF_vars(Tick)
  /\ \A w \in Writers : WF_vars(WriteNext(w))
  /\ WF_vars(Receive) /\ WF_vars(Wake) /\ WF_vars(Send \/ SendFails)
  /\ SF_vars(Check) /\ SF_vars(Relock)

(* ----------------------------- Properties -------------------------------- *)
Precede(S, T) == \A m \in S, n \in T : m < n
InHand == IF loop.msg = 0 THEN {} ELSE {loop.msg}

\* Messages go out in the order in which Write accepted them, each once, and
\* what is dropped is older than all that waits: the sleeping loop, competing
\* Writes and the drop of the oldest message never reorder the queue.
InOrder ==
  /\ \A i, j \in DOMAIN sent : i < j => sent[i] < sent[j]
  /\ \A i, j \in DOMAIN queue : i < j => queue[i] < queue[j]
  /\ Precede(ToSet(sent), InHand) /\ Precede(InHand, ToSet(queue))
  /\ Precede(ToSet(sent) \cup dropped, ToSet(queue))

\* Every accepted message is on the wire, in the hand of writeLoop, in the queue,
\* or was dropped: none is lost in a race of Write with writeLoop.
AllAccounted ==
  1..accepted = ToSet(sent) \cup InHand \cup ToSet(queue) \cup dropped

\* Write never reports that it cannot queue a message: mu keeps other senders
\* away between its drop and its second attempt (connection.go:87-91).
WriteQueues == \A w \in Writers : writer[w] # "error"

\* A Write drops one message at most, and only while the queue is full or lacks
\* one message: the loop can take no second one from a Write that holds mu.
DropsUnderPressure ==
  [][\A w \in Writers : writer[w] = "drop" /\ writer'[w] = "retry"
       => Len(queue) >= QueueSize - 1 /\ Cardinality(dropped' \ dropped) <= 1]_vars

\* Between the end of one conn.Write of writeLoop and the next at least
\* MessageDelayTime passes, although packets received meanwhile keep moving
\* lastActiveTime (connection.go:98-107).
SendsAreSpaced == [][Send => sinceSend >= delay]_vars

\* Every queued message is sent or dropped, however often received packets
\* restart the delay, unless the connection broke.
EachIsHandled ==
  \A m \in Messages :
    m \in ToSet(queue) ~> m \in ToSet(sent) \cup dropped \/ loop.pc = "stopped"
=============================================================================
