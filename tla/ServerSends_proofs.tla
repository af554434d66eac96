------------------------- MODULE ServerSends_proofs --------------------------
(* Mutual exclusion on the socket of each connection, for any connections,   *)
(* callers and capacity of the queues.                                       *)
EXTENDS ServerSends, TLAPS

\* The write loop is started by NewDeviceConnection, so that Register never
\* restarts one that holds mu.
NoLoopYet == \A c \in Conns : handler[c] \in {"none", "start"} => loop[c] = "none"
Inv == TypeOK /\ NoLoopYet

\* Room for one more, and one message less.
LEMMA QueueBounds ==
  ASSUME NEW q \in 0..QueueSize
  PROVE  /\ q < QueueSize => q + 1 \in 0..QueueSize
         /\ q > 0 => q - 1 \in 0..QueueSize
BY QueueAssumption

\* Steps of handlers, peers, packets, the cleaner between its Writes, and Stop
\* touch no mutex, no queue and no writer.
LEMMA ElsewhereTyped ==
  ASSUME Inv, NEW c \in Conns,
         \/ Accept(c) \/ Register(c) \/ ScanReturns(c) \/ CloseSocket(c)
         \/ PeerStalls(c) \/ PeerLeaves(c) \/ Packet(c) \/ UpdateActiveTime(c)
         \/ \E close \in BOOLEAN : RemoveSn(c, close)
         \/ CleanerTicks \/ CleanerRangeEnds \/ CleanerReturns
         \/ StopCancels \/ StopCloses \/ StopVisits(c) \/ StopRangeEnds \/ StopReturns
         \/ StopTimesOut
  PROVE  Inv'
<1> USE DEF Inv, NoLoopYet, TypeOK, Typed, HeldInWrite, links, sending, sweeping, stopping, Step, Cancelled
<1>1. CASE Accept(c) BY <1>1 DEF Accept
<1>2. CASE Register(c)
  <2>1. todo' \subseteq Conns /\ toClose' \subseteq Conns /\ connections' \subseteq Conns
    BY <1>2 DEF Register
  <2>2. loop' \in [Conns -> {"none", "receive", "lock", "write", "stopped"}] BY <1>2 DEF Register
  <2>3. HeldInWrite' BY <1>2 DEF Register
  <2> QED BY <1>2, <2>1, <2>2, <2>3 DEF Register
<1>3. CASE ScanReturns(c) \/ CloseSocket(c) BY <1>3 DEF ScanReturns, CloseSocket
<1>4. CASE PeerStalls(c) \/ PeerLeaves(c) \/ Packet(c) \/ UpdateActiveTime(c)
  BY <1>4 DEF PeerStalls, PeerLeaves, Packet, UpdateActiveTime
<1>5. CASE \E close \in BOOLEAN : RemoveSn(c, close) BY <1>5 DEF RemoveSn
<1>6. CASE CleanerTicks \/ CleanerRangeEnds \/ CleanerReturns
  BY <1>6 DEF CleanerTicks, CleanerRangeEnds, CleanerReturns
<1>7. CASE StopCancels \/ StopCloses \/ StopVisits(c) \/ StopRangeEnds \/ StopReturns \/ StopTimesOut
  BY <1>7 DEF StopCancels, StopCloses, StopVisits, StopRangeEnds, StopReturns, StopTimesOut, StopTo
<1> QED BY <1>1, <1>2, <1>3, <1>4, <1>5, <1>6, <1>7

\* A Write is one of the calls of the model, and two that agree on the
\* connection and the place are the same.
LEMMA WriteIsCall ==
  ASSUME NEW c \in Conns
  PROVE  /\ Idle \in Calls
         /\ [pc |-> "lock", conn |-> c] \in Calls /\ [pc |-> "write", conn |-> c] \in Calls
         /\ Idle # [pc |-> "write", conn |-> c]
         /\ [pc |-> "lock", conn |-> c] # [pc |-> "write", conn |-> c]
BY ConnsAssumption DEF Idle, Calls

\* The steps of SendCommand and of the cleaner in Write.
LEMMA WriteTyped ==
  ASSUME Inv, NEW c \in Conns, NEW w \in Writers,
         \/ SendCommand(w, c) \/ Enqueue(w, c) \/ Lock(w, c) \/ WriteEnds(w, c)
         \/ w = Cleaner /\ CleanerVisits(c)
  PROVE  Inv'
<1> USE DEF Inv, NoLoopYet, TypeOK, Typed, HeldInWrite, links, sending, sweeping, stopping
<1>1. ASSUME NEW call \in Calls, writer' = [writer EXCEPT ![w] = call],
             \A d \in Conns : call # [pc |-> "write", conn |-> d],
             \A d \in Conns : writer[w] # [pc |-> "write", conn |-> d],
             UNCHANGED <<mu, loop>>
      PROVE  HeldInWrite' /\ writer' \in [Writers -> Calls]
  BY <1>1
<1>2. \A d \in Conns : /\ Idle \in Calls /\ [pc |-> "lock", conn |-> c] \in Calls
                       /\ [pc |-> "write", conn |-> c] \in Calls
                       /\ Idle # [pc |-> "write", conn |-> d]
                       /\ [pc |-> "lock", conn |-> c] # [pc |-> "write", conn |-> d]
  BY WriteIsCall
<1>3. CASE SendCommand(w, c) BY <1>1, <1>2, <1>3 DEF SendCommand
<1>4. CASE Enqueue(w, c)
  <2>1. queue' \in [Conns -> 0..QueueSize] BY <1>4, QueueBounds DEF Enqueue
  <2>2. writer[w] = [pc |-> "lock", conn |-> c] /\ writer' = [writer EXCEPT ![w] = Idle]
    BY <1>4 DEF Enqueue, AtLock, Return
  <2>3. \A d \in Conns : writer[w] # [pc |-> "write", conn |-> d] BY <1>2, <2>2
  <2>4. UNCHANGED <<mu, loop>> BY <1>4 DEF Enqueue
  <2>5. HeldInWrite' /\ writer' \in [Writers -> Calls]
    <3> HIDE DEF HeldInWrite, Typed, Inv, TypeOK
    <3> QED BY <1>1, <1>2, <2>2, <2>3, <2>4
  <2> QED BY <1>4, <2>1, <2>5 DEF Enqueue
<1>5. CASE Lock(w, c)
  <2>1. writer[w] = [pc |-> "lock", conn |-> c] /\ mu[c] = NoOne
    BY <1>5 DEF Lock, AtLock, Free
  <2>2. writer' = [writer EXCEPT ![w] = [pc |-> "write", conn |-> c]]
    <3>1. writer' = [writer EXCEPT ![w].pc = "write"] BY <1>5 DEF Lock
    <3>2. [writer[w] EXCEPT !.pc = "write"] = [pc |-> "write", conn |-> c] BY <2>1
    <3> QED BY <3>1, <3>2
  <2>3. \A d \in Conns : d # c => mu[d] # w BY <1>2, <2>1
  <2>4. HeldInWrite'
    <3> SUFFICES ASSUME NEW d \in Conns
                 PROVE  /\ mu'[d] = "loop" <=> loop'[d] = "write"
                        /\ \A u \in Writers : mu'[d] = u <=> writer'[u] = [pc |-> "write", conn |-> d]
      OBVIOUS
    <3>1. CASE d # c
      BY <1>5, <2>1, <2>2, <2>3, <3>1 DEF Lock
    <3>2. CASE d = c
      BY <1>5, <2>1, <2>2, <3>2, WritersAssumption DEF Lock, Writers
    <3> QED BY <3>1, <3>2
  <2>5. writer' \in [Writers -> Calls] BY <1>2, <2>2
  <2> QED BY <1>5, <2>4, <2>5 DEF Lock
<1>6. CASE WriteEnds(w, c)
  <2>1. mu[c] = w /\ mu' = [mu EXCEPT ![c] = NoOne] /\ writer' = [writer EXCEPT ![w] = Idle]
    BY <1>6 DEF WriteEnds, Return
  <2>2. \A d \in Conns : d # c => mu[d] # w BY <1>6 DEF WriteEnds
  <2>3. \A u \in Writers : u # w => writer[u] # [pc |-> "write", conn |-> c] BY <2>1
  <2>4. HeldInWrite'
    <3> SUFFICES ASSUME NEW d \in Conns
                 PROVE  /\ mu'[d] = "loop" <=> loop'[d] = "write"
                        /\ \A u \in Writers : mu'[d] = u <=> writer'[u] = [pc |-> "write", conn |-> d]
      OBVIOUS
    <3>1. CASE d # c
      BY <1>2, <1>6, <2>1, <2>2, <3>1 DEF WriteEnds
    <3>2. CASE d = c
      BY <1>2, <1>6, <2>1, <2>3, <3>2, WritersAssumption DEF WriteEnds, Writers
    <3> QED BY <3>1, <3>2
  <2>5. writer' \in [Writers -> Calls] BY <1>2, <2>1
  <2> QED BY <1>6, <2>1, <2>4, <2>5 DEF WriteEnds
<1>7. CASE w = Cleaner /\ CleanerVisits(c)
  <2>1. CASE UNCHANGED writer BY <1>7, <2>1 DEF CleanerVisits
  <2>2. CASE writer' = [writer EXCEPT ![w] = [pc |-> "lock", conn |-> c]]
    BY <1>1, <1>2, <1>7, <2>2 DEF CleanerVisits
  <2> QED BY <1>7, <2>1, <2>2 DEF CleanerVisits
<1> QED BY <1>3, <1>4, <1>5, <1>6, <1>7

\* The steps of writeLoop.
LEMMA LoopTyped ==
  ASSUME Inv, NEW c \in Conns,
         Receive(c) \/ LoopLocks(c) \/ LoopSends(c) \/ LoopFails(c)
  PROVE  Inv'
<1> USE DEF Inv, NoLoopYet, TypeOK, Typed, HeldInWrite, links, sending, sweeping, stopping, Step
<1>1. CASE Receive(c)
  <2>1. queue' \in [Conns -> 0..QueueSize] BY <1>1, QueueBounds DEF Receive
  <2> QED BY <1>1, <2>1 DEF Receive
<1>2. CASE LoopLocks(c)
  <2>1. mu[c] = NoOne /\ mu' = [mu EXCEPT ![c] = "loop"] BY <1>2 DEF LoopLocks, Free
  <2>2. \A w \in Writers : writer[w] # [pc |-> "write", conn |-> c]
    BY <2>1, WritersAssumption DEF Writers
  <2>3. HeldInWrite' BY <1>2, <2>1, <2>2, WritersAssumption DEF LoopLocks, Writers
  <2> QED BY <1>2, <2>3 DEF LoopLocks
<1>3. CASE LoopSends(c) \/ LoopFails(c)
  <2>1. mu[c] = "loop" /\ mu' = [mu EXCEPT ![c] = NoOne]
    BY <1>3 DEF LoopSends, LoopFails
  <2>2. \A w \in Writers : writer[w] # [pc |-> "write", conn |-> c]
    BY <2>1, WritersAssumption DEF Writers
  <2>3. HeldInWrite'
    BY <1>3, <2>1, <2>2, WritersAssumption DEF LoopSends, LoopFails, Writers
  <2> QED BY <1>3, <2>3 DEF LoopSends, LoopFails
<1> QED BY <1>1, <1>2, <1>3

\* Only who holds mu is in conn.Write: SendCommand callers, the cleaner and the
\* write loop never write to a connection at once, whatever happens to it
\* meanwhile (connection.go:72, 102-117).
THEOREM OneWriterAtATime == Spec => []TypeOK
<1>1. Init => Inv
  <2> SUFFICES ASSUME Init PROVE Inv
    OBVIOUS
  <2>1. \A c \in Conns, w \in Writers : writer[w] # [pc |-> "write", conn |-> c]
    BY DEF Init, Idle
  <2>2. Typed BY QueueAssumption DEF Init, Typed, Idle, Calls
  <2>3. HeldInWrite BY <2>1, WritersAssumption DEF Init, HeldInWrite, Writers
  <2>4. NoLoopYet BY DEF Init, NoLoopYet
  <2> QED BY <2>2, <2>3, <2>4 DEF Inv, TypeOK
<1>2. ASSUME Inv, [Next]_vars PROVE Inv'
  <2>1. ASSUME NEW c \in Conns,
               \/ Accept(c) \/ HandlerNext(c) \/ PeerNext(c) \/ UpdateActiveTime(c)
               \/ \E close \in BOOLEAN : RemoveSn(c, close)
        PROVE  Inv'
    BY <1>2, <2>1, ElsewhereTyped DEF HandlerNext, PeerNext
  <2>2. ASSUME NEW c \in Conns, LoopLocks(c) \/ LoopNext(c) PROVE Inv'
    BY <1>2, <2>2, LoopTyped DEF LoopNext
  <2>3. ASSUME NEW c \in Conns, NEW w \in Writers,
               SendCommand(w, c) \/ Enqueue(w, c) \/ Lock(w, c) \/ WriteEnds(w, c)
        PROVE  Inv'
    BY <1>2, <2>3, WriteTyped
  <2>4. ASSUME NEW c \in Conns, CleanerVisits(c) PROVE Inv'
    BY <1>2, <2>4, WriteTyped DEF Writers
  <2>5. ASSUME NEW c \in Conns, StopVisits(c) PROVE Inv'
    BY <1>2, <2>5, ElsewhereTyped
  <2>6. ASSUME \/ CleanerTicks \/ CleanerRangeEnds \/ CleanerReturns \/ StopCancels
               \/ StopCloses \/ StopRangeEnds \/ StopReturns \/ StopTimesOut
        PROVE  Inv'
    <3> USE <1>2, <2>6 DEF Inv, NoLoopYet, TypeOK, Typed, HeldInWrite, links, sending, sweeping
    <3>1. CASE CleanerTicks \/ CleanerRangeEnds \/ CleanerReturns
      BY <3>1 DEF CleanerTicks, CleanerRangeEnds, CleanerReturns, stopping
    <3>2. CASE StopCancels \/ StopCloses \/ StopRangeEnds \/ StopReturns \/ StopTimesOut
      BY <3>2 DEF StopCancels, StopCloses, StopRangeEnds, StopReturns, StopTimesOut, StopTo
    <3> QED BY <3>1, <3>2
  <2>7. CASE UNCHANGED vars
    BY <1>2, <2>7 DEF Inv, NoLoopYet, TypeOK, Typed, HeldInWrite, vars
  <2> QED BY <1>2, <2>1, <2>2, <2>3, <2>4, <2>5, <2>6, <2>7 DEF Next, CleanerNext, StopNext
<1>3. Inv => TypeOK BY DEF Inv
<1> QED BY <1>1, <1>2, <1>3, PTL DEF Spec
==============================================================================
