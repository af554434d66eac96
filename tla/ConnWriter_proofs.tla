-------------------------- MODULE ConnWriter_proofs --------------------------
(* Every safety property of ConnWriter, for any set of senders, any delays,  *)
(* any capacity of the queue and any number of messages.                     *)
EXTENDS ConnWriter, FiniteSetTheorems, SequenceTheorems, TLAPS

\* Without a delay there is no writeLoop and nothing is queued; with one, nothing
\* is written at once.  A Write holds a number for its message.
Modes ==
  /\ delay = 0 => loop.pc = "none" /\ queue = <<>>
  /\ \A w \in Writers :
       /\ writer[w] \in {"try", "drop", "retry"} => delay # 0
       /\ writer[w] = "write" => delay = 0
       /\ writer[w] \notin {"idle", "error"} => accepted < MaxMessages
  /\ loop.msg = 0 <=> loop.pc \in {"none", "receive", "stopped"}

\* While one Write makes room nobody else fills it, and writeLoop, which needs mu
\* to go on, takes one message at most.
RoomIsKept ==
  \A w \in Writers :
    /\ writer[w] = "retry" => Len(queue) < QueueSize
    /\ writer[w] = "drop" =>
         Len(queue) = QueueSize \/ (Len(queue) = QueueSize - 1 /\ loop.pc # "receive")

Inv == TypeOK /\ Modes /\ RoomIsKept /\ WriteQueues

\* Nobody has the mutex and the queue is empty.
LEMMA InvInit ==
  ASSUME Init
  PROVE  Inv
<1> USE DelaysAssumption, QueueAssumption, WritersAssumption
        DEF Init, Inv, TypeOK, Messages, Modes, RoomIsKept, WriteQueues
<1>1. loop \in [pc : {"none", "receive", "check", "sleep", "relock", "write", "stopped"},
                msg : 0..MaxMessages, wait : 0..delay]
  OBVIOUS
<1>2. queue \in Seq(Messages) /\ Len(queue) = 0 /\ sent \in Seq(Messages)
  BY EmptySeq
<1>3. TypeOK
  BY <1>1, <1>2
<1> QED BY <1>2, <1>3

\* Each critical section leaves the queue as the next one expects it.
LEMMA InvStep ==
  ASSUME Inv, [Next]_vars
  PROVE  Inv'
<1> USE DelaysAssumption, QueueAssumption, WritersAssumption
        DEF Inv, TypeOK, Messages, Modes, RoomIsKept, WriteQueues, GoTo, Return, timers, history, Full
<1>1. ASSUME NEW m \in Messages
      PROVE  /\ Append(queue, m) \in Seq(Messages) /\ Len(Append(queue, m)) = Len(queue) + 1
             /\ Append(queue, m) # <<>> /\ Append(sent, m) \in Seq(Messages)
  <2>1. queue \in Seq(Messages) /\ sent \in Seq(Messages)
    OBVIOUS
  <2> HIDE DEF Inv, TypeOK, Messages
  <2> QED BY <1>1, <2>1, AppendProperties
<1>2. /\ Len(queue) \in Nat
      /\ queue # <<>> => /\ Head(queue) \in Messages /\ Tail(queue) \in Seq(Messages)
                         /\ Len(Tail(queue)) = Len(queue) - 1 /\ Len(queue) > 0
      /\ queue = <<>> <=> Len(queue) = 0
  BY HeadTailProperties, LenProperties, EmptySeq
<1>3. ASSUME NEW w \in Writers, Enqueue(w), writer[w] \in {"try", "retry"}, ~Full,
             UNCHANGED <<delay, loop, socket, timers, sent, dropped>>
      PROVE  Inv'
  <2>1. accepted + 1 \in Messages
    BY <1>3
  <2> QED BY <1>1, <1>2, <1>3, <2>1 DEF Enqueue
<1>4. ASSUME NEW w \in Writers, Lock(w) PROVE Inv'
  BY <1>2, <1>4 DEF Lock
<1>5. ASSUME NEW w \in Writers, WriteNow(w) PROVE Inv'
  <2>1. accepted + 1 \in Messages
    BY <1>5 DEF WriteNow
  <2>2. \A v \in Writers \ {w} : writer[v] \in {"idle", "error"}
    BY <1>5 DEF WriteNow
  <2>3. sent' \in Seq(Messages) /\ dropped' \subseteq Messages
    BY <1>1, <1>5, <2>1 DEF WriteNow
  <2>4. TypeOK'
    BY <1>5, <2>1, <2>2, <2>3 DEF WriteNow
  <2>5. Modes' /\ RoomIsKept' /\ WriteQueues'
    BY <1>5, <2>2 DEF WriteNow
  <2> QED BY <2>4, <2>5
<1>6. ASSUME NEW w \in Writers, TryQueue(w) PROVE Inv'
  <2>1. CASE Full
    <3>1. writer' = [writer EXCEPT ![w] = "drop"] /\ UNCHANGED <<mu, queue, accepted>>
      BY <1>6, <2>1 DEF TryQueue
    <3>2. UNCHANGED <<delay, loop, socket, elapsed, sinceSend, sent, dropped>>
      BY <1>6 DEF TryQueue
    <3>3. TypeOK'
      BY <1>6, <3>1, <3>2 DEF TryQueue
    <3>4. writer[w] = "try" /\ Len(queue) = QueueSize
      BY <1>6, <2>1 DEF TryQueue
    <3>5. Modes' /\ RoomIsKept' /\ WriteQueues'
      BY <3>1, <3>2, <3>4
    <3> QED BY <3>3, <3>5
  <2> QED BY <1>3, <1>6, <2>1 DEF TryQueue
<1>7. ASSUME NEW w \in Writers, DropOldest(w) PROVE Inv'
  <2>1. \A v \in Writers \ {w} : writer[v] \in {"idle", "error"}
    BY <1>7 DEF DropOldest
  <2>2. /\ queue' \in Seq(Messages) /\ Len(queue') <= Len(queue) /\ Len(queue') < QueueSize
        /\ dropped' \subseteq Messages
    <3>1. CASE queue = <<>>
      <4>1. queue' = queue /\ dropped' = dropped
        BY <1>7, <3>1 DEF DropOldest
      <4>2. Len(queue) = 0 /\ queue \in Seq(Messages) /\ dropped \subseteq Messages
        BY <1>2, <3>1
      <4> HIDE DEF Inv, TypeOK, Modes, Messages
      <4> QED BY <4>1, <4>2
    <3>2. CASE queue # <<>>
      <4>1. Len(queue) <= QueueSize /\ QueueSize \in Nat
        OBVIOUS
      <4>2. queue' = Tail(queue) /\ dropped' = dropped \cup {Head(queue)}
        BY <1>7, <3>2 DEF DropOldest
      <4>3. Head(queue) \in Messages /\ dropped \subseteq Messages
        BY <1>2, <3>2
      <4>4. Tail(queue) \in Seq(Messages) /\ Len(Tail(queue)) = Len(queue) - 1 /\ Len(queue) \in Nat
        BY <1>2, <3>2
      <4> HIDE DEF Inv, TypeOK, Modes, Messages
      <4> QED BY <4>1, <4>2, <4>3, <4>4
    <3> QED BY <3>1, <3>2
  <2>3. /\ writer' = [writer EXCEPT ![w] = "retry"]
        /\ UNCHANGED <<delay, mu, loop, socket, elapsed, sinceSend, accepted, sent>>
    BY <1>7 DEF DropOldest
  <2>4. TypeOK'
    BY <1>7, <2>2, <2>3 DEF DropOldest
  <2>5. Modes' /\ RoomIsKept' /\ WriteQueues'
    BY <1>7, <2>1, <2>2, <2>3 DEF DropOldest
  <2> QED BY <2>4, <2>5
<1>8. ASSUME NEW w \in Writers, RetryQueue(w) PROVE Inv'
  BY <1>2, <1>3, <1>8 DEF RetryQueue
<1>9. CASE Receive
  <2>1. /\ loop.pc = "receive" /\ Head(queue) \in Messages
        /\ queue' \in Seq(Messages) /\ Len(queue') = Len(queue) - 1
        /\ UNCHANGED <<delay, mu, writer, socket, elapsed, sinceSend, accepted, sent, dropped>>
    BY <1>2, <1>9 DEF Receive
  <2>2. /\ loop' \in [pc : {"none", "receive", "check", "sleep", "relock", "write", "stopped"},
                      msg : 0..MaxMessages, wait : 0..delay]
        /\ loop'.pc = "check" /\ loop'.msg \in Messages
    <3>1. loop' = [pc |-> "check", msg |-> Head(queue), wait |-> loop.wait]
      BY <1>9 DEF Receive
    <3> QED BY <2>1, <3>1
  <2>3. TypeOK'
    BY <2>1, <2>2
  <2>4. Modes' /\ RoomIsKept' /\ WriteQueues'
    BY <2>1, <2>2
  <2> QED BY <2>3, <2>4
<1>10. CASE Check
  <2>1. /\ loop' \in [pc : {"none", "receive", "check", "sleep", "relock", "write", "stopped"},
                      msg : 0..MaxMessages, wait : 0..delay]
        /\ loop'.pc = (IF elapsed < delay THEN "sleep" ELSE "write") /\ loop'.msg = loop.msg
    <3>1. loop.msg \in 0..MaxMessages /\ loop.wait \in 0..delay
      OBVIOUS
    <3>2. CASE elapsed < delay
      <4>1. loop' = [pc |-> "sleep", msg |-> loop.msg, wait |-> delay - elapsed]
        BY <1>10, <3>2 DEF Check
      <4>2. delay - elapsed \in 0..delay
        BY <3>2
      <4> QED BY <3>1, <3>2, <4>1, <4>2
    <3>3. CASE ~(elapsed < delay)
      <4>1. loop' = [pc |-> "write", msg |-> loop.msg, wait |-> loop.wait]
        BY <1>10, <3>3 DEF Check
      <4> QED BY <3>1, <3>3, <4>1
    <3> QED BY <3>2, <3>3
  <2>2. /\ mu = NoOne /\ mu' = (IF elapsed < delay THEN mu ELSE "loop") /\ loop.pc = "check"
        /\ UNCHANGED <<delay, writer, queue, socket, elapsed, sinceSend, accepted, sent, dropped>>
    BY <1>10 DEF Check
  <2>3. TypeOK'
    BY <2>1, <2>2
  <2>4. Modes' /\ RoomIsKept' /\ WriteQueues'
    BY <2>1, <2>2
  <2> QED BY <2>3, <2>4
<1>11. CASE Wake
  BY <1>2, <1>11 DEF Wake
<1>12. CASE Relock
  BY <1>2, <1>12 DEF Relock
<1>13. CASE Send
  <2>1. loop.msg \in Messages
    BY <1>13 DEF Send
  <2>2. \A w \in Writers : writer[w] \notin {"try", "drop", "retry", "write"}
    BY <1>13 DEF Send
  <2>3. loop' \in [pc : {"none", "receive", "check", "sleep", "relock", "write", "stopped"},
                   msg : 0..MaxMessages, wait : 0..delay']
        /\ loop'.msg = 0 /\ loop'.pc \in {"receive", "stopped"} /\ delay # 0
    BY <1>13 DEF Send
  <2>4. TypeOK'
    BY <1>1, <1>2, <1>13, <2>1, <2>2, <2>3 DEF Send
  <2>5. Modes' /\ RoomIsKept' /\ WriteQueues'
    BY <1>13, <2>2, <2>3 DEF Send
  <2> QED BY <2>4, <2>5
<1>14. CASE SendFails
  <2>1. loop.msg \in Messages
    BY <1>14 DEF SendFails
  <2>2. \A w \in Writers : writer[w] \notin {"try", "drop", "retry", "write"}
    BY <1>14 DEF SendFails
  <2>3. loop' \in [pc : {"none", "receive", "check", "sleep", "relock", "write", "stopped"},
                   msg : 0..MaxMessages, wait : 0..delay']
        /\ loop'.msg = 0 /\ loop'.pc \in {"receive", "stopped"} /\ delay # 0
    BY <1>14 DEF SendFails
  <2>4. TypeOK'
    BY <1>2, <1>14, <2>1, <2>2, <2>3 DEF SendFails
  <2>5. Modes' /\ RoomIsKept' /\ WriteQueues'
    BY <1>14, <2>2, <2>3 DEF SendFails
  <2> QED BY <2>4, <2>5
<1>15. CASE UpdateActiveTime
  BY <1>2, <1>15 DEF UpdateActiveTime
<1>16. CASE Close
  BY <1>2, <1>16 DEF Close
<1>17. CASE Tick
  <2>1. /\ UNCHANGED <<delay, mu, writer, queue, socket, accepted, sent, dropped>>
        /\ elapsed' = UpTo(elapsed) /\ sinceSend' = UpTo(sinceSend)
    BY <1>17 DEF Tick
  <2>2. elapsed' \in 0..delay /\ sinceSend' \in 0..delay
    BY <2>1 DEF UpTo
  <2>3. PICK wait \in 0..delay : loop' = [loop EXCEPT !.wait = wait]
    <3>1. (IF loop.wait > 0 THEN loop.wait - 1 ELSE 0) \in 0..delay
      OBVIOUS
    <3> HIDE DEF Inv, TypeOK
    <3> QED BY <1>17, <3>1 DEF Tick
  <2>4. /\ loop' \in [pc : {"none", "receive", "check", "sleep", "relock", "write", "stopped"},
                      msg : 0..MaxMessages, wait : 0..delay]
        /\ loop'.pc = loop.pc /\ loop'.msg = loop.msg
    BY <2>3
  <2> QED BY <2>1, <2>2, <2>4
<1>18. CASE UNCHANGED vars
  BY <1>18 DEF vars
<1> QED BY <1>4, <1>5, <1>6, <1>7, <1>8, <1>9, <1>10, <1>11, <1>12, <1>13, <1>14, <1>15, <1>16,
           <1>17, <1>18 DEF Next, WriteNext, LoopNext

\* Mutual exclusion, what mu protects, and the room a Write makes for itself.
THEOREM WriterInvariant == Spec => []Inv
  BY InvInit, InvStep, PTL DEF Spec

\* Types, and mu is held exactly between Lock and Unlock (connection.go:64-112).
THEOREM WriterTypes == Spec => []TypeOK
<1>1. Inv => TypeOK
  BY DEF Inv
<1> QED BY <1>1, WriterInvariant, PTL

\* The second attempt of a Write always finds room: Write never returns the error
\* of connection.go:90.
THEOREM QueueAlwaysTakes == Spec => []WriteQueues
<1>1. Inv => WriteQueues
  BY DEF Inv
<1> QED BY <1>1, WriterInvariant, PTL

\* The message a Write drops is the one at the head of the queue, and the queue was
\* full when it looked: writeLoop took one more at most (connection.go:81-86).
THEOREM DropsBounded == Spec => DropsUnderPressure
<1>1. ASSUME Inv, [Next]_vars, NEW w \in Writers, writer[w] = "drop", writer'[w] = "retry"
      PROVE  Len(queue) >= QueueSize - 1 /\ Cardinality(dropped' \ dropped) <= 1
  <2> USE <1>1, WritersAssumption, QueueAssumption
          DEF Inv, TypeOK, Messages, GoTo, Return, Full, Enqueue, timers, history
  <2>1. Len(queue) >= QueueSize - 1
    BY LenProperties DEF RoomIsKept
  <2>2. dropped' \ dropped \subseteq {Head(queue)}
    <3>1. CASE \E v \in Writers : DropOldest(v)
      BY <3>1 DEF DropOldest
    <3>2. ASSUME ~\E v \in Writers : DropOldest(v) PROVE FALSE
      <4>1. ASSUME NEW v \in Writers, WriteNow(v) \/ TryQueue(v) \/ RetryQueue(v) \/ Lock(v)
            PROVE  FALSE
        BY <4>1 DEF WriteNow, TryQueue, RetryQueue, Lock
      <4>2. ASSUME LoopNext \/ UpdateActiveTime \/ Close \/ Tick \/ UNCHANGED vars
            PROVE  FALSE
        BY <4>2 DEF LoopNext, Receive, Check, Wake, Relock, Send, SendFails, UpdateActiveTime,
                    Close, Tick, vars
      <4> QED BY <3>2, <4>1, <4>2 DEF Next, WriteNext
    <3> QED BY <3>1, <3>2
  <2>3. dropped' \ dropped = {} \/ dropped' \ dropped = {Head(queue)}
    BY <2>2
  <2>4. Cardinality({}) = 0 /\ Cardinality({Head(queue)}) = 1
    BY FS_EmptySet, FS_Singleton
  <2>5. Cardinality(dropped' \ dropped) <= 1
    <3> DEFINE drop == dropped' \ dropped
    <3>1. drop = {} \/ drop = {Head(queue)}
      BY <2>3
    <3> HIDE DEF drop
    <3>2. Cardinality(drop) = 0 \/ Cardinality(drop) = 1
      BY <2>4, <3>1
    <3> QED BY <3>2 DEF drop
  <2> QED BY <2>1, <2>5
<1>2. Inv /\ [Next]_vars
        => [\A w \in Writers : writer[w] = "drop" /\ writer'[w] = "retry"
              => Len(queue) >= QueueSize - 1 /\ Cardinality(dropped' \ dropped) <= 1]_vars
  BY <1>1
<1> QED BY <1>2, WriterInvariant, PTL DEF Spec, DropsUnderPressure

-----------------------------------------------------------------------------
\* The rest of a delay is slept and counted: lastActiveTime is never older than the
\* last message of writeLoop.
Spaced ==
  /\ elapsed <= sinceSend
  /\ loop.pc = "sleep" => sinceSend + loop.wait >= delay
  /\ loop.pc \in {"relock", "write"} => sinceSend >= delay

\* Only a Send restarts the time since the last one.
LEMMA SpacedStep ==
  ASSUME Inv, Spaced, [Next]_vars
  PROVE  Spaced'
<1> USE DelaysAssumption DEF Inv, TypeOK, Spaced, timers, history
<1>1. ASSUME NEW w \in Writers, Lock(w) \/ WriteNext(w) PROVE Spaced'
  BY <1>1 DEF WriteNext, Lock, WriteNow, TryQueue, DropOldest, RetryQueue, Enqueue
<1>2. CASE Receive
  BY <1>2 DEF Receive
<1>3. CASE Check
  <2>1. CASE elapsed < delay
    <3>1. /\ UNCHANGED <<delay, elapsed, sinceSend>>
          /\ loop'.pc = "sleep" /\ loop'.wait = delay - elapsed
      BY <1>3, <2>1 DEF Check
    <3>2. delay \in Nat /\ elapsed \in 0..delay /\ sinceSend \in 0..delay
      OBVIOUS
    <3> QED BY <3>1, <3>2
  <2>2. CASE ~(elapsed < delay)
    BY <1>3, <2>2 DEF Check
  <2> QED BY <2>1, <2>2
<1>4. CASE Wake
  BY <1>4 DEF Wake
<1>5. CASE Relock
  BY <1>5 DEF Relock
<1>6. CASE Send \/ SendFails
  BY <1>6 DEF Send, SendFails
<1>7. CASE UpdateActiveTime \/ Close \/ UNCHANGED vars
  BY <1>7 DEF UpdateActiveTime, Close, vars
<1>8. CASE Tick
  <2>1. elapsed' = UpTo(elapsed) /\ sinceSend' = UpTo(sinceSend) /\ delay' = delay
    BY <1>8 DEF Tick
  <2>2. loop'.pc = loop.pc /\ loop'.wait = IF loop.wait > 0 THEN loop.wait - 1 ELSE 0
    BY <1>8 DEF Tick
  <2>3. /\ loop.wait \in 0..delay /\ delay \in Nat
        /\ elapsed \in 0..delay /\ sinceSend \in 0..delay
    OBVIOUS
  <2>4. elapsed' <= sinceSend' /\ sinceSend' >= sinceSend
    BY <2>1, <2>3 DEF UpTo
  <2>5. sinceSend + loop.wait >= delay => sinceSend' + loop'.wait >= delay
    BY <2>1, <2>2, <2>3 DEF UpTo
  <2>6. sinceSend >= delay => sinceSend' >= delay
    BY <2>3, <2>4
  <2> QED BY <2>1, <2>2, <2>4, <2>5, <2>6
<1> QED BY <1>1, <1>2, <1>3, <1>4, <1>5, <1>6, <1>7, <1>8 DEF Next, LoopNext

\* Between two messages of writeLoop lies the whole delay, whatever arrives while
\* it sleeps (connection.go:98-107).
THEOREM DelayKept == Spec => SendsAreSpaced
<1>1. Init => Spaced
  BY DelaysAssumption DEF Init, Spaced
<1>2. Spec => []Spaced
  BY <1>1, SpacedStep, WriterInvariant, PTL DEF Spec
<1>3. Spaced => [Send => sinceSend >= delay]_vars
  BY DEF Spaced, Send
<1> QED BY <1>2, <1>3, PTL DEF SendsAreSpaced

-----------------------------------------------------------------------------
Increasing(s) == \A i, j \in DOMAIN s : i < j => s[i] < s[j]

\* What Append and Tail do to the members of a sequence of messages and to its order.
LEMMA AppendOrder ==
  ASSUME NEW s \in Seq(Messages), NEW m \in Messages
  PROVE  /\ ToSet(Append(s, m)) = ToSet(s) \cup {m}
         /\ Increasing(s) /\ Precede(ToSet(s), {m}) => Increasing(Append(s, m))
<1>1. /\ DOMAIN s = 1..Len(s) /\ Len(s) \in Nat
      /\ DOMAIN Append(s, m) = 1..(Len(s) + 1)
      /\ \A i \in 1..Len(s) : Append(s, m)[i] = s[i]
      /\ Append(s, m)[Len(s) + 1] = m
  BY LenProperties, AppendProperties
<1>2. ToSet(Append(s, m)) = ToSet(s) \cup {m}
  BY <1>1 DEF ToSet
<1>3. ASSUME Increasing(s), Precede(ToSet(s), {m})
      PROVE  Increasing(Append(s, m))
  <2>1. \A i \in 1..Len(s) : s[i] < m
    BY <1>1, <1>3 DEF Precede, ToSet
  <2> QED BY <1>1, <1>3, <2>1 DEF Increasing
<1> QED BY <1>2, <1>3

LEMMA TailOrder ==
  ASSUME NEW s \in Seq(Messages), s # <<>>
  PROVE  /\ Head(s) \in Messages
         /\ ToSet(s) = {Head(s)} \cup ToSet(Tail(s))
         /\ Increasing(s) => Increasing(Tail(s)) /\ Precede({Head(s)}, ToSet(Tail(s)))
<1>1. /\ DOMAIN s = 1..Len(s) /\ Len(s) \in Nat \ {0} /\ Head(s) = s[1] /\ Head(s) \in Messages
      /\ DOMAIN Tail(s) = 1..(Len(s) - 1)
      /\ \A i \in 1..(Len(s) - 1) : Tail(s)[i] = s[i + 1]
  BY LenProperties, HeadTailProperties, EmptySeq
<1>2. ToSet(s) = {Head(s)} \cup ToSet(Tail(s))
  <2>1. \A i \in 2..Len(s) : i - 1 \in 1..(Len(s) - 1) /\ s[i] = Tail(s)[i - 1]
    BY <1>1
  <2>2. ASSUME NEW i \in 1..Len(s) PROVE s[i] \in {Head(s)} \cup ToSet(Tail(s))
    <3>1. CASE i = 1
      BY <1>1, <3>1
    <3>2. CASE i # 1
      <4>1. i - 1 \in DOMAIN Tail(s) /\ s[i] = Tail(s)[i - 1]
        BY <1>1, <2>1, <3>2
      <4> QED BY <4>1 DEF ToSet
    <3> QED BY <3>1, <3>2
  <2>3. ASSUME NEW i \in 1..(Len(s) - 1) PROVE Tail(s)[i] \in ToSet(s)
    <3>1. i + 1 \in 1..Len(s)
      BY <1>1
    <3> QED BY <1>1, <3>1 DEF ToSet
  <2>4. Head(s) \in ToSet(s)
    BY <1>1 DEF ToSet
  <2>5. ToSet(s) \subseteq {Head(s)} \cup ToSet(Tail(s))
    BY <1>1, <2>2 DEF ToSet
  <2>6. ToSet(Tail(s)) \subseteq ToSet(s)
    BY <1>1, <2>3 DEF ToSet
  <2> QED BY <2>4, <2>5, <2>6
<1>3. ASSUME Increasing(s)
      PROVE  Increasing(Tail(s)) /\ Precede({Head(s)}, ToSet(Tail(s)))
  BY <1>1, <1>3 DEF Increasing, Precede, ToSet
<1> QED BY <1>1, <1>2, <1>3

\* Where each message is, and in which order.
Filed == AllAccounted /\ InOrder

\* The latest message is the greatest so far.
LEMMA NewestIsLast ==
  ASSUME Inv, Filed
  PROVE  /\ Precede(ToSet(sent) \cup dropped \cup InHand \cup ToSet(queue), {accepted + 1})
         /\ Increasing(sent) /\ Increasing(queue)
BY DEF Inv, TypeOK, Filed, AllAccounted, InOrder, Precede, Increasing

LEMMA FiledStep ==
  ASSUME Inv, Filed, [Next]_vars
  PROVE  Filed'
<1> USE DelaysAssumption, QueueAssumption, WritersAssumption
<1>1. /\ sent \in Seq(Messages) /\ queue \in Seq(Messages) /\ loop.msg \in 0..MaxMessages
      /\ dropped \subseteq Messages /\ accepted \in Nat /\ Messages \subseteq Nat
      /\ Increasing(sent) /\ Increasing(queue)
      /\ MaxMessages \in Nat
  BY NewestIsLast DEF Inv, TypeOK, Messages
<1>2. ASSUME UNCHANGED <<queue, accepted, sent, dropped, loop>>
      PROVE  Filed'
  BY <1>2 DEF Filed, AllAccounted, InOrder, InHand
<1>3. ASSUME loop'.msg = loop.msg, UNCHANGED <<queue, accepted, sent, dropped>>
      PROVE  Filed'
  BY <1>3 DEF Filed, AllAccounted, InOrder, InHand
<1>4. ASSUME NEW w \in Writers, Enqueue(w), writer[w] \in {"try", "retry"},
             UNCHANGED <<loop, sent, dropped>>
      PROVE  Filed'
  <2>1. accepted + 1 \in Messages
    BY <1>4 DEF Inv, TypeOK, Modes, Messages
  <2>2. /\ ToSet(queue') = ToSet(queue) \cup {accepted'} /\ accepted' = accepted + 1
        /\ Increasing(queue')
    BY <1>1, <1>4, <2>1, NewestIsLast, AppendOrder DEF Enqueue, Precede
  <2>3. AllAccounted'
    BY <1>1, <1>4, <2>2 DEF Filed, AllAccounted, InHand
  <2>4. InOrder'
    BY <1>1, <1>4, <2>2, NewestIsLast DEF Filed, InOrder, InHand, Precede, Increasing
  <2> QED BY <2>3, <2>4 DEF Filed
<1>5. ASSUME NEW w \in Writers, WriteNow(w) PROVE Filed'
  <2>1. accepted + 1 \in Messages /\ queue = <<>> /\ loop.msg = 0
    BY <1>5 DEF WriteNow, Inv, TypeOK, Modes, Messages
  <2>2. /\ \/ /\ ToSet(sent') = ToSet(sent) \cup {accepted'} /\ dropped' = dropped
              /\ Increasing(sent')
           \/ dropped' = dropped \cup {accepted'} /\ sent' = sent
        /\ accepted' = accepted + 1
    BY <1>1, <1>5, <2>1, NewestIsLast, AppendOrder DEF WriteNow, Precede
  <2>3. ToSet(queue) = {} /\ queue' = queue /\ InHand = {} /\ InHand' = {}
    BY <1>5, <2>1 DEF WriteNow, ToSet, InHand
  <2>4. AllAccounted'
    BY <1>1, <2>2, <2>3 DEF Filed, AllAccounted
  <2>5. InOrder'
    BY <1>1, <2>2, <2>3, NewestIsLast DEF Filed, InOrder, Precede, Increasing
  <2> QED BY <2>4, <2>5 DEF Filed
<1>6. ASSUME NEW w \in Writers, DropOldest(w) PROVE Filed'
  <2>1. CASE queue = <<>>
    BY <1>2, <1>6, <2>1 DEF DropOldest
  <2>2. CASE queue # <<>>
    <3>1. /\ queue' = Tail(queue) /\ dropped' = dropped \cup {Head(queue)}
          /\ UNCHANGED <<loop, sent, accepted>>
      BY <1>6, <2>2 DEF DropOldest, history
    <3>2. AllAccounted'
      BY <1>1, <2>2, <3>1, TailOrder DEF Filed, AllAccounted, InHand
    <3>3. InOrder'
      BY <1>1, <2>2, <3>1, TailOrder DEF Filed, InOrder, InHand, Precede, Increasing
    <3> QED BY <3>2, <3>3 DEF Filed
  <2> QED BY <2>1, <2>2
<1>7. CASE Receive
  <2>1. /\ queue' = Tail(queue) /\ InHand = {} /\ InHand' = {Head(queue)} /\ queue # <<>>
        /\ UNCHANGED <<sent, dropped, accepted>>
    BY <1>1, <1>7, TailOrder DEF Receive, history, InHand, Inv, TypeOK, Modes, Messages
  <2>2. AllAccounted'
    BY <1>1, <2>1, TailOrder DEF Filed, AllAccounted
  <2>3. InOrder'
    BY <1>1, <2>1, TailOrder DEF Filed, InOrder, Precede, Increasing
  <2> QED BY <2>2, <2>3 DEF Filed
<1>8. CASE Send
  <2>1. /\ loop.msg \in Messages /\ InHand = {loop.msg} /\ InHand' = {}
        /\ sent' = Append(sent, loop.msg) /\ UNCHANGED <<queue, dropped, accepted>>
    BY <1>1, <1>8 DEF Send, InHand, Inv, Modes, Messages
  <2>2. Precede(ToSet(sent), {loop.msg}) /\ Precede({loop.msg}, ToSet(queue))
    BY <2>1 DEF Filed, InOrder
  <2>3. ToSet(sent') = ToSet(sent) \cup {loop.msg} /\ Increasing(sent')
    BY <1>1, <2>1, <2>2, AppendOrder
  <2>4. AllAccounted'
    BY <2>1, <2>3 DEF Filed, AllAccounted
  <2>5. InOrder'
    BY <2>1, <2>2, <2>3 DEF Filed, InOrder, Precede, Increasing
  <2> QED BY <2>4, <2>5 DEF Filed
<1>9. CASE SendFails
  <2>1. /\ loop.msg \in Messages /\ InHand = {loop.msg} /\ InHand' = {}
        /\ dropped' = dropped \cup {loop.msg} /\ UNCHANGED <<queue, sent, accepted>>
    BY <1>1, <1>9 DEF SendFails, InHand, Inv, Modes, Messages
  <2>2. AllAccounted'
    BY <2>1 DEF Filed, AllAccounted
  <2>3. InOrder'
    BY <2>1 DEF Filed, InOrder, Precede
  <2> QED BY <2>2, <2>3 DEF Filed
<1>10. ASSUME NEW w \in Writers, Lock(w) \/ TryQueue(w) \/ RetryQueue(w) PROVE Filed'
  BY <1>2, <1>4, <1>10 DEF Lock, TryQueue, RetryQueue, history
<1>11. CASE Check \/ Wake \/ Relock
  BY <1>3, <1>11 DEF Check, Wake, Relock, history, Inv, TypeOK
<1>12. CASE UpdateActiveTime \/ Close \/ Tick \/ UNCHANGED vars
  BY <1>3, <1>12 DEF UpdateActiveTime, Close, Tick, vars, history, Inv, TypeOK
<1> QED BY <1>5, <1>6, <1>7, <1>8, <1>9, <1>10, <1>11, <1>12 DEF Next, WriteNext, LoopNext

\* Initially there are no messages.
LEMMA FiledInvariant == Spec => []Filed
<1>1. Init => Filed
  <2> SUFFICES ASSUME Init PROVE Filed
    OBVIOUS
  <2>1. ToSet(<<>>) = {} /\ DOMAIN <<>> = {} /\ 1..0 = {}
    BY DEF ToSet
  <2> QED BY <2>1 DEF Init, Filed, AllAccounted, InOrder, InHand, Precede
<1> QED BY <1>1, FiledStep, WriterInvariant, PTL DEF Spec

\* No message is lost between Write and writeLoop (connection.go:72-115).
THEOREM NothingLost == Spec => []AllAccounted
<1>1. Filed => AllAccounted
  BY DEF Filed
<1> QED BY <1>1, FiledInvariant, PTL

\* Messages are sent in the order in which Write accepted them, and the oldest is
\* dropped first, whatever Writes and writeLoop do in between.
THEOREM OrderKept == Spec => []InOrder
<1>1. Filed => InOrder
  BY DEF Filed
<1> QED BY <1>1, FiledInvariant, PTL
=============================================================================
