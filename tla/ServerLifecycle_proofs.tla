------------------------ MODULE ServerLifecycle_proofs ------------------------
(* Every safety property of ServerLifecycle, for any finite set of           *)
(* connections, any limit and any bound on panics.                           *)
EXTENDS ServerLifecycle, FiniteSetTheorems, TLAPS

\* The connection the acceptor holds is nobody else's: it has a socket and no
\* handler yet; and no handler runs without a socket.
Fresh ==
  \A c \in Conns :
    /\ acceptor.conn = c => handler[c] = "none" /\ sock[c] # "none"
    /\ handler[c] # "none" => sock[c] # "none"

\* Between NewDeviceConnection and RemoveConnection, and only there.
RegisteredRun == \A c \in connections : handler[c] \in {"scan", "remove"}

\* connectionCleaner is started once, by the acceptor.
CleanerUnborn == acceptor.pc \in {"listen", "cleaner"} => cleaner = "none"

Inv == TypeOK /\ Fresh /\ RegisteredRun /\ NoOrphanSocket /\ CleanerUnborn

\* Initially nobody owns anything.
LEMMA InvInit ==
  ASSUME Init
  PROVE  Inv
<1> USE ConnsAssumption, MaxAssumption
        DEF Init, Inv, TypeOK, Fresh, RegisteredRun, NoOrphanSocket, CleanerUnborn,
            AcceptorPcs, HandlerPcs, CleanerPcs, StopPcs
<1>1. counts \in Int /\ wg \in Int /\ waiter = "none" /\ ctxDone = FALSE /\ listener = "nil"
  OBVIOUS
<1>2. acceptor \in [pc : AcceptorPcs, conn : Conns \cup {NoConn}, current : Int]
  OBVIOUS
<1>3. /\ handler \in [Conns -> HandlerPcs] /\ sock \in [Conns -> {"none", "open", "closed"}]
      /\ ended \in [Conns -> BOOLEAN]
  OBVIOUS
<1>4. panics \in 0..MaxPanics /\ stray \in 0..panics
  OBVIOUS
<1>5. late \in [conn : Conns \cup {NoConn}, cleaner : 0..1]
  OBVIOUS
<1>6. TypeOK
  BY <1>1, <1>2, <1>3, <1>4, <1>5
<1> QED BY <1>6

\* One case per action: each hands a connection, socket or map entry from one
\* owner to the next.
LEMMA InvStep ==
  ASSUME Inv, [Next]_vars
  PROVE  Inv'
<1> USE ConnsAssumption, MaxAssumption
        DEF Inv, TypeOK, Fresh, RegisteredRun, NoOrphanSocket, CleanerUnborn,
            AcceptorPcs, HandlerPcs, CleanerPcs, StopPcs,
            AcceptorAt, CleanerAt, StopAt, HandlerStep, GoTo, NextAccept, WgAdd, EnrolOne,
            LastOut, WaiterIsAsleep, WakeWaiter, WaiterReturns,
            sharedMaps, waitVars, stopVars, cleanerVars
<1>1. CASE Listen BY <1>1 DEF Listen
<1>2. CASE ListenFails BY <1>2 DEF ListenFails
<1>3. CASE StartCleaner BY <1>3 DEF StartCleaner
<1>4. CASE AcceptFails BY <1>4 DEF AcceptFails
<1>5. CASE LoadCounts
  <2>1. acceptor' \in [pc : AcceptorPcs, conn : Conns \cup {NoConn}, current : Int]
    BY <1>5 DEF LoadCounts
  <2>2. acceptor'.conn = acceptor.conn /\ acceptor'.pc \in {"reject", "swap"}
    BY <1>5 DEF LoadCounts
  <2> QED BY <1>5, <2>1, <2>2 DEF LoadCounts
<1>6. CASE SwapCounts BY <1>6 DEF SwapCounts
<1>7. CASE Reject BY <1>7 DEF Reject
<1>8. CASE AddHandler BY <1>8 DEF AddHandler
<1>9. CASE SpawnHandler BY <1>9 DEF SpawnHandler
<1>10. CASE CleanerReturns BY <1>10 DEF CleanerReturns
<1>11. CASE CleanerDone BY <1>11 DEF CleanerDone
<1>12. CASE CleanerCatch BY <1>12 DEF CleanerCatch
<1>13. CASE CleanerPanics BY <1>13 DEF CleanerPanics
<1>14. CASE StrayRelease BY <1>14 DEF StrayRelease
<1>15. CASE StopCancel BY <1>15 DEF StopCancel
<1>16. CASE StopListener BY <1>16 DEF StopListener
<1>17. CASE StopRangeEnds BY <1>17 DEF StopRangeEnds
<1>18. CASE StopWaits BY <1>18 DEF StopWaits
<1>19. CASE StopReturns BY <1>19 DEF StopReturns
<1>20. CASE StopTimesOut BY <1>20 DEF StopTimesOut
<1>21. ASSUME NEW c \in Conns, StopVisit(c) PROVE Inv' BY <1>21 DEF StopVisit
<1>22. ASSUME NEW c \in Conns, Accept(c) PROVE Inv' BY <1>22 DEF Accept
<1>23. ASSUME NEW c \in Conns, OptimalFails(c) PROVE Inv' BY <1>23 DEF OptimalFails
<1>24. ASSUME NEW c \in Conns, Register(c) PROVE Inv' BY <1>24 DEF Register
<1>25. ASSUME NEW c \in Conns, ScanReturns(c) PROVE Inv' BY <1>25 DEF ScanReturns
<1>26. ASSUME NEW c \in Conns, RemoveConnection(c) PROVE Inv'
  BY <1>26 DEF RemoveConnection
<1>27. ASSUME NEW c \in Conns, ReleaseConnection(c) PROVE Inv'
  BY <1>27 DEF ReleaseConnection
<1>28. ASSUME NEW c \in Conns, HandlerDone(c) PROVE Inv' BY <1>28 DEF HandlerDone
<1>29. ASSUME NEW c \in Conns, CloseSocket(c) PROVE Inv' BY <1>29 DEF CloseSocket
<1>30. ASSUME NEW c \in Conns, PeerEnds(c) PROVE Inv' BY <1>30 DEF PeerEnds
<1>32. CASE AcceptorWakes BY <1>32 DEF AcceptorWakes
<1>33. ASSUME NEW c \in Conns, HandlerWakes(c) PROVE Inv' BY <1>33 DEF HandlerWakes
<1>34. CASE CleanerWakes BY <1>34 DEF CleanerWakes
<1>35. CASE WaitReturns
  <2>1. late' \in [conn : Conns \cup {NoConn}, cleaner : 0..1]
    BY <1>35 DEF WaitReturns
  <2>2. UNCHANGED <<acceptor, handler, sock, connections, cleaner>>
    BY <1>35 DEF WaitReturns
  <2>3. Fresh' /\ RegisteredRun' /\ NoOrphanSocket' /\ CleanerUnborn'
    BY <2>2
  <2>4. waiter' \in {"woken", "returned"} /\ crashed' \in BOOLEAN
    BY <1>35 DEF WaitReturns
  <2>5. TypeOK'
    BY <1>35, <2>1, <2>2, <2>4 DEF WaitReturns
  <2> QED BY <2>3, <2>5
<1>31. CASE UNCHANGED vars BY <1>31 DEF vars
<1> QED
  BY <1>1, <1>2, <1>3, <1>4, <1>5, <1>6, <1>7, <1>8, <1>9, <1>10, <1>11, <1>12,
     <1>13, <1>14, <1>15, <1>16, <1>17, <1>18, <1>19, <1>20, <1>21, <1>22, <1>23,
     <1>24, <1>25, <1>26, <1>27, <1>28, <1>29, <1>30, <1>31,
     <1>32, <1>33, <1>34, <1>35
  DEF Next, AcceptorNext, HandlerNext, CleanerNext, StopNext

\* The types and the ownership of connections, sockets and map entries are
\* inductive: no interleaving of Start, Stop, the cleaner and the handlers
\* gives a connection two owners or none.
THEOREM Ownership == Spec => []Inv
BY InvInit, InvStep, PTL DEF Spec

\* Each goroutine is at a place its code has, and every counter is an integer,
\* also after a panic of the cleaner took one off.
THEOREM LifecycleTypes == Spec => []TypeOK
<1>1. Inv => TypeOK
  BY DEF Inv
<1> QED BY <1>1, Ownership, PTL

-----------------------------------------------------------------------------
(* Permits.                                                                  *)

\* Sets of connections have a cardinality, and one connection more or less
\* changes it by one.
LEMMA OneMore ==
  ASSUME NEW S \in SUBSET Conns, NEW c \in Conns
  PROVE  /\ Cardinality(S) \in Nat
         /\ c \notin S => Cardinality(S \cup {c}) = Cardinality(S) + 1
         /\ c \in S => Cardinality(S \ {c}) = Cardinality(S) - 1
<1>1. IsFiniteSet(S)
  BY ConnsAssumption, FS_Subset
<1>2. QED BY <1>1, FS_CardinalityType, FS_AddElement, FS_RemoveElement

\* The permit steps.  Whatever the step, the connections that hold a permit
\* change together with the counter or the stray releases.
NoPermit == Holders' = Holders /\ counts' = counts /\ panics' - stray' = panics - stray
TakesPermit(c) ==
  /\ acceptor.pc = "swap" /\ counts = acceptor.current
  /\ c \notin Holders /\ Holders' = Holders \cup {c}
  /\ counts' = counts + 1 /\ UNCHANGED <<panics, stray>>
GivesPermit(c) ==
  /\ c \in Holders /\ Holders' = Holders \ {c}
  /\ counts' = counts - 1 /\ UNCHANGED <<panics, stray>>
StrayPermit ==
  Holders' = Holders /\ counts' = counts - 1 /\ stray' = stray - 1 /\ UNCHANGED panics

\* Every step is one of these; only the swap takes a permit and only a handler's
\* deferred releaseConnection gives one back.
LEMMA PermitSteps ==
  ASSUME Inv, [Next]_vars
  PROVE  NoPermit \/ StrayPermit \/ \E c \in Conns : TakesPermit(c) \/ GivesPermit(c)
<1> USE DEF Inv, TypeOK, Fresh, AcceptorPcs, HandlerPcs, Holders, Serving, NoPermit,
            AcceptorAt, CleanerAt, StopAt, HandlerStep, GoTo, NextAccept, WgAdd, EnrolOne,
            LastOut, WaiterIsAsleep, WakeWaiter, WaiterReturns,
            sharedMaps, waitVars, stopVars, cleanerVars
<1> USE ConnsAssumption, MaxAssumption
<1>1. CASE Listen BY <1>1 DEF Listen
<1>2. CASE ListenFails BY <1>2 DEF ListenFails
<1>3. CASE StartCleaner BY <1>3 DEF StartCleaner
<1>4. CASE AcceptFails BY <1>4 DEF AcceptFails
<1>5. CASE LoadCounts BY <1>5 DEF LoadCounts
<1>6. CASE SwapCounts
  <2>1. acceptor.conn \in Conns
    BY <1>6 DEF SwapCounts
  <2>2. CASE counts = acceptor.current
    <3>1. acceptor.conn \notin Holders
      BY <1>6, <2>1 DEF SwapCounts
    <3>2. Holders' = Holders \cup {acceptor.conn}
      BY <1>6, <2>1, <2>2 DEF SwapCounts
    <3>3. QED BY <1>6, <2>1, <2>2, <3>1, <3>2 DEF SwapCounts, TakesPermit
  <2>3. CASE counts # acceptor.current
    BY <1>6, <2>1, <2>3 DEF SwapCounts
  <2>4. QED BY <2>2, <2>3
<1>7. CASE Reject BY <1>7 DEF Reject
<1>8. CASE AddHandler BY <1>8 DEF AddHandler
<1>9. CASE SpawnHandler BY <1>9 DEF SpawnHandler
<1>10. CASE CleanerReturns BY <1>10 DEF CleanerReturns
<1>11. CASE CleanerDone BY <1>11 DEF CleanerDone
<1>12. CASE CleanerCatch BY <1>12 DEF CleanerCatch
<1>13. CASE CleanerPanics BY <1>13 DEF CleanerPanics
<1>14. CASE StrayRelease BY <1>14 DEF StrayRelease, StrayPermit
<1>15. CASE StopCancel BY <1>15 DEF StopCancel
<1>16. CASE StopListener BY <1>16 DEF StopListener
<1>17. CASE StopRangeEnds BY <1>17 DEF StopRangeEnds
<1>18. CASE StopWaits BY <1>18 DEF StopWaits
<1>19. CASE StopReturns BY <1>19 DEF StopReturns
<1>20. CASE StopTimesOut BY <1>20 DEF StopTimesOut
<1>21. ASSUME NEW c \in Conns, StopVisit(c) PROVE NoPermit BY <1>21 DEF StopVisit
<1>22. ASSUME NEW c \in Conns, Accept(c) PROVE NoPermit BY <1>22 DEF Accept
<1>23. ASSUME NEW c \in Conns, OptimalFails(c) PROVE NoPermit BY <1>23 DEF OptimalFails
<1>24. ASSUME NEW c \in Conns, Register(c) PROVE NoPermit BY <1>24 DEF Register
<1>25. ASSUME NEW c \in Conns, ScanReturns(c) PROVE NoPermit BY <1>25 DEF ScanReturns
<1>26. ASSUME NEW c \in Conns, RemoveConnection(c) PROVE NoPermit
  BY <1>26 DEF RemoveConnection
<1>27. ASSUME NEW c \in Conns, ReleaseConnection(c) PROVE GivesPermit(c)
  <2>1. c \in Holders /\ acceptor.conn # c
    BY <1>27 DEF ReleaseConnection
  <2>2. Holders' = Holders \ {c}
    BY <1>27, <2>1 DEF ReleaseConnection
  <2>3. QED BY <1>27, <2>1, <2>2 DEF ReleaseConnection, GivesPermit
<1>28. ASSUME NEW c \in Conns, HandlerDone(c) PROVE NoPermit BY <1>28 DEF HandlerDone
<1>29. ASSUME NEW c \in Conns, CloseSocket(c) PROVE NoPermit BY <1>29 DEF CloseSocket
<1>30. ASSUME NEW c \in Conns, PeerEnds(c) PROVE NoPermit BY <1>30 DEF PeerEnds
<1>32. CASE AcceptorWakes BY <1>32 DEF AcceptorWakes
<1>33. ASSUME NEW c \in Conns, HandlerWakes(c) PROVE NoPermit BY <1>33 DEF HandlerWakes
<1>34. CASE CleanerWakes BY <1>34 DEF CleanerWakes
<1>35. CASE WaitReturns BY <1>35 DEF WaitReturns
<1>31. CASE UNCHANGED vars BY <1>31 DEF vars
<1> QED
  BY <1>1, <1>2, <1>3, <1>4, <1>5, <1>6, <1>7, <1>8, <1>9, <1>10, <1>11, <1>12, <1>13,
     <1>14, <1>15, <1>16, <1>17, <1>18, <1>19, <1>20, <1>21, <1>22, <1>23, <1>24, <1>25,
     <1>26, <1>27, <1>28, <1>29, <1>30, <1>31,
     <1>32, <1>33, <1>34, <1>35
  DEF Next, AcceptorNext, HandlerNext, CleanerNext, StopNext

\* acceptConnection's load justifies its swap: the counter is within the limit,
\* and below it where the compare-and-swap is still to come.
Bounded ==
  /\ counts <= MaxConnections
  /\ acceptor.pc = "swap" => acceptor.current < MaxConnections

\* No step but the swap raises the counter, and it rises from below the limit.
LEMMA BoundedStep ==
  ASSUME Inv, Bounded, [Next]_vars
  PROVE  Bounded'
<1> USE DEF Inv, TypeOK, Bounded, AcceptorAt, CleanerAt, StopAt, HandlerStep, GoTo,
            NextAccept, WgAdd, EnrolOne, LastOut, WaiterIsAsleep, WakeWaiter, WaiterReturns,
            sharedMaps, waitVars, stopVars, cleanerVars
<1> USE MaxAssumption
<1>1. ASSUME AcceptorNext \/ AcceptFails PROVE Bounded'
  <2>1. CASE LoadCounts BY <2>1 DEF LoadCounts
  <2>2. CASE SwapCounts BY <2>2 DEF SwapCounts
  <2>3. CASE Listen \/ ListenFails \/ StartCleaner \/ AcceptFails
    BY <2>3 DEF Listen, ListenFails, StartCleaner, AcceptFails
  <2>4. CASE Reject \/ AddHandler \/ AcceptorWakes \/ SpawnHandler
    BY <2>4 DEF Reject, AddHandler, AcceptorWakes, SpawnHandler
  <2> QED BY <1>1, <2>1, <2>2, <2>3, <2>4 DEF AcceptorNext
<1>2. ASSUME CleanerNext \/ CleanerPanics \/ StrayRelease PROVE Bounded'
  BY <1>2 DEF CleanerNext, CleanerReturns, CleanerDone, CleanerWakes, CleanerCatch, CleanerPanics,
              StrayRelease
<1>3. ASSUME StopCancel \/ StopNext \/ WaitReturns PROVE Bounded'
  BY <1>3 DEF StopCancel, StopNext, StopListener, StopRangeEnds, StopWaits, StopReturns,
              StopTimesOut, StopVisit, WaitReturns
<1>4. ASSUME NEW c \in Conns, Accept(c) \/ HandlerNext(c) \/ PeerEnds(c) PROVE Bounded'
  BY <1>4 DEF Accept, PeerEnds, HandlerNext, OptimalFails, Register, ScanReturns,
              RemoveConnection, ReleaseConnection, HandlerDone, HandlerWakes, CloseSocket
<1>5. CASE UNCHANGED vars BY <1>5 DEF vars
<1> QED BY <1>1, <1>2, <1>3, <1>4, <1>5 DEF Next

PermitInv == Inv /\ PermitsAccounted /\ Bounded

\* Only connections hold permits, so there are finitely many.
LEMMA HoldersAreConns == Holders \in SUBSET Conns
BY DEF Holders

\* Their number is a natural number.
LEMMA HoldersCount == Cardinality(Holders) \in Nat
BY ConnsAssumption, HoldersAreConns, FS_Subset, FS_CardinalityType

\* Each permit step keeps the balance of the counter.
LEMMA PermitStep ==
  ASSUME PermitInv, [Next]_vars
  PROVE  PermitsAccounted'
<1> USE DEF PermitInv, PermitsAccounted, Inv, TypeOK
<1>1. Cardinality(Holders) \in Nat
  BY HoldersCount
<1>2. CASE NoPermit BY <1>1, <1>2 DEF NoPermit
<1>3. CASE StrayPermit BY <1>1, <1>3 DEF StrayPermit
<1>4. ASSUME NEW c \in Conns, TakesPermit(c) PROVE PermitsAccounted'
  BY <1>1, <1>4, OneMore, HoldersAreConns DEF TakesPermit
<1>5. ASSUME NEW c \in Conns, GivesPermit(c) PROVE PermitsAccounted'
  BY <1>1, <1>5, OneMore, HoldersAreConns DEF GivesPermit
<1> QED BY <1>2, <1>3, <1>4, <1>5, PermitSteps

\* The server starts with no permit taken.
LEMMA InitPermits == Init => PermitsAccounted /\ Bounded
<1> SUFFICES ASSUME Init PROVE PermitsAccounted /\ Bounded
  OBVIOUS
<1>1. Holders = {}
  BY ConnsAssumption DEF Init, Holders, Serving
<1> QED BY <1>1, FS_EmptySet, MaxAssumption DEF Init, PermitsAccounted, Bounded

\* The balance and the bound are invariant over the ownership invariant.
LEMMA PermitInvariant == Spec => []PermitInv
<1>1. Init => PermitsAccounted /\ Bounded BY InitPermits
<1>2. Inv /\ PermitsAccounted /\ Bounded /\ [Next]_vars => (PermitsAccounted /\ Bounded)'
  BY PermitStep, BoundedStep DEF PermitInv
<1> QED BY <1>1, <1>2, Ownership, PTL DEF Spec, PermitInv

\* connectionCounts counts exactly the permits taken and not given back, less
\* the stray releases, in every interleaving (server.go:123-133, 273-277).
THEOREM PermitsConserved == Spec => []PermitsAccounted
BY PermitInvariant, PTL DEF PermitInv

\* The limit holds although its check and the increment are two atomics: the
\* compare-and-swap fails on every counter but the one that was checked.
THEOREM LimitRespected == Spec => []LimitHolds
<1>1. PermitInv => LimitHolds
  <2> SUFFICES ASSUME PermitInv PROVE LimitHolds
    OBVIOUS
  <2>1. Cardinality(Holders) \in Nat
    BY HoldersCount
  <2> QED BY <2>1, MaxAssumption
          DEF PermitInv, PermitsAccounted, Bounded, LimitHolds, Inv, TypeOK
<1> QED BY <1>1, PermitInvariant, PTL

\* ConnectionSlots counts with the same Cardinality.
LEMMA SameCardinality == \A S : Slots!Cardinality(S) = Cardinality(S)
BY DEF Slots!Cardinality, Cardinality

\* The server is a semaphore: its steps on permits are those of
\* ConnectionSlots, and every other step changes none.
THEOREM Semaphore == Spec => ImplementsSlots
<1>1. Init => Slots!Init
  BY ConnsAssumption DEF Init, Slots!Init, Holders, Serving
<1>2. ASSUME PermitInv, [Next]_vars
      PROVE  [Slots!Next]_<<Holders, panics - stray>>
  <2> USE DEF PermitInv, Inv, TypeOK
  <2>1. CASE NoPermit BY <2>1 DEF NoPermit
  <2>2. CASE StrayPermit BY <2>2, <1>2 DEF StrayPermit, Slots!Next, Slots!Overrelease
  <2>3. ASSUME NEW c \in Conns, TakesPermit(c) PROVE Slots!Admit(c)
    <3>1. Cardinality(Holders) \in Nat /\ panics \in Int /\ stray \in Int /\ counts \in Int
      BY <1>2, HoldersCount
    <3>2. counts < MaxConnections
      BY <2>3, <1>2, MaxAssumption DEF TakesPermit, Bounded
    <3>3. counts = Cardinality(Holders) - (panics - stray)
      BY <1>2 DEF PermitsAccounted
    <3>4. Cardinality(Holders) < MaxConnections + (panics - stray)
      BY <3>1, <3>2, <3>3, MaxAssumption
    <3>5. panics' - stray' = panics - stray
      BY <2>3 DEF TakesPermit
    <3> QED BY <2>3, <3>4, <3>5, SameCardinality DEF TakesPermit, Slots!Admit
  <2>4. ASSUME NEW c \in Conns, GivesPermit(c) PROVE Slots!GiveBack(c)
    BY <2>4 DEF GivesPermit, Slots!GiveBack
  <2> QED BY <1>2, <2>1, <2>2, <2>3, <2>4, PermitSteps DEF Slots!Next
<1> QED BY <1>1, <1>2, PermitInvariant, PTL DEF Spec, ImplementsSlots, Slots!Spec

-----------------------------------------------------------------------------
(* The WaitGroup.                                                            *)

\* The steps on the WaitGroup: a handler enrols, a handler is done, or the
\* balance of the cleaner and its panics moves with the counter.
NoEnrol == Enrolled' = Enrolled /\ wg' - wg = (CleanerLive' - panics') - (CleanerLive - panics)
Enrols(c) ==
  /\ c \notin Enrolled /\ Enrolled' = Enrolled \cup {c}
  /\ wg' = wg + 1 /\ UNCHANGED <<CleanerLive, panics>>
Leaves(c) ==
  /\ c \in Enrolled /\ Enrolled' = Enrolled \ {c}
  /\ wg' = wg - 1 /\ UNCHANGED <<CleanerLive, panics>>

\* Every step is one of these; AddHandler enrols and HandlerDone leaves.
LEMMA WgSteps ==
  ASSUME Inv, [Next]_vars
  PROVE  NoEnrol \/ \E c \in Conns : Enrols(c) \/ Leaves(c)
<1> USE DEF Inv, TypeOK, Fresh, CleanerUnborn, AcceptorPcs, HandlerPcs, CleanerPcs,
            Enrolled, Serving, CleanerLive, NoEnrol,
            AcceptorAt, CleanerAt, StopAt, HandlerStep, GoTo, NextAccept, WgAdd, EnrolOne,
            LastOut, WaiterIsAsleep, WakeWaiter, WaiterReturns,
            sharedMaps, waitVars, stopVars, cleanerVars
<1> USE ConnsAssumption, MaxAssumption
<1>1. CASE Listen BY <1>1 DEF Listen
<1>2. CASE ListenFails BY <1>2 DEF ListenFails
<1>3. CASE StartCleaner BY <1>3 DEF StartCleaner
<1>4. CASE AcceptFails BY <1>4 DEF AcceptFails
<1>5. CASE LoadCounts BY <1>5 DEF LoadCounts
<1>6. CASE SwapCounts BY <1>6 DEF SwapCounts
<1>7. CASE Reject BY <1>7 DEF Reject
<1>8. CASE AddHandler
  <2>1. acceptor.conn \in Conns /\ acceptor.conn \notin Enrolled
    BY <1>8 DEF AddHandler
  <2>2. Enrolled' = Enrolled \cup {acceptor.conn}
    BY <1>8, <2>1 DEF AddHandler
  <2> QED BY <1>8, <2>1, <2>2 DEF AddHandler, Enrols
<1>9. CASE SpawnHandler BY <1>9 DEF SpawnHandler
<1>10. CASE CleanerReturns BY <1>10 DEF CleanerReturns
<1>11. CASE CleanerDone BY <1>11 DEF CleanerDone
<1>12. CASE CleanerCatch BY <1>12 DEF CleanerCatch
<1>13. CASE CleanerPanics BY <1>13 DEF CleanerPanics
<1>14. CASE StrayRelease BY <1>14 DEF StrayRelease
<1>15. CASE StopCancel BY <1>15 DEF StopCancel
<1>16. CASE StopListener BY <1>16 DEF StopListener
<1>17. CASE StopRangeEnds BY <1>17 DEF StopRangeEnds
<1>18. CASE StopWaits BY <1>18 DEF StopWaits
<1>19. CASE StopReturns BY <1>19 DEF StopReturns
<1>20. CASE StopTimesOut BY <1>20 DEF StopTimesOut
<1>21. ASSUME NEW c \in Conns, StopVisit(c) PROVE NoEnrol BY <1>21 DEF StopVisit
<1>22. ASSUME NEW c \in Conns, Accept(c) PROVE NoEnrol BY <1>22 DEF Accept
<1>23. ASSUME NEW c \in Conns, OptimalFails(c) PROVE NoEnrol BY <1>23 DEF OptimalFails
<1>24. ASSUME NEW c \in Conns, Register(c) PROVE NoEnrol BY <1>24 DEF Register
<1>25. ASSUME NEW c \in Conns, ScanReturns(c) PROVE NoEnrol BY <1>25 DEF ScanReturns
<1>26. ASSUME NEW c \in Conns, RemoveConnection(c) PROVE NoEnrol
  BY <1>26 DEF RemoveConnection
<1>27. ASSUME NEW c \in Conns, ReleaseConnection(c) PROVE NoEnrol
  BY <1>27 DEF ReleaseConnection
<1>28. ASSUME NEW c \in Conns, HandlerDone(c) PROVE Leaves(c)
  <2>1. c \in Enrolled /\ acceptor.conn # c
    BY <1>28 DEF HandlerDone
  <2>2. Enrolled' = Enrolled \ {c}
    BY <1>28, <2>1 DEF HandlerDone
  <2> QED BY <1>28, <2>1, <2>2 DEF HandlerDone, Leaves
<1>29. ASSUME NEW c \in Conns, CloseSocket(c) PROVE NoEnrol BY <1>29 DEF CloseSocket
<1>30. ASSUME NEW c \in Conns, PeerEnds(c) PROVE NoEnrol BY <1>30 DEF PeerEnds
<1>32. CASE AcceptorWakes BY <1>32 DEF AcceptorWakes
<1>33. ASSUME NEW c \in Conns, HandlerWakes(c) PROVE NoEnrol BY <1>33 DEF HandlerWakes
<1>34. CASE CleanerWakes BY <1>34 DEF CleanerWakes
<1>35. CASE WaitReturns BY <1>35 DEF WaitReturns
<1>31. CASE UNCHANGED vars BY <1>31 DEF vars
<1> QED
  BY <1>1, <1>2, <1>3, <1>4, <1>5, <1>6, <1>7, <1>8, <1>9, <1>10, <1>11, <1>12, <1>13,
     <1>14, <1>15, <1>16, <1>17, <1>18, <1>19, <1>20, <1>21, <1>22, <1>23, <1>24, <1>25,
     <1>26, <1>27, <1>28, <1>29, <1>30, <1>31,
     <1>32, <1>33, <1>34, <1>35
  DEF Next, AcceptorNext, HandlerNext, CleanerNext, StopNext

\* Only connections are enrolled, finitely many.
LEMMA EnrolledAreConns == Enrolled \in SUBSET Conns /\ Cardinality(Enrolled) \in Nat
<1>1. Enrolled \in SUBSET Conns BY DEF Enrolled
<1> QED BY <1>1, ConnsAssumption, FS_Subset, FS_CardinalityType

\* s.wg is the number of handlers and cleaners still to be waited for, less one
\* for every respawned cleaner.
THEOREM WgConserved == Spec => []WgAccounted
<1>1. Init => WgAccounted
  <2> SUFFICES ASSUME Init PROVE WgAccounted
    OBVIOUS
  <2>1. Enrolled = {}
    BY ConnsAssumption DEF Init, Enrolled, Serving
  <2> QED BY <2>1, FS_EmptySet DEF Init, WgAccounted, CleanerLive
<1>2. ASSUME Inv, WgAccounted, [Next]_vars PROVE WgAccounted'
  <2> DEFINE n == Cardinality(Enrolled)
  <2>1. /\ n \in Nat /\ wg \in Int /\ wg' \in Int /\ panics \in Int /\ CleanerLive \in Int
        /\ panics' \in Int /\ CleanerLive' \in Int
    BY <1>2, EnrolledAreConns, MaxAssumption, InvStep DEF Inv, TypeOK, CleanerLive
  <2>2. wg = n + CleanerLive - panics
    BY <1>2 DEF WgAccounted
  <2>3. CASE NoEnrol BY <2>1, <2>2, <2>3 DEF NoEnrol, WgAccounted
  <2>4. ASSUME NEW c \in Conns, Enrols(c) PROVE WgAccounted'
    <3>1. Cardinality(Enrolled') = n + 1
      BY <2>4, OneMore, EnrolledAreConns DEF Enrols
    <3> QED BY <2>1, <2>2, <2>4, <3>1 DEF Enrols, WgAccounted
  <2>5. ASSUME NEW c \in Conns, Leaves(c) PROVE WgAccounted'
    <3>1. Cardinality(Enrolled') = n - 1
      BY <2>5, OneMore, EnrolledAreConns DEF Leaves
    <3> QED BY <2>1, <2>2, <2>5, <3>1 DEF Leaves, WgAccounted
  <2> QED BY <1>2, <2>3, <2>4, <2>5, WgSteps
<1> QED BY <1>1, <1>2, Ownership, PTL DEF Spec

\* The goroutines that are not done, as the acceptor may still add to them.
Drained ==
  waiter = "returned" /\ listener = "closed" /\ panics = 0
    => /\ Enrolled \subseteq {late.conn}
       /\ acceptor.conn \in {NoConn, late.conn}
       /\ CleanerLive <= late.cleaner
       /\ acceptor.pc = "cleaner" => late.cleaner = 1

\* Stop waits after it has closed the listener, if there was one, and reports
\* success after the wait.
StopOrder ==
  /\ acceptor.pc = "listen" => listener = "nil"
  /\ waiter # "none" => stop \in {"select", "nil", "timeout"}
  /\ stop = "nil" => waiter = "returned"

\* The order of Stop is inductive with the types.
LEMMA StopOrderStep ==
  ASSUME Inv, StopOrder, [Next]_vars
  PROVE  StopOrder'
<1> USE DEF Inv, TypeOK, StopOrder, AcceptorAt, CleanerAt, StopAt, HandlerStep, GoTo,
            NextAccept, WaiterIsAsleep, WakeWaiter, WaiterReturns, sharedMaps, waitVars,
            stopVars, cleanerVars
<1>1. ASSUME AcceptorNext \/ AcceptFails PROVE StopOrder'
  <2>1. CASE Listen \/ ListenFails
    BY <2>1 DEF Listen, ListenFails
  <2>2. CASE StartCleaner \/ AddHandler \/ AcceptorWakes
    BY <2>2 DEF StartCleaner, AddHandler, AcceptorWakes
  <2>3. CASE AcceptFails \/ SwapCounts \/ Reject \/ SpawnHandler
    BY <2>3 DEF AcceptFails, SwapCounts, Reject, SpawnHandler
  <2>4. CASE LoadCounts
    BY <2>4 DEF LoadCounts
  <2> QED BY <1>1, <2>1, <2>2, <2>3, <2>4 DEF AcceptorNext
<1>2. CASE CleanerNext \/ CleanerPanics \/ StrayRelease
  BY <1>2 DEF CleanerNext, CleanerReturns, CleanerDone, CleanerWakes, CleanerCatch,
              CleanerPanics, StrayRelease
<1>3. CASE StopCancel \/ StopNext \/ WaitReturns
  BY <1>3 DEF StopCancel, StopNext, StopListener, StopRangeEnds, StopWaits, StopReturns,
              StopTimesOut, StopVisit, WaitReturns
<1>4. ASSUME NEW c \in Conns, Accept(c) \/ HandlerNext(c) \/ PeerEnds(c) PROVE StopOrder'
  BY <1>4 DEF Accept, PeerEnds, HandlerNext, OptimalFails, Register, ScanReturns,
              RemoveConnection, ReleaseConnection, HandlerDone, HandlerWakes, CloseSocket
<1>5. CASE UNCHANGED vars BY <1>5 DEF vars
<1> QED BY <1>1, <1>2, <1>3, <1>4, <1>5 DEF Next

\* At zero, with no panic so far, nobody is enrolled and the cleaner is done.
LEMMA NobodyAtZero ==
  ASSUME Inv, WgAccounted, wg = 0, panics = 0
  PROVE  Enrolled = {} /\ CleanerLive = 0
<1>1. IsFiniteSet(Enrolled) /\ Cardinality(Enrolled) \in Nat
  BY ConnsAssumption, EnrolledAreConns, FS_Subset
<1>2. CleanerLive \in {0, 1}
  BY DEF CleanerLive
<1>3. Cardinality(Enrolled) = 0 /\ CleanerLive = 0
  BY <1>1, <1>2 DEF WgAccounted
<1> QED BY <1>1, <1>3, FS_EmptySet

\* Wait returns at zero; afterwards only the acceptor can enrol somebody, and
\* with the listener closed it has at most what it had then.
LEMMA DrainedStep ==
  ASSUME Inv, WgAccounted, StopOrder, Drained, [Next]_vars
  PROVE  Drained'
<1> USE DEF Inv, TypeOK, Fresh, CleanerUnborn, StopOrder, Drained, Enrolled, Serving,
            CleanerLive, AcceptorPcs, HandlerPcs, CleanerPcs,
            AcceptorAt, CleanerAt, StopAt, HandlerStep, GoTo, NextAccept, WgAdd, EnrolOne,
            LastOut, WaiterIsAsleep, WakeWaiter, WaiterReturns,
            sharedMaps, waitVars, stopVars, cleanerVars
<1> USE ConnsAssumption, MaxAssumption
<1>1. CASE Listen BY <1>1 DEF Listen
<1>2. CASE ListenFails BY <1>2 DEF ListenFails
<1>3. CASE StartCleaner BY <1>3 DEF StartCleaner
<1>4. CASE AcceptFails BY <1>4 DEF AcceptFails
<1>5. CASE LoadCounts BY <1>5 DEF LoadCounts
<1>6. CASE SwapCounts BY <1>6 DEF SwapCounts
<1>7. CASE Reject BY <1>7 DEF Reject
<1>8. CASE AddHandler BY <1>8 DEF AddHandler
<1>9. CASE SpawnHandler BY <1>9 DEF SpawnHandler
<1>10. CASE CleanerReturns BY <1>10 DEF CleanerReturns
<1>11. CASE CleanerDone BY <1>11 DEF CleanerDone
<1>12. CASE CleanerCatch BY <1>12 DEF CleanerCatch
<1>13. CASE CleanerPanics BY <1>13 DEF CleanerPanics
<1>14. CASE StrayRelease BY <1>14 DEF StrayRelease
<1>15. CASE StopCancel BY <1>15 DEF StopCancel
<1>16. CASE StopListener BY <1>16 DEF StopListener
<1>17. CASE StopRangeEnds BY <1>17 DEF StopRangeEnds
<1>18. CASE StopWaits
  <2>1. CASE wg = 0 /\ panics = 0
    <3>1. Enrolled = {} /\ CleanerLive = 0
      BY <2>1, NobodyAtZero
    <3> QED BY <1>18, <2>1, <3>1 DEF StopWaits
  <2> QED BY <1>18, <2>1 DEF StopWaits
<1>19. CASE StopReturns BY <1>19 DEF StopReturns
<1>20. CASE StopTimesOut BY <1>20 DEF StopTimesOut
<1>21. ASSUME NEW c \in Conns, StopVisit(c) PROVE Drained' BY <1>21 DEF StopVisit
<1>22. ASSUME NEW c \in Conns, Accept(c) PROVE Drained' BY <1>22 DEF Accept
<1>23. ASSUME NEW c \in Conns, OptimalFails(c) PROVE Drained' BY <1>23 DEF OptimalFails
<1>24. ASSUME NEW c \in Conns, Register(c) PROVE Drained' BY <1>24 DEF Register
<1>25. ASSUME NEW c \in Conns, ScanReturns(c) PROVE Drained' BY <1>25 DEF ScanReturns
<1>26. ASSUME NEW c \in Conns, RemoveConnection(c) PROVE Drained'
  BY <1>26 DEF RemoveConnection
<1>27. ASSUME NEW c \in Conns, ReleaseConnection(c) PROVE Drained'
  BY <1>27 DEF ReleaseConnection
<1>28. ASSUME NEW c \in Conns, HandlerDone(c) PROVE Drained' BY <1>28 DEF HandlerDone
<1>29. ASSUME NEW c \in Conns, CloseSocket(c) PROVE Drained' BY <1>29 DEF CloseSocket
<1>30. ASSUME NEW c \in Conns, PeerEnds(c) PROVE Drained' BY <1>30 DEF PeerEnds
<1>31. CASE UNCHANGED vars BY <1>31 DEF vars
<1>32. CASE AcceptorWakes BY <1>32 DEF AcceptorWakes
<1>33. ASSUME NEW c \in Conns, HandlerWakes(c) PROVE Drained' BY <1>33 DEF HandlerWakes
<1>34. CASE CleanerWakes BY <1>34 DEF CleanerWakes
<1>35. CASE WaitReturns
  <2>1. CASE wg = 0 /\ panics = 0
    <3>1. Enrolled = {} /\ CleanerLive = 0
      BY <2>1, NobodyAtZero
    <3> QED BY <1>35, <2>1, <3>1 DEF WaitReturns
  <2> QED BY <1>35, <2>1 DEF WaitReturns
<1> QED
  BY <1>1, <1>2, <1>3, <1>4, <1>5, <1>6, <1>7, <1>8, <1>9, <1>10, <1>11, <1>12, <1>13,
     <1>14, <1>15, <1>16, <1>17, <1>18, <1>19, <1>20, <1>21, <1>22, <1>23, <1>24, <1>25,
     <1>26, <1>27, <1>28, <1>29, <1>30, <1>31, <1>32, <1>33, <1>34, <1>35
  DEF Next, AcceptorNext, HandlerNext, CleanerNext, StopNext

\* Stop reports success only when every handler has removed its connection,
\* given its permit back and called Done, and the cleaner is done; all but the
\* one connection that the acceptor still had in hand, or the cleaner that it
\* had still to start.
THEOREM StopWaitsForAll == Spec => []StopLeavesNobody
<1>1. Init => StopOrder /\ Drained
  BY DEF Init, StopOrder, Drained
<1>2. Inv /\ WgAccounted /\ StopOrder /\ Drained /\ [Next]_vars => (StopOrder /\ Drained)'
  BY StopOrderStep, DrainedStep
<1>3. Inv /\ StopOrder /\ Drained => StopLeavesNobody
  BY ConnsAssumption
  DEF Inv, TypeOK, RegisteredRun, StopOrder, Drained, StopLeavesNobody, Holders, Enrolled,
      Serving, AcceptorPcs
<1> QED BY <1>1, <1>2, <1>3, Ownership, WgConserved, PTL DEF Spec

\* A registered connection is served by a handler that holds its permit.
THEOREM RegisteredServed == Spec => []RegisteredAreServed
<1>1. Inv => RegisteredAreServed
  BY DEF Inv, RegisteredRun, RegisteredAreServed, Serving
<1> QED BY <1>1, Ownership, PTL

\* Every open socket has an owner that will close it.
THEOREM NoSocketLeaks == Spec => []NoOrphanSocket
BY Ownership, PTL DEF Inv

=============================================================================
