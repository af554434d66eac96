------------------------ MODULE DeviceRegistry_proofs ------------------------
(* The safety properties of DeviceRegistry, for any sets of connections, of  *)
(* serial numbers and of Handle goroutines, and the registry as a Directory. *)
EXTENDS DeviceRegistry, TLAPS

\* s.devices is a map.
IsMap == devices = [s \in DOMAIN devices |-> devices[s]]

\* A caller that is not idle asks about a serial number, and a discovery is one
\* of a connection.
CallsHaveSn ==
  /\ client.pc = "idle" => client = NoCall
  /\ client.pc # "idle" => client.sn \in Sns
  /\ tick.pc \in {"remove", "store"} => tick.conn \in Conns

Typed == TypeOK /\ IsMap /\ CallsHaveSn

\* What is still to be applied was announced or discovered.
PendingAreClaims ==
  /\ \A h \in Handles : handles[h] # NoHandle => handles[h].sn \in claims[handles[h].conn]
  /\ tick.pc \in {"remove", "store"} => tick.found \subseteq claims[tick.conn]
  /\ tick.pc = "store" => tick.new \subseteq tick.found

\* Nothing was claimed over a connection before it comes, and a registered one
\* has a handler.
ClaimsFollowConnect ==
  \A c \in Conns : /\ phase[c] = "none" => claims[c] = {} /\ c \notin connections
                   /\ c \in connections => phase[c] \in {"scan", "remove"}

\* Of a discovery, what was there before is known and the rest is being stored.
FoundIsKnown ==
  tick.pc = "store" => \A sn \in tick.found \ tick.new : KnownOrComing(tick.conn, sn)

Inv == /\ Typed /\ RoutesAreClaims /\ PendingAreClaims /\ ClaimsFollowConnect
       /\ OwnedIsKnown /\ FoundIsKnown

\* RemoveDeviceSn deletes nothing: a Tuple2 never equals a string, so the entry
\* of a connection outlives it.
LEMMA NothingRemoved ==
  ASSUME Typed, NEW c, NEW S, RemoveDeviceSn(c, S)
  PROVE  devices' = devices
<1>1. ASSUME NEW s \in DOMAIN devices PROVE ~SameInterface(devices[s], c)
  BY <1>1 DEF Typed, TypeOK, SameInterface, Tuple2, String
<1>2. {s \in S \cap DOMAIN devices : SameInterface(devices[s], c)} = {}
  BY <1>1
<1>3. devices' = [s \in DOMAIN devices |-> devices[s]]
  BY <1>2 DEF RemoveDeviceSn, Without
<1> QED BY <1>3 DEF Typed, IsMap

\* A sweep deletes the entry of the empty serial number, of which there is none.
LEMMA NothingSwept ==
  ASSUME Typed, NEW old, Sweep(old)
  PROVE  devices' = devices
<1>1. DOMAIN devices \ {SnString([A |-> s]) : s \in old} = DOMAIN devices
  BY NamesAssumption DEF Typed, TypeOK, SnString
<1>2. devices' = [s \in DOMAIN devices |-> devices[s]]
  BY <1>1 DEF Sweep, Without
<1> QED BY <1>2 DEF Typed, IsMap

\* Initially the registry is empty.
LEMMA InvInit ==
  ASSUME Init
  PROVE  Inv
<1> USE NamesAssumption DEF Init, Idle, NoHandle, NoCall
<1>1. DOMAIN devices = {} /\ IsMap
  BY DEF IsMap
<1>2. tick \in [pc : {"idle", "beat", "remove", "store"}, conn : Conns \cup {None},
                  found : SUBSET Sns, new : SUBSET Sns]
  OBVIOUS
<1>3. TypeOK
  BY <1>1, <1>2 DEF TypeOK
<1>4. RoutesAreClaims /\ PendingAreClaims /\ ClaimsFollowConnect /\ CallsHaveSn
  BY <1>1 DEF RoutesAreClaims, PendingAreClaims, ClaimsFollowConnect, CallsHaveSn
<1>5. OwnedIsKnown /\ FoundIsKnown
  BY DEF OwnedIsKnown, Owned, FoundIsKnown
<1> QED BY <1>1, <1>3, <1>4, <1>5 DEF Inv, Typed

\* Types, one case per action.
LEMMA TypedStep ==
  ASSUME Typed, [Next]_vars
  PROVE  Typed'
<1> USE NamesAssumption DEF Typed, TypeOK, IsMap, CallsHaveSn, Idle, NoHandle, NoCall, Tuple2, AddDevice,
        Without, Resolve, OnlyNew, handlerVars, connVars
<1>1. ASSUME NEW c \in Conns, Connect(c) PROVE Typed'
  BY <1>1 DEF Connect
<1>2. ASSUME NEW c \in Conns, ScanEnds(c) PROVE Typed'
  BY <1>2 DEF ScanEnds
<1>4. ASSUME NEW c \in Conns, RemoveConnection(c) PROVE Typed'
  BY <1>4, NothingRemoved DEF RemoveConnection
<1>5. ASSUME NEW h \in Handles, AssignSn(h) PROVE Typed'
  BY <1>5 DEF AssignSn
<1>6. ASSUME NEW h \in Handles, StoreDevice(h) PROVE Typed'
  BY <1>6 DEF StoreDevice
<1>7. CASE RemoveOld
  <2>1. devices' = devices
    BY <1>7, NothingRemoved DEF RemoveOld
  <2>2. tick' = [tick EXCEPT !.pc = "store",
                              !.new = OnlyNew(subDevices[tick.conn], tick.found)]
    BY <1>7 DEF RemoveOld
  <2>3. tick.conn \in Conns /\ OnlyNew(subDevices[tick.conn], tick.found) \in SUBSET Sns
    BY <1>7 DEF RemoveOld
  <2>4. /\ tick' \in [pc : {"idle", "beat", "remove", "store"}, conn : Conns \cup {None},
                      found : SUBSET Sns, new : SUBSET Sns]
        /\ tick'.conn = tick.conn
    BY <2>2, <2>3
  <2> QED BY <1>7, <2>1, <2>3, <2>4 DEF RemoveOld
<1>19. ASSUME NEW sn \in Sns, StoreNew(sn) PROVE Typed'
  <2>1. tick.conn \in Conns /\ AddDevice(tick.conn, {sn})
    BY <1>19 DEF StoreNew
  <2>2. /\ tick' \in [pc : {"idle", "beat", "remove", "store"}, conn : Conns \cup {None},
                      found : SUBSET Sns, new : SUBSET Sns]
        /\ tick'.conn = tick.conn
    BY <1>19 DEF StoreNew
  <2>3. DOMAIN devices' \subseteq Sns /\ IsMap'
    BY <2>1
  <2>4. \A s \in DOMAIN devices' : devices'[s].A \in Conns /\ devices'[s] = Tuple2(devices'[s].A)
    BY <2>1
  <2> QED BY <1>19, <2>1, <2>2, <2>3, <2>4 DEF StoreNew
<1>20. CASE AssignSubDevices
  BY <1>20 DEF AssignSubDevices
<1>8. CASE TickEnds
  BY <1>8 DEF TickEnds
<1>9. ASSUME NEW old \in SUBSET Sns, Sweep(old) PROVE Typed'
  BY <1>9, NothingSwept DEF Sweep
<1>10. ASSUME NEW c \in Conns, NEW found \in SUBSET Discovered, Discover(c, found) PROVE Typed'
  <2>1. tick \in [pc : {"idle", "beat", "remove", "store"}, conn : Conns \cup {None},
                found : SUBSET Sns, new : SUBSET Sns]
    OBVIOUS
  <2>2. /\ tick' = [tick EXCEPT !.pc = "remove", !.conn = c, !.found = found]
        /\ found \in SUBSET Sns
    BY <1>10 DEF Discover
  <2>3. /\ tick' \in [pc : {"idle", "beat", "remove", "store"}, conn : Conns \cup {None},
                      found : SUBSET Sns, new : SUBSET Sns]
        /\ tick'.conn = c
    BY <2>1, <2>2
  <2>4. claims' \in [Conns -> SUBSET Sns]
    BY <1>10, <2>2 DEF Discover
  <2> QED BY <1>10, <2>3, <2>4 DEF Discover
<1>11. CASE ResolveCall
  <2>1. client \in [pc : {"idle", "resolve", "act"}, sn : Sns \cup {NoSn}, conn : Conns \cup {None}]
    OBVIOUS
  <2>2. client' = [client EXCEPT !.pc = "act", !.conn = Resolve(client.conn)]
    BY <1>11 DEF ResolveCall
  <2>3. /\ client' \in [pc : {"idle", "resolve", "act"}, sn : Sns \cup {NoSn},
                        conn : Conns \cup {None}]
        /\ client'.pc = "act" /\ client'.sn = client.sn
    BY <2>1, <2>2
  <2> QED BY <1>11, <2>3 DEF ResolveCall
<1>12. CASE SendCommand
  BY <1>12 DEF SendCommand
<1>13. CASE RemoveUnconnected
  BY <1>13 DEF RemoveUnconnected
<1>14. CASE RemoveSubDevice
  BY <1>14, NothingRemoved DEF RemoveSubDevice
<1>15. ASSUME RemoveConnected PROVE Typed'
  BY <1>15, NothingRemoved DEF RemoveConnected
<1>16. ASSUME NEW sn \in Sns, Call(sn) PROVE Typed'
  <2>1. /\ client' \in [pc : {"idle", "resolve", "act"}, sn : Sns \cup {NoSn},
                        conn : Conns \cup {None}]
        /\ client'.pc # "idle" /\ client'.sn = sn
    BY <1>16 DEF Call, Known
  <2> QED BY <1>16, <2>1 DEF Call
<1>17. ASSUME NEW c \in Conns, NEW h \in Handles, NEW packet \in Packets, Emit(c, h, packet) PROVE Typed'
  BY <1>17 DEF Emit
<1>18. CASE UNCHANGED vars
  BY <1>18 DEF vars
<1> QED
  BY <1>1, <1>2, <1>4, <1>5, <1>6, <1>7, <1>8, <1>9,
     <1>10, <1>11, <1>12, <1>13, <1>14, <1>15, <1>16, <1>17, <1>18,
     <1>19, <1>20
  DEF Next, TickNext, ClientNext
\* Only a handler of its own registers and unregisters a connection for good.
LEMMA ConnectStep ==
  ASSUME Inv, [Next]_vars
  PROVE  ClaimsFollowConnect'
<1> USE NamesAssumption DEF Inv, ClaimsFollowConnect, Typed, TypeOK, IsMap, CallsHaveSn, Idle, NoHandle, NoCall, Tuple2, AddDevice,
        Without, Resolve, OnlyNew, handlerVars, connVars
<1>1. ASSUME NEW c \in Conns, Connect(c) PROVE ClaimsFollowConnect'
  BY <1>1 DEF Connect
<1>2. ASSUME NEW c \in Conns, ScanEnds(c) PROVE ClaimsFollowConnect'
  BY <1>2 DEF ScanEnds
<1>4. ASSUME NEW c \in Conns, RemoveConnection(c) PROVE ClaimsFollowConnect'
  BY <1>4, NothingRemoved DEF RemoveConnection
<1>5. ASSUME NEW h \in Handles, AssignSn(h) PROVE ClaimsFollowConnect'
  BY <1>5 DEF AssignSn
<1>6. ASSUME NEW h \in Handles, StoreDevice(h) PROVE ClaimsFollowConnect'
  BY <1>6 DEF StoreDevice
<1>7. CASE RemoveOld
  BY <1>7, NothingRemoved DEF RemoveOld
<1>19. ASSUME NEW sn \in Sns, StoreNew(sn) PROVE ClaimsFollowConnect'
  BY <1>19 DEF StoreNew
<1>20. CASE AssignSubDevices
  BY <1>20 DEF AssignSubDevices
<1>8. CASE TickEnds
  BY <1>8 DEF TickEnds
<1>9. ASSUME NEW old \in SUBSET Sns, Sweep(old) PROVE ClaimsFollowConnect'
  BY <1>9, NothingSwept DEF Sweep
<1>10. ASSUME NEW c \in Conns, NEW found \in SUBSET Discovered, Discover(c, found) PROVE ClaimsFollowConnect'
  BY <1>10 DEF Discover
<1>11. CASE ResolveCall
  BY <1>11 DEF ResolveCall
<1>12. CASE SendCommand
  BY <1>12 DEF SendCommand
<1>13. CASE RemoveUnconnected
  BY <1>13 DEF RemoveUnconnected
<1>14. CASE RemoveSubDevice
  BY <1>14, NothingRemoved DEF RemoveSubDevice
<1>15. ASSUME RemoveConnected PROVE ClaimsFollowConnect'
  BY <1>15, NothingRemoved DEF RemoveConnected
<1>16. ASSUME NEW sn \in Sns, Call(sn) PROVE ClaimsFollowConnect'
  BY <1>16 DEF Call
<1>17. ASSUME NEW c \in Conns, NEW h \in Handles, NEW packet \in Packets, Emit(c, h, packet) PROVE ClaimsFollowConnect'
  BY <1>17 DEF Emit
<1>18. CASE UNCHANGED vars
  BY <1>18 DEF vars
<1> QED
  BY <1>1, <1>2, <1>4, <1>5, <1>6, <1>7, <1>8, <1>9,
     <1>10, <1>11, <1>12, <1>13, <1>14, <1>15, <1>16, <1>17, <1>18,
     <1>19, <1>20
  DEF Next, TickNext, ClientNext
\* Handles and discoveries apply what was announced or discovered.
LEMMA PendingStep ==
  ASSUME Inv, [Next]_vars
  PROVE  PendingAreClaims'
<1> USE NamesAssumption DEF Inv, PendingAreClaims, Typed, TypeOK, IsMap, CallsHaveSn, Idle, NoHandle, NoCall, Tuple2, AddDevice,
        Without, Resolve, OnlyNew, handlerVars, connVars
<1>1. ASSUME NEW c \in Conns, Connect(c) PROVE PendingAreClaims'
  BY <1>1 DEF Connect
<1>2. ASSUME NEW c \in Conns, ScanEnds(c) PROVE PendingAreClaims'
  BY <1>2 DEF ScanEnds
<1>4. ASSUME NEW c \in Conns, RemoveConnection(c) PROVE PendingAreClaims'
  BY <1>4, NothingRemoved DEF RemoveConnection
<1>5. ASSUME NEW h \in Handles, AssignSn(h) PROVE PendingAreClaims'
  BY <1>5 DEF AssignSn
<1>6. ASSUME NEW h \in Handles, StoreDevice(h) PROVE PendingAreClaims'
  BY <1>6 DEF StoreDevice
<1>7. CASE RemoveOld
  BY <1>7, NothingRemoved DEF RemoveOld
<1>19. ASSUME NEW sn \in Sns, StoreNew(sn) PROVE PendingAreClaims'
  BY <1>19 DEF StoreNew
<1>20. CASE AssignSubDevices
  BY <1>20 DEF AssignSubDevices
<1>8. CASE TickEnds
  BY <1>8 DEF TickEnds
<1>9. ASSUME NEW old \in SUBSET Sns, Sweep(old) PROVE PendingAreClaims'
  BY <1>9, NothingSwept DEF Sweep
<1>10. ASSUME NEW c \in Conns, NEW found \in SUBSET Discovered, Discover(c, found) PROVE PendingAreClaims'
  BY <1>10 DEF Discover
<1>11. CASE ResolveCall
  BY <1>11 DEF ResolveCall
<1>12. CASE SendCommand
  BY <1>12 DEF SendCommand
<1>13. CASE RemoveUnconnected
  BY <1>13 DEF RemoveUnconnected
<1>14. CASE RemoveSubDevice
  BY <1>14, NothingRemoved DEF RemoveSubDevice
<1>15. ASSUME RemoveConnected PROVE PendingAreClaims'
  BY <1>15, NothingRemoved DEF RemoveConnected
<1>16. ASSUME NEW sn \in Sns, Call(sn) PROVE PendingAreClaims'
  BY <1>16 DEF Call
<1>17. ASSUME NEW c \in Conns, NEW h \in Handles, NEW packet \in Packets, Emit(c, h, packet) PROVE PendingAreClaims'
  BY <1>17 DEF Emit
<1>18. CASE UNCHANGED vars
  BY <1>18 DEF vars
<1> QED
  BY <1>1, <1>2, <1>4, <1>5, <1>6, <1>7, <1>8, <1>9,
     <1>10, <1>11, <1>12, <1>13, <1>14, <1>15, <1>16, <1>17, <1>18,
     <1>19, <1>20
  DEF Next, TickNext, ClientNext
\* What is stored is pending or was there; what a caller looks up is stored.
LEMMA RoutesStep ==
  ASSUME Inv, [Next]_vars
  PROVE  RoutesAreClaims'
<1> USE NamesAssumption DEF Inv, PendingAreClaims, RoutesAreClaims, Known, Typed, TypeOK, IsMap, CallsHaveSn, Idle, NoHandle, NoCall, Tuple2, AddDevice,
        Without, Resolve, OnlyNew, handlerVars, connVars
<1>1. ASSUME NEW c \in Conns, Connect(c) PROVE RoutesAreClaims'
  BY <1>1 DEF Connect
<1>2. ASSUME NEW c \in Conns, ScanEnds(c) PROVE RoutesAreClaims'
  BY <1>2 DEF ScanEnds
<1>4. ASSUME NEW c \in Conns, RemoveConnection(c) PROVE RoutesAreClaims'
  BY <1>4, NothingRemoved DEF RemoveConnection
<1>5. ASSUME NEW h \in Handles, AssignSn(h) PROVE RoutesAreClaims'
  BY <1>5 DEF AssignSn
<1>6. ASSUME NEW h \in Handles, StoreDevice(h) PROVE RoutesAreClaims'
  BY <1>6 DEF StoreDevice
<1>7. CASE RemoveOld
  BY <1>7, NothingRemoved DEF RemoveOld
<1>19. ASSUME NEW sn \in Sns, StoreNew(sn) PROVE RoutesAreClaims'
  BY <1>19 DEF StoreNew
<1>20. CASE AssignSubDevices
  BY <1>20 DEF AssignSubDevices
<1>8. CASE TickEnds
  BY <1>8 DEF TickEnds
<1>9. ASSUME NEW old \in SUBSET Sns, Sweep(old) PROVE RoutesAreClaims'
  BY <1>9, NothingSwept DEF Sweep
<1>10. ASSUME NEW c \in Conns, NEW found \in SUBSET Discovered, Discover(c, found) PROVE RoutesAreClaims'
  BY <1>10 DEF Discover
<1>11. CASE ResolveCall
  BY <1>11 DEF ResolveCall
<1>12. CASE SendCommand
  BY <1>12 DEF SendCommand
<1>13. CASE RemoveUnconnected
  BY <1>13 DEF RemoveUnconnected
<1>14. CASE RemoveSubDevice
  BY <1>14, NothingRemoved DEF RemoveSubDevice
<1>15. ASSUME RemoveConnected PROVE RoutesAreClaims'
  BY <1>15, NothingRemoved DEF RemoveConnected
<1>16. ASSUME NEW sn \in Sns, Call(sn) PROVE RoutesAreClaims'
  BY <1>16 DEF Call
<1>17. ASSUME NEW c \in Conns, NEW h \in Handles, NEW packet \in Packets, Emit(c, h, packet) PROVE RoutesAreClaims'
  BY <1>17 DEF Emit
<1>18. CASE UNCHANGED vars
  BY <1>18 DEF vars
<1> QED
  BY <1>1, <1>2, <1>4, <1>5, <1>6, <1>7, <1>8, <1>9,
     <1>10, <1>11, <1>12, <1>13, <1>14, <1>15, <1>16, <1>17, <1>18,
     <1>19, <1>20
  DEF Next, TickNext, ClientNext
\* A number that becomes owned is about to be stored or stored before, and
\* no entry disappears but by RemoveUnconnected.
LEMMA OwnedStep ==
  ASSUME Inv, [Next]_vars
  PROVE  OwnedIsKnown'
<1> USE NamesAssumption DEF Inv, OwnedIsKnown, FoundIsKnown, KnownOrComing, Owned, Known, Typed, TypeOK, IsMap, CallsHaveSn, Idle, NoHandle, NoCall, Tuple2, AddDevice,
        Without, Resolve, OnlyNew, handlerVars, connVars
<1>1. ASSUME NEW c \in Conns, Connect(c) PROVE OwnedIsKnown'
  BY <1>1 DEF Connect
<1>2. ASSUME NEW c \in Conns, ScanEnds(c) PROVE OwnedIsKnown'
  BY <1>2 DEF ScanEnds
<1>4. ASSUME NEW c \in Conns, RemoveConnection(c) PROVE OwnedIsKnown'
  BY <1>4, NothingRemoved DEF RemoveConnection
<1>5. ASSUME NEW h \in Handles, AssignSn(h) PROVE OwnedIsKnown'
  BY <1>5 DEF AssignSn
<1>6. ASSUME NEW h \in Handles, StoreDevice(h) PROVE OwnedIsKnown'
  BY <1>6 DEF StoreDevice
<1>7. CASE RemoveOld
  BY <1>7, NothingRemoved DEF RemoveOld
<1>19. ASSUME NEW sn \in Sns, StoreNew(sn) PROVE OwnedIsKnown'
  BY <1>19 DEF StoreNew
<1>20. CASE AssignSubDevices
  BY <1>20 DEF AssignSubDevices
<1>8. CASE TickEnds
  BY <1>8 DEF TickEnds
<1>9. ASSUME NEW old \in SUBSET Sns, Sweep(old) PROVE OwnedIsKnown'
  <2>1. UNCHANGED <<devices, connSn, subDevices, handles, forgotten>>
    BY <1>9, NothingSwept DEF Sweep
  <2> QED BY <2>1
<1>10. ASSUME NEW c \in Conns, NEW found \in SUBSET Discovered, Discover(c, found) PROVE OwnedIsKnown'
  BY <1>10 DEF Discover
<1>11. CASE ResolveCall
  BY <1>11 DEF ResolveCall
<1>12. CASE SendCommand
  BY <1>12 DEF SendCommand
<1>13. CASE RemoveUnconnected
  BY <1>13 DEF RemoveUnconnected
<1>14. CASE RemoveSubDevice
  BY <1>14, NothingRemoved DEF RemoveSubDevice
<1>15. ASSUME RemoveConnected PROVE OwnedIsKnown'
  BY <1>15, NothingRemoved DEF RemoveConnected
<1>16. ASSUME NEW sn \in Sns, Call(sn) PROVE OwnedIsKnown'
  BY <1>16 DEF Call
<1>17. ASSUME NEW c \in Conns, NEW h \in Handles, NEW packet \in Packets, Emit(c, h, packet) PROVE OwnedIsKnown'
  BY <1>17 DEF Emit
<1>18. CASE UNCHANGED vars
  BY <1>18 DEF vars
<1> QED
  BY <1>1, <1>2, <1>4, <1>5, <1>6, <1>7, <1>8, <1>9,
     <1>10, <1>11, <1>12, <1>13, <1>14, <1>15, <1>16, <1>17, <1>18,
     <1>19, <1>20
  DEF Next, TickNext, ClientNext

\* Once known or about to be stored, a number stays so: a Handle that stores it
\* makes it known, and who deletes it is a caller.
LEMMA KnownStays ==
  ASSUME Inv, [Next]_vars, NEW d \in Conns, NEW s \in Sns, KnownOrComing(d, s)
  PROVE  KnownOrComing(d, s)'
<1> USE NamesAssumption DEF Inv, KnownOrComing, Known, Typed, TypeOK, IsMap, NoHandle, NoCall,
        Tuple2, AddDevice, Without, handlerVars, connVars
<1> DEFINE Stays == KnownOrComing(d, s)'
<1>1. ASSUME NEW c \in Conns, Connect(c) PROVE Stays
  BY <1>1 DEF Connect
<1>2. ASSUME NEW c \in Conns, ScanEnds(c) PROVE Stays
  BY <1>2 DEF ScanEnds
<1>4. ASSUME NEW c \in Conns, RemoveConnection(c) PROVE Stays
  BY <1>4, NothingRemoved DEF RemoveConnection
<1>5. ASSUME NEW h \in Handles, AssignSn(h) PROVE Stays
  BY <1>5 DEF AssignSn
<1>6. ASSUME NEW h \in Handles, StoreDevice(h) PROVE Stays
  BY <1>6 DEF StoreDevice
<1>7. CASE RemoveOld
  BY <1>7, NothingRemoved DEF RemoveOld
<1>8. ASSUME NEW sn \in Sns, StoreNew(sn) PROVE Stays
  BY <1>8 DEF StoreNew
<1>9. CASE AssignSubDevices \/ TickEnds
  BY <1>9 DEF AssignSubDevices, TickEnds
<1>10. ASSUME NEW old \in SUBSET Sns, Sweep(old) PROVE Stays
  <2>1. UNCHANGED <<devices, handles, forgotten>>
    BY <1>10, NothingSwept DEF Sweep
  <2> QED BY <2>1
<1>11. ASSUME NEW c \in Conns, NEW found \in SUBSET Discovered, Discover(c, found) PROVE Stays
  BY <1>11 DEF Discover
<1>12. CASE ResolveCall \/ SendCommand
  BY <1>12 DEF ResolveCall, SendCommand
<1>13. CASE RemoveUnconnected
  BY <1>13 DEF RemoveUnconnected
<1>14. CASE RemoveSubDevice
  BY <1>14, NothingRemoved DEF RemoveSubDevice
<1>15. ASSUME RemoveConnected PROVE Stays
  BY <1>15, NothingRemoved DEF RemoveConnected
<1>16. ASSUME NEW sn \in Sns, Call(sn) PROVE Stays
  BY <1>16 DEF Call
<1>17. ASSUME NEW c \in Conns, NEW h \in Handles, NEW packet \in Packets, Emit(c, h, packet)
       PROVE  Stays
  BY <1>17 DEF Emit
<1>18. CASE UNCHANGED vars
  BY <1>18 DEF vars
<1> QED
  BY <1>1, <1>2, <1>4, <1>5, <1>6, <1>7, <1>8, <1>9, <1>10, <1>11, <1>12, <1>13,
     <1>14, <1>15, <1>16, <1>17, <1>18
  DEF Next, TickNext, ClientNext

\* A discovery begins with what the connection owns, and each step of it takes
\* one number off those that are to be stored.
LEMMA FoundStep ==
  ASSUME Inv, [Next]_vars
  PROVE  FoundIsKnown'
<1> SUFFICES ASSUME tick'.pc = "store", NEW d, d = tick'.conn,
                    NEW s \in tick'.found \ tick'.new
             PROVE  KnownOrComing(d, s)'
  BY DEF FoundIsKnown, KnownOrComing, Known
<1>1. CASE tick' = tick
  <2>1. d \in Conns /\ s \in Sns /\ KnownOrComing(d, s)
    BY <1>1 DEF Inv, FoundIsKnown, Typed, TypeOK, CallsHaveSn
  <2> QED BY <2>1, KnownStays
<1>2. CASE RemoveOld
  <2>1. d = tick.conn /\ d \in Conns /\ s \in subDevices[d] /\ s \in Sns
    BY <1>2 DEF RemoveOld, Inv, Typed, TypeOK, CallsHaveSn, OnlyNew
  <2>2. KnownOrComing(d, s)
    BY <2>1 DEF Inv, OwnedIsKnown, Owned
  <2> QED BY <2>1, <2>2, KnownStays
<1>3. ASSUME NEW sn \in Sns, StoreNew(sn) PROVE KnownOrComing(d, s)'
  <2>1. /\ tick.pc = "store" /\ tick'.found = tick.found /\ d = tick.conn
        /\ tick'.new = tick.new \ {sn} /\ d \in Conns /\ s \in Sns
    BY <1>3 DEF StoreNew, Inv, Typed, TypeOK, CallsHaveSn
  <2>2. CASE s = sn
    BY <1>3, <2>2 DEF StoreNew, AddDevice, KnownOrComing, Known
  <2>3. CASE s # sn
    <3>1. KnownOrComing(d, s)
      BY <2>1, <2>3 DEF Inv, FoundIsKnown
    <3> QED BY <2>1, <3>1, KnownStays
  <2> QED BY <2>2, <2>3
<1>4. CASE AssignSubDevices \/ TickEnds
  BY <1>4 DEF AssignSubDevices, TickEnds, Inv, Typed, TypeOK, Idle
<1>5. ASSUME NEW old \in SUBSET Sns, Sweep(old) PROVE FALSE
  BY <1>5 DEF Sweep, Idle
<1>6. ASSUME NEW c \in Conns, NEW found \in SUBSET Discovered, Discover(c, found) PROVE FALSE
  BY <1>6 DEF Discover, Inv, Typed, TypeOK
<1>7. ASSUME NEW c \in Conns, Connect(c) \/ ScanEnds(c) \/ RemoveConnection(c)
      PROVE  tick' = tick
  BY <1>7 DEF Connect, ScanEnds, RemoveConnection
<1>8. ASSUME NEW h \in Handles,
             AssignSn(h) \/ StoreDevice(h)
               \/ \E c \in Conns, packet \in Packets : Emit(c, h, packet)
      PROVE  tick' = tick
  BY <1>8 DEF AssignSn, StoreDevice, Emit
<1>9. CASE ClientNext \/ \E sn \in Sns : Call(sn)
  BY <1>1, <1>9 DEF ClientNext, ResolveCall, SendCommand, RemoveUnconnected, RemoveSubDevice,
                    RemoveConnected, Call
<1>10. CASE UNCHANGED vars
  BY <1>1, <1>10 DEF vars
<1> QED
  BY <1>1, <1>2, <1>3, <1>4, <1>5, <1>6, <1>7, <1>8, <1>9, <1>10 DEF Next, TickNext

\* Where every serial number leads to, and what is still to be stored, was
\* claimed over a connection, whatever the interleaving.
THEOREM RegistryInvariant == Spec => []Inv
<1>1. Inv /\ [Next]_vars => Inv'
  BY TypedStep, ConnectStep, PendingStep, RoutesStep, OwnedStep, FoundStep DEF Inv
<1> QED BY <1>1, InvInit, PTL DEF Spec

\* The types of the registry.
THEOREM RegistryTypes == Spec => []TypeOK
BY RegistryInvariant, PTL DEF Inv, Typed

\* A command only reaches a connection over which its device was announced or
\* discovered.
THEOREM RoutesClaimed == Spec => []RoutesAreClaims
BY RegistryInvariant, PTL DEF Inv

\* Nobody is ever led to a connection whose handler has unregistered it.
THEOREM NoneLedAstray == Spec => []GoneIsUnreachable
<1>1. Inv => GoneIsUnreachable
  BY NamesAssumption DEF Inv, Typed, TypeOK, ClaimsFollowConnect, GoneIsUnreachable, Lookup,
                         Resolve, Known
<1> QED BY <1>1, RegistryInvariant, PTL

\* What a connection owns is known, unless a caller had it removed.
THEOREM OwnedKnown == Spec => []OwnedIsKnown
BY RegistryInvariant, PTL DEF Inv

-----------------------------------------------------------------------------
(* What each step does to s.devices.                                         *)
Stored(c, S) ==
  /\ c \in Conns /\ S \subseteq claims[c] /\ S \subseteq Sns
  /\ AddDevice(c, S)
  /\ UNCHANGED <<connections, claims, client>>
Forgot ==
  /\ client.pc = "act" /\ devices' = Without({client.sn}) /\ client' = NoCall
  /\ UNCHANGED <<connections, claims>>

\* A handle and a heartbeat store entries for claims.
LEMMA StoreEntries ==
  ASSUME Inv
  PROVE  /\ \A h \in Handles : StoreDevice(h) => Stored(handles[h].conn, {handles[h].sn})
         /\ \A sn \in Sns : StoreNew(sn) => Stored(tick.conn, {sn})
<1> USE NamesAssumption DEF Inv, Typed, TypeOK, CallsHaveSn, PendingAreClaims, Stored
<1>1. ASSUME NEW h \in Handles, StoreDevice(h)
      PROVE  Stored(handles[h].conn, {handles[h].sn})
  <2>1. handles[h] # NoHandle /\ handles[h].conn \in Conns /\ handles[h].sn \in Sns
    BY <1>1 DEF StoreDevice, NoHandle
  <2> QED BY <1>1, <2>1 DEF StoreDevice, connVars
<1>2. ASSUME NEW sn \in Sns, StoreNew(sn)
      PROVE  Stored(tick.conn, {sn})
  <2>1. tick.conn \in Conns /\ sn \in claims[tick.conn]
    BY <1>2 DEF StoreNew
  <2> QED BY <1>2, <2>1 DEF StoreNew, handlerVars
<1> QED BY <1>1, <1>2

\* Entries are stored for claims, or a caller of RemoveSn deletes one, or all stay.
LEMMA EntryStep ==
  ASSUME Inv, [Next]_vars
  PROVE  \/ devices' = devices
         \/ \E c \in Conns : \E S \in SUBSET Sns : Stored(c, S)
         \/ Forgot
<1> DEFINE Goal == \/ devices' = devices
                   \/ \E c \in Conns : \E S \in SUBSET Sns : Stored(c, S)
                   \/ Forgot
<1> USE DEF Inv
<1>1. ASSUME NEW c \in Conns,
             Connect(c) \/ ScanEnds(c) \/ RemoveConnection(c)
               \/ \E h \in Handles, packet \in Packets : Emit(c, h, packet)
      PROVE  Goal
  BY <1>1, NothingRemoved
  DEF Connect, ScanEnds, RemoveConnection, Emit
<1>2. ASSUME NEW h \in Handles, AssignSn(h) \/ StoreDevice(h) PROVE Goal
  BY <1>2, StoreEntries DEF AssignSn, Stored
<1>3. CASE TickNext
  BY <1>3, NothingSwept, NothingRemoved, StoreEntries
  DEF TickNext, TickEnds, Discover, RemoveOld, AssignSubDevices, Stored
<1>4. CASE ClientNext \/ \E sn \in Sns : Call(sn)
  BY <1>4, NothingRemoved
  DEF ClientNext, ResolveCall, SendCommand, RemoveUnconnected, RemoveSubDevice,
      RemoveConnected, Call, Forgot, handlerVars, connVars
<1>5. CASE UNCHANGED vars
  BY <1>5 DEF vars
<1> QED BY <1>1, <1>2, <1>3, <1>4, <1>5 DEF Next

\* Only a RemoveSn that found no connection takes away the entry of a device
\* whose connection stays registered.
THEOREM EntriesKept == Spec => OthersKeepEntries
<1>1. ASSUME Inv, [Next]_vars
      PROVE  [\A sn \in Sns : Known(sn) /\ ~Known(sn)' /\ devices[sn].A \in connections'
                => client.pc = "act" /\ client.sn = sn]_vars
  <2>1. ASSUME NEW sn \in Sns, Known(sn), ~Known(sn)'
        PROVE  client.pc = "act" /\ client.sn = sn
    <3>1. devices' # devices
      BY <2>1 DEF Known
    <3>2. ASSUME NEW c \in Conns, NEW S \in SUBSET Sns, Stored(c, S) PROVE FALSE
      BY <2>1, <3>2 DEF Stored, AddDevice, Known
    <3>3. Forgot
      BY <1>1, <3>1, <3>2, EntryStep
    <3> QED BY <2>1, <3>3 DEF Forgot, Without, Known
  <2> QED BY <2>1
<1> QED BY <1>1, RegistryInvariant, PTL DEF Spec, OthersKeepEntries

-----------------------------------------------------------------------------
(* The registry implements Directory.                                        *)

\* Stored entries lead to their connection, if it is registered.
LEMMA StoredRoutes ==
  ASSUME Inv, NEW c, NEW S, Stored(c, S)
  PROVE  \A sn \in Sns : Lookup(sn)' = IF sn \in S THEN Resolve(c) ELSE Lookup(sn)
<1>1. Resolve(c)' = Resolve(c) /\ \A key : Resolve(key)' = Resolve(key)
  BY DEF Stored, Resolve
<1>2. \A sn \in Sns : sn \in S => Lookup(sn)' = Resolve(c)
  BY <1>1 DEF Stored, AddDevice, Lookup, Known, Tuple2, Resolve
<1>3. \A sn \in Sns : sn \notin S => Lookup(sn)' = Lookup(sn)
  BY <1>1 DEF Stored, AddDevice, Lookup, Known, Tuple2, Resolve
<1> QED BY <1>2, <1>3

\* Such a step is one of Directory: the claim is applied, or comes too late.
LEMMA StoredImplements ==
  ASSUME Inv, NEW c \in Conns, NEW S \in SUBSET Sns, Stored(c, S)
  PROVE  Routes!Next
<1>1. \A sn \in Sns : Lookup(sn)' = IF sn \in S THEN Resolve(c) ELSE Lookup(sn)
  BY StoredRoutes
<1>2. S \subseteq claims[c] /\ UNCHANGED <<connections, claims, client>>
  BY DEF Stored
<1>3. CASE c \in connections
  <2>1. Routes!Route(c, S)
    BY <1>1, <1>2, <1>3 DEF Routes!Route, Routes!To, Resolve
  <2> QED BY <2>1 DEF Routes!Next
<1>4. CASE c \notin connections
  <2>1. Routes!Lose(c, S)
    BY <1>1, <1>2, <1>4 DEF Routes!Lose, Routes!To, Resolve
  <2> QED BY <2>1 DEF Routes!Next
<1> QED BY <1>3, <1>4

\* A connection that leaves takes its routes with it.
LEMMA LeaveRoutes ==
  ASSUME Inv, NEW c \in connections, devices' = devices,
         connections' = connections \ {c}
  PROVE  \A sn \in Sns : Lookup(sn)' = IF Lookup(sn) = c THEN None ELSE Lookup(sn)
BY NamesAssumption DEF Inv, Typed, TypeOK, Lookup, Known, Resolve
\* A connection comes before anything leads to it.
LEMMA ConnectImplements ==
  ASSUME Inv, NEW c \in Conns, Connect(c)
  PROVE  Routes!Next
<1>1. c \notin connections /\ claims[c] = {}
  BY DEF Inv, ClaimsFollowConnect, Connect
<1>2. \A sn \in DOMAIN devices : devices[sn].A # c
  BY <1>1 DEF Inv, RoutesAreClaims
<1>3. \A sn \in Sns : Lookup(sn)' = Lookup(sn)
  BY <1>2 DEF Connect, Lookup, Known, Resolve
<1>4. Routes!Connect(c)
  BY <1>1, <1>3 DEF Connect, Routes!Connect
<1> QED BY <1>4 DEF Routes!Next

\* What is announced or discovered is claimed.
LEMMA ClaimImplements ==
  ASSUME Inv, NEW c \in Conns, NEW S \in SUBSET Sns,
         claims' = [claims EXCEPT ![c] = @ \cup S],
         UNCHANGED <<devices, connections, client>>
  PROVE  Routes!Next
<1>1. \A sn \in Sns : Lookup(sn)' = Lookup(sn)
  BY DEF Lookup, Known, Resolve
<1>2. Routes!Claim(c, S)
  BY <1>1 DEF Routes!Claim
<1> QED BY <1>2 DEF Routes!Next

\* A connection that is removed leaves, unless it has left before.
LEMMA RemovalImplements ==
  ASSUME Inv, NEW c \in Conns, connections' = connections \ {c},
         devices' = devices, UNCHANGED <<claims, client>>
  PROVE  Routes!Next \/ UNCHANGED Routes!vars
<1>1. CASE c \in connections
  <2>1. \A sn \in Sns : Lookup(sn)' = IF Lookup(sn) = c THEN None ELSE Lookup(sn)
    BY <1>1, LeaveRoutes
  <2>2. Routes!Leave(c)
    BY <1>1, <2>1 DEF Routes!Leave, Routes!To
  <2> QED BY <2>2 DEF Routes!Next
<1>2. CASE c \notin connections
  <2>1. connections' = connections
    BY <1>2
  <2>2. \A sn \in Sns : Lookup(sn)' = Lookup(sn)
    BY <2>1 DEF Lookup, Known, Resolve
  <2> QED BY <2>1, <2>2 DEF Routes!vars
<1> QED BY <1>1, <1>2

\* A caller asks for one serial number at a time; what it gets is an answer, a
\* route forgotten, or a connection removed.
LEMMA CallerImplements ==
  ASSUME Inv, ClientNext \/ \E sn \in Sns : Call(sn)
  PROVE  Routes!Next \/ UNCHANGED Routes!vars
<1> USE NamesAssumption DEF handlerVars, connVars
<1> DEFINE requests == {client.sn} \ {NoSn}
<1>1. client.pc # "idle" => client.sn \in Sns /\ requests = {client.sn}
  BY DEF Inv, Typed, CallsHaveSn
<1>2. client.pc = "idle" => requests = {}
  BY DEF Inv, Typed, CallsHaveSn, NoCall
<1>3. ASSUME devices' = devices, connections' = connections
      PROVE  \A sn \in Sns : Lookup(sn)' = Lookup(sn)
  BY <1>3 DEF Lookup, Known, Resolve
<1>4. ASSUME client.pc # "idle", client' = NoCall, UNCHANGED <<devices, connections, claims>>
      PROVE  Routes!Next
  <2>1. Routes!Answer(client.sn)
    BY <1>1, <1>3, <1>4 DEF Routes!Answer, NoCall
  <2> QED BY <1>1, <1>4, <2>1 DEF Routes!Next
<1>5. ASSUME NEW sn \in Sns, Call(sn) PROVE Routes!Next
  <2>1. Routes!Request(sn)
    BY <1>2, <1>3, <1>5 DEF Call, Routes!Request
  <2> QED BY <2>1 DEF Routes!Next
<1>6. CASE ResolveCall
  <2>1. client'.sn = client.sn
    BY <1>6 DEF ResolveCall, Inv, Typed, TypeOK
  <2> QED BY <1>3, <1>6, <2>1 DEF ResolveCall, Routes!vars
<1>7. CASE SendCommand
  BY <1>4, <1>7 DEF SendCommand
<1>8. CASE RemoveSubDevice
  <2>1. devices' = devices
    BY <1>8, NothingRemoved DEF RemoveSubDevice, Inv
  <2> QED BY <1>4, <1>8, <2>1 DEF RemoveSubDevice
<1>9. CASE RemoveUnconnected
  <2>1. \A sn \in Sns : Lookup(sn)' = IF sn = client.sn THEN None ELSE Lookup(sn)
    BY <1>9 DEF RemoveUnconnected, Without, Lookup, Known, Resolve
  <2>2. Routes!Forget(client.sn)
    BY <1>1, <1>9, <2>1 DEF RemoveUnconnected, Routes!Forget, Routes!To, NoCall
  <2> QED BY <1>1, <1>9, <2>2 DEF RemoveUnconnected, Routes!Next
<1>10. ASSUME RemoveConnected
       PROVE  Routes!Next
  <2> DEFINE c == client.conn
  <2>1. /\ devices' = devices /\ client' = NoCall /\ claims' = claims /\ client.pc # "idle"
        /\ connections' = connections \ {c} /\ c \in Conns
    BY <1>10, NothingRemoved DEF RemoveConnected, Inv, Typed, TypeOK
  <2>2. CASE c \in connections
    <3>1. \A sn \in Sns : Lookup(sn)' = IF Lookup(sn) = c THEN None ELSE Lookup(sn)
      BY <2>1, <2>2, LeaveRoutes
    <3>2. Routes!Leave(c)
      BY <2>1, <2>2, <3>1 DEF Routes!Leave, Routes!To, NoCall
    <3> QED BY <2>1, <3>2 DEF Routes!Next
  <2>3. CASE c \notin connections
    <3>1. connections' = connections
      BY <2>1, <2>3
    <3> QED BY <1>4, <2>1, <3>1
  <2> QED BY <2>2, <2>3
<1> QED BY <1>5, <1>6, <1>7, <1>8, <1>9, <1>10 DEF ClientNext

\* Seen through GetDeviceConnection, every step of the registry is a step of the
\* abstract directory or changes nothing there.
THEOREM ImplementsItsDirectory == Spec => ImplementsDirectory
<1>1. ASSUME Init PROVE Routes!Init
  BY <1>1 DEF Init, Routes!Init, NoCall, Lookup, Known
<1>2. ASSUME Inv, [Next]_vars
      PROVE  Routes!Next \/ UNCHANGED Routes!vars
  <2> USE <1>2
  <2>1. ASSUME UNCHANGED <<connections, devices, claims, client>>
        PROVE  UNCHANGED Routes!vars
    BY <2>1 DEF Routes!vars, Lookup, Known, Resolve
  <2>2. ASSUME NEW c \in Conns, Connect(c) PROVE Routes!Next
    BY <2>2, ConnectImplements
  <2>3. ASSUME NEW c \in Conns, ScanEnds(c) PROVE UNCHANGED Routes!vars
    BY <2>1, <2>3 DEF ScanEnds
  <2>4. ASSUME NEW c \in Conns, RemoveConnection(c)
        PROVE  Routes!Next \/ UNCHANGED Routes!vars
    BY <2>4, RemovalImplements, NothingRemoved DEF RemoveConnection, Inv
  <2>5. ASSUME NEW c \in Conns, NEW h \in Handles, NEW packet \in Packets,
               Emit(c, h, packet)
        PROVE  Routes!Next
    <3>1. /\ claims' = [claims EXCEPT ![c] = @ \cup {packet.sn}]
          /\ UNCHANGED <<devices, connections, client>>
      BY <2>5 DEF Emit
    <3>2. {packet.sn} \in SUBSET Sns
      BY NamesAssumption
    <3> QED BY <3>1, <3>2, ClaimImplements
  <2>6. ASSUME NEW h \in Handles, AssignSn(h) PROVE UNCHANGED Routes!vars
    BY <2>1, <2>6 DEF AssignSn
  <2>7. ASSUME NEW h \in Handles, StoreDevice(h) PROVE Routes!Next
    BY <2>7, StoreEntries, StoredImplements DEF Stored
  <2>8. ASSUME NEW sn \in Sns, StoreNew(sn) PROVE Routes!Next
    BY <2>8, StoreEntries, StoredImplements DEF Stored
  <2>13. CASE RemoveOld \/ AssignSubDevices
    BY <2>1, <2>13, NothingRemoved DEF RemoveOld, AssignSubDevices, Inv
  <2>9. CASE TickEnds
    BY <2>1, <2>9 DEF TickEnds
  <2>10. ASSUME NEW old \in SUBSET Sns, Sweep(old) PROVE UNCHANGED Routes!vars
    BY <2>1, <2>10, NothingSwept DEF Sweep, Inv
  <2>11. ASSUME NEW c \in Conns, NEW found \in SUBSET Discovered, Discover(c, found)
         PROVE  Routes!Next
    BY <2>11, ClaimImplements, NamesAssumption DEF Discover
  <2>12. CASE UNCHANGED vars
    BY <2>1, <2>12 DEF vars
  <2> QED
    BY <2>2, <2>3, <2>4, <2>5, <2>6, <2>7, <2>8, <2>9, <2>10, <2>11, <2>12, <2>13,
       CallerImplements
    DEF Next, TickNext
<1> QED BY <1>1, <1>2, RegistryInvariant, PTL DEF Spec, ImplementsDirectory, Routes!Spec
=============================================================================
