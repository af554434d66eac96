---------------------------- MODULE DeviceRegistry ----------------------------
(* The directory of the server: the sync.Maps s.connections and s.devices of *)
(* tcp/server.go, shared by the handlers of the connections, the goroutines  *)
(* that run Handle for each packet (tcp/connection.go), the heartbeat ticks  *)
(* of connectionCleaner, and callers of SendCommand and RemoveSn.            *)
EXTENDS FiniteSets

CONSTANTS Conns,       \* keys of connections; a reconnecting device gets a new one
          Sns,         \* serial numbers of devices and sub-devices
          Packets,     \* what devices announce: [sn, sub] of the packets they send
          Discovered,  \* serial numbers that the discovery function may return
          NoSn,        \* the empty string
          None,        \* a nil *DeviceConnection
          Handles      \* bound: Handle goroutines that can be alive at once

ASSUME NamesAssumption ==
  /\ NoSn \notin Sns /\ None \notin Conns
  /\ Packets \subseteq [sn : Sns, sub : BOOLEAN] /\ Discovered \subseteq Sns

VARIABLES
  connections,  \* keys of s.connections
  devices,      \* s.devices: serial number -> interface value
  phase,        \* the handler of each connection
  connSn,       \* conn.sn
  subDevices,   \* conn.subDevices
  handles,      \* the Handle goroutines of packets that carry an "sn"
  tick,         \* [pc, conn, found, new]: connectionCleaner
  client,       \* [pc, sn, conn]: one caller of SendCommand or RemoveSn
  claims,       \* history: serial numbers a connection announced or discovered
  forgotten     \* history: deleted from s.devices by a caller and not stored since

vars == <<connections, devices, phase, connSn, subDevices, handles,
          tick, client, claims, forgotten>>

handlerVars == <<phase, handles>>
connVars == <<connSn, subDevices>>

-----------------------------------------------------------------------------
(* sync.Map stores interface values, and == on them compares the dynamic     *)
(* types first.  AddDevice stores a Tuple2 of the key and the time; the time  *)
(* is left out, for any entry may be older than HeartbeatTimeout at a tick.  *)
Tuple2(key) == [type |-> "Tuple2", A |-> key]
String(s) == [type |-> "string", value |-> s]

\* Mutation: the entry is deleted whatever connection it belongs to.
AnyInterface(stored, key) == TRUE
SameInterface(stored, key) == stored = String(key)

\* utils.ToString of a Tuple2 is the empty string: cast knows no such type.
SnString(t) == NoSn

Known(sn) == sn \in DOMAIN devices
Without(S) == [s \in DOMAIN devices \ S |-> devices[s]]

\* AddDevice: every listed serial number now maps to this connection.
AddDevice(c, S) ==
  devices' = [s \in DOMAIN devices \cup S |-> IF s \in S THEN Tuple2(c) ELSE devices[s]]

\* RemoveDeviceSn: deletes the entries that compare equal to the key of c.  One
\* step for its loop of loads and deletes: no entry compares equal.
RemoveDeviceSn(c, S) ==
  devices' = Without({s \in S \cap DOMAIN devices : SameInterface(devices[s], c)})

\* GetDeviceConnection, its second load.
Resolve(key) == IF key \in connections THEN key ELSE None
Lookup(sn) == IF Known(sn) THEN Resolve(devices[sn].A) ELSE None

Owned(c) == subDevices[c] \cup ({connSn[c]} \ {NoSn})

-----------------------------------------------------------------------------
Idle == [pc |-> "idle", conn |-> None, found |-> {}, new |-> {}]
NoHandle == [pc |-> "none", conn |-> None, sn |-> NoSn]
NoCall == [pc |-> "idle", sn |-> NoSn, conn |-> None]

TypeOK ==
  /\ connections \subseteq Conns
  /\ DOMAIN devices \subseteq Sns
  /\ \A s \in DOMAIN devices :
       devices[s].A \in Conns /\ devices[s] = Tuple2(devices[s].A)
  /\ phase \in [Conns -> {"none", "scan", "remove", "gone"}]
  /\ connSn \in [Conns -> Sns \cup {NoSn}]
  /\ subDevices \in [Conns -> SUBSET Sns] /\ claims \in [Conns -> SUBSET Sns]
  /\ handles \in [Handles -> {NoHandle} \cup [pc : {"assign", "store"}, conn : Conns, sn : Sns]]
  /\ tick \in [pc : {"idle", "beat", "remove", "store"}, conn : Conns \cup {None},
               found : SUBSET Sns, new : SUBSET Sns]
  /\ client \in [pc : {"idle", "resolve", "act"}, sn : Sns \cup {NoSn},
                 conn : Conns \cup {None}]
  /\ forgotten \subseteq Sns

Init ==
  /\ connections = {} /\ devices = [s \in {} |-> None]
  /\ phase = [c \in Conns |-> "none"]
  /\ connSn = [c \in Conns |-> NoSn]
  /\ subDevices = [c \in Conns |-> {}] /\ claims = [c \in Conns |-> {}]
  /\ handles = [h \in Handles |-> NoHandle]
  /\ tick = Idle /\ client = NoCall /\ forgotten = {}

-----------------------------------------------------------------------------
(* handleConnection.                                                         *)
Connect(c) ==
  /\ phase[c] = "none"
  /\ phase' = [phase EXCEPT ![c] = "scan"]
  /\ connections' = connections \cup {c}
  /\ UNCHANGED <<devices, connVars, claims, handles, tick, client, forgotten>>

\* EmitResult: the packet is decoded and Handle starts in its own goroutine; its
\* field "subDevice" says whether it speaks of a sub-device.  What has been read
\* is emitted after a Close too.
Emit(c, h, packet) ==
  /\ phase[c] = "scan" /\ handles[h] = NoHandle
  /\ handles' = [handles EXCEPT ![h] = [pc |-> IF packet.sub THEN "store" ELSE "assign",
                                        conn |-> c, sn |-> packet.sn]]
  /\ claims' = [claims EXCEPT ![c] = @ \cup {packet.sn}]
  /\ UNCHANGED <<connections, devices, phase, connVars, tick, client, forgotten>>

\* The peer disconnects, its bytes end the scan, or a read fails on a socket that
\* somebody has closed.
ScanEnds(c) ==
  /\ phase[c] = "scan"
  /\ phase' = [phase EXCEPT ![c] = "remove"]
  /\ UNCHANGED <<connections, devices, connVars, claims, handles, tick, client, forgotten>>

\* The deferred RemoveConnection(deviceConn, false).
RemoveConnection(c) ==
  /\ phase[c] = "remove"
  /\ phase' = [phase EXCEPT ![c] = "gone"]
  /\ connections' = connections \ {c}
  /\ RemoveDeviceSn(c, Owned(c))
  /\ UNCHANGED <<connVars, handles, tick, client, claims, forgotten>>

-----------------------------------------------------------------------------
(* Handle, in a goroutine that nothing orders with the others nor with the   *)
(* life of its connection: setupDeviceSn.  The rest does not touch the       *)
(* directory.                                                                *)
\* this.sn is assigned, unless the packet is of a sub-device.
AssignSn(h) ==
  /\ handles[h].pc = "assign"
  /\ connSn' = [connSn EXCEPT ![handles[h].conn] = handles[h].sn]
  /\ handles' = [handles EXCEPT ![h].pc = "store"]
  /\ UNCHANGED <<connections, devices, phase, subDevices, tick, client, claims,
                 forgotten>>

\* Mutation: Handle puts its connection back into s.connections.
StoreDeviceRevives(h) ==
  /\ handles[h].pc = "store"
  /\ AddDevice(handles[h].conn, {handles[h].sn})
  /\ forgotten' = forgotten \ {handles[h].sn}
  /\ connections' = connections \cup {handles[h].conn}
  /\ handles' = [handles EXCEPT ![h] = NoHandle]
  /\ UNCHANGED <<phase, connVars, tick, client, claims>>

\* Mutation: the entry is stored for this.sn, not for the number in the packet.
StoreDeviceOwnSn(h) ==
  /\ handles[h].pc = "store"
  /\ AddDevice(handles[h].conn, {connSn[handles[h].conn]})
  /\ forgotten' = forgotten \ {connSn[handles[h].conn]}
  /\ handles' = [handles EXCEPT ![h] = NoHandle]
  /\ UNCHANGED <<connections, phase, connVars, tick, client, claims>>

\* AddDevice.
StoreDevice(h) ==
  /\ handles[h].pc = "store"
  /\ AddDevice(handles[h].conn, {handles[h].sn})
  /\ forgotten' = forgotten \ {handles[h].sn}
  /\ handles' = [handles EXCEPT ![h] = NoHandle]
  /\ UNCHANGED <<connections, phase, connVars, tick, client, claims>>

-----------------------------------------------------------------------------
(* Time and connectionCleaner.                                               *)
\* A tick collects the entries older than HeartbeatTimeout and calls
\* s.RemoveSn(utils.ToString(sn), true) for each tuple [A: sn, B: key] of them,
\* which finds no connection and deletes the key it was given.  One step: what
\* these calls do depends on no entry of the maps.
Sweep(old) ==
  /\ tick.pc = "idle"
  /\ old \subseteq DOMAIN devices
  /\ devices' = Without({SnString([A |-> s]) : s \in old})
  /\ tick' = [Idle EXCEPT !.pc = "beat"]
  /\ UNCHANGED <<connections, handlerVars, connVars, client, claims, forgotten>>

\* Heartbeat of a connection of the Range that has a serial number (one without
\* it, asked too early or whose discovery fails is passed over): outside any
\* lock, DeviceDiscoveryFunc answers for the serial number it was called with.
Discover(c, found) ==
  /\ tick.pc = "beat" /\ c \in connections
  /\ connSn[c] # NoSn
  /\ tick' = [tick EXCEPT !.pc = "remove", !.conn = c, !.found = found]
  /\ claims' = [claims EXCEPT ![c] = @ \cup found]
  /\ UNCHANGED <<connections, devices, handlerVars, connVars, client, forgotten>>

\* DifferenceBy splits the last discovery and this one, ...
OnlyNew(old, new) == new \ old
OnlyOld(old, new) == old \ new

\* ... RemoveDeviceSn(onlyOld) comes first, ...
RemoveOld ==
  LET old == subDevices[tick.conn]
  IN /\ tick.pc = "remove"
     /\ RemoveDeviceSn(tick.conn, OnlyOld(old, tick.found))
     /\ tick' = [tick EXCEPT !.pc = "store", !.new = OnlyNew(old, tick.found)]
     /\ UNCHANGED <<connections, handlerVars, connVars, claims, client, forgotten>>

\* ... then AddDevice(onlyNew), one entry after the other, ...
StoreNew(sn) ==
  /\ tick.pc = "store" /\ sn \in tick.new
  /\ AddDevice(tick.conn, {sn})
  /\ forgotten' = forgotten \ {sn}
  /\ tick' = [tick EXCEPT !.new = @ \ {sn}]
  /\ UNCHANGED <<connections, handlerVars, connVars, claims, client>>

\* ... and the assignment of this.subDevices.
AssignSubDevices ==
  /\ tick.pc = "store" /\ tick.new = {}
  /\ subDevices' = [subDevices EXCEPT ![tick.conn] = tick.found]
  /\ tick' = [Idle EXCEPT !.pc = "beat"]
  /\ UNCHANGED <<connections, devices, handlerVars, connSn, claims, client, forgotten>>

TickEnds ==
  /\ tick.pc = "beat"
  /\ tick' = Idle
  /\ UNCHANGED <<connections, devices, handlerVars, connVars, claims, client, forgotten>>

-----------------------------------------------------------------------------
(* SendCommand(sn, _) and RemoveSn(sn, close), called by the application:    *)
(* both begin with GetDeviceConnection(sn).                                  *)
\* GetDeviceConnection, its first load.
Call(sn) ==
  /\ client.pc = "idle"
  /\ client' = [sn |-> sn,
                pc |-> IF Known(sn) THEN "resolve" ELSE "act",
                conn |-> IF Known(sn) THEN devices[sn].A ELSE None]
  /\ UNCHANGED <<connections, devices, handlerVars, connVars, claims, tick, forgotten>>

ResolveCall ==
  /\ client.pc = "resolve"
  /\ client' = [client EXCEPT !.pc = "act", !.conn = Resolve(@)]
  /\ UNCHANGED <<connections, devices, handlerVars, connVars, claims, tick, forgotten>>

\* SendCommand writes to the connection, or reports that there is none.
SendCommand ==
  /\ client.pc = "act"
  /\ client' = NoCall
  /\ UNCHANGED <<connections, devices, handlerVars, connVars, claims, tick, forgotten>>

\* RemoveSn of a serial number without a connection.
RemoveUnconnected ==
  /\ client.pc = "act" /\ client.conn = None
  /\ devices' = Without({client.sn})
  /\ forgotten' = forgotten \cup {client.sn}
  /\ client' = NoCall
  /\ UNCHANGED <<connections, handlerVars, connVars, claims, tick>>

\* RemoveSn of the device that holds the connection: RemoveConnection.  The Close
\* that the caller may ask for ends its scan, which may end at any time.
RemoveConnected ==
  /\ client.pc = "act" /\ client.conn # None
  /\ connSn[client.conn] = client.sn
  /\ connections' = connections \ {client.conn}
  /\ RemoveDeviceSn(client.conn, Owned(client.conn))
  /\ client' = NoCall
  /\ UNCHANGED <<phase, handles, connVars, claims, tick, forgotten>>

\* RemoveSn of a sub-device: its entry only.
RemoveSubDevice ==
  /\ client.pc = "act" /\ client.conn # None
  /\ connSn[client.conn] # client.sn
  /\ RemoveDeviceSn(client.conn, {client.sn})
  /\ client' = NoCall
  /\ UNCHANGED <<connections, handlerVars, connVars, claims, tick, forgotten>>

-----------------------------------------------------------------------------
TickNext ==
  \/ RemoveOld \/ AssignSubDevices \/ TickEnds
  \/ \E sn \in Sns : StoreNew(sn)
  \/ \E old \in SUBSET Sns : Sweep(old)
  \/ \E c \in Conns : \E found \in SUBSET Discovered : Discover(c, found)
ClientNext ==
  ResolveCall \/ SendCommand \/ RemoveUnconnected \/ RemoveConnected \/ RemoveSubDevice

Next ==
  \/ \E c \in Conns : Connect(c) \/ ScanEnds(c) \/ RemoveConnection(c)
  \/ \E c \in Conns, h \in Handles, packet \in Packets : Emit(c, h, packet)
  \/ \E h \in Handles : AssignSn(h) \/ StoreDevice(h)
  \/ TickNext \/ ClientNext
  \/ \E sn \in Sns : Call(sn)

Spec == Init /\ [][Next]_vars

(* ----------------------------- Properties -------------------------------- *)
\* A command for sn can only reach a connection over which sn was announced or
\* for which it was discovered, however late its Handle ran and whatever
\* happened between the loads of GetDeviceConnection.
RoutesAreClaims ==
  /\ \A sn \in DOMAIN devices : sn \in claims[devices[sn].A]
  /\ client.conn # None => client.sn \in claims[client.conn]

\* The directory never finds a connection whose handler has unregistered it,
\* though a Handle that runs after the disconnection stores its key again.
GoneIsUnreachable ==
  \A sn \in Sns : Lookup(sn) # None => phase[Lookup(sn)] \in {"scan", "remove"}

KnownOrComing(c, sn) ==
  \/ Known(sn) \/ sn \in forgotten
  \/ \E h \in Handles : handles[h] = [pc |-> "store", conn |-> c, sn |-> sn]

\* The serial number a connection holds as its own, and the sub-devices listed
\* for it, are in the directory or about to be stored, unless a caller deleted
\* them since they were last stored: a heartbeat that stores only the new
\* sub-devices relies on the old ones being there.
OwnedIsKnown ==
  \A c \in Conns : \A sn \in Owned(c) : KnownOrComing(c, sn)

\* Nothing that happens to one connection, its end included, takes away the
\* entry of a device that another registered connection serves: only a RemoveSn
\* whose lookup came before that connection does (server.go:197-199).
OthersKeepEntries ==
  [][\A sn \in Sns : Known(sn) /\ ~Known(sn)' /\ devices[sn].A \in connections'
       => client.pc = "act" /\ client.sn = sn]_vars

\* Whatever the order of its Handle goroutines, ticks, calls and disconnections,
\* the registry is a directory: every step, seen through GetDeviceConnection, is
\* one that the abstract directory can take.
Routes == INSTANCE Directory WITH
            route <- [sn \in Sns |-> Lookup(sn)],
            alive <- connections,
            requests <- {client.sn} \ {NoSn}
ImplementsDirectory == Routes!Spec
=============================================================================
