--------------------------- MODULE MCDeviceRegistry ---------------------------
(* Two connections, so that a device can reconnect under a new key, and two  *)
(* serial numbers: a gateway, and a meter that is announced as a sub-device  *)
(* over any of the connections, or discovered behind the gateway.  Keys are  *)
(* interchangeable, and so are the goroutines of Handle.                     *)
EXTENDS DeviceRegistry, TLC

CONSTANTS gateway, meter

Announcements == {[sn |-> gateway, sub |-> FALSE], [sn |-> meter, sub |-> TRUE]}

KeySymmetry == Permutations(Conns) \cup Permutations(Handles)

\* What the run tells apart: not the history forgotten, which no action and no
\* property of the run reads, nor what nobody will read again of a connection that
\* has left the directory.
Retired(c) == phase[c] = "gone" /\ c \notin connections /\ c \notin {tick.conn, client.conn}
Live(f, nothing) == [c \in Conns |-> IF Retired(c) THEN nothing ELSE f[c]]
Seen == <<connections, devices, phase, Live(connSn, NoSn), Live(subDevices, {}), handles,
          tick, client, claims>>
=============================================================================
