------------------------------- MODULE Directory -------------------------------
(* What the registry of tcp/server.go promises to callers of SendCommand:    *)
(* a serial number leads to one connection or to none.  It leads to a        *)
(* connection only after it was announced or discovered over it and while    *)
(* that connection is registered.  It stops leading there when the connection *)
(* leaves, when a newer claim takes it, when a caller of RemoveSn asks, or    *)
(* when the late claim of a connection that has already left overwrites it.  *)
EXTENDS FiniteSets

CONSTANTS Conns,  \* connections
          Sns,    \* serial numbers
          None    \* no connection

VARIABLES
  route,    \* where a command for each serial number goes
  alive,    \* the registered connections
  claims,   \* serial numbers announced or discovered over each connection
  requests  \* serial numbers that callers are asking about

vars == <<route, alive, claims, requests>>

Init ==
  /\ route = [sn \in Sns |-> None]
  /\ alive = {}
  /\ claims = [c \in Conns |-> {}]
  /\ requests = {}

\* A connection is new when it comes: nothing was claimed over it.
Connect(c) ==
  /\ c \notin alive /\ claims[c] = {}
  /\ alive' = alive \cup {c}
  /\ UNCHANGED <<route, claims, requests>>

Claim(c, S) ==
  /\ claims' = [claims EXCEPT ![c] = @ \cup S]
  /\ UNCHANGED <<route, alive, requests>>

To(S, target) == route' = [sn \in Sns |-> IF sn \in S THEN target ELSE route[sn]]

Route(c, S) ==
  /\ c \in alive /\ S \subseteq claims[c]
  /\ To(S, c)
  /\ UNCHANGED <<alive, claims, requests>>

\* A claim that is applied after its connection has left.
Lose(c, S) ==
  /\ c \notin alive /\ S \subseteq claims[c]
  /\ To(S, None)
  /\ UNCHANGED <<alive, claims, requests>>

\* On its own, or at the request of a caller, which is then answered.
Leave(c) ==
  /\ c \in alive
  /\ alive' = alive \ {c}
  /\ To({sn \in Sns : route[sn] = c}, None)
  /\ requests' \in SUBSET requests
  /\ UNCHANGED claims

Request(sn) ==
  /\ requests' = requests \cup {sn}
  /\ UNCHANGED <<route, alive, claims>>

Answer(sn) ==
  /\ sn \in requests /\ requests' = requests \ {sn}
  /\ UNCHANGED <<route, alive, claims>>

Forget(sn) ==
  /\ sn \in requests /\ requests' = requests \ {sn}
  /\ To({sn}, None)
  /\ UNCHANGED <<alive, claims>>

Next ==
  \/ \E c \in Conns : Connect(c) \/ Leave(c)
  \/ \E c \in Conns, S \in SUBSET Sns : Claim(c, S) \/ Route(c, S) \/ Lose(c, S)
  \/ \E sn \in Sns : Request(sn) \/ Answer(sn) \/ Forget(sn)

Spec == Init /\ [][Next]_vars
=============================================================================
