--------------------------- MODULE ConnectionSlots ---------------------------
(* What acceptConnection and releaseConnection promise together: a semaphore *)
(* of MaxConnections permits.  A connection is admitted only while a permit  *)
(* is free and gives its permit back once.  Extra counts the permits nobody  *)
(* took that are put back all the same: the recovery of a panicking cleaner  *)
(* calls releaseConnection too (tcp/server.go:273-276).                      *)
EXTENDS Integers, FiniteSets

CONSTANTS Conns, MaxConnections

VARIABLES held, extra

Init == held = {} /\ extra = 0

Admit(c) ==
  /\ c \notin held
  /\ Cardinality(held) < MaxConnections + extra
  /\ held' = held \cup {c}
  /\ UNCHANGED extra

GiveBack(c) ==
  /\ c \in held
  /\ held' = held \ {c}
  /\ UNCHANGED extra

Overrelease ==
  /\ extra' = extra + 1
  /\ UNCHANGED held

Next == Overrelease \/ \E c \in Conns : Admit(c) \/ GiveBack(c)

Spec == Init /\ [][Next]_<<held, extra>>
=============================================================================
