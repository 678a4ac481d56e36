------------------------------ MODULE PortPool ------------------------------
(***************************************************************************)
(* What the honeypot engine promises about ports, without saying how: a    *)
(* pool that can be open or closed and that leases each port to at most    *)
(* one client at a time.  A client gets at most one lease in its life.     *)
(* core/engine.py keeps this promise with a dictionary of instances, a     *)
(* dictionary of allocations and a round-robin cursor (HoneypotEngine).    *)
(***************************************************************************)
EXTENDS Integers, FiniteSets

CONSTANTS
  Clients,   \* everything that may ever hold a port
  Ports,     \* the ports of the pool
  Capacity,  \* most leases that may be out at a time
  NoClient   \* the holder of a free port

VARIABLES
  open,      \* may leases be granted
  holder,    \* port -> the client that leases it, or NoClient
  retired    \* clients whose lease has ended

poolVars == <<open, holder, retired>>

Holders == {holder[p] : p \in Ports} \ {NoClient}

PoolInit ==
  /\ open = FALSE
  /\ holder = [p \in Ports |-> NoClient]
  /\ retired = {}

Open ==
  /\ open' = TRUE
  /\ UNCHANGED <<holder, retired>>

Lease(c, p) ==
  /\ open
  /\ c \notin Holders \cup retired
  /\ holder[p] = NoClient
  /\ Cardinality(Holders) < Capacity
  /\ holder' = [holder EXCEPT ![p] = c]
  /\ UNCHANGED <<open, retired>>

Release(p) ==
  /\ holder[p] # NoClient
  /\ holder' = [holder EXCEPT ![p] = NoClient]
  /\ retired' = retired \cup {holder[p]}
  /\ UNCHANGED open

\* Closing ends every lease at once.
Close ==
  /\ open' = FALSE
  /\ holder' = [p \in Ports |-> NoClient]
  /\ retired' = retired \cup Holders

PoolNext ==
  \/ Open
  \/ Close
  \/ \E c \in Clients, p \in Ports : Lease(c, p)
  \/ \E p \in Ports : Release(p)

PoolSpec == PoolInit /\ [][PoolNext]_poolVars
=============================================================================
