------------------------------ MODULE Registry ------------------------------
(***************************************************************************)
(* What the discovery server promises about its registry, with no threads, *)
(* sockets or messages: a source name belongs to at most one member, the   *)
(* first to register it, and a member that leaves takes every source it    *)
(* owned with it in the same step.  DiscoveryServer implements this.       *)
(***************************************************************************)
CONSTANTS Clients,   \* the TCP connections that ever reach the server
          Keys,      \* source identities: (instance name, port) pairs
          NoOwner    \* "not registered"

VARIABLES members,   \* connections the server currently serves
          owner      \* the member that registered each source, or NoOwner

vars == <<members, owner>>

Init ==
    /\ members = {}
    /\ owner = [k \in Keys |-> NoOwner]

Join(c) ==
    /\ c \notin members
    /\ members' = members \cup {c}
    /\ UNCHANGED owner

Register(c, k) ==
    /\ c \in members
    /\ owner[k] = NoOwner
    /\ owner' = [owner EXCEPT ![k] = c]
    /\ UNCHANGED members

\* Any member may withdraw any source.
Withdraw(c, k) ==
    /\ c \in members
    /\ owner[k] # NoOwner
    /\ owner' = [owner EXCEPT ![k] = NoOwner]
    /\ UNCHANGED members

Leave(c) ==
    /\ c \in members
    /\ members' = members \ {c}
    /\ owner' = [k \in Keys |-> IF owner[k] = c THEN NoOwner ELSE owner[k]]

Next ==
    \E c \in Clients :
        \/ Join(c)
        \/ Leave(c)
        \/ \E k \in Keys : Register(c, k) \/ Withdraw(c, k)

Spec == Init /\ [][Next]_vars
=============================================================================
