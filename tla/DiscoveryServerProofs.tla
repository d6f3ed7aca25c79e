------------------------ MODULE DiscoveryServerProofs ------------------------
(***************************************************************************)
(* The registry invariants of DiscoveryServer for any number of clients,   *)
(* sources, requests and restarts, and the refinement of Registry.         *)
(***************************************************************************)
EXTENDS DiscoveryServer, SequenceTheorems, TLAPS

Serving == {"check", "recv", "send", "closing"}

\* A peer thread that may still touch the registry has its connection in the
\* peer map, so what it registers has a served owner.
ThreadsInPeers ==
    \A c \in Clients : thread[c] \in Serving => c \in peers

\* A connection is in the peer map only if its thread will remove it.
PeersHaveThread ==
    \A c \in peers :
        \/ thread[c] \in Serving
        \/ acceptor = "snapshot" /\ newPeer = c

\* The connection accept_peer works on is accepted and has no thread yet.
NewPeerFresh ==
    acceptor = "snapshot" =>
        /\ newPeer \in Clients /\ newPeer \in peers
        /\ thread[newPeer] = "none"
        /\ conn[newPeer] \notin {"off", "queued", "gone"}

\* A connection not accepted yet has no thread.
UnacceptedHaveNoThread ==
    \A c \in Clients : conn[c] \in {"off", "queued", "gone"} => thread[c] = "none"

\* Before accept_loop runs and after join_peers no peer thread exists.
IdleHasNoThreads ==
    acceptor \in {"off", "starting", "cleared"} =>
        \A c \in Clients : thread[c] \in {"none", "done"}

\* Only a thread that has just left the mutex has writes to make.
WritersAreBusy ==
    \A c \in Clients : sends[c] # {} => thread[c] \in {"send", "leaving"}

IInv ==
    /\ TypeOK
    /\ UniqueKeys
    /\ OwnersServed
    /\ EventsBracketThread
    /\ ThreadsInPeers
    /\ PeersHaveThread
    /\ NewPeerFresh
    /\ UnacceptedHaveNoThread
    /\ IdleHasNoThreads
    /\ WritersAreBusy

-----------------------------------------------------------------------------
\* The writes of a broadcast and of a snapshot are well formed.
LEMMA BroadcastType ==
    ASSUME NEW m \in Message, NEW ps \in SUBSET Clients
    PROVE  Broadcast(m, ps) \in SUBSET Write
BY DEF Broadcast, Write

\* The snapshot accept_peer sends consists of well-typed writes.
LEMMA SnapshotType ==
    ASSUME entries \in SUBSET Entry, NEW c \in Clients
    PROVE  SnapshotFor(c) \in SUBSET Write
<1> SUFFICES ASSUME NEW w \in SnapshotFor(c) PROVE w \in Write
  OBVIOUS
<1>1. PICK e \in entries :
         w = [msg |-> [key |-> e.key, owner |-> e.owner, removed |-> FALSE], dest |-> c]
  BY DEF SnapshotFor
<1>2. [key |-> e.key, owner |-> e.owner, removed |-> FALSE] \in Message
  BY DEF Entry, Message
<1> QED  BY <1>1, <1>2 DEF Write

\* So do the removals disconnect_peer sends.
LEMMA RemovalsType ==
    ASSUME entries \in SUBSET Entry, NEW c \in Clients, NEW ps \in SUBSET Clients
    PROVE  Removals(c, ps) \in SUBSET Write
<1> SUFFICES ASSUME NEW w \in Removals(c, ps) PROVE w \in Write
  OBVIOUS
<1>1. PICK e \in Owned(c), d \in ps \cup {Sink} :
         w = [msg |-> [key |-> e.key, owner |-> c, removed |-> TRUE], dest |-> d]
  BY DEF Removals, Broadcast
<1>2. [key |-> e.key, owner |-> c, removed |-> TRUE] \in Message
  BY DEF Owned, Entry, Message
<1> QED  BY <1>1, <1>2 DEF Write

\* Every step of the specification keeps the variables well typed.
LEMMA TypeStep == TypeOK /\ NewPeerFresh /\ [Next]_vars => TypeOK'
<1> SUFFICES ASSUME TypeOK, NewPeerFresh, [Next]_vars PROVE TypeOK'
  OBVIOUS
<1> USE IdentityAssumption, BoundsAssumption
    DEF TypeOK, acceptVars, regVars, clientVars,
        AcceptorStates, ThreadStates, ConnStates, Threads
<1>1. CASE HandleStart
  <2>1. starts' \in 0..MaxStarts
    BY <1>1 DEF HandleStart
  <2>2. stop' \in BOOLEAN /\ running' \in BOOLEAN /\ acceptor' \in AcceptorStates
    BY <1>1 DEF HandleStart
  <2> QED  BY <1>1, <2>1, <2>2 DEF HandleStart
<1>2. CASE HandleStop
  BY <1>2 DEF HandleStop
<1>3. CASE ServeBegin
  BY <1>3 DEF ServeBegin
<1>4. CASE AcceptCheck
  BY <1>4 DEF AcceptCheck
<1>5. CASE AcceptNothing
  BY <1>5 DEF AcceptNothing
<1>6. CASE AcceptError
  BY <1>6 DEF AcceptError
<1>7. CASE SpawnPeer
  BY <1>7 DEF SpawnPeer, NewPeerFresh
<1>8. CASE JoinPeers
  BY <1>8 DEF JoinPeers
<1>9. CASE ServeEnd
  BY <1>9 DEF ServeEnd
<1>10. ASSUME NEW c \in Clients, AcceptPeer(c) PROVE TypeOK'
  <2>1. SnapshotFor(c) \in SUBSET Write
    BY SnapshotType
  <2> QED  BY <1>10, <2>1 DEF AcceptPeer
<1>11. ASSUME NEW c \in Clients, AcceptPeerFails(c) PROVE TypeOK'
  BY <1>11 DEF AcceptPeerFails
<1>12. ASSUME NEW c \in Clients, PeerCheck(c) PROVE TypeOK'
  BY <1>12 DEF PeerCheck
<1>13. ASSUME NEW c \in Clients, PeerTimeout(c) PROVE TypeOK'
  BY <1>13 DEF PeerTimeout
<1>14. ASSUME NEW c \in Clients, PeerEof(c) PROVE TypeOK'
  BY <1>14 DEF PeerEof
<1>15. ASSUME NEW c \in Clients, HandleAddress(c) PROVE TypeOK'
  <2> DEFINE r == Head(inbox[c])
  <2>1. r \in Request /\ Tail(inbox[c]) \in Seq(Request)
    BY <1>15 DEF HandleAddress
  <2>2. entries' \in SUBSET Entry /\ sends' \in [Threads -> SUBSET Write]
    <3>1. CASE r.removed
      <4>1. CASE UNCHANGED <<entries, sends>>
        BY <4>1
      <4>2. ASSUME NEW e \in Existing(r.key),
                   entries' = entries \ {e},
                   sends' = [sends EXCEPT ![c] = Broadcast(
                      [key |-> r.key, owner |-> e.owner, removed |-> TRUE], peers)]
            PROVE  entries' \in SUBSET Entry /\ sends' \in [Threads -> SUBSET Write]
        <5>1. [key |-> r.key, owner |-> e.owner, removed |-> TRUE] \in Message
          BY <2>1 DEF Existing, Entry, Request, Message
        <5>2. Broadcast([key |-> r.key, owner |-> e.owner, removed |-> TRUE], peers)
                \in SUBSET Write
          BY <5>1, BroadcastType
        <5> QED  BY <4>2, <5>2
      <4> QED  BY <1>15, <3>1, <4>1, <4>2 DEF HandleAddress, RemoveEntry
    <3>2. CASE ~r.removed
      <4>1. [key |-> r.key, owner |-> c, removed |-> FALSE] \in Message
            /\ [key |-> r.key, owner |-> c] \in Entry
        BY <2>1 DEF Entry, Request, Message
      <4>2. Broadcast([key |-> r.key, owner |-> c, removed |-> FALSE], peers) \in SUBSET Write
        BY <4>1, BroadcastType
      <4>3. CASE UNCHANGED <<entries, sends>>
        BY <4>3
      <4>4. CASE /\ entries' = entries \cup {[key |-> r.key, owner |-> c]}
                 /\ sends' = [sends EXCEPT ![c] = Broadcast(
                       [key |-> r.key, owner |-> c, removed |-> FALSE], peers)]
        BY <4>1, <4>2, <4>4
      <4> QED  BY <1>15, <3>2, <4>3, <4>4 DEF HandleAddress, RegisterEntry
    <3> QED  BY <3>1, <3>2
  <2> QED  BY <1>15, <2>1, <2>2 DEF HandleAddress
<1>16. ASSUME NEW c \in Clients, HandleDone(c) PROVE TypeOK'
  BY <1>16 DEF HandleDone
<1>17. ASSUME NEW c \in Clients, DisconnectPeer(c) PROVE TypeOK'
  <2>1. Removals(c, peers \ {c}) \in SUBSET Write
    BY RemovalsType
  <2>2. peers' = peers \ {c} /\ sends' = [sends EXCEPT ![c] = Removals(c, peers \ {c})]
    BY <1>17 DEF DisconnectPeer
  <2>3. sends' \in [Threads -> SUBSET Write]
    BY <2>1, <2>2
  <2>4. entries' \in SUBSET Entry /\ thread' \in [Clients -> ThreadStates]
        /\ UNCHANGED <<acceptVars, clientVars, wire, seen, stale, deaf>>
    BY <1>17 DEF DisconnectPeer
  <2> QED  BY <2>2, <2>3, <2>4
<1>18. ASSUME NEW c \in Clients, PeerExit(c) PROVE TypeOK'
  BY <1>18 DEF PeerExit
<1>19. ASSUME NEW c \in Clients, ClientConnect(c) PROVE TypeOK'
  BY <1>19 DEF ClientConnect
<1>20. ASSUME NEW c \in Clients, NEW r \in Request, ClientRequest(c, r) PROVE TypeOK'
  BY <1>20 DEF ClientRequest
<1>21. ASSUME NEW c \in Clients, ClientReceive(c) PROVE TypeOK'
  <2> DEFINE m == Head(wire[c])
             others == { a \in view[c] : a.key # m.key }
             e == [key |-> m.key, owner |-> m.owner]
  <2>1. m \in Message /\ Tail(wire[c]) \in Seq(Message)
    BY <1>21 DEF ClientReceive
  <2>2. e \in Entry
    BY <2>1 DEF Message, Entry
  <2>3. view' \in [Clients -> SUBSET Entry]
    BY <1>21, <2>2 DEF ClientReceive
  <2> QED  BY <1>21, <2>1, <2>3 DEF ClientReceive
<1>22. ASSUME NEW c \in Clients, ClientEof(c) PROVE TypeOK'
  BY <1>22 DEF ClientEof
<1>23. ASSUME NEW c \in Clients, ClientDrop(c) PROVE TypeOK'
  BY <1>23 DEF ClientDrop
<1>24. ASSUME NEW t \in Threads, NEW w \in sends[t], SendAddressTo(t, w) PROVE TypeOK'
  <2>1. w \in Write
    OBVIOUS
  <2>2. w.msg \in Message /\ w.msg.key \in Keys /\ w.dest \in Clients
    BY <1>24, <2>1 DEF Write, Message, SendAddressTo
  <2> QED  BY <1>24, <2>2 DEF SendAddressTo
<1>25. ASSUME NEW t \in Threads, NEW w \in sends[t], Emit(t, w) \/ SendFails(t, w) PROVE TypeOK'
  BY <1>25, SlowAssumption DEF Emit, SendFails
<1>26. CASE UNCHANGED vars
  BY <1>26 DEF vars
<1> QED
  BY <1>1, <1>2, <1>3, <1>4, <1>5, <1>6, <1>7, <1>8, <1>9, <1>10, <1>11, <1>12, <1>13, <1>14, <1>15, <1>16, <1>17, <1>18, <1>19, <1>20, <1>21, <1>22, <1>23, <1>24, <1>25, <1>26
  DEF Next, AcceptStep, PeerStep, ClientStep, WriteStep

-----------------------------------------------------------------------------
(* The registry part of IInv, one action at a time. *)

RegInv ==
    /\ UniqueKeys
    /\ OwnersServed
    /\ EventsBracketThread
    /\ ThreadsInPeers
    /\ PeersHaveThread
    /\ NewPeerFresh
    /\ UnacceptedHaveNoThread
    /\ IdleHasNoThreads
    /\ WritersAreBusy

\* What handle_address may do to the registry and to the pending writes.
LEMMA HandleAddressEffect ==
    ASSUME NEW c \in Clients, sends \in [Threads -> SUBSET Write], HandleAddress(c)
    PROVE  /\ \A d \in Clients : d # c => sends'[d] = sends[d]
           /\ \/ entries' \subseteq entries
              \/ \E k : /\ \A e \in entries : e.key # k
                       /\ entries' = entries \cup {[key |-> k, owner |-> c]}
<1> DEFINE r == Head(inbox[c])
<1>1. CASE r.removed
  <2>1. RemoveEntry(c, r.key)
    BY <1>1 DEF HandleAddress
  <2>2. CASE UNCHANGED <<entries, sends>>
    BY <2>2
  <2>3. ASSUME NEW e \in Existing(r.key), entries' = entries \ {e},
               NEW B, sends' = [sends EXCEPT ![c] = B]
        PROVE  entries' \subseteq entries /\ \A d \in Clients : d # c => sends'[d] = sends[d]
    BY <2>3 DEF Threads
  <2> QED  BY <2>1, <2>2, <2>3 DEF RemoveEntry
<1>2. CASE ~r.removed
  <2>1. RegisterEntry(c, r.key)
    BY <1>2 DEF HandleAddress
  <2>2. CASE UNCHANGED <<entries, sends>>
    BY <2>2
  <2>3. ASSUME Existing(r.key) = {}, entries' = entries \cup {[key |-> r.key, owner |-> c]},
               NEW B, sends' = [sends EXCEPT ![c] = B]
        PROVE  /\ \A d \in Clients : d # c => sends'[d] = sends[d]
               /\ \E k : /\ \A e \in entries : e.key # k
                        /\ entries' = entries \cup {[key |-> k, owner |-> c]}
    <3>1. \A e \in entries : e.key # r.key
      BY <2>3 DEF Existing
    <3>2. \A d \in Clients : d # c => sends'[d] = sends[d]
      BY <2>3 DEF Threads
    <3> QED  BY <2>3, <3>1, <3>2
  <2> QED  BY <2>1, <2>2, <2>3 DEF RegisterEntry
<1> QED  BY <1>1, <1>2

\* Every step keeps the relations between registry, peer map and threads.
LEMMA RegStep == TypeOK /\ RegInv /\ [Next]_vars => RegInv'
<1> SUFFICES ASSUME TypeOK, RegInv, [Next]_vars PROVE RegInv'
  OBVIOUS
<1> USE IdentityAssumption
    DEF RegInv, UniqueKeys, OwnersServed, EventsBracketThread, ThreadsInPeers,
        PeersHaveThread, NewPeerFresh, UnacceptedHaveNoThread, IdleHasNoThreads,
        WritersAreBusy, Serving, TypeOK, acceptVars, regVars, clientVars,
        AcceptorStates, ThreadStates, ConnStates, Threads
<1>1. CASE HandleStart
  BY <1>1 DEF HandleStart
<1>2. CASE HandleStop
  BY <1>2 DEF HandleStop
<1>3. CASE ServeBegin
  BY <1>3 DEF ServeBegin
<1>4. CASE AcceptCheck
  BY <1>4 DEF AcceptCheck
<1>5. CASE AcceptNothing
  BY <1>5 DEF AcceptNothing
<1>6. CASE AcceptError
  BY <1>6 DEF AcceptError
<1>7. CASE SpawnPeer
  BY <1>7 DEF SpawnPeer
<1>8. CASE JoinPeers
  BY <1>8 DEF JoinPeers
<1>9. CASE ServeEnd
  BY <1>9 DEF ServeEnd
<1>10. ASSUME NEW c \in Clients, AcceptPeer(c) PROVE RegInv'
  <2>1. thread[c] = "none" /\ UNCHANGED <<thread, entries, seen>>
    BY <1>10 DEF AcceptPeer
  <2>2. acceptor' = "snapshot" /\ newPeer' = c /\ peers' = peers \cup {c}
    BY <1>10 DEF AcceptPeer
  <2>3. \A d \in Clients : sends'[d] = sends[d]
    BY <1>10 DEF AcceptPeer
  <2>4. /\ conn'[c] \notin {"off", "queued", "gone"}
        /\ \A d \in Clients : conn'[d] \in {"off", "queued", "gone"} => conn'[d] = conn[d]
    BY <1>10 DEF AcceptPeer
  <2>5. PeersHaveThread'
    <3> SUFFICES ASSUME NEW d \in peers'
                 PROVE  thread'[d] \in Serving \/ (acceptor' = "snapshot" /\ newPeer' = d)
      OBVIOUS
    <3>1. acceptor = "accept"
      BY <1>10 DEF AcceptPeer
    <3> QED  BY <2>1, <2>2, <3>1
  <2> QED  BY <2>1, <2>2, <2>3, <2>4, <2>5
<1>11. ASSUME NEW c \in Clients, AcceptPeerFails(c) PROVE RegInv'
  BY <1>11 DEF AcceptPeerFails
<1>12. ASSUME NEW c \in Clients, PeerCheck(c) PROVE RegInv'
  BY <1>12 DEF PeerCheck
<1>13. ASSUME NEW c \in Clients, PeerTimeout(c) PROVE RegInv'
  BY <1>13 DEF PeerTimeout
<1>14. ASSUME NEW c \in Clients, PeerEof(c) PROVE RegInv'
  BY <1>14 DEF PeerEof
<1>15. ASSUME NEW c \in Clients, HandleAddress(c) PROVE RegInv'
  <2>1. thread[c] = "recv" /\ thread' = [thread EXCEPT ![c] = "send"]
        /\ UNCHANGED <<acceptor, newPeer, conn, seen, peers>>
    BY <1>15 DEF HandleAddress
  <2>2. \A d \in Clients : d # c => sends'[d] = sends[d]
    BY <1>15, HandleAddressEffect
  <2>4. UniqueKeys' /\ OwnersServed'
    <3>1. CASE entries' \subseteq entries
      BY <2>1, <3>1
    <3>2. ASSUME NEW k, \A e \in entries : e.key # k,
                 entries' = entries \cup {[key |-> k, owner |-> c]}
          PROVE  UniqueKeys' /\ OwnersServed'
      BY <2>1, <3>2
    <3> QED  BY <1>15, <3>1, <3>2, HandleAddressEffect
  <2>5. /\ EventsBracketThread' /\ ThreadsInPeers' /\ PeersHaveThread' /\ NewPeerFresh'
        /\ UnacceptedHaveNoThread' /\ IdleHasNoThreads'
    BY <2>1
  <2>6. WritersAreBusy'
    BY <2>1, <2>2
  <2> QED  BY <2>4, <2>5, <2>6
<1>16. ASSUME NEW c \in Clients, HandleDone(c) PROVE RegInv'
  BY <1>16 DEF HandleDone
<1>17. ASSUME NEW c \in Clients, DisconnectPeer(c) PROVE RegInv'
  <2>1. thread[c] = "closing" /\ thread' = [thread EXCEPT ![c] = "leaving"]
        /\ UNCHANGED <<acceptor, newPeer, conn, seen>>
    BY <1>17 DEF DisconnectPeer
  <2>2. peers' = peers \ {c} /\ entries' = { e \in entries : e.owner # c }
    BY <1>17 DEF DisconnectPeer, Owned
  <2>3. \A d \in Clients : d # c => sends'[d] = sends[d]
    BY <1>17 DEF DisconnectPeer
  <2>4. UniqueKeys' /\ OwnersServed' /\ ThreadsInPeers' /\ PeersHaveThread'
    BY <2>1, <2>2
  <2>5. EventsBracketThread' /\ NewPeerFresh' /\ UnacceptedHaveNoThread' /\ IdleHasNoThreads'
    BY <2>1, <2>2
  <2>6. WritersAreBusy'
    BY <2>1, <2>3
  <2> QED  BY <2>4, <2>5, <2>6
<1>18. ASSUME NEW c \in Clients, PeerExit(c) PROVE RegInv'
  BY <1>18 DEF PeerExit
<1>19. ASSUME NEW c \in Clients, ClientConnect(c) PROVE RegInv'
  BY <1>19 DEF ClientConnect
<1>20. ASSUME NEW c \in Clients, NEW r \in Request, ClientRequest(c, r) PROVE RegInv'
  BY <1>20 DEF ClientRequest
<1>21. ASSUME NEW c \in Clients, ClientReceive(c) PROVE RegInv'
  BY <1>21 DEF ClientReceive
<1>22. ASSUME NEW c \in Clients, ClientEof(c) PROVE RegInv'
  BY <1>22 DEF ClientEof
<1>23. ASSUME NEW c \in Clients, ClientDrop(c) PROVE RegInv'
  BY <1>23 DEF ClientDrop
<1>24. ASSUME NEW t \in Threads, NEW w \in sends[t], SendAddressTo(t, w) PROVE RegInv'
  BY <1>24 DEF SendAddressTo
<1>25. ASSUME NEW t \in Threads, NEW w \in sends[t], Emit(t, w) \/ SendFails(t, w) PROVE RegInv'
  BY <1>25 DEF Emit, SendFails
<1>26. CASE UNCHANGED vars
  BY <1>26 DEF vars
<1> QED
  BY <1>1, <1>2, <1>3, <1>4, <1>5, <1>6, <1>7, <1>8, <1>9, <1>10, <1>11, <1>12, <1>13, <1>14, <1>15, <1>16, <1>17, <1>18, <1>19, <1>20, <1>21, <1>22, <1>23, <1>24, <1>25, <1>26
  DEF Next, AcceptStep, PeerStep, ClientStep, WriteStep

-----------------------------------------------------------------------------
\* The inductive invariant holds in every reachable state.
LEMMA Invariance == Spec => []IInv
<1>1. Init => IInv
  <2> SUFFICES ASSUME Init PROVE IInv
    OBVIOUS
  <2> USE IdentityAssumption, BoundsAssumption DEF Init
  <2>1. TypeOK
    <3>1. /\ inbox \in [Clients -> Seq(Request)] /\ wire \in [Clients -> Seq(Message)]
          /\ view \in [Clients -> SUBSET Entry] /\ sends \in [Threads -> SUBSET Write]
      OBVIOUS
    <3>2. /\ thread \in [Clients -> ThreadStates] /\ conn \in [Clients -> ConnStates]
          /\ acceptor \in AcceptorStates
      BY DEF AcceptorStates, ThreadStates, ConnStates
    <3>3. requests \in 0..MaxRequests /\ starts \in 0..MaxStarts
      OBVIOUS
    <3>4. newPeer \in Clients \cup {NoOwner} /\ entries \subseteq Entry /\ peers \subseteq Clients
          /\ seen \subseteq Clients /\ stale \subseteq Clients \X Keys /\ deaf \subseteq Clients
      OBVIOUS
    <3> QED  BY <3>1, <3>2, <3>3, <3>4 DEF TypeOK
  <2>2. UniqueKeys /\ OwnersServed /\ EventsBracketThread /\ ThreadsInPeers /\ PeersHaveThread
    BY DEF UniqueKeys, OwnersServed, EventsBracketThread, ThreadsInPeers, PeersHaveThread,
           Serving
  <2>3. NewPeerFresh /\ UnacceptedHaveNoThread /\ IdleHasNoThreads /\ WritersAreBusy
    BY DEF NewPeerFresh, UnacceptedHaveNoThread, IdleHasNoThreads, WritersAreBusy, Threads
  <2> QED  BY <2>1, <2>2, <2>3 DEF IInv
<1>2. IInv /\ [Next]_vars => IInv'
  BY TypeStep, RegStep DEF IInv, RegInv
<1> QED  BY <1>1, <1>2, PTL DEF Spec

\* Type correctness: the accept thread spawns threads for real connections
\* only (SpawnPeer never runs without a peer), whatever the interleaving.
THEOREM TypeCorrect == Spec => []TypeOK
BY Invariance, PTL DEF IInv

\* Names stay unique in the registry: handle_address checks and pushes in one
\* critical section.
THEOREM KeysAreUnique == Spec => []UniqueKeys
BY Invariance, PTL DEF IInv

\* No registered source outlives its owner's connection: entries are pushed
\* only by the owner's own thread, and disconnect_peer, which that thread runs
\* last, removes entries and peer together.
THEOREM OwnersAreServed == Spec => []OwnersServed
BY Invariance, PTL DEF IInv

\* serve_listener returns with an empty registry and every peer thread joined.
THEOREM StopIsClean == Spec => []StoppedIsClean
<1>1. IInv => StoppedIsClean
  BY DEF IInv, StoppedIsClean, IdleHasNoThreads, PeersHaveThread, OwnersServed,
         WritersAreBusy, TypeOK, Serving, Entry
<1> QED  BY <1>1, Invariance, PTL

\* ClientConnected and ClientDisconnected bracket the life of the peer thread.
THEOREM EventsBracket == Spec => []EventsBracketThread
BY Invariance, PTL DEF IInv

-----------------------------------------------------------------------------
(* DiscoveryServer implements Registry. *)

\* The refinement mapping reads the unique entry of a key.
LEMMA OwnerOfEntry ==
    ASSUME UniqueKeys, entries \in SUBSET Entry
    PROVE  /\ \A e \in entries : ownerOf[e.key] = e.owner
           /\ \A k \in Keys : (\A e \in entries : e.key # k) => ownerOf[k] = NoOwner
<1>1. ASSUME NEW e \in entries PROVE ownerOf[e.key] = e.owner
  <2>1. Existing(e.key) = {e}
    BY <1>1 DEF Existing, UniqueKeys
  <2>2. e.key \in Keys
    BY <1>1 DEF Entry
  <2> QED  BY <2>1, <2>2 DEF ownerOf
<1>2. ASSUME NEW k \in Keys, \A e \in entries : e.key # k PROVE ownerOf[k] = NoOwner
  BY <1>2 DEF Existing, ownerOf
<1> QED  BY <1>1, <1>2

\* The registry part of a request is a registration, a withdrawal, or nothing.
LEMMA HandleAddressRefines ==
    ASSUME IInv, IInv', NEW c \in Clients, HandleAddress(c)
    PROVE  Reg!Next \/ UNCHANGED Reg!vars
<1> DEFINE r == Head(inbox[c])
<1>1. /\ r.key \in Keys /\ c \in peers /\ peers' = peers
      /\ entries \in SUBSET Entry /\ entries' \in SUBSET Entry
  <2>1. r \in Request
    BY DEF IInv, TypeOK, HandleAddress
  <2>2. c \in peers /\ peers' = peers
    BY DEF IInv, ThreadsInPeers, Serving, HandleAddress
  <2> QED  BY <2>1, <2>2 DEF IInv, TypeOK, Request
<1>2. ASSUME UNCHANGED entries PROVE UNCHANGED Reg!vars
  BY <1>1, <1>2 DEF Reg!vars, ownerOf, Existing
<1>3. ASSUME NEW e \in entries, e.key = r.key, entries' = entries \ {e}
      PROVE  Reg!Withdraw(c, r.key)
  <2>1. ownerOf[r.key] # NoOwner
    BY <1>1, <1>3, OwnerOfEntry, IdentityAssumption DEF IInv, Entry
  <2>2. ASSUME NEW k \in Keys
        PROVE  ownerOf'[k] = IF k = r.key THEN NoOwner ELSE ownerOf[k]
    <3>1. CASE k = r.key
      <4>1. \A f \in entries' : f.key # k
        BY <1>3, <3>1 DEF IInv, UniqueKeys
      <4>2. Existing(k)' = {}
        BY <4>1 DEF Existing
      <4> QED  BY <3>1, <4>2 DEF ownerOf
    <3>2. CASE k # r.key
      <4>1. Existing(k)' = Existing(k)
        BY <1>3, <3>2 DEF Existing
      <4> QED  BY <3>2, <4>1 DEF ownerOf
    <3> QED  BY <3>1, <3>2
  <2>3. ownerOf' = [ownerOf EXCEPT ![r.key] = NoOwner]
    BY <2>2 DEF ownerOf
  <2> QED  BY <1>1, <2>1, <2>3 DEF Reg!Withdraw
<1>4. ASSUME Existing(r.key) = {}, entries' = entries \cup {[key |-> r.key, owner |-> c]}
      PROVE  Reg!Register(c, r.key)
  <2>1. ownerOf[r.key] = NoOwner
    BY <1>1, <1>4 DEF ownerOf
  <2>2. ASSUME NEW k \in Keys
        PROVE  ownerOf'[k] = IF k = r.key THEN c ELSE ownerOf[k]
    <3>1. CASE k = r.key
      <4> DEFINE x == [key |-> r.key, owner |-> c]
      <4>1. Existing(k)' = {x} /\ x.owner = c
        BY <1>4, <3>1 DEF Existing
      <4> HIDE DEF x
      <4> QED  BY <3>1, <4>1 DEF ownerOf
    <3>2. CASE k # r.key
      <4>1. Existing(k)' = Existing(k)
        BY <1>4, <3>2 DEF Existing
      <4> QED  BY <3>2, <4>1 DEF ownerOf
    <3> QED  BY <3>1, <3>2
  <2>3. ownerOf' = [ownerOf EXCEPT ![r.key] = c]
    BY <2>2 DEF ownerOf
  <2> QED  BY <1>1, <2>1, <2>3 DEF Reg!Register
<1>5. CASE r.removed
  <2>1. RemoveEntry(c, r.key)
    BY <1>5 DEF HandleAddress
  <2>2. \/ UNCHANGED entries
        \/ \E e \in entries : e.key = r.key /\ entries' = entries \ {e}
    BY <2>1 DEF RemoveEntry, Existing
  <2> QED  BY <1>1, <1>2, <1>3, <2>2 DEF Reg!Next
<1>6. CASE ~r.removed
  <2>1. RegisterEntry(c, r.key)
    BY <1>6 DEF HandleAddress
  <2>2. \/ UNCHANGED entries
        \/ Existing(r.key) = {} /\ entries' = entries \cup {[key |-> r.key, owner |-> c]}
    BY <2>1 DEF RegisterEntry
  <2> QED  BY <1>1, <1>2, <1>4, <2>2 DEF Reg!Next
<1> QED  BY <1>5, <1>6

\* disconnect_peer removes the connection and its sources in one step.
LEMMA DisconnectRefines ==
    ASSUME IInv, IInv', NEW c \in Clients, DisconnectPeer(c)
    PROVE  Reg!Leave(c)
<1>1. /\ c \in peers /\ peers' = peers \ {c} /\ entries' = entries \ Owned(c)
      /\ entries \in SUBSET Entry
  BY DEF IInv, TypeOK, ThreadsInPeers, Serving, DisconnectPeer
<1>2. ASSUME NEW k \in Keys
      PROVE  ownerOf'[k] = IF ownerOf[k] = c THEN NoOwner ELSE ownerOf[k]
  <2>1. CASE Existing(k) = {}
    <3>1. Existing(k)' = {}
      BY <1>1, <2>1 DEF Existing
    <3> QED  BY <2>1, <3>1, IdentityAssumption DEF ownerOf
  <2>2. ASSUME NEW e \in Existing(k)
        PROVE  ownerOf'[k] = IF ownerOf[k] = c THEN NoOwner ELSE ownerOf[k]
    <3>1. Existing(k) = {e} /\ ownerOf[k] = e.owner
      BY <1>1, <2>2, OwnerOfEntry DEF Existing, IInv, UniqueKeys
    <3>2. CASE e.owner = c
      <4>1. Existing(k)' = {}
        BY <1>1, <3>1, <3>2 DEF Existing, Owned
      <4> QED  BY <3>1, <3>2, <4>1 DEF ownerOf
    <3>3. CASE e.owner # c
      <4>1. Existing(k)' = {e}
        BY <1>1, <3>1, <3>3 DEF Existing, Owned
      <4> QED  BY <3>1, <3>3, <4>1 DEF ownerOf
    <3> QED  BY <3>2, <3>3
  <2> QED  BY <2>1, <2>2
<1>3. ownerOf' = [k \in Keys |-> IF ownerOf[k] = c THEN NoOwner ELSE ownerOf[k]]
  BY <1>2 DEF ownerOf
<1> QED  BY <1>1, <1>3 DEF Reg!Leave

\* Every step of the server is a step of Registry or leaves its state alone.
LEMMA StepRefines == IInv /\ IInv' /\ [Next]_vars => [Reg!Next]_(Reg!vars)
<1> SUFFICES ASSUME IInv, IInv', [Next]_vars PROVE Reg!Next \/ UNCHANGED Reg!vars
  OBVIOUS
<1>1. ASSUME UNCHANGED <<entries, peers>> PROVE UNCHANGED Reg!vars
  BY <1>1 DEF Reg!vars, ownerOf, Existing
<1>2. CASE ServeBegin \/ JoinPeers
  <2>1. peers = {} /\ entries = {}
    BY <1>2 DEF IInv, ServeBegin, JoinPeers, PeersHaveThread, IdleHasNoThreads, OwnersServed,
                Serving, TypeOK, Entry
  <2> QED  BY <1>1, <1>2, <2>1 DEF ServeBegin, JoinPeers
<1>3. ASSUME NEW c \in Clients, AcceptPeer(c) PROVE Reg!Next
  <2>1. c \notin peers /\ peers' = peers \cup {c} /\ entries' = entries
    BY <1>3 DEF IInv, AcceptPeer, PeersHaveThread, UnacceptedHaveNoThread, Serving
  <2>2. ownerOf' = ownerOf
    BY <2>1 DEF ownerOf, Existing
  <2> QED  BY <2>1, <2>2 DEF Reg!Next, Reg!Join
<1>4. ASSUME NEW c \in Clients, HandleAddress(c) PROVE Reg!Next \/ UNCHANGED Reg!vars
  BY <1>4, HandleAddressRefines
<1>5. ASSUME NEW c \in Clients, DisconnectPeer(c) PROVE Reg!Next
  BY <1>5, DisconnectRefines DEF Reg!Next
<1>6. ASSUME NEW c \in Clients,
             PeerCheck(c) \/ PeerTimeout(c) \/ PeerEof(c) \/ HandleDone(c) \/ PeerExit(c)
               \/ ClientStep(c) \/ AcceptPeerFails(c)
      PROVE  UNCHANGED <<entries, peers>>
  BY <1>6 DEF PeerCheck, PeerTimeout, PeerEof, HandleDone, PeerExit, ClientStep,
              ClientConnect, ClientRequest, ClientReceive, ClientEof, ClientDrop,
              AcceptPeerFails, regVars
<1>7. ASSUME NEW t \in Threads, WriteStep(t) PROVE UNCHANGED <<entries, peers>>
  BY <1>7 DEF WriteStep, SendAddressTo, SendFails, Emit, regVars
<1>8. CASE HandleStart \/ HandleStop \/ AcceptCheck \/ AcceptNothing \/ AcceptError
           \/ SpawnPeer \/ ServeEnd \/ UNCHANGED vars
  <2>1. UNCHANGED <<entries, peers>>
    BY <1>8 DEF HandleStart, HandleStop, AcceptCheck, AcceptNothing, AcceptError,
                SpawnPeer, ServeEnd, regVars, vars
  <2> QED  BY <1>1, <2>1
<1> QED
  BY <1>1, <1>2, <1>3, <1>4, <1>5, <1>6, <1>7, <1>8 DEF Next, AcceptStep, PeerStep

\* The server's registry implements the abstract Registry: for any number of
\* clients and sources every critical section is a Join, Register, Withdraw or
\* Leave, and the clears of serve_listener change nothing.
THEOREM ImplementsRegistry == Spec => RegistryImplemented
<1>1. Init => Reg!Init
  BY DEF Init, Reg!Init, ownerOf, Existing
<1> QED  BY <1>1, StepRefines, Invariance, PTL DEF Spec, Reg!Spec, RegistryImplemented

-----------------------------------------------------------------------------
(* What the clients are told. *)

\* A source is named by requests of the clients that use it, and everything said about a source
\* names one of them as its owner.
NamedByUsers ==
    /\ \A c \in Clients : \A p \in DOMAIN inbox[c] : inbox[c][p].key \in Uses[c]
    /\ \A e \in entries : e.key \in Uses[e.owner]
    /\ \A t \in Clients : \A w \in sends[t] : w.msg.key \in Uses[t]
    /\ \A t \in Threads : \A w \in sends[t] : w.msg.key \in Uses[w.msg.owner]
    /\ \A c \in Clients : \A p \in DOMAIN wire[c] : wire[c][p].key \in Uses[wire[c][p].owner]
    /\ \A c \in Clients : \A a \in view[c] : a.key \in Uses[a.owner]

Unaccepted == {"off", "queued", "gone"}

\* The accept thread writes snapshots only, and only in accept_peer; nobody writes to a
\* connection that has not been accepted.
SnapshotsOnly ==
    /\ sends[Acceptor] # {} => acceptor = "snapshot"
    /\ \A w \in sends[Acceptor] : ~w.msg.removed
    /\ \A c \in Clients : conn[c] \in Unaccepted =>
          wire[c] = <<>> /\ view[c] = {} /\ \A t \in Threads : \A w \in sends[t] : w.dest # c

Known(k) == \E e \in entries : e.key = k

\* Thread t still has to write to c about k.
Owes(t, c, k) == \E w \in sends[t] : w.dest = c /\ w.msg.key = k

\* A client with list v that has yet to read the messages q will list k exactly if b.
EndsWith(q, v, k, b) ==
    /\ \A p \in DOMAIN q :
          q[p].key = k /\ (\A r \in DOMAIN q : r > p => q[r].key # k) => (q[p].removed <=> ~b)
    /\ (\A p \in DOMAIN q : q[p].key # k) => ((\E a \in v : a.key = k) <=> b)

\* What connection c is told about k: a peer thread's write that is still to be made says what
\* the registry says, and when there is none, what has been written does - or the rest of the
\* snapshot will make it so.
Told(c, k) ==
    conn[c] = "open" /\ c \in peers /\ Private(k) /\ <<c, k>> \notin stale /\ c \notin deaf =>
        /\ \A t \in Clients : \A w \in sends[t] :
              w.dest = c /\ w.msg.key = k => (w.msg.removed <=> ~Known(k))
        /\ \/ \E t \in Clients : Owes(t, c, k)
           \/ Owes(Acceptor, c, k) /\ Known(k)
           \/ EndsWith(wire[c], view[c], k, Known(k))

AllTold == \A c \in Clients, k \in Keys : Told(c, k)

NewsInv == NamedByUsers /\ SnapshotsOnly /\ AllTold

\* A private source has one user.
LEMMA OneUser ==
    ASSUME NEW k, Private(k), NEW c \in Clients, NEW d \in Clients, k \in Uses[c], k \in Uses[d]
    PROVE  c = d
BY DEF Private

\* Writing a message about k last makes it what counts.
LEMMA EndsAppend ==
    ASSUME NEW q \in Seq(Message), NEW v, NEW m \in Message, NEW k, NEW b \in BOOLEAN
    PROVE  /\ m.key = k /\ (m.removed <=> ~b) => EndsWith(Append(q, m), v, k, b)
           /\ m.key # k /\ EndsWith(q, v, k, b) => EndsWith(Append(q, m), v, k, b)
<1> DEFINE t == Append(q, m)
           n == Len(q) + 1
<1>1. Len(q) \in Nat /\ DOMAIN q = 1..Len(q)
  BY LenProperties
<1>2. t \in Seq(Message) /\ Len(t) = n /\ (\A i \in 1..Len(q) : t[i] = q[i]) /\ t[n] = m
  BY AppendProperties
<1>3. DOMAIN t = 1..n
  BY <1>2, LenProperties
<1>4. n \in DOMAIN t /\ \A p \in DOMAIN t : p \in DOMAIN q \/ p = n
  BY <1>1, <1>3
<1>5. \A p \in DOMAIN q : p \in DOMAIN t /\ n > p /\ t[p] = q[p]
  BY <1>1, <1>2, <1>3
<1>6. \A p \in DOMAIN t : ~(p > n)
  BY <1>1, <1>3
<1>7. t[n] = m
  BY <1>2
<1> HIDE DEF t, n
<1>8. ASSUME m.key = k, m.removed <=> ~b PROVE EndsWith(t, v, k, b)
  <2>1. ASSUME NEW p \in DOMAIN t, t[p].key = k, \A r \in DOMAIN t : r > p => t[r].key # k
        PROVE  p = n
    BY <1>4, <1>5, <1>7, <1>8, <2>1
  <2> QED  BY <1>4, <1>7, <1>8, <2>1 DEF EndsWith
<1>9. ASSUME m.key # k, EndsWith(q, v, k, b) PROVE EndsWith(t, v, k, b)
  <2>1. ASSUME NEW p \in DOMAIN t, t[p].key = k, \A r \in DOMAIN t : r > p => t[r].key # k
        PROVE  t[p].removed <=> ~b
    <3>1. p \in DOMAIN q /\ q[p] = t[p]
      BY <1>4, <1>5, <1>7, <1>9, <2>1
    <3>2. \A r \in DOMAIN q : r > p => q[r].key # k
      BY <1>5, <2>1
    <3> QED  BY <1>9, <2>1, <3>1, <3>2 DEF EndsWith
  <2>2. (\A p \in DOMAIN t : t[p].key # k) => ((\E a \in v : a.key = k) <=> b)
    BY <1>5, <1>9 DEF EndsWith
  <2> QED  BY <2>1, <2>2 DEF EndsWith
<1> QED  BY <1>8, <1>9 DEF t

\* The worker's step: reading the first message changes nothing about what the client ends with.
LEMMA EndsRead ==
    ASSUME NEW q \in Seq(Message), q # <<>>, NEW v, NEW u, NEW k, NEW b \in BOOLEAN,
           EndsWith(q, v, k, b),
           Head(q).key # k => ((\E a \in u : a.key = k) <=> (\E a \in v : a.key = k)),
           Head(q).key = k => ((\E a \in u : a.key = k) <=> ~Head(q).removed)
    PROVE  EndsWith(Tail(q), u, k, b)
<1> DEFINE t == Tail(q)
<1>1. Len(q) \in Nat /\ DOMAIN q = 1..Len(q)
  BY LenProperties
<1>2. Head(q) \in Message /\ t \in Seq(Message) /\ Len(t) = Len(q) - 1 /\ Len(q) \in Nat \ {0}
      /\ (\A i \in 1..Len(t) : t[i] = q[i + 1]) /\ Head(q) = q[1]
  BY HeadTailProperties, EmptySeq
<1>3. DOMAIN t = 1..(Len(q) - 1)
  BY <1>2, LenProperties
<1>4. \A p \in DOMAIN t : p \in Nat /\ p + 1 \in DOMAIN q /\ t[p] = q[p + 1]
  BY <1>1, <1>2, <1>3
<1>5. ASSUME NEW p \in DOMAIN q, p # 1 PROVE p - 1 \in DOMAIN t /\ t[p - 1] = q[p]
  <2>1. p - 1 \in 1..(Len(q) - 1) /\ (p - 1) + 1 = p
    BY <1>1, <1>2, <1>5
  <2> QED  BY <1>3, <1>4, <2>1
<1>6. 1 \in DOMAIN q /\ q[1] = Head(q)
  BY <1>1, <1>2
<1> HIDE DEF t
<1>7. ASSUME NEW p \in DOMAIN t, t[p].key = k, \A r \in DOMAIN t : r > p => t[r].key # k
      PROVE  t[p].removed <=> ~b
  <2>1. p + 1 \in DOMAIN q /\ t[p] = q[p + 1] /\ p \in Nat
    BY <1>4
  <2>2. ASSUME NEW r \in DOMAIN q, r > p + 1 PROVE q[r].key # k
    <3>1. r \in Nat /\ r # 1 /\ r - 1 > p
      BY <1>1, <2>1, <2>2
    <3>2. r - 1 \in DOMAIN t /\ t[r - 1] = q[r]
      BY <1>5, <3>1
    <3> QED  BY <1>7, <3>1, <3>2
  <2> QED  BY <1>7, <2>1, <2>2 DEF EndsWith
<1>8. ASSUME \A p \in DOMAIN t : t[p].key # k PROVE (\E a \in u : a.key = k) <=> b
  <2>1. \A p \in DOMAIN q : p # 1 => q[p].key # k
    BY <1>5, <1>8
  <2>2. CASE Head(q).key # k
    <3>1. \A p \in DOMAIN q : q[p].key # k
      BY <1>6, <2>1, <2>2
    <3> QED  BY <2>2, <3>1 DEF EndsWith
  <2>3. CASE Head(q).key = k
    <3>1. \A r \in DOMAIN q : r > 1 => q[r].key # k
      BY <1>1, <2>1
    <3>2. Head(q).removed <=> ~b
      BY <1>6, <2>3, <3>1 DEF EndsWith
    <3>3. Head(q).removed \in BOOLEAN
      BY <1>2 DEF Message
    <3> QED  BY <2>3, <3>2, <3>3
  <2> QED  BY <2>2, <2>3
<1>9. EndsWith(t, u, k, b)
  BY <1>7, <1>8 DEF EndsWith
<1> QED  BY <1>9 DEF t

\* A step that leaves what c is told about k alone.
LEMMA ToldFrame ==
    ASSUME NEW c \in Clients, NEW k \in Keys, Told(c, k),
           conn'[c] = "open" /\ c \in peers' => conn[c] = "open" /\ c \in peers,
           stale \subseteq stale', deaf \subseteq deaf',
           \A t \in Threads : \A w : w.dest = c /\ w.msg.key = k => (w \in sends'[t] <=> w \in sends[t]),
           conn'[c] = "open" => wire'[c] = wire[c] /\ view'[c] = view[c],
           Known(k)' <=> Known(k)
    PROVE  Told(c, k)'
<1> SUFFICES ASSUME conn'[c] = "open", c \in peers', Private(k), <<c, k>> \notin stale', c \notin deaf'
             PROVE  /\ \A t \in Clients : \A w \in sends'[t] :
                          w.dest = c /\ w.msg.key = k => (w.msg.removed <=> ~Known(k)')
                    /\ \/ \E t \in Clients : Owes(t, c, k)'
                       \/ Owes(Acceptor, c, k)' /\ Known(k)'
                       \/ EndsWith(wire[c], view[c], k, Known(k))'
  BY DEF Told, Private
<1>1. conn[c] = "open" /\ c \in peers /\ <<c, k>> \notin stale /\ c \notin deaf
  OBVIOUS
<1>2. /\ \A t \in Clients : \A w \in sends[t] :
            w.dest = c /\ w.msg.key = k => (w.msg.removed <=> ~Known(k))
      /\ \/ \E t \in Clients : Owes(t, c, k)
         \/ Owes(Acceptor, c, k) /\ Known(k)
         \/ EndsWith(wire[c], view[c], k, Known(k))
  BY <1>1 DEF Told
<1>3. \A t \in Threads : Owes(t, c, k)' <=> Owes(t, c, k)
  BY DEF Owes
<1>4. Clients \subseteq Threads /\ Acceptor \in Threads
  BY DEF Threads
<1>5. EndsWith(wire[c], view[c], k, Known(k)) => EndsWith(wire[c], view[c], k, Known(k))'
  BY DEF EndsWith
<1> QED  BY <1>2, <1>3, <1>4, <1>5

\* Where the elements of a longer, a shorter or a cut list come from.
LEMMA SeqElements ==
    ASSUME NEW T, NEW q \in Seq(T)
    PROVE  /\ \A x \in T : \A p \in DOMAIN Append(q, x) :
                 Append(q, x)[p] = x \/ \E i \in DOMAIN q : Append(q, x)[p] = q[i]
           /\ q # <<>> => /\ Head(q) \in T /\ \E i \in DOMAIN q : Head(q) = q[i]
                          /\ \A p \in DOMAIN Tail(q) : \E i \in DOMAIN q : Tail(q)[p] = q[i]
           /\ \A n \in 0..Len(q) : \A p \in DOMAIN SubSeq(q, 1, n) :
                 \E i \in DOMAIN q : SubSeq(q, 1, n)[p] = q[i]
<1>1. Len(q) \in Nat /\ DOMAIN q = 1..Len(q)
  BY LenProperties
<1>2. ASSUME NEW x \in T, NEW p \in DOMAIN Append(q, x)
      PROVE  Append(q, x)[p] = x \/ \E i \in DOMAIN q : Append(q, x)[p] = q[i]
  <2>1. Append(q, x) \in Seq(T) /\ Len(Append(q, x)) = Len(q) + 1
        /\ (\A i \in 1..Len(q) : Append(q, x)[i] = q[i]) /\ Append(q, x)[Len(q) + 1] = x
    BY AppendProperties
  <2>2. DOMAIN Append(q, x) = 1..(Len(q) + 1)
    BY <2>1, LenProperties
  <2>3. p \in 1..Len(q) \/ p = Len(q) + 1
    BY <1>1, <1>2, <2>2
  <2> QED  BY <1>1, <2>1, <2>3
<1>3. ASSUME q # <<>>
      PROVE  /\ Head(q) \in T /\ \E i \in DOMAIN q : Head(q) = q[i]
             /\ \A p \in DOMAIN Tail(q) : \E i \in DOMAIN q : Tail(q)[p] = q[i]
  <2>1. Head(q) \in T /\ Tail(q) \in Seq(T) /\ Len(Tail(q)) = Len(q) - 1 /\ Len(q) \in Nat \ {0}
        /\ (\A i \in 1..Len(Tail(q)) : Tail(q)[i] = q[i + 1]) /\ Head(q) = q[1]
    BY <1>3, HeadTailProperties, EmptySeq
  <2>2. DOMAIN Tail(q) = 1..(Len(q) - 1)
    BY <2>1, LenProperties
  <2>3. 1 \in DOMAIN q /\ \A i \in 1..(Len(q) - 1) : i + 1 \in DOMAIN q
    BY <1>1, <2>1
  <2>4. \A i \in 1..(Len(q) - 1) : Tail(q)[i] = q[i + 1]
    BY <2>1
  <2> QED  BY <2>1, <2>2, <2>3, <2>4
<1>4. ASSUME NEW n \in 0..Len(q), NEW p \in DOMAIN SubSeq(q, 1, n)
      PROVE  \E i \in DOMAIN q : SubSeq(q, 1, n)[p] = q[i]
  <2>1. n \in Nat
    BY <1>1
  <2>2. \A i \in 1..n : i \in 1..Len(q)
    BY <1>1, <2>1
  <2>3. SubSeq(q, 1, n) = [i \in 1..n |-> q[i]]
    <3>1. SubSeq(q, 1, n) = [i \in 1..((1 + n) - 1) |-> q[(i + 1) - 1]]
      BY <2>1
    <3>2. (1 + n) - 1 = n /\ \A i \in 1..n : (i + 1) - 1 = i
      BY <2>1
    <3> QED  BY <3>1, <3>2
  <2> QED  BY <1>1, <1>4, <2>2, <2>3
<1> QED  BY <1>2, <1>3, <1>4

\* One request handled: nothing changes, or the registry's word on its source does and every
\* peer is told.
LEMMA HandleAddressNews ==
    ASSUME TypeOK, UniqueKeys, NamedByUsers, NEW c \in Clients, HandleAddress(c),
           NEW k, k = Head(inbox[c]).key
    PROVE  /\ k \in Uses[c] /\ k \in Keys
           /\ \/ UNCHANGED <<entries, sends>>
              \/ \E m \in Message :
                    /\ m.key = k /\ k \in Uses[m.owner] /\ (m.removed <=> ~Known(k)')
                    /\ sends' = [sends EXCEPT ![c] = Broadcast(m, peers)]
                    /\ \A e \in entries' : e \in entries \/ e = [key |-> k, owner |-> c]
                    /\ \A l : l # k => (Known(l)' <=> Known(l))
<1>1. PICK r : r = Head(inbox[c])
  OBVIOUS
<1>2. inbox[c] \in Seq(Request) /\ inbox[c] # <<>>
  BY DEF TypeOK, HandleAddress
<1>3. r \in Request /\ \E i \in DOMAIN inbox[c] : r = inbox[c][i]
  BY <1>1, <1>2, SeqElements
<1>4. k = r.key /\ k \in Keys /\ k \in Uses[c]
  BY <1>1, <1>3 DEF NamedByUsers, Request
<1>5. entries \subseteq Entry
  BY DEF TypeOK
<1>6. CASE r.removed
  <2>1. RemoveEntry(c, k)
    BY <1>1, <1>4, <1>6 DEF HandleAddress
  <2>2. CASE ~UNCHANGED <<entries, sends>>
    <3>1. PICK e \in Existing(k) :
            /\ entries' = entries \ {e}
            /\ sends' = [sends EXCEPT ![c] =
                            Broadcast([key |-> k, owner |-> e.owner, removed |-> TRUE], peers)]
      BY <2>1, <2>2 DEF RemoveEntry
    <3>2. e \in entries /\ e.key = k /\ e.owner \in Clients
      BY <1>5 DEF Existing, Entry
    <3>3. PICK m : m = [key |-> k, owner |-> e.owner, removed |-> TRUE]
      OBVIOUS
    <3>4. m \in Message /\ m.key = k /\ m.removed = TRUE /\ m.owner = e.owner
      BY <1>4, <3>2, <3>3 DEF Message
    <3>5. k \in Uses[m.owner]
      BY <3>2, <3>4 DEF NamedByUsers
    <3>6. ~Known(k)'
      BY <3>1, <3>2 DEF Known, UniqueKeys
    <3>7. \A l : l # k => (Known(l)' <=> Known(l))
      BY <3>1, <3>2 DEF Known
    <3>8. sends' = [sends EXCEPT ![c] = Broadcast(m, peers)]
      BY <3>1, <3>3
    <3>9. \A x \in entries' : x \in entries
      BY <3>1
    <3> QED  BY <1>4, <3>4, <3>5, <3>6, <3>7, <3>8, <3>9
  <2> QED  BY <1>4, <2>2
<1>7. CASE ~r.removed
  <2>1. RegisterEntry(c, k)
    BY <1>1, <1>4, <1>7 DEF HandleAddress
  <2>2. CASE ~UNCHANGED <<entries, sends>>
    <3>1. /\ entries' = entries \cup {[key |-> k, owner |-> c]}
          /\ sends' = [sends EXCEPT ![c] =
                          Broadcast([key |-> k, owner |-> c, removed |-> FALSE], peers)]
      BY <2>1, <2>2 DEF RegisterEntry
    <3>3. PICK m : m = [key |-> k, owner |-> c, removed |-> FALSE]
      OBVIOUS
    <3>4. m \in Message /\ m.key = k /\ m.removed = FALSE /\ m.owner = c
      BY <1>4, <3>3 DEF Message
    <3>6. Known(k)'
      <4>1. PICK e : e = [key |-> k, owner |-> c]
        OBVIOUS
      <4>2. e \in entries' /\ e.key = k
        BY <3>1, <4>1
      <4> QED  BY <4>2 DEF Known
    <3>7. \A l : l # k => (Known(l)' <=> Known(l))
      BY <3>1 DEF Known
    <3>8. sends' = [sends EXCEPT ![c] = Broadcast(m, peers)]
      BY <3>1, <3>3
    <3>9. \A x \in entries' : x \in entries \/ x = [key |-> k, owner |-> c]
      BY <3>1
    <3> QED  BY <1>4, <3>4, <3>6, <3>7, <3>8, <3>9
  <2> QED  BY <1>4, <2>2
<1> QED  BY <1>6, <1>7

\* The members of a batch of writes.
LEMMA BatchFacts ==
    /\ \A m, ps, w : w \in Broadcast(m, ps) => w.msg = m /\ (w.dest \in ps \/ w.dest = Sink)
    /\ \A m, ps : \A d \in ps : [msg |-> m, dest |-> d] \in Broadcast(m, ps)
    /\ \A c, w : w \in SnapshotFor(c) => \E e \in entries :
          w = [msg |-> [key |-> e.key, owner |-> e.owner, removed |-> FALSE], dest |-> c]
    /\ \A c : \A e \in entries :
          [msg |-> [key |-> e.key, owner |-> e.owner, removed |-> FALSE], dest |-> c] \in SnapshotFor(c)
    /\ \A c, ps, w : w \in Removals(c, ps) => \E e \in entries : \E d \in ps \cup {Sink} :
          e.owner = c /\ w = [msg |-> [key |-> e.key, owner |-> c, removed |-> TRUE], dest |-> d]
    /\ \A c, ps : \A d \in ps : \A e \in entries : e.owner = c =>
          [msg |-> [key |-> e.key, owner |-> c, removed |-> TRUE], dest |-> d] \in Removals(c, ps)
<1>1. \A m, ps, w : w \in Broadcast(m, ps) => w.msg = m /\ (w.dest \in ps \/ w.dest = Sink)
  BY DEF Broadcast
<1>2. \A m, ps : \A d \in ps : [msg |-> m, dest |-> d] \in Broadcast(m, ps)
  BY DEF Broadcast
<1>3. \A c, w : w \in SnapshotFor(c) => \E e \in entries :
          w = [msg |-> [key |-> e.key, owner |-> e.owner, removed |-> FALSE], dest |-> c]
  BY DEF SnapshotFor
<1>4. \A c : \A e \in entries :
          [msg |-> [key |-> e.key, owner |-> e.owner, removed |-> FALSE], dest |-> c] \in SnapshotFor(c)
  BY DEF SnapshotFor
<1>5. \A c, ps, w : w \in Removals(c, ps) => \E e \in entries : \E d \in ps \cup {Sink} :
          e.owner = c /\ w = [msg |-> [key |-> e.key, owner |-> c, removed |-> TRUE], dest |-> d]
  BY DEF Removals, Owned, Broadcast
<1>6. ASSUME NEW c, NEW ps, NEW d \in ps, NEW e \in entries, e.owner = c
      PROVE  [msg |-> [key |-> e.key, owner |-> c, removed |-> TRUE], dest |-> d] \in Removals(c, ps)
  <2>1. e \in Owned(c) /\ d \in ps \cup {Sink}
    BY <1>6 DEF Owned
  <2>2. [msg |-> [key |-> e.key, owner |-> c, removed |-> TRUE], dest |-> d]
           \in Broadcast([key |-> e.key, owner |-> c, removed |-> TRUE], ps)
    BY <1>2
  <2> QED  BY <2>1, <2>2, Zenon DEF Removals
<1> QED  BY <1>1, <1>2, <1>3, <1>4, <1>5, <1>6

\* A step that writes, reads and registers nothing.
PlainStep ==
    /\ UNCHANGED <<sends, inbox, wire, view, stale, deaf>>
    /\ \/ UNCHANGED <<entries, peers>>
       \/ entries' = {} /\ peers' = {}
    /\ acceptor' = acceptor \/ acceptor # "snapshot" \/ sends[Acceptor] = {}
    /\ \A c \in Clients : /\ conn'[c] = "open" => conn[c] = "open"
                          /\ conn'[c] \in Unaccepted => conn[c] \in Unaccepted

LEMMA StepsOfClients ==
    ASSUME TypeOK, [Next]_vars
    PROVE  \/ PlainStep
           \/ \E c \in Clients : \/ HandleAddress(c) \/ DisconnectPeer(c) \/ AcceptPeer(c)
                                 \/ ClientReceive(c) \/ ClientDrop(c)
                                 \/ \E r \in Request : ClientRequest(c, r)
           \/ \E t \in Threads : \E w \in sends[t] :
                                    SendAddressTo(t, w) \/ SendFails(t, w) \/ Emit(t, w)
<1> USE DEF PlainStep, acceptVars, regVars, clientVars, Unaccepted, TypeOK
<1>1. HandleStart => PlainStep
  BY DEF HandleStart
<1>2. HandleStop => PlainStep
  BY DEF HandleStop
<1>3. ServeBegin => PlainStep
  BY DEF ServeBegin
<1>4. AcceptCheck \/ AcceptNothing \/ AcceptError => PlainStep
  BY DEF AcceptCheck, AcceptNothing, AcceptError
<1>5. ASSUME NEW c \in Clients PROVE AcceptPeerFails(c) => PlainStep
  BY DEF AcceptPeerFails
<1>6. SpawnPeer => PlainStep
  BY DEF SpawnPeer
<1>7. JoinPeers => PlainStep
  BY DEF JoinPeers
<1>8. ServeEnd => PlainStep
  BY DEF ServeEnd
<1>9. ASSUME NEW c \in Clients PROVE PeerCheck(c) \/ PeerTimeout(c) \/ PeerEof(c) => PlainStep
  BY DEF PeerCheck, PeerTimeout, PeerEof
<1>10. ASSUME NEW c \in Clients PROVE HandleDone(c) \/ PeerExit(c) => PlainStep
  BY DEF HandleDone, PeerExit
<1>11. ASSUME NEW c \in Clients PROVE ClientConnect(c) => PlainStep
  BY DEF ClientConnect
<1>12. ASSUME NEW c \in Clients PROVE ClientEof(c) => PlainStep
  BY DEF ClientEof
<1>13. UNCHANGED vars => PlainStep
  BY DEF vars
<1> HIDE DEF PlainStep, acceptVars, regVars, clientVars, Unaccepted, TypeOK
<1> QED  BY <1>1, <1>2, <1>3, <1>4, <1>5, <1>6, <1>7, <1>8, <1>9, <1>10, <1>11, <1>12, <1>13
         DEF Next, AcceptStep, PeerStep, ClientStep, WriteStep

\* The writes of a batch name users.
LEMMA SendsAfter ==
    ASSUME TypeOK, NEW t \in Threads, NEW B, sends' = [sends EXCEPT ![t] = B]
    PROVE  sends'[t] = B /\ \A x \in Threads : x # t => sends'[x] = sends[x]
BY DEF TypeOK

LEMMA NamedStep ==
    ASSUME IInv, NamedByUsers, [Next]_vars
    PROVE  NamedByUsers'
<1>1. TypeOK /\ UniqueKeys
  BY DEF IInv
<1>2. Clients \subseteq Threads /\ Acceptor \in Threads /\ Acceptor \notin Clients
  BY IdentityAssumption DEF Threads
<1>3. CASE PlainStep
  BY <1>3 DEF PlainStep, NamedByUsers
<1>4. ASSUME NEW c \in Clients, HandleAddress(c) PROVE NamedByUsers'
  <2>1. PICK k : k = Head(inbox[c]).key
    OBVIOUS
  <2>2. UNCHANGED <<wire, view>> /\ inbox' = [inbox EXCEPT ![c] = Tail(@)] /\ inbox[c] # <<>>
    BY <1>4 DEF HandleAddress
  <2>3. \A d \in Clients : \A p \in DOMAIN inbox'[d] : inbox'[d][p].key \in Uses[d]
    <3>1. inbox[c] \in Seq(Request) /\ inbox'[c] = Tail(inbox[c]) /\ \A d \in Clients : d # c => inbox'[d] = inbox[d]
      BY <1>1, <2>2 DEF TypeOK
    <3>2. \A p \in DOMAIN Tail(inbox[c]) : \E i \in DOMAIN inbox[c] : Tail(inbox[c])[p] = inbox[c][i]
      BY <2>2, <3>1, SeqElements
    <3>3. \A p \in DOMAIN inbox[c] : inbox[c][p].key \in Uses[c]
      BY DEF NamedByUsers
    <3>4. \A p \in DOMAIN inbox'[c] : inbox'[c][p].key \in Uses[c]
      BY <3>1, <3>2, <3>3
    <3> QED  BY <3>1, <3>4 DEF NamedByUsers
  <2>4. CASE UNCHANGED <<entries, sends>>
    BY <2>2, <2>3, <2>4 DEF NamedByUsers
  <2>5. ASSUME NEW m \in Message, m.key = k, k \in Uses[m.owner],
               sends' = [sends EXCEPT ![c] = Broadcast(m, peers)],
               \A e \in entries' : e \in entries \/ e = [key |-> k, owner |-> c],
               k \in Uses[c]
        PROVE  NamedByUsers'
    <3>1. sends'[c] = Broadcast(m, peers) /\ \A x \in Threads : x # c => sends'[x] = sends[x]
      BY <1>1, <1>2, <2>5, SendsAfter
    <3>2. \A w \in sends'[c] : w.msg = m
      BY <3>1, BatchFacts
    <3>3. \A t \in Clients : \A w \in sends'[t] : w.msg.key \in Uses[t]
      BY <1>2, <2>5, <3>1, <3>2 DEF NamedByUsers
    <3>4. \A t \in Threads : \A w \in sends'[t] : w.msg.key \in Uses[w.msg.owner]
      BY <1>2, <2>5, <3>1, <3>2 DEF NamedByUsers
    <3>5. \A e \in entries' : e.key \in Uses[e.owner]
      BY <2>5 DEF NamedByUsers
    <3> QED  BY <2>2, <2>3, <3>3, <3>4, <3>5 DEF NamedByUsers
  <2> QED  BY <1>1, <1>4, <2>1, <2>4, <2>5, HandleAddressNews
<1>5. ASSUME NEW c \in Clients, DisconnectPeer(c) PROVE NamedByUsers'
  <2>1. /\ UNCHANGED <<wire, view, inbox>> /\ entries' \subseteq entries
        /\ sends' = [sends EXCEPT ![c] = Removals(c, peers')]
    BY <1>5 DEF DisconnectPeer, clientVars
  <2>2. PICK B : B = Removals(c, peers')
    OBVIOUS
  <2>3. sends'[c] = B /\ \A x \in Threads : x # c => sends'[x] = sends[x]
    BY <1>1, <1>2, <2>1, <2>2, SendsAfter
  <2>4. ASSUME NEW w \in B PROVE w.msg.key \in Uses[c] /\ w.msg.owner = c
    <3>1. PICK e \in entries, d \in peers' \cup {Sink} :
             e.owner = c /\ w = [msg |-> [key |-> e.key, owner |-> c, removed |-> TRUE], dest |-> d]
      BY <2>2, <2>4, BatchFacts
    <3>2. w.msg.key = e.key /\ w.msg.owner = c
      BY <3>1
    <3> QED  BY <3>1, <3>2 DEF NamedByUsers
  <2>5. \A t \in Clients : \A w \in sends'[t] : w.msg.key \in Uses[t]
    BY <1>2, <2>3, <2>4 DEF NamedByUsers
  <2>6. \A t \in Threads : \A w \in sends'[t] : w.msg.key \in Uses[w.msg.owner]
    BY <1>2, <2>3, <2>4 DEF NamedByUsers
  <2> QED  BY <2>1, <2>5, <2>6 DEF NamedByUsers
<1>6. ASSUME NEW c \in Clients, AcceptPeer(c) PROVE NamedByUsers'
  <2>1. /\ UNCHANGED <<wire, view, inbox, entries>>
        /\ sends' = [sends EXCEPT ![Acceptor] = SnapshotFor(c)]
    BY <1>6 DEF AcceptPeer
  <2>2. sends'[Acceptor] = SnapshotFor(c) /\ \A x \in Threads : x # Acceptor => sends'[x] = sends[x]
    BY <1>1, <1>2, <2>1, SendsAfter
  <2>3. ASSUME NEW w \in SnapshotFor(c) PROVE w.msg.key \in Uses[w.msg.owner]
    <3>1. PICK e \in entries :
             w = [msg |-> [key |-> e.key, owner |-> e.owner, removed |-> FALSE], dest |-> c]
      BY <2>3, BatchFacts
    <3>2. w.msg.key = e.key /\ w.msg.owner = e.owner
      BY <3>1
    <3> QED  BY <3>1, <3>2 DEF NamedByUsers
  <2>4. \A t \in Clients : \A w \in sends'[t] : w.msg.key \in Uses[t]
    BY <1>2, <2>2 DEF NamedByUsers
  <2>5. \A t \in Threads : \A w \in sends'[t] : w.msg.key \in Uses[w.msg.owner]
    BY <1>2, <2>2, <2>3 DEF NamedByUsers
  <2> QED  BY <2>1, <2>4, <2>5 DEF NamedByUsers
<1>7. ASSUME NEW c \in Clients, ClientReceive(c) PROVE NamedByUsers'
  <2>1. PICK m : m = Head(wire[c])
    OBVIOUS
  <2>2. /\ UNCHANGED <<sends, inbox, entries>> /\ wire[c] # <<>> /\ wire' = [wire EXCEPT ![c] = Tail(@)]
        /\ view' = [view EXCEPT ![c] = IF m.removed THEN {a \in view[c] : a.key # m.key}
                        ELSE {a \in view[c] : a.key # m.key} \cup {[key |-> m.key, owner |-> m.owner]}]
    BY <1>7, <2>1 DEF ClientReceive, acceptVars, regVars
  <2>3. wire[c] \in Seq(Message) /\ wire'[c] = Tail(wire[c]) /\ \A d \in Clients : d # c => wire'[d] = wire[d]
    BY <1>1, <2>2 DEF TypeOK
  <2>4. /\ \E i \in DOMAIN wire[c] : m = wire[c][i]
        /\ \A p \in DOMAIN Tail(wire[c]) : \E i \in DOMAIN wire[c] : Tail(wire[c])[p] = wire[c][i]
    BY <2>1, <2>2, <2>3, SeqElements
  <2>5. m.key \in Uses[m.owner]
    BY <2>4 DEF NamedByUsers
  <2>6. \A d \in Clients : \A p \in DOMAIN wire'[d] : wire'[d][p].key \in Uses[wire'[d][p].owner]
    <3>1. \A p \in DOMAIN wire[c] : wire[c][p].key \in Uses[wire[c][p].owner]
      BY DEF NamedByUsers
    <3>2. \A p \in DOMAIN wire'[c] : wire'[c][p].key \in Uses[wire'[c][p].owner]
      BY <2>3, <2>4, <3>1
    <3> QED  BY <2>3, <3>2 DEF NamedByUsers
  <2>7. \A d \in Clients : \A a \in view'[d] : a.key \in Uses[a.owner]
    <3>1. \A d \in Clients : d # c => view'[d] = view[d]
      BY <1>1, <2>2 DEF TypeOK
    <3>2. \A a \in view'[c] : a \in view[c] \/ a = [key |-> m.key, owner |-> m.owner]
      BY <1>1, <2>2 DEF TypeOK
    <3> QED  BY <2>5, <3>1, <3>2 DEF NamedByUsers
  <2> QED  BY <2>2, <2>6, <2>7 DEF NamedByUsers
<1>8. ASSUME NEW c \in Clients, ClientDrop(c) PROVE NamedByUsers'
  <2>1. PICK n \in 0..Len(inbox[c]) : inbox' = [inbox EXCEPT ![c] = SubSeq(@, 1, n)]
    BY <1>8 DEF ClientDrop
  <2>2. /\ UNCHANGED <<sends, entries>> /\ wire' = [wire EXCEPT ![c] = <<>>]
        /\ view' = [view EXCEPT ![c] = {}]
    BY <1>8 DEF ClientDrop, regVars
  <2>3. inbox[c] \in Seq(Request) /\ inbox'[c] = SubSeq(inbox[c], 1, n) /\ \A d \in Clients : d # c => inbox'[d] = inbox[d]
    BY <1>1, <2>1 DEF TypeOK
  <2>4. \A p \in DOMAIN SubSeq(inbox[c], 1, n) : \E i \in DOMAIN inbox[c] : SubSeq(inbox[c], 1, n)[p] = inbox[c][i]
    BY <2>1, <2>3, SeqElements
  <2>5. \A d \in Clients : \A p \in DOMAIN inbox'[d] : inbox'[d][p].key \in Uses[d]
    BY <2>3, <2>4 DEF NamedByUsers
  <2>6. \A d \in Clients : (d # c => wire'[d] = wire[d] /\ view'[d] = view[d]) /\ wire'[c] = <<>> /\ view'[c] = {}
    BY <1>1, <2>2 DEF TypeOK
  <2>7. DOMAIN <<>> = {}
    OBVIOUS
  <2> QED  BY <2>2, <2>5, <2>6, <2>7 DEF NamedByUsers
<1>9. ASSUME NEW c \in Clients, NEW r \in Request, ClientRequest(c, r) PROVE NamedByUsers'
  <2>1. /\ UNCHANGED <<sends, entries, wire, view>> /\ r.key \in Uses[c]
        /\ inbox' = [inbox EXCEPT ![c] = Append(@, r)]
    BY <1>9 DEF ClientRequest, regVars
  <2>2. inbox[c] \in Seq(Request) /\ inbox'[c] = Append(inbox[c], r) /\ \A d \in Clients : d # c => inbox'[d] = inbox[d]
    BY <1>1, <2>1 DEF TypeOK
  <2>3. \A p \in DOMAIN Append(inbox[c], r) :
           Append(inbox[c], r)[p] = r \/ \E i \in DOMAIN inbox[c] : Append(inbox[c], r)[p] = inbox[c][i]
    BY <2>2, SeqElements
  <2>4. \A d \in Clients : \A p \in DOMAIN inbox'[d] : inbox'[d][p].key \in Uses[d]
    BY <2>1, <2>2, <2>3 DEF NamedByUsers
  <2> QED  BY <2>1, <2>4 DEF NamedByUsers
<1>10. ASSUME NEW t \in Threads, NEW w \in sends[t],
              SendAddressTo(t, w) \/ SendFails(t, w) \/ Emit(t, w)
       PROVE  NamedByUsers'
  <2>1. UNCHANGED <<inbox, entries, view>> /\ sends' = [sends EXCEPT ![t] = @ \ {w}]
    BY <1>10 DEF SendAddressTo, SendFails, Emit, regVars, clientVars
  <2>2. \A x \in Threads : sends'[x] \subseteq sends[x]
    BY <1>1, <2>1 DEF TypeOK
  <2>3. w.msg.key \in Uses[w.msg.owner] /\ w.msg \in Message
    BY <1>1 DEF NamedByUsers, TypeOK, Write
  <2>4. ASSUME NEW d \in Clients, NEW p \in DOMAIN wire'[d] PROVE wire'[d][p].key \in Uses[wire'[d][p].owner]
    <3>1. wire[d] \in Seq(Message) /\ (wire'[d] = wire[d] \/ wire'[d] = Append(wire[d], w.msg))
      BY <1>1, <1>10 DEF SendAddressTo, SendFails, Emit, TypeOK
    <3>2. \A q \in DOMAIN Append(wire[d], w.msg) :
             Append(wire[d], w.msg)[q] = w.msg \/ \E i \in DOMAIN wire[d] : Append(wire[d], w.msg)[q] = wire[d][i]
      BY <2>3, <3>1, SeqElements
    <3>3. wire'[d][p] = w.msg \/ \E i \in DOMAIN wire[d] : wire'[d][p] = wire[d][i]
      BY <2>4, <3>1, <3>2
    <3> QED  BY <2>3, <3>3 DEF NamedByUsers
  <2>5. \A x \in Clients : \A y \in sends'[x] : y.msg.key \in Uses[x]
    BY <1>2, <2>2 DEF NamedByUsers
  <2>6. \A x \in Threads : \A y \in sends'[x] : y.msg.key \in Uses[y.msg.owner]
    BY <2>2 DEF NamedByUsers
  <2> QED  BY <2>1, <2>4, <2>5, <2>6 DEF NamedByUsers
<1> QED  BY <1>1, <1>3, <1>4, <1>5, <1>6, <1>7, <1>8, <1>9, <1>10, StepsOfClients

LEMMA PeersAccepted ==
    ASSUME IInv, NEW c \in peers
    PROVE  c \in Clients /\ c # Sink /\ conn[c] \notin Unaccepted
<1>1. c \in Clients /\ c # Sink
  BY IdentityAssumption DEF IInv, TypeOK
<1>2. CASE thread[c] \in Serving
  BY <1>1, <1>2 DEF IInv, UnacceptedHaveNoThread, Serving, Unaccepted
<1>3. CASE acceptor = "snapshot" /\ newPeer = c
  BY <1>1, <1>3 DEF IInv, NewPeerFresh, Unaccepted
<1> QED  BY <1>1, <1>2, <1>3 DEF IInv, PeersHaveThread

LEMMA SnapshotStep ==
    ASSUME IInv, NamedByUsers, SnapshotsOnly, [Next]_vars
    PROVE  SnapshotsOnly'
<1>1. TypeOK /\ UniqueKeys
  BY DEF IInv
<1>2. Clients \subseteq Threads /\ Acceptor \in Threads /\ Acceptor \notin Clients /\ Sink \notin Clients
  BY IdentityAssumption DEF Threads
<1>3. CASE PlainStep
  BY <1>3 DEF PlainStep, SnapshotsOnly
<1>b. ASSUME NEW c \in Clients, UNCHANGED <<acceptor, wire, view, conn>>,
             NEW B, sends' = [sends EXCEPT ![c] = B], \A w \in B : w.dest \in peers \/ w.dest = Sink
      PROVE  SnapshotsOnly'
  <2>1. sends'[c] = B /\ \A x \in Threads : x # c => sends'[x] = sends[x]
    BY <1>1, <1>2, <1>b, SendsAfter
  <2>2. \A d \in Clients : conn[d] \in Unaccepted => \A w \in B : w.dest # d
    BY <1>2, <1>b, PeersAccepted
  <2>3. sends'[Acceptor] = sends[Acceptor]
    BY <1>2, <2>1
  <2>4. \A d \in Clients : conn[d] \in Unaccepted => \A t \in Threads : \A w \in sends'[t] : w.dest # d
    BY <2>1, <2>2 DEF SnapshotsOnly
  <2> QED  BY <1>b, <2>3, <2>4 DEF SnapshotsOnly
<1>4. ASSUME NEW c \in Clients, HandleAddress(c) PROVE SnapshotsOnly'
  <2>1. PICK k : k = Head(inbox[c]).key
    OBVIOUS
  <2>2. UNCHANGED <<wire, view, acceptor, conn>>
    BY <1>4 DEF HandleAddress, acceptVars
  <2>4. CASE UNCHANGED <<entries, sends>>
    BY <2>2, <2>4 DEF SnapshotsOnly
  <2>5. ASSUME NEW m \in Message, sends' = [sends EXCEPT ![c] = Broadcast(m, peers)]
        PROVE  SnapshotsOnly'
    <3>1. \A w \in Broadcast(m, peers) : w.dest \in peers \/ w.dest = Sink
      BY BatchFacts
    <3> QED  BY <1>b, <2>2, <2>5, <3>1
  <2> QED  BY <1>1, <1>4, <2>1, <2>4, <2>5, HandleAddressNews
<1>5. ASSUME NEW c \in Clients, DisconnectPeer(c) PROVE SnapshotsOnly'
  <2>1. /\ UNCHANGED <<wire, view, acceptor, conn>> /\ peers' \subseteq peers
        /\ sends' = [sends EXCEPT ![c] = Removals(c, peers')]
    BY <1>5 DEF DisconnectPeer, clientVars, acceptVars
  <2>2. PICK B : B = Removals(c, peers')
    OBVIOUS
  <2>3. ASSUME NEW w \in B PROVE w.dest \in peers \/ w.dest = Sink
    <3>1. PICK e \in entries, d \in peers' \cup {Sink} :
             e.owner = c /\ w = [msg |-> [key |-> e.key, owner |-> c, removed |-> TRUE], dest |-> d]
      BY <2>2, <2>3, BatchFacts
    <3> QED  BY <2>1, <3>1
  <2> QED  BY <1>b, <2>1, <2>2, <2>3
<1>6. ASSUME NEW c \in Clients, AcceptPeer(c) PROVE SnapshotsOnly'
  <2>1. /\ UNCHANGED <<wire, view>> /\ acceptor' = "snapshot"
        /\ sends' = [sends EXCEPT ![Acceptor] = SnapshotFor(c)]
    BY <1>6 DEF AcceptPeer
  <2>2. conn'[c] \notin Unaccepted /\ \A d \in Clients : d # c => conn'[d] = conn[d]
    BY <1>1, <1>6 DEF AcceptPeer, TypeOK, Unaccepted
  <2>3. sends'[Acceptor] = SnapshotFor(c) /\ \A x \in Threads : x # Acceptor => sends'[x] = sends[x]
    BY <1>1, <1>2, <2>1, SendsAfter
  <2>4. ASSUME NEW w \in SnapshotFor(c) PROVE ~w.msg.removed /\ w.dest = c
    <3>1. PICK e \in entries :
             w = [msg |-> [key |-> e.key, owner |-> e.owner, removed |-> FALSE], dest |-> c]
      BY <2>4, BatchFacts
    <3> QED  BY <3>1
  <2>5. \A d \in Clients : conn'[d] \in Unaccepted => \A t \in Threads : \A w \in sends'[t] : w.dest # d
    BY <2>2, <2>3, <2>4 DEF SnapshotsOnly
  <2> QED  BY <2>1, <2>2, <2>3, <2>4, <2>5 DEF SnapshotsOnly
<1>7. ASSUME NEW c \in Clients, ClientReceive(c) PROVE SnapshotsOnly'
  <2>1. /\ UNCHANGED <<sends, acceptor, conn>> /\ conn[c] = "open"
        /\ \A d \in Clients : d # c => wire'[d] = wire[d] /\ view'[d] = view[d]
    BY <1>1, <1>7 DEF ClientReceive, acceptVars, TypeOK
  <2> QED  BY <2>1 DEF SnapshotsOnly, Unaccepted
<1>8. ASSUME NEW c \in Clients, ClientDrop(c) PROVE SnapshotsOnly'
  <2>1. /\ UNCHANGED <<sends, acceptor>> /\ wire'[c] = <<>> /\ view'[c] = {}
        /\ conn'[c] \in Unaccepted => conn[c] \in Unaccepted
        /\ \A d \in Clients : d # c => wire'[d] = wire[d] /\ view'[d] = view[d] /\ conn'[d] = conn[d]
    BY <1>1, <1>8 DEF ClientDrop, acceptVars, TypeOK, Unaccepted
  <2> QED  BY <2>1 DEF SnapshotsOnly
<1>9. ASSUME NEW c \in Clients, NEW r \in Request, ClientRequest(c, r) PROVE SnapshotsOnly'
  BY <1>9 DEF ClientRequest, acceptVars, SnapshotsOnly
<1>10. ASSUME NEW t \in Threads, NEW w \in sends[t],
              SendAddressTo(t, w) \/ SendFails(t, w) \/ Emit(t, w)
       PROVE  SnapshotsOnly'
  <2>1. UNCHANGED <<acceptor, view, conn>> /\ sends' = [sends EXCEPT ![t] = @ \ {w}]
    BY <1>10 DEF SendAddressTo, SendFails, Emit, acceptVars, clientVars
  <2>2. \A x \in Threads : sends'[x] \subseteq sends[x]
    BY <1>1, <2>1 DEF TypeOK
  <2>3. \A d \in Clients : conn[d] \in Unaccepted => wire'[d] = wire[d]
    BY <1>1, <1>10 DEF SendAddressTo, SendFails, Emit, TypeOK, Unaccepted
  <2>4. sends'[Acceptor] # {} => sends[Acceptor] # {}
    BY <1>2, <2>2
  <2>5. \A y \in sends'[Acceptor] : y \in sends[Acceptor]
    BY <1>2, <2>2
  <2>6. \A d \in Clients : conn'[d] \in Unaccepted => \A x \in Threads : \A y \in sends'[x] : y.dest # d
    BY <2>1, <2>2 DEF SnapshotsOnly
  <2> QED  BY <2>1, <2>3, <2>4, <2>5, <2>6 DEF SnapshotsOnly
<1> QED  BY <1>1, <1>3, <1>4, <1>5, <1>6, <1>7, <1>8, <1>9, <1>10, StepsOfClients

\* A peer thread leaves the mutex with a batch about k: the registry has changed to what it says.
LEMMA ToldByBatch ==
    ASSUME TypeOK, NEW c \in Clients, NEW k \in Keys, NEW u \in Clients, Private(k),
           NamedByUsers, k \in Uses[u], NEW B, sends' = [sends EXCEPT ![u] = B],
           \A w \in B : w.dest = c /\ w.msg.key = k => (w.msg.removed <=> ~Known(k)'),
           c \in peers' => \E w \in B : w.dest = c /\ w.msg.key = k
    PROVE  Told(c, k)'
<1>1. u \in Threads /\ Clients \subseteq Threads
  BY DEF Threads
<1>2. sends'[u] = B /\ \A x \in Threads : x # u => sends'[x] = sends[x]
  BY <1>1, SendsAfter
<1>3. ASSUME NEW t \in Clients, NEW w \in sends'[t], w.dest = c, w.msg.key = k
      PROVE  w.msg.removed <=> ~Known(k)'
  <2>1. CASE t = u
    BY <1>2, <1>3, <2>1
  <2>2. CASE t # u
    <3>1. w \in sends[t]
      BY <1>1, <1>2, <1>3, <2>2
    <3>2. k \in Uses[t]
      BY <1>3, <3>1 DEF NamedByUsers
    <3> QED  BY <2>2, <3>2, OneUser
  <2> QED  BY <2>1, <2>2
<1>4. c \in peers' => Owes(u, c, k)'
  BY <1>2 DEF Owes
<1> QED  BY <1>3, <1>4 DEF Told

LEMMA ToldStep ==
    ASSUME IInv, NamedByUsers, SnapshotsOnly, AllTold, [Next]_vars, NEW c \in Clients, NEW k \in Keys
    PROVE  Told(c, k)'
<1>1. TypeOK /\ UniqueKeys /\ Told(c, k)
  BY DEF IInv, AllTold
<1>2. Clients \subseteq Threads /\ Acceptor \in Threads /\ Acceptor \notin Clients /\ Sink \notin Clients
  BY IdentityAssumption DEF Threads
<1>3. CASE PlainStep
  <2>1. CASE UNCHANGED <<entries, peers>>
    <3>1. Known(k)' <=> Known(k)
      BY <2>1 DEF Known
    <3> QED  BY <1>1, <1>3, <2>1, <3>1, ToldFrame DEF PlainStep
  <2>2. CASE peers' = {}
    BY <2>2 DEF Told
  <2> QED  BY <1>3, <2>1, <2>2 DEF PlainStep
<1>4. ASSUME NEW d \in Clients, HandleAddress(d) PROVE Told(c, k)'
  <2>1. PICK l : l = Head(inbox[d]).key
    OBVIOUS
  <2>2. UNCHANGED <<wire, view, conn, peers, stale, deaf>> /\ thread[d] = "recv"
    BY <1>4 DEF HandleAddress
  <2>3. sends[d] = {}
    BY <2>2 DEF IInv, WritersAreBusy
  <2>4. CASE UNCHANGED <<entries, sends>>
    <3>1. Known(k)' <=> Known(k)
      BY <2>4 DEF Known
    <3> QED  BY <1>1, <2>2, <2>4, <3>1, ToldFrame
  <2>5. ASSUME l \in Uses[d], NEW m \in Message, m.key = l, l \in Uses[m.owner], m.removed <=> ~Known(l)',
               sends' = [sends EXCEPT ![d] = Broadcast(m, peers)],
               \A j : j # l => (Known(j)' <=> Known(j))
        PROVE  Told(c, k)'
    <3>1. CASE k # l
      <4>1. sends'[d] = Broadcast(m, peers) /\ \A x \in Threads : x # d => sends'[x] = sends[x]
        BY <1>1, <1>2, <2>5, SendsAfter
      <4>2. \A w \in Broadcast(m, peers) : w.msg.key # k
        BY <2>5, <3>1, BatchFacts
      <4>3. \A t \in Threads : \A w : w.dest = c /\ w.msg.key = k => (w \in sends'[t] <=> w \in sends[t])
        BY <2>3, <4>1, <4>2
      <4>4. Known(k)' <=> Known(k)
        BY <2>5, <3>1
      <4> QED  BY <1>1, <2>2, <4>3, <4>4, ToldFrame
    <3>2. CASE k = l /\ Private(k)
      <4>1. PICK B : B = Broadcast(m, peers)
        OBVIOUS
      <4>2. \A w \in B : w.dest = c /\ w.msg.key = k => (w.msg.removed <=> ~Known(k)')
        BY <2>5, <3>2, <4>1, BatchFacts
      <4>3. c \in peers' => \E w \in B : w.dest = c /\ w.msg.key = k
        <5>1. PICK w : w = [msg |-> m, dest |-> c]
          OBVIOUS
        <5>2. w.dest = c /\ w.msg.key = k
          BY <2>5, <3>2, <5>1
        <5>3. c \in peers' => w \in B
          BY <2>2, <4>1, <5>1, BatchFacts
        <5> QED  BY <5>2, <5>3
      <4>4. k \in Uses[d] /\ sends' = [sends EXCEPT ![d] = B] /\ Private(k)
        BY <2>5, <3>2, <4>1
      <4> QED  BY <1>1, <4>2, <4>3, <4>4, ToldByBatch
    <3>3. CASE ~Private(k)
      BY <3>3 DEF Told, Private
    <3> QED  BY <3>1, <3>2, <3>3
  <2> QED  BY <1>1, <1>4, <2>1, <2>4, <2>5, HandleAddressNews
<1>5. ASSUME NEW d \in Clients, DisconnectPeer(d) PROVE Told(c, k)'
  <2>1. /\ UNCHANGED <<wire, view, conn, stale, deaf>> /\ peers' = peers \ {d} /\ thread[d] = "closing"
        /\ sends' = [sends EXCEPT ![d] = Removals(d, peers')]
        /\ \A e : e \in entries' <=> e \in entries /\ e.owner # d
    BY <1>5 DEF DisconnectPeer, clientVars, Owned
  <2>2. PICK B : B = Removals(d, peers')
    OBVIOUS
  <2>3. sends[d] = {}
    BY <2>1 DEF IInv, WritersAreBusy
  <2>4. ASSUME NEW w \in B
        PROVE  \E e \in entries : e.owner = d /\ e.key = w.msg.key /\ w.msg.removed = TRUE
    <3>1. PICK e \in entries, x \in peers' \cup {Sink} :
             e.owner = d /\ w = [msg |-> [key |-> e.key, owner |-> d, removed |-> TRUE], dest |-> x]
      BY <2>2, <2>4, BatchFacts
    <3>2. w.msg.key = e.key /\ w.msg.removed = TRUE
      BY <3>1
    <3> QED  BY <3>1, <3>2
  <2>5. CASE \E e \in entries : e.key = k /\ e.owner = d
    <3>1. PICK e \in entries : e.key = k /\ e.owner = d
      BY <2>5
    <3>2. ~Known(k)'
      BY <1>1, <2>1, <3>1 DEF Known, UniqueKeys
    <3>3. k \in Uses[d]
      BY <3>1 DEF NamedByUsers
    <3>4. \A w \in B : w.dest = c /\ w.msg.key = k => (w.msg.removed <=> ~Known(k)')
      BY <2>4, <3>2
    <3>5. c \in peers' => \E w \in B : w.dest = c /\ w.msg.key = k
      <4>1. PICK w : w = [msg |-> [key |-> k, owner |-> d, removed |-> TRUE], dest |-> c]
        OBVIOUS
      <4>2. w.dest = c /\ w.msg.key = k
        BY <4>1
      <4>3. ASSUME c \in peers' PROVE w \in B
        <5>1. PICK ps : ps = peers'
          OBVIOUS
        <5>2. [msg |-> [key |-> e.key, owner |-> d, removed |-> TRUE], dest |-> c] \in Removals(d, ps)
          BY <3>1, <4>3, <5>1, BatchFacts
        <5> QED  BY <2>2, <3>1, <4>1, <5>1, <5>2
      <4> QED  BY <4>2, <4>3
    <3>6. CASE Private(k)
      BY <1>1, <2>1, <2>2, <3>3, <3>4, <3>5, <3>6, ToldByBatch
    <3>7. CASE ~Private(k)
      BY <3>7 DEF Told, Private
    <3> QED  BY <3>6, <3>7
  <2>6. CASE ~\E e \in entries : e.key = k /\ e.owner = d
    <3>1. Known(k)' <=> Known(k)
      BY <2>1, <2>6 DEF Known
    <3>2. sends'[d] = B /\ \A x \in Threads : x # d => sends'[x] = sends[x]
      BY <1>1, <1>2, <2>1, <2>2, SendsAfter
    <3>3. \A w \in B : w.msg.key # k
      BY <2>4, <2>6
    <3>4. \A t \in Threads : \A w : w.dest = c /\ w.msg.key = k => (w \in sends'[t] <=> w \in sends[t])
      BY <2>3, <3>2, <3>3
    <3>5. conn'[c] = "open" /\ c \in peers' => conn[c] = "open" /\ c \in peers
      BY <2>1
    <3>6. stale \subseteq stale' /\ deaf \subseteq deaf' /\ wire'[c] = wire[c] /\ view'[c] = view[c]
      BY <2>1
    <3> QED  BY <1>1, <3>1, <3>4, <3>5, <3>6, ToldFrame
  <2> QED  BY <2>5, <2>6
<1>6. ASSUME NEW d \in Clients, AcceptPeer(d) PROVE Told(c, k)'
  <2>1. /\ UNCHANGED <<wire, view, entries, stale, deaf>> /\ acceptor = "accept" /\ peers' = peers \cup {d}
        /\ sends' = [sends EXCEPT ![Acceptor] = SnapshotFor(d)]
        /\ conn[d] \in Unaccepted /\ \A x \in Clients : x # d => conn'[x] = conn[x]
    BY <1>1, <1>6 DEF AcceptPeer, Unaccepted, TypeOK
  <2>2. sends'[Acceptor] = SnapshotFor(d) /\ \A x \in Threads : x # Acceptor => sends'[x] = sends[x]
    BY <1>1, <1>2, <2>1, SendsAfter
  <2>3. sends[Acceptor] = {}
    BY <2>1 DEF SnapshotsOnly
  <2>4. Known(k)' <=> Known(k)
    BY <2>1 DEF Known
  <2>5. CASE c # d
    <3>1. \A w \in SnapshotFor(d) : w.dest = d
      <4> TAKE w \in SnapshotFor(d)
      <4>1. PICK e \in entries :
             w = [msg |-> [key |-> e.key, owner |-> e.owner, removed |-> FALSE], dest |-> d]
        BY BatchFacts
      <4> QED  BY <4>1
    <3>2. \A t \in Threads : \A w : w.dest = c /\ w.msg.key = k => (w \in sends'[t] <=> w \in sends[t])
      BY <2>2, <2>3, <2>5, <3>1
    <3>3. conn'[c] = "open" /\ c \in peers' => conn[c] = "open" /\ c \in peers
      BY <2>1, <2>5
    <3> QED  BY <1>1, <2>1, <2>4, <3>2, <3>3, ToldFrame
  <2>6. CASE c = d
    <3>1. wire'[c] = <<>> /\ view'[c] = {} /\ \A t \in Threads : \A w \in sends[t] : w.dest # c
      BY <2>1, <2>6 DEF SnapshotsOnly
    <3>2. \A t \in Clients : \A w \in sends'[t] : w.dest # c
      BY <1>2, <2>2, <3>1
    <3>3. CASE Known(k)
      <4>1. PICK e \in entries : e.key = k
        BY <3>3 DEF Known
      <4>2. PICK w : w = [msg |-> [key |-> e.key, owner |-> e.owner, removed |-> FALSE], dest |-> c]
        OBVIOUS
      <4>3. w \in SnapshotFor(d) /\ w.dest = c /\ w.msg.key = k
        BY <2>6, <4>1, <4>2, BatchFacts
      <4>4. Owes(Acceptor, c, k)'
        BY <2>2, <4>3 DEF Owes
      <4> QED  BY <2>4, <3>2, <3>3, <4>4 DEF Told
    <3>4. CASE ~Known(k)
      <4>1. DOMAIN <<>> = {}
        OBVIOUS
      <4>2. EndsWith(wire[c], view[c], k, Known(k))'
        BY <2>4, <3>1, <3>4, <4>1 DEF EndsWith
      <4> QED  BY <3>2, <4>2 DEF Told
    <3> QED  BY <3>3, <3>4
  <2> QED  BY <2>5, <2>6
<1>7. ASSUME NEW d \in Clients, ClientReceive(d) PROVE Told(c, k)'
  <2>1. PICK m : m = Head(wire[d])
    OBVIOUS
  <2>2. /\ UNCHANGED <<sends, conn, entries, peers, stale, deaf>> /\ wire[d] # <<>>
        /\ wire' = [wire EXCEPT ![d] = Tail(@)]
        /\ view' = [view EXCEPT ![d] = IF m.removed THEN {a \in view[d] : a.key # m.key}
                        ELSE {a \in view[d] : a.key # m.key} \cup {[key |-> m.key, owner |-> m.owner]}]
    BY <1>7, <2>1 DEF ClientReceive, acceptVars, regVars
  <2>3. Known(k)' <=> Known(k)
    BY <2>2 DEF Known
  <2>4. CASE c # d
    <3>1. wire'[c] = wire[c] /\ view'[c] = view[c]
      BY <1>1, <2>2, <2>4 DEF TypeOK
    <3> QED  BY <1>1, <2>2, <2>3, <3>1, ToldFrame
  <2>5. CASE c = d
    <3>1. wire[c] \in Seq(Message) /\ wire'[c] = Tail(wire[c]) /\ wire[c] # <<>>
      BY <1>1, <2>2, <2>5 DEF TypeOK
    <3>2. \A a : a \in view'[c] <=>
                    (a \in view[c] /\ a.key # m.key) \/ (~m.removed /\ a = [key |-> m.key, owner |-> m.owner])
      <4>1. view \in [Clients -> SUBSET Entry]
        BY <1>1 DEF TypeOK
      <4>2. view'[c] = IF m.removed THEN {a \in view[c] : a.key # m.key}
                       ELSE {a \in view[c] : a.key # m.key} \cup {[key |-> m.key, owner |-> m.owner]}
        BY <2>2, <2>5, <4>1
      <4>3. CASE m.removed
        BY <4>2, <4>3
      <4>4. CASE ~m.removed
        BY <4>2, <4>4
      <4> QED  BY <4>3, <4>4
    <3>3. m.key # k => ((\E a \in view'[c] : a.key = k) <=> (\E a \in view[c] : a.key = k))
      <4>1. PICK x : x = [key |-> m.key, owner |-> m.owner]
        OBVIOUS
      <4>2. x.key = m.key
        BY <4>1
      <4>3. ASSUME m.key # k, NEW a, a.key = k PROVE a \in view'[c] <=> a \in view[c]
        BY <3>2, <4>1, <4>2, <4>3
      <4> QED  BY <4>3
    <3>4. m.key = k => ((\E a \in view'[c] : a.key = k) <=> ~m.removed)
      <4>1. PICK x : x = [key |-> m.key, owner |-> m.owner]
        OBVIOUS
      <4>2. x.key = m.key
        BY <4>1
      <4> QED  BY <3>2, <4>1, <4>2
    <3>5. PICK b \in BOOLEAN : b <=> Known(k)
      OBVIOUS
    <3>6. EndsWith(wire[c], view[c], k, Known(k)) => EndsWith(wire[c], view[c], k, b)
      BY <3>5 DEF EndsWith
    <3>7. EndsWith(wire[c], view[c], k, b) => EndsWith(Tail(wire[c]), view'[c], k, b)
      BY <2>1, <2>5, <3>1, <3>3, <3>4, EndsRead
    <3>8. EndsWith(Tail(wire[c]), view'[c], k, b) => EndsWith(wire[c], view[c], k, Known(k))'
      BY <2>3, <3>1, <3>5 DEF EndsWith
    <3>9. \A t \in Threads : Owes(t, c, k)' <=> Owes(t, c, k)
      BY <2>2 DEF Owes
    <3> QED  BY <1>1, <1>2, <2>2, <2>3, <3>6, <3>7, <3>8, <3>9 DEF Told, Private
  <2> QED  BY <2>4, <2>5
<1>8. ASSUME NEW d \in Clients, ClientDrop(d) PROVE Told(c, k)'
  <2>1. /\ UNCHANGED <<sends, entries, peers, stale, deaf>> /\ conn'[d] # "open"
        /\ \A x \in Clients : x # d => wire'[x] = wire[x] /\ view'[x] = view[x] /\ conn'[x] = conn[x]
    BY <1>1, <1>8 DEF ClientDrop, regVars, TypeOK
  <2>2. Known(k)' <=> Known(k)
    BY <2>1 DEF Known
  <2>3. CASE c = d
    BY <2>1, <2>3 DEF Told
  <2>4. CASE c # d
    BY <1>1, <2>1, <2>2, <2>4, ToldFrame
  <2> QED  BY <2>3, <2>4
<1>9. ASSUME NEW d \in Clients, NEW r \in Request, ClientRequest(d, r) PROVE Told(c, k)'
  <2>1. UNCHANGED <<sends, entries, peers, wire, view, conn, stale, deaf>>
    BY <1>9 DEF ClientRequest, regVars
  <2>2. Known(k)' <=> Known(k)
    BY <2>1 DEF Known
  <2> QED  BY <1>1, <2>1, <2>2, ToldFrame
<1>10. ASSUME NEW t \in Threads, NEW w \in sends[t], Emit(t, w) PROVE Told(c, k)'
  <2>1. UNCHANGED <<entries, peers, wire, view, conn, stale, deaf>> /\ w.dest = Sink
        /\ sends' = [sends EXCEPT ![t] = sends[t] \ {w}]
    BY <1>10 DEF Emit, regVars, clientVars
  <2>2. Known(k)' <=> Known(k)
    BY <2>1 DEF Known
  <2>3. sends'[t] = sends[t] \ {w} /\ \A x \in Threads : x # t => sends'[x] = sends[x]
    BY <1>1, <2>1, SendsAfter
  <2>4. \A x \in Threads : \A y : y.dest = c /\ y.msg.key = k => (y \in sends'[x] <=> y \in sends[x])
    BY <1>2, <2>1, <2>3
  <2> QED  BY <1>1, <2>1, <2>2, <2>4, ToldFrame
<1>11. ASSUME NEW t \in Threads, NEW w \in sends[t], SendAddressTo(t, w) PROVE Told(c, k)'
  <2>1. /\ UNCHANGED <<entries, peers, view, conn, deaf>> /\ w.dest # Sink
        /\ sends' = [sends EXCEPT ![t] = sends[t] \ {w}]
        /\ stale \subseteq stale'
        /\ wire' = IF conn[w.dest] = "open" /\ w.dest \notin deaf THEN [wire EXCEPT ![w.dest] = Append(@, w.msg)] ELSE wire
        /\ t = Acceptor /\ [key |-> w.msg.key, owner |-> w.msg.owner] \notin entries =>
              <<w.dest, w.msg.key>> \in stale'
    BY <1>11 DEF SendAddressTo, regVars, clientVars
  <2>2. Known(k)' <=> Known(k)
    BY <2>1 DEF Known
  <2>3. sends'[t] = sends[t] \ {w} /\ \A x \in Threads : x # t => sends'[x] = sends[x]
    BY <1>1, <2>1, SendsAfter
  <2>4. w \in Write /\ w.msg \in Message /\ w.dest \in Clients
    BY <1>1, <2>1 DEF TypeOK, Write
  <2>5. CASE w.dest # c
    <3>1. \A x \in Threads : \A y : y.dest = c /\ y.msg.key = k => (y \in sends'[x] <=> y \in sends[x])
      BY <2>3, <2>5
    <3>2. wire'[c] = wire[c]
      BY <1>1, <2>1, <2>4, <2>5 DEF TypeOK
    <3> QED  BY <1>1, <2>1, <2>2, <3>1, <3>2, ToldFrame
  <2>6. CASE w.dest = c /\ conn[c] = "open" /\ c \notin deaf
    <3>1. wire[c] \in Seq(Message) /\ wire'[c] = Append(wire[c], w.msg)
      BY <1>1, <2>1, <2>6 DEF TypeOK
    <3>2. PICK b \in BOOLEAN : b <=> Known(k)
      OBVIOUS
    <3>3. EndsWith(wire[c], view[c], k, Known(k)) => EndsWith(wire[c], view[c], k, b)
      BY <3>2 DEF EndsWith
    <3>4. EndsWith(Append(wire[c], w.msg), view[c], k, b) => EndsWith(wire[c], view[c], k, Known(k))'
      BY <2>1, <2>2, <3>1, <3>2 DEF EndsWith
    <3>5. CASE w.msg.key # k
      <4>1. \A x \in Threads : Owes(x, c, k)' <=> Owes(x, c, k)
        BY <2>3, <3>5 DEF Owes
      <4>2. EndsWith(wire[c], view[c], k, b) => EndsWith(Append(wire[c], w.msg), view[c], k, b)
        BY <2>4, <3>1, <3>2, <3>5, EndsAppend
      <4>3. \A x \in Clients : sends'[x] \subseteq sends[x]
        BY <1>2, <2>3
      <4> QED  BY <1>1, <1>2, <2>1, <2>2, <3>3, <3>4, <4>1, <4>2, <4>3 DEF Told, Private
    <3>6. CASE w.msg.key = k /\ Private(k) /\ <<c, k>> \notin stale' /\ c \in peers
      <4>1. w.msg.removed <=> ~b
        <5>1. CASE t \in Clients
          BY <1>1, <2>1, <2>6, <3>2, <3>6, <5>1 DEF Told
        <5>2. CASE t = Acceptor
          <6>1. ~w.msg.removed
            BY <5>2 DEF SnapshotsOnly
          <6>2. [key |-> w.msg.key, owner |-> w.msg.owner] \in entries
            BY <2>1, <2>6, <3>6, <5>2
          <6>3. PICK e \in entries : e = [key |-> w.msg.key, owner |-> w.msg.owner]
            BY <6>2
          <6>4. e.key = k
            BY <3>6, <6>3
          <6>5. Known(k)
            BY <6>3, <6>4 DEF Known
          <6> QED  BY <3>2, <6>1, <6>5
        <5> QED  BY <5>1, <5>2 DEF Threads
      <4>2. EndsWith(Append(wire[c], w.msg), view[c], k, b)
        BY <2>4, <3>1, <3>2, <3>6, <4>1, EndsAppend
      <4>3. \A x \in Clients : sends'[x] \subseteq sends[x]
        BY <1>2, <2>3
      <4> QED  BY <1>1, <2>1, <2>2, <2>6, <3>4, <3>6, <4>2, <4>3 DEF Told, Private
    <3>7. CASE ~(Private(k) /\ <<c, k>> \notin stale' /\ c \in peers)
      BY <2>1, <3>7 DEF Told, Private
    <3> QED  BY <3>5, <3>6, <3>7
  <2>7. CASE w.dest = c /\ (conn[c] # "open" \/ c \in deaf)
    BY <2>1, <2>7 DEF Told
  <2> QED  BY <2>5, <2>6, <2>7
<1>12. ASSUME NEW t \in Threads, NEW w \in sends[t], SendFails(t, w) PROVE Told(c, k)'
  <2>1. UNCHANGED <<entries, peers, wire, view, conn, stale>> /\ deaf' = deaf \cup {w.dest}
        /\ sends' = [sends EXCEPT ![t] = sends[t] \ {w}]
    BY <1>12 DEF SendFails, regVars, clientVars
  <2>2. Known(k)' <=> Known(k)
    BY <2>1 DEF Known
  <2>3. sends'[t] = sends[t] \ {w} /\ \A x \in Threads : x # t => sends'[x] = sends[x]
    BY <1>1, <2>1, SendsAfter
  <2>4. CASE w.dest = c
    BY <2>1, <2>4 DEF Told
  <2>5. CASE w.dest # c
    <3>1. \A x \in Threads : \A y : y.dest = c /\ y.msg.key = k => (y \in sends'[x] <=> y \in sends[x])
      BY <2>3, <2>5
    <3> QED  BY <1>1, <2>1, <2>2, <3>1, ToldFrame
  <2> QED  BY <2>4, <2>5
<1> QED  BY <1>1, <1>3, <1>4, <1>5, <1>6, <1>7, <1>8, <1>9, <1>10, <1>11, <1>12, StepsOfClients

LEMMA NewsInvariance == Spec => [](IInv /\ NewsInv)
<1>1. Init => NewsInv
  <2> SUFFICES ASSUME Init PROVE NewsInv
    OBVIOUS
  <2>1. entries = {} /\ peers = {} /\ \A t \in Threads : sends[t] = {}
    BY DEF Init
  <2>2. \A c \in Clients : inbox[c] = <<>> /\ wire[c] = <<>> /\ view[c] = {}
    BY DEF Init
  <2>3. DOMAIN <<>> = {}
    OBVIOUS
  <2>4. Clients \subseteq Threads /\ Acceptor \in Threads
    BY DEF Threads
  <2>5. NamedByUsers
    BY <2>1, <2>2, <2>3, <2>4 DEF NamedByUsers
  <2>6. SnapshotsOnly
    BY <2>1, <2>2, <2>4 DEF SnapshotsOnly
  <2>7. AllTold
    BY <2>1 DEF AllTold, Told
  <2> QED  BY <2>5, <2>6, <2>7 DEF NewsInv
<1>2. IInv /\ NewsInv /\ [Next]_vars => NewsInv'
  <2> SUFFICES ASSUME IInv, NewsInv, [Next]_vars PROVE NewsInv'
    OBVIOUS
  <2>1. NamedByUsers /\ SnapshotsOnly /\ AllTold
    BY DEF NewsInv
  <2>2. NamedByUsers' /\ SnapshotsOnly'
    BY <2>1, NamedStep, SnapshotStep
  <2>3. \A c \in Clients, k \in Keys : Told(c, k)'
    BY <2>1, ToldStep
  <2>4. AllTold'
    BY <2>3 DEF AllTold
  <2> QED  BY <2>2, <2>4 DEF NewsInv
<1> QED  BY <1>1, <1>2, Invariance, PTL DEF Spec

\* When traffic has settled, every connected client lists a source that only one client names
\* exactly as the registry does, unless the snapshot of accept_peer told it of the source after it
\* had gone or a write to it has failed: whatever the number of clients and sources, and although every thread writes its
\* broadcasts after it has released the mutex.
THEOREM BroadcastsReachEveryone == Spec => []BroadcastsConverge
<1>1. IInv /\ NewsInv => BroadcastsConverge
  <2> SUFFICES ASSUME IInv, NewsInv, Quiet, NEW c \in Clients \ deaf, NEW k \in Keys,
                      conn[c] = "open", c \in peers, Private(k), <<c, k>> \notin stale
               PROVE  Agree(c, k)
    BY DEF BroadcastsConverge, Private
  <2>1. TypeOK /\ UniqueKeys /\ NamedByUsers /\ Told(c, k)
    BY DEF IInv, NewsInv, AllTold
  <2>2. (\A t \in Threads : sends[t] = {}) /\ wire[c] = <<>>
    BY DEF Quiet
  <2>3. DOMAIN <<>> = {}
    OBVIOUS
  <2>4. Clients \subseteq Threads /\ Acceptor \in Threads
    BY DEF Threads
  <2>5. \A t \in Threads : ~Owes(t, c, k)
    BY <2>2 DEF Owes
  <2>6. EndsWith(wire[c], view[c], k, Known(k))
    BY <2>1, <2>4, <2>5 DEF Told
  <2>7. (\E a \in view[c] : a.key = k) <=> Known(k)
    BY <2>2, <2>3, <2>6 DEF EndsWith
  <2>8. view[c] \subseteq Entry /\ entries \subseteq Entry
    BY <2>1 DEF TypeOK
  <2>9. ASSUME NEW a \in view[c], a.key = k, NEW e \in entries, e.key = k
        PROVE  a = e
    <3>1. a \in Entry /\ e \in Entry
      BY <2>8
    <3>2. a.owner \in Clients /\ e.owner \in Clients
      BY <3>1 DEF Entry
    <3>3. k \in Uses[a.owner] /\ k \in Uses[e.owner]
      BY <2>1, <2>9 DEF NamedByUsers
    <3>4. a.owner = e.owner
      BY <3>2, <3>3, OneUser
    <3> QED  BY <2>9, <3>1, <3>4 DEF Entry
  <2> QED  BY <2>7, <2>9 DEF Agree, Existing, Known
<1> QED  BY <1>1, NewsInvariance, PTL
=============================================================================
