--------------------------- MODULE DiscoveryServer ---------------------------
(***************************************************************************)
(* The discovery server (discovery/server.rs) and its clients              *)
(* (discovery/client.rs).  One accept thread and one thread per connection *)
(* share a registry behind a mutex.  Every thread changes the registry and *)
(* picks its recipients under the mutex, and writes to their sockets after *)
(* releasing it: that gap is what the model is about.                      *)
(*                                                                         *)
(* A client stands for one TCP connection (its SocketAddr).  A source is a *)
(* key, the pair (instance name, port) the registry searches by.  A thread *)
(* that has left the mutex holds the set of writes it still has to make,   *)
(* in no particular order: two writes of one batch to one client are       *)
(* always about different keys.  The write with destination Sink is the    *)
(* event that follows the socket writes of its key.                        *)
(***************************************************************************)
EXTENDS Naturals, Sequences

CONSTANTS Clients,     \* connections that may be made
          Keys,        \* source identities
          NoOwner,     \* no owner
          Acceptor,    \* the accept thread
          Sink,        \* the event channel (events_tx)
          Uses,        \* Uses[c]: the keys client c may name in a request
          Slow,        \* clients that a write may fail to reach while they are open
          MaxRequests, \* bound: requests written by all clients together
          MaxStarts    \* bound: calls of DiscoveryServerHandle::start

ASSUME IdentityAssumption ==
    /\ NoOwner \notin Clients
    /\ Acceptor \notin Clients
    /\ Sink \notin Clients

ASSUME UsesAssumption == Uses \in [Clients -> SUBSET Keys]
ASSUME SlowAssumption == Slow \subseteq Clients
ASSUME BoundsAssumption == MaxRequests \in Nat /\ MaxStarts \in Nat

Threads == Clients \cup {Acceptor}
Request == [key : Keys, removed : BOOLEAN]
Entry   == [key : Keys, owner : Clients]
Message == [key : Keys, owner : Clients, removed : BOOLEAN]
Write   == [msg : Message, dest : Clients \cup {Sink}]

VARIABLES stop,      \* Inner.stop
          running,   \* Inner.running
          acceptor,  \* where the accept thread is
          newPeer,   \* the connection accept_peer is working on
          entries,   \* Shared.entries
          peers,     \* Shared.peers
          thread,    \* where each connection's peer thread is
          sends,     \* writes each thread still has to make outside the mutex
          conn,      \* each connection as its client sees it
          inbox,     \* requests on their way to the server
          wire,      \* messages on their way to the client
          view,      \* DiscoveryClient.sources
          seen,      \* connections the event stream reports as connected
          stale,     \* history: <<c, k>> a snapshot told c of k after k had gone
          deaf,      \* history: connections a write has failed to reach
          requests, starts

regVars    == <<entries, peers>>
clientVars == <<conn, inbox, view, requests>>
acceptVars == <<stop, running, acceptor, newPeer, starts>>
vars == <<stop, running, acceptor, newPeer, entries, peers, thread, sends, conn,
          inbox, wire, view, seen, stale, deaf, requests, starts>>

AcceptorStates == {"off", "starting", "check", "accept", "snapshot", "joining", "cleared"}
ThreadStates   == {"none", "check", "recv", "send", "closing", "leaving", "done"}
ConnStates     == {"off", "queued", "gone", "open", "closed", "eof"}

Init ==
    /\ stop = FALSE /\ running = FALSE
    /\ acceptor = "off" /\ newPeer = NoOwner
    /\ entries = {} /\ peers = {}
    /\ thread = [c \in Clients |-> "none"]
    /\ sends = [t \in Threads |-> {}]
    /\ conn = [c \in Clients |-> "off"]
    /\ inbox = [c \in Clients |-> <<>>]
    /\ wire = [c \in Clients |-> <<>>]
    /\ view = [c \in Clients |-> {}]
    /\ seen = {} /\ stale = {} /\ deaf = {}
    /\ requests = 0 /\ starts = 0

-----------------------------------------------------------------------------
(* The server handle.  Its user is one sequential caller: start fails while *)
(* the accept thread has not finished (reap_accept_thread).                 *)

HandleStart ==
    /\ acceptor = "off"
    /\ starts < MaxStarts
    /\ starts' = starts + 1
    /\ stop' = FALSE
    /\ running' = TRUE
    /\ acceptor' = "starting"
    /\ UNCHANGED <<newPeer, regVars, thread, sends, clientVars, wire, seen, stale, deaf>>

HandleStop ==
    /\ stop' = TRUE
    /\ UNCHANGED <<running, acceptor, newPeer, starts, regVars, thread, sends,
                   clientVars, wire, seen, stale, deaf>>

-----------------------------------------------------------------------------
(* The accept thread. *)

\* serve_listener up to accept_loop.
ServeBegin ==
    /\ acceptor = "starting"
    /\ entries' = {} /\ peers' = {}
    /\ running' = TRUE
    /\ acceptor' = "check"
    /\ UNCHANGED <<stop, newPeer, starts, thread, sends, clientVars, wire, seen, stale, deaf>>

AcceptCheck ==
    /\ acceptor = "check"
    /\ acceptor' = IF stop THEN "joining" ELSE "accept"
    /\ UNCHANGED <<stop, running, newPeer, starts, regVars, thread, sends,
                   clientVars, wire, seen, stale, deaf>>

\* accept() returned WouldBlock: sleep 20 ms and look again.
AcceptNothing ==
    /\ acceptor = "accept"
    /\ acceptor' = "check"
    /\ UNCHANGED <<stop, running, newPeer, starts, regVars, thread, sends,
                   clientVars, wire, seen, stale, deaf>>

\* Any other accept() error ends accept_loop; serve_listener then sets stop.
AcceptError ==
    /\ acceptor = "accept"
    /\ acceptor' = "joining"
    /\ stop' = TRUE
    /\ UNCHANGED <<running, newPeer, starts, regVars, thread, sends,
                   clientVars, wire, seen, stale, deaf>>

\* The writes that repeat the present registry to connection c.
SnapshotFor(c) ==
    { [msg |-> [key |-> e.key, owner |-> e.owner, removed |-> FALSE], dest |-> c] :
        e \in entries }

\* Mutant of AcceptPeer: the stream to spawn for is not remembered.
MutForgetNewPeer(c) ==
    /\ acceptor = "accept"
    /\ conn[c] \in {"queued", "gone"}
    /\ conn' = [conn EXCEPT ![c] = IF @ = "queued" THEN "open" ELSE "closed"]
    /\ peers' = peers \cup {c}
    /\ sends' = [sends EXCEPT ![Acceptor] = SnapshotFor(c)]
    /\ acceptor' = "snapshot"
    /\ UNCHANGED <<stop, running, starts, newPeer, entries, thread, inbox, view, requests,
                   wire, seen, stale, deaf>>

\* accept_peer under the mutex: copy the entries, insert the peer.
AcceptPeer(c) ==
    /\ acceptor = "accept"
    /\ conn[c] \in {"queued", "gone"}
    /\ conn' = [conn EXCEPT ![c] = IF @ = "queued" THEN "open" ELSE "closed"]
    /\ peers' = peers \cup {c}
    /\ sends' = [sends EXCEPT ![Acceptor] = SnapshotFor(c)]
    /\ newPeer' = c
    /\ acceptor' = "snapshot"
    /\ UNCHANGED <<stop, running, starts, entries, thread, inbox, view, requests,
                   wire, seen, stale, deaf>>

\* accept_peer returns early (try_clone fails): the stream is dropped.
AcceptPeerFails(c) ==
    /\ acceptor = "accept"
    /\ conn[c] \in {"queued", "gone"}
    /\ conn' = [conn EXCEPT ![c] = "eof"]
    /\ acceptor' = "check"
    /\ UNCHANGED <<stop, running, newPeer, starts, regVars, thread, sends, inbox,
                   view, requests, wire, seen, stale, deaf>>

\* accept_peer after the snapshot writes: emit ClientConnected, then spawn.
SpawnPeer ==
    /\ acceptor = "snapshot"
    /\ sends[Acceptor] = {}
    /\ seen' = seen \cup {newPeer}
    /\ thread' = [thread EXCEPT ![newPeer] = "check"]
    /\ newPeer' = NoOwner
    /\ acceptor' = "check"
    /\ UNCHANGED <<stop, running, starts, regVars, sends, clientVars, wire, stale, deaf>>

\* join_peers, then the registry is cleared under the mutex.
JoinPeers ==
    /\ acceptor = "joining"
    /\ stop' = TRUE
    /\ \A c \in Clients : thread[c] \in {"none", "done"}
    /\ entries' = {} /\ peers' = {}
    /\ acceptor' = "cleared"
    /\ UNCHANGED <<running, newPeer, starts, thread, sends, clientVars, wire, seen, stale,
                   deaf>>

\* The accept thread ends; dropping the listener resets what it never accepted.
ServeEnd ==
    /\ acceptor = "cleared"
    /\ running' = FALSE
    /\ acceptor' = "off"
    /\ conn' = [c \in Clients |-> IF conn[c] \in {"queued", "gone"} THEN "eof" ELSE conn[c]]
    /\ UNCHANGED <<stop, newPeer, starts, regVars, thread, sends, inbox, view,
                   requests, wire, seen, stale, deaf>>

-----------------------------------------------------------------------------
(* The peer threads. *)

\* Mutant of PeerCheck: the loop does not look at stop.
MutPeerIgnoresStop(c) ==
    /\ thread[c] = "check"
    /\ thread' = [thread EXCEPT ![c] = "recv"]
    /\ UNCHANGED <<acceptVars, regVars, sends, clientVars, wire, seen, stale, deaf>>

\* The head of peer_loop.
PeerCheck(c) ==
    /\ thread[c] = "check"
    /\ thread' = [thread EXCEPT ![c] = IF stop THEN "closing" ELSE "recv"]
    /\ UNCHANGED <<acceptVars, regVars, sends, clientVars, wire, seen, stale, deaf>>

\* The 200 ms read timeout.
PeerTimeout(c) ==
    /\ thread[c] = "recv"
    /\ inbox[c] = <<>>
    /\ conn[c] # "closed"
    /\ thread' = [thread EXCEPT ![c] = "check"]
    /\ UNCHANGED <<acceptVars, regVars, sends, clientVars, wire, seen, stale, deaf>>

\* EOF or a reset once everything that arrived has been read.
PeerEof(c) ==
    /\ thread[c] = "recv"
    /\ inbox[c] = <<>>
    /\ conn[c] = "closed"
    /\ thread' = [thread EXCEPT ![c] = "closing"]
    /\ UNCHANGED <<acceptVars, regVars, sends, clientVars, wire, seen, stale, deaf>>

\* One message to every peer in set ps, and the event that follows it.
Broadcast(m, ps) == { [msg |-> m, dest |-> d] : d \in ps \cup {Sink} }

Existing(k) == { e \in entries : e.key = k }

\* Mutant of RegisterEntry: a second registration takes the source over.
MutLastRegistrationWins(c, k) ==
    /\ entries' = (entries \ Existing(k)) \cup {[key |-> k, owner |-> c]}
    /\ sends' = [sends EXCEPT ![c] =
                    Broadcast([key |-> k, owner |-> c, removed |-> FALSE], peers)]

\* The second half of handle_address: a source already present is left alone.
RegisterEntry(c, k) ==
    \/ /\ Existing(k) # {}
       /\ UNCHANGED <<entries, sends>>
    \/ /\ Existing(k) = {}
       /\ entries' = entries \cup {[key |-> k, owner |-> c]}
       /\ sends' = [sends EXCEPT ![c] =
                       Broadcast([key |-> k, owner |-> c, removed |-> FALSE], peers)]

\* The first half: whoever asks, the entry goes and all peers are told.
RemoveEntry(c, k) ==
    \/ /\ Existing(k) = {}
       /\ UNCHANGED <<entries, sends>>
    \/ \E e \in Existing(k) :
          /\ entries' = entries \ {e}
          /\ sends' = [sends EXCEPT ![c] =
                          Broadcast([key |-> k, owner |-> e.owner, removed |-> TRUE], peers)]

\* handle_address, up to the release of the mutex.
HandleAddress(c) ==
    /\ thread[c] = "recv"
    /\ inbox[c] # <<>>
    /\ LET r == Head(inbox[c]) IN
         IF r.removed THEN RemoveEntry(c, r.key) ELSE RegisterEntry(c, r.key)
    /\ inbox' = [inbox EXCEPT ![c] = Tail(@)]
    /\ thread' = [thread EXCEPT ![c] = "send"]
    /\ UNCHANGED <<acceptVars, peers, conn, view, requests, wire, seen, stale, deaf>>

\* The writes of the batch are done: back to the loop's head.
HandleDone(c) ==
    /\ thread[c] = "send"
    /\ sends[c] = {}
    /\ thread' = [thread EXCEPT ![c] = "check"]
    /\ UNCHANGED <<acceptVars, regVars, sends, clientVars, wire, seen, stale, deaf>>

Owned(c) == { e \in entries : e.owner = c }

\* One removal message per source of c to every peer in ps, each with its event.
Removals(c, ps) ==
    UNION { Broadcast([key |-> e.key, owner |-> c, removed |-> TRUE], ps) : e \in Owned(c) }

\* Mutant of DisconnectPeer: the removals are not repeated to the peers.
MutQuietDisconnect(c) ==
    /\ thread[c] = "closing"
    /\ entries' = entries \ Owned(c)
    /\ peers' = peers \ {c}
    /\ UNCHANGED sends
    /\ thread' = [thread EXCEPT ![c] = "leaving"]
    /\ UNCHANGED <<acceptVars, clientVars, wire, seen, stale, deaf>>

\* disconnect_peer under the mutex.
DisconnectPeer(c) ==
    /\ thread[c] = "closing"
    /\ entries' = entries \ Owned(c)
    /\ peers' = peers \ {c}
    /\ sends' = [sends EXCEPT ![c] = Removals(c, peers')]
    /\ thread' = [thread EXCEPT ![c] = "leaving"]
    /\ UNCHANGED <<acceptVars, clientVars, wire, seen, stale, deaf>>

\* The end of disconnect_peer: emit ClientDisconnected; the thread returns.
PeerExit(c) ==
    /\ thread[c] = "leaving"
    /\ sends[c] = {}
    /\ seen' = seen \ {c}
    /\ thread' = [thread EXCEPT ![c] = "done"]
    /\ UNCHANGED <<acceptVars, regVars, sends, clientVars, wire, stale, deaf>>

-----------------------------------------------------------------------------
\* send_address_to: thread t makes one of its writes.  A write to a connection
\* whose client is gone fails, and the error is ignored.  What is written behind
\* a failed write is not followed.
SendAddressTo(t, w) ==
    /\ w \in sends[t]
    /\ w.dest # Sink
    /\ wire' = IF conn[w.dest] = "open" /\ w.dest \notin deaf
               THEN [wire EXCEPT ![w.dest] = Append(@, w.msg)] ELSE wire
    /\ stale' = IF t = Acceptor /\ [key |-> w.msg.key, owner |-> w.msg.owner] \notin entries
                THEN stale \cup {<<w.dest, w.msg.key>>} ELSE stale
    /\ sends' = [sends EXCEPT ![t] = @ \ {w}]
    /\ UNCHANGED <<acceptVars, regVars, thread, clientVars, seen, deaf>>

\* The write fails although the client is still there, and the error is ignored:
\* its handle cannot be cloned, the 5 s write time-out cuts the message, or
\* writes of two threads on clones of one handle run into each other.
SendFails(t, w) ==
    /\ w \in sends[t]
    /\ w.dest \in Slow /\ conn[w.dest] = "open"
    /\ deaf' = deaf \cup {w.dest}
    /\ sends' = [sends EXCEPT ![t] = @ \ {w}]
    /\ UNCHANGED <<acceptVars, regVars, thread, clientVars, wire, seen, stale>>

\* emit: the event of a message, once all its socket writes are done.
Emit(t, w) ==
    /\ w \in sends[t]
    /\ w.dest = Sink
    /\ \A x \in sends[t] : x.msg = w.msg => x = w
    /\ sends' = [sends EXCEPT ![t] = @ \ {w}]
    /\ UNCHANGED <<acceptVars, regVars, thread, clientVars, wire, seen, stale, deaf>>

-----------------------------------------------------------------------------
(* The clients. *)

Listening == acceptor \notin {"off", "cleared"}

\* DiscoveryClient::connect; the connection waits in the listen backlog.
ClientConnect(c) ==
    /\ conn[c] = "off"
    /\ Listening
    /\ conn' = [conn EXCEPT ![c] = "queued"]
    /\ UNCHANGED <<acceptVars, regVars, thread, sends, inbox, view, requests, wire,
                   seen, stale, deaf>>

\* register and deregister.
ClientRequest(c, r) ==
    /\ conn[c] \in {"queued", "open"}
    /\ r.key \in Uses[c]
    /\ requests < MaxRequests
    /\ requests' = requests + 1
    /\ inbox' = [inbox EXCEPT ![c] = Append(@, r)]
    /\ UNCHANGED <<acceptVars, regVars, thread, sends, conn, view, wire, seen, stale, deaf>>

\* The worker applies one message to the source list.
ClientReceive(c) ==
    /\ conn[c] = "open"
    /\ wire[c] # <<>>
    /\ LET m == Head(wire[c])
           others == { a \in view[c] : a.key # m.key }
           e == [key |-> m.key, owner |-> m.owner]
       IN  view' = [view EXCEPT ![c] = IF m.removed THEN others ELSE others \cup {e}]
    /\ wire' = [wire EXCEPT ![c] = Tail(@)]
    /\ UNCHANGED <<acceptVars, regVars, thread, sends, conn, inbox, requests, seen, stale,
                   deaf>>

\* The server holds no handle of c's socket any more.
ServerClosed(c) ==
    /\ c \notin peers
    /\ thread[c] = "done"
    /\ \A t \in Threads : \A w \in sends[t] : w.dest # c

\* The worker reads EOF and stops; the source list stays as it is.
ClientEof(c) ==
    /\ conn[c] = "open"
    /\ wire[c] = <<>>
    /\ ServerClosed(c)
    /\ conn' = [conn EXCEPT ![c] = "eof"]
    /\ UNCHANGED <<acceptVars, regVars, thread, sends, inbox, view, requests, wire,
                   seen, stale, deaf>>

\* Dropping the client closes its socket, accepted or not yet ("gone");
\* requests not yet delivered are lost.
ClientDrop(c) ==
    /\ conn[c] \in {"queued", "open"}
    /\ conn' = [conn EXCEPT ![c] = IF @ = "open" THEN "closed" ELSE "gone"]
    /\ \E n \in 0..Len(inbox[c]) : inbox' = [inbox EXCEPT ![c] = SubSeq(@, 1, n)]
    /\ wire' = [wire EXCEPT ![c] = <<>>]
    /\ view' = [view EXCEPT ![c] = {}]
    /\ UNCHANGED <<acceptVars, regVars, thread, sends, requests, seen, stale, deaf>>

-----------------------------------------------------------------------------
AcceptStep ==
    \/ ServeBegin
    \/ AcceptCheck
    \/ AcceptNothing
    \/ AcceptError
    \/ \E c \in Clients : AcceptPeer(c) \/ AcceptPeerFails(c)
    \/ SpawnPeer
    \/ JoinPeers
    \/ ServeEnd

PeerStep(c) ==
    \/ PeerCheck(c)
    \/ PeerTimeout(c)
    \/ PeerEof(c)
    \/ HandleAddress(c)
    \/ HandleDone(c)
    \/ DisconnectPeer(c)
    \/ PeerExit(c)

WriteStep(t) == \E w \in sends[t] : SendAddressTo(t, w) \/ SendFails(t, w) \/ Emit(t, w)

ClientStep(c) ==
    \/ ClientConnect(c)
    \/ \E r \in Request : ClientRequest(c, r)
    \/ ClientReceive(c)
    \/ ClientEof(c)
    \/ ClientDrop(c)

Next ==
    \/ HandleStart
    \/ HandleStop
    \/ AcceptStep
    \/ \E c \in Clients : PeerStep(c) \/ ClientStep(c)
    \/ \E t \in Threads : WriteStep(t)

Spec == Init /\ [][Next]_vars

(* Threads keep running: every read has a 200 ms timeout, every write one of *)
(* 5 s, accept is polled, and no lock is held across either.                 *)
Fairness ==
    /\ WF_vars(AcceptStep)
    /\ \A c \in Clients : WF_vars(PeerStep(c)) /\ WF_vars(ClientReceive(c))
    /\ \A t \in Threads : WF_vars(WriteStep(t))

FairSpec == Spec /\ Fairness

-----------------------------------------------------------------------------
\* Types; a thread's pending writes are only ever messages about known keys.
TypeOK ==
    /\ stop \in BOOLEAN /\ running \in BOOLEAN
    /\ acceptor \in AcceptorStates
    /\ newPeer \in Clients \cup {NoOwner}
    /\ entries \subseteq Entry
    /\ peers \subseteq Clients
    /\ thread \in [Clients -> ThreadStates]
    /\ sends \in [Threads -> SUBSET Write]
    /\ conn \in [Clients -> ConnStates]
    /\ inbox \in [Clients -> Seq(Request)]
    /\ wire \in [Clients -> Seq(Message)]
    /\ view \in [Clients -> SUBSET Entry]
    /\ seen \subseteq Clients
    /\ stale \subseteq Clients \X Keys /\ deaf \subseteq Clients
    /\ requests \in 0..MaxRequests /\ starts \in 0..MaxStarts

(* Properties. *)

\* Two sources in the registry never have the same name and port: the check
\* for an existing entry and the push happen in one critical section.
UniqueKeys == \A e, f \in entries : e.key = f.key => e = f

\* A source is registered only while its owner's connection is served: the
\* owner is in the peer map and its thread has not run disconnect_peer yet, so
\* no source outlives the client that registered it.
OwnersServed ==
    \A e \in entries :
        /\ e.owner \in peers
        /\ thread[e.owner] \in {"check", "recv", "send", "closing"}

\* When the accept thread has returned, every peer thread has been joined and
\* the registry holds nothing: serve_listener leaves no thread behind that
\* could touch the registry of the next start.
StoppedIsClean ==
    acceptor \in {"off", "cleared"} =>
        /\ entries = {} /\ peers = {}
        /\ \A c \in Clients : thread[c] \in {"none", "done"} /\ sends[c] = {}

\* An observer of the event stream sees a connection as connected exactly
\* while its peer thread runs: ClientConnected precedes every event of the
\* connection's thread and ClientDisconnected follows them all.
EventsBracketThread ==
    \A c \in Clients : c \in seen <=> thread[c] \notin {"none", "done"}

\* Nothing is being written, in flight or unread, and no departure is unnoticed.
Quiet ==
    /\ ~stop /\ acceptor \in {"check", "accept"}
    /\ \A t \in Threads : sends[t] = {}
    /\ \A c \in Clients :
          /\ inbox[c] = <<>> /\ wire[c] = <<>>
          /\ conn[c] = "closed" => thread[c] = "done"

\* Client c's list and the registry say the same about source k.
Agree(c, k) == { a \in view[c] : a.key = k } = Existing(k)

\* Once traffic has settled, a client that is still connected lists exactly the
\* registered sources: every register, deregister and disconnect of another
\* client has reached it, and a new client has all earlier registrations.
ClientsAgree ==
    Quiet => \A c \in Clients, k \in Keys : conn[c] = "open" /\ c \in peers => Agree(c, k)

\* The sources named by the requests of one client only.
Private(k) == \A c, d \in Clients : k \in Uses[c] /\ k \in Uses[d] => c = d

\* A settled client can only be wrong about a source that several clients name,
\* one that a snapshot reported after it had gone (the snapshot of accept_peer
\* is written after the mutex is released), or when a write to it has failed.
\* Broadcasts that arrive never leave a client with a wrong list, and a write
\* that fails costs no other client anything.
BroadcastsConverge ==
    Quiet => \A c \in Clients \ deaf, k \in Keys :
                 conn[c] = "open" /\ c \in peers /\ Private(k) /\ <<c, k>> \notin stale
                    => Agree(c, k)

\* Stopping works from every state: after stop the accept thread returns.
StopTerminates == (stop /\ acceptor # "off") ~> (acceptor = "off")

\* The registry behaves like the one of module Registry: first come first
\* served, and a connection and its sources disappear in one step.  The clears
\* of serve_listener never remove anything.
ownerOf == [k \in Keys |->
              IF Existing(k) = {} THEN NoOwner ELSE (CHOOSE e \in Existing(k) : TRUE).owner]
Reg == INSTANCE Registry WITH members <- peers, owner <- ownerOf
RegistryImplemented == Reg!Spec

=============================================================================
