------------------------------ MODULE Discovery ------------------------------
(***************************************************************************)
(* The discovery facade of one process (discovery/mod.rs) over its two     *)
(* back ends: the mdns-sd daemon behind a OnceLock (discovery/mdns.rs) and *)
(* a connection to a discovery server (discovery/client.rs), which is      *)
(* taken to be what module Registry promises.  Which one an instance uses  *)
(* is decided by the settings when it is created.                          *)
(*                                                                         *)
(* Instances are used by threads of their own.  Each stands for one sender *)
(* port, so a source <<n, i>> is a name and the port of instance i, and a  *)
(* daemon has the name of the instance that created it.                    *)
(***************************************************************************)
EXTENDS Settings

CONSTANTS Instances,  \* Discovery objects, at most one of each at a time
          NameOrder,  \* source names, sorted
          PartOf,     \* pairs <<n, q>>: n's instance name contains the name q
          Registers,  \* Registers[i]: the names instance i registers
          Elsewhere,  \* names other processes offer, over DNS-SD and on the server,
          Remote,     \* and the port they use
          DnsAddrs, ServerAddrs,  \* addresses DNS-SD and the server give for a source
          None,       \* no daemon, no instance, no handle
          MaxConns    \* bound: connections to the server

Names == Range(NameOrder)
AllPorts == Instances \cup {Remote}
Conns == 1..MaxConns
Sources == Names \X Instances

ASSUME DiscoveryAssumption ==
    /\ IsInjective(NameOrder) /\ None \notin AllPorts /\ Elsewhere \subseteq Names
    /\ PartOf \subseteq Names \X Names /\ \A n \in Names : <<n, n>> \in PartOf
    /\ Registers \in [Instances -> SUBSET Names]
    /\ MaxConns \in Nat

VARIABLES mode,       \* mode[i]: "none", "dns" or "server" (server_client is Some)
          registered, \* registered[i]: Discovery.registered, as names
          sources,    \* sources[i]: Discovery.sources
          call,       \* call[i]: the call in progress
          arg,        \* arg[i]: the name a register call is about
          handle,     \* handle[i]: the daemon that state() returned to it
          todo,       \* todo[i]: names it still has to withdraw
          installed,      \* mdns::STATE: the installed daemon
          adv,        \* adv[d][n]: the port daemon d advertises for n
          found,      \* found[d][n]: the port daemon d has resolved for n
          conn,       \* conn[i]: its connection to the server, or 0
          sent,       \* sent[c]: requests on their way to the server
          view,       \* view[i]: DiscoveryClient.sources
          up,         \* the server accepts connections
          members, owner,  \* the server's registry
          contested,  \* history: sources an older connection of the same port interfered with
          conns       \* history: connections made

instVars   == <<mode, registered, sources, call, arg, handle, todo>>
mdnsVars   == <<installed, adv, found>>
serverVars == <<up, members, owner, contested>>
linkVars   == <<conn, sent, view, conns>>
vars == <<settingsVars, instVars, mdnsVars, serverVars, linkVars, left>>

Server == INSTANCE Registry WITH Clients <- Conns, Keys <- Sources, NoOwner <- 0

Nothing == [n \in Names |-> None]

Init ==
    /\ SettingsInit
    /\ mode = [i \in Instances |-> "none"] /\ registered = [i \in Instances |-> <<>>]
    /\ sources = [i \in Instances |-> <<>>] /\ call = [i \in Instances |-> "none"]
    /\ arg = [i \in Instances |-> None] /\ handle = [i \in Instances |-> None]
    /\ todo = [i \in Instances |-> <<>>]
    /\ installed = None /\ adv = [d \in Instances |-> Nothing] /\ found = [d \in Instances |-> Nothing]
    /\ Server!Init /\ up = TRUE /\ contested = {}
    /\ conn = [i \in Instances |-> 0] /\ sent = [c \in Conns |-> <<>>]
    /\ view = [i \in Instances |-> {}] /\ conns = 0

-----------------------------------------------------------------------------
(* Creating an instance. *)

\* Discovery::new with a server configured and reachable: DiscoveryClient::connect.
NewOnServer(i) ==
    /\ mode[i] = "none" /\ values # NotLoaded /\ saving = NotSaving
    /\ DiscoveryServerSet /\ up /\ conns < MaxConns
    /\ mode' = [mode EXCEPT ![i] = "server"]
    /\ conns' = conns + 1
    /\ conn' = [conn EXCEPT ![i] = conns + 1]
    /\ view' = [view EXCEPT ![i] = {}]
    /\ Server!Join(conns + 1)
    /\ UNCHANGED <<settingsVars, registered, sources, call, arg, handle, todo, mdnsVars, up,
                   contested, sent, left>>

\* Discovery::new without one, or when the connection fails: DNS-SD for good.
NewOnDns(i) ==
    /\ mode[i] = "none" /\ values # NotLoaded /\ saving = NotSaving
    /\ ~DiscoveryServerSet \/ ~up
    /\ mode' = [mode EXCEPT ![i] = "dns"]
    /\ UNCHANGED <<settingsVars, registered, sources, call, arg, handle, todo, mdnsVars,
                   serverVars, linkVars, left>>

-----------------------------------------------------------------------------
(* mdns::state: the OnceLock is read first; a thread that finds it empty      *)
(* creates a daemon with its browser and worker, and offers it to the lock.   *)

Idle(i) == mode[i] # "none" /\ call[i] = "none"

\* Mutant of GetState: the handle is not kept.
MutGetNothing(i) ==
    /\ call' = [call EXCEPT ![i] = IF installed = None THEN "create" ELSE "use"]
    /\ UNCHANGED handle

\* The get: "use" once there is a handle, "create" if there is none yet.
GetState(i) ==
    /\ call' = [call EXCEPT ![i] = IF installed = None THEN "create" ELSE "use"]
    /\ handle' = [handle EXCEPT ![i] = installed]

\* The set is ignored if another thread was faster, and the daemon just made is
\* returned all the same.
InstallState(i) ==
    /\ call[i] = "create"
    /\ installed' = IF installed = None THEN i ELSE installed
    /\ handle' = [handle EXCEPT ![i] = i]
    /\ call' = [call EXCEPT ![i] = "use"]
    /\ UNCHANGED <<settingsVars, mode, registered, sources, arg, todo, adv, found, serverVars,
                   linkVars, left>>

\* An error on the way (no daemon, no browser, no thread) ends the call.
CreateFails(i) ==
    /\ call[i] = "create"
    /\ call' = [call EXCEPT ![i] = "none"] /\ arg' = [arg EXCEPT ![i] = None]
    /\ UNCHANGED <<settingsVars, mode, registered, sources, handle, todo, mdnsVars, serverVars,
                   linkVars, left>>

-----------------------------------------------------------------------------
(* register. *)

RegisterDns(i, n) ==
    /\ Idle(i) /\ mode[i] = "dns" /\ Spend("calls")
    /\ GetState(i)
    /\ arg' = [arg EXCEPT ![i] = n]
    /\ UNCHANGED <<settingsVars, mode, registered, sources, todo, mdnsVars, serverVars, linkVars>>

\* Mutant of Advertise: the source is remembered although the daemon refused it.
MutPushAnyway(i) ==
    /\ call[i] = "use" /\ arg[i] # None
    /\ \/ adv' = [adv EXCEPT ![handle[i]][arg[i]] = i]
       \/ UNCHANGED adv
    /\ registered' = [registered EXCEPT ![i] = Append(@, arg[i])]
    /\ call' = [call EXCEPT ![i] = "none"] /\ arg' = [arg EXCEPT ![i] = None]
    /\ handle' = [handle EXCEPT ![i] = None]
    /\ UNCHANGED <<settingsVars, mode, sources, todo, installed, found, serverVars, linkVars, left>>

\* advertise under the daemon's lock, then the push.  The daemon may refuse.
Advertise(i) ==
    /\ call[i] = "use" /\ arg[i] # None
    /\ \/ /\ adv' = [adv EXCEPT ![handle[i]][arg[i]] = i]
          /\ registered' = [registered EXCEPT ![i] = Append(@, arg[i])]
       \/ UNCHANGED <<adv, registered>>
    /\ call' = [call EXCEPT ![i] = "none"] /\ arg' = [arg EXCEPT ![i] = None]
    /\ handle' = [handle EXCEPT ![i] = None]
    /\ UNCHANGED <<settingsVars, mode, sources, todo, installed, found, serverVars, linkVars, left>>

\* A request written to connection c: it may get lost once the server is gone.
Write(c, r) == sent' = IF c \in members THEN [sent EXCEPT ![c] = Append(@, r)] ELSE sent

RegisterServer(i, n) ==
    /\ Idle(i) /\ mode[i] = "server" /\ Spend("calls")
    /\ \/ /\ Write(conn[i], <<"add", n, i>>)
          /\ registered' = [registered EXCEPT ![i] = Append(@, n)]
       \/ conn[i] \notin members /\ UNCHANGED <<sent, registered>>
    /\ UNCHANGED <<settingsVars, mode, sources, call, arg, handle, todo, mdnsVars, serverVars,
                   conn, view, conns>>

-----------------------------------------------------------------------------
(* deregister, deregister_all and drop. *)

\* deregister: every source whose instance name contains the text.
Deregister(i, q) ==
    LET matching == {n \in Names : <<n, q>> \in PartOf} IN
    /\ Idle(i) /\ Spend("calls") /\ registered[i] # <<>>
    /\ todo' = [todo EXCEPT ![i] = Only(registered[i], matching)]
    /\ registered' = [registered EXCEPT ![i] = Only(registered[i], Names \ matching)]
    /\ call' = [call EXCEPT ![i] = "withdraw"]
    /\ UNCHANGED <<settingsVars, mode, sources, arg, handle, mdnsVars, serverVars, linkVars>>

\* deregister_all, alone or as the first thing Drop does.
DeregisterAll(i) ==
    /\ Idle(i)
    /\ todo' = [todo EXCEPT ![i] = registered[i]]
    /\ registered' = [registered EXCEPT ![i] = <<>>]
    /\ \E next \in {"withdraw", "drop"} :
          /\ next = "drop" \/ registered[i] # <<>>
          /\ call' = [call EXCEPT ![i] = next]
    /\ UNCHANGED <<settingsVars, mode, sources, arg, handle, mdnsVars, serverVars, linkVars, left>>

\* Mutant of Withdraw: the source is only forgotten.
MutForget(i) ==
    /\ call[i] \in {"withdraw", "drop"} /\ todo[i] # <<>>
    /\ todo' = [todo EXCEPT ![i] = Tail(@)]
    /\ UNCHANGED <<settingsVars, mode, registered, sources, call, arg, handle, mdnsVars, serverVars,
                   linkVars, left>>

\* withdraw_address for the next of them; errors are ignored.  mdns::withdraw asks
\* the installed daemon, by name.
Withdraw(i) ==
    /\ call[i] \in {"withdraw", "drop"} /\ todo[i] # <<>>
    /\ todo' = [todo EXCEPT ![i] = Tail(@)]
    /\ \/ /\ mode[i] = "dns"
          /\ adv' = [adv EXCEPT ![installed][Head(todo[i])] = None]
          /\ UNCHANGED sent
       \/ /\ mode[i] = "server"
          /\ Write(conn[i], <<"remove", Head(todo[i]), i>>)
          /\ UNCHANGED adv
    /\ UNCHANGED <<settingsVars, mode, registered, sources, call, arg, handle, installed, found,
                   serverVars, conn, view, conns, left>>

\* The call returns; a dropped instance closes its connection.
Withdrawn(i) ==
    /\ call[i] \in {"withdraw", "drop"} /\ todo[i] = <<>>
    /\ call' = [call EXCEPT ![i] = "none"]
    /\ IF call[i] = "drop"
       THEN /\ mode' = [mode EXCEPT ![i] = "none"] /\ conn' = [conn EXCEPT ![i] = 0]
            /\ sources' = [sources EXCEPT ![i] = <<>>] /\ view' = [view EXCEPT ![i] = {}]
       ELSE UNCHANGED <<mode, conn, sources, view>>
    /\ UNCHANGED <<settingsVars, registered, arg, handle, todo, mdnsVars, serverVars, sent, conns, left>>

-----------------------------------------------------------------------------
(* refresh. *)

Position(n) == CHOOSE k \in DOMAIN NameOrder : NameOrder[k] = n

Sorted(list) == SortSeq(list, LAMBDA a, b : Position(a.name) < Position(b.name))

\* browse_for and from_dns_sd: what the daemon has resolved.
Browsed(d) ==
    Sorted(SetToSeq({[name |-> n, port |-> found[d][n], addrs |-> DnsAddrs] :
                        n \in {m \in Names : found[d][m] # None}}))

\* DiscoveryClient::sources, sorted by name only.
Listed(i) ==
    Sorted(SetToSeq({[name |-> s[1], port |-> s[2], addrs |-> ServerAddrs] : s \in view[i]}))

\* Mutant of MergeOne: a source that is already listed is listed again.
MutPushAlways(list, a) == Append(list, a)

\* One source of the server joins the list: addresses go to the entry of the same
\* name, whose port stays.
MergeOne(list, a) ==
    LET same == {k \in DOMAIN list : list[k].name = a.name}
        Fresh(x) == \A k \in same : x \notin Range(list[k].addrs)
    IN  IF same = {} THEN Append(list, a)
        ELSE [k \in DOMAIN list |->
                IF k \in same
                THEN [list[k] EXCEPT !.addrs = @ \o SelectSeq(a.addrs, Fresh)] ELSE list[k]]

\* refresh_for: the call starts with state() ...
RefreshBegin(i) ==
    /\ Idle(i) /\ Spend("calls")
    /\ GetState(i)
    /\ UNCHANGED <<settingsVars, mode, registered, sources, arg, todo, mdnsVars, serverVars,
                   linkVars>>

\* ... waits, and merges what the daemon and the client know by then.
RefreshEnd(i) ==
    /\ call[i] = "use" /\ arg[i] = None
    /\ sources' = [sources EXCEPT ![i] =
          Sorted(FoldLeft(MergeOne, Browsed(handle[i]), Listed(i)))]
    /\ call' = [call EXCEPT ![i] = "none"] /\ handle' = [handle EXCEPT ![i] = None]
    /\ UNCHANGED <<settingsVars, mode, registered, arg, todo, mdnsVars, serverVars, linkVars, left>>

-----------------------------------------------------------------------------
(* The network, the server and the process. *)

Ports(n) == ({adv[d][n] : d \in Instances} \ {None}) \cup (IF n \in Elsewhere THEN {Remote} ELSE {})

\* The worker of daemon d: a service was resolved, or has gone.
ServiceResolved(d, n) ==
    /\ Spend("events")
    /\ installed = d \/ handle[d] = d
    /\ \E p \in Ports(n) : found[d][n] # p /\ found' = [found EXCEPT ![d][n] = p]
    /\ UNCHANGED <<settingsVars, instVars, installed, adv, serverVars, linkVars>>

ServiceRemoved(d, n) ==
    /\ Spend("events")
    /\ found[d][n] # None /\ found[d][n] \notin Ports(n)
    /\ found' = [found EXCEPT ![d][n] = None]
    /\ UNCHANGED <<settingsVars, instVars, installed, adv, serverVars, linkVars>>

\* The server handles a request; the older connection of a port may still hold
\* or withdraw what the newer one registers.
Serve(c) ==
    /\ sent[c] # <<>> /\ c \in members
    /\ LET r == Head(sent[c])  k == <<r[2], r[3]>> IN
       /\ IF r[1] = "add"
          THEN Server!Register(c, k) \/ (owner[k] # 0 /\ UNCHANGED <<members, owner>>)
          ELSE Server!Withdraw(c, k) \/ (owner[k] = 0 /\ UNCHANGED <<members, owner>>)
       /\ contested' = IF owner[k] \notin {0, c} THEN contested \cup {k} ELSE contested
    /\ sent' = [sent EXCEPT ![c] = Tail(@)]
    /\ UNCHANGED <<settingsVars, instVars, mdnsVars, up, conn, view, conns, left>>

\* It sees the end of a connection the client has closed: what was on its way may
\* have been lost with it.
ServerLeave(c) ==
    /\ \A i \in Instances : conn[i] # c
    /\ Server!Leave(c)
    /\ sent' = [sent EXCEPT ![c] = <<>>]
    /\ UNCHANGED <<settingsVars, instVars, mdnsVars, up, contested, conn, view, conns, left>>

\* The client's worker has caught up with the registry.
ClientLearns(i) ==
    /\ Spend("events")
    /\ conn[i] \in members
    /\ view' = [view EXCEPT ![i] =
                  {k \in Sources : owner[k] # 0} \cup (Elsewhere \X {Remote})]
    /\ view' # view
    /\ UNCHANGED <<settingsVars, instVars, mdnsVars, serverVars, conn, sent, conns>>

\* The server goes: connections break, clients keep their lists and their mode.
ServerStops ==
    /\ up /\ Spend("events")
    /\ up' = FALSE
    /\ members' = {} /\ owner' = [k \in Sources |-> 0]
    /\ sent' = [c \in Conns |-> <<>>]
    /\ UNCHANGED <<settingsVars, instVars, mdnsVars, contested, conn, view, conns>>

\* The process ends without running destructors.
Crash ==
    /\ SettingsCrash
    /\ mode' = [i \in Instances |-> "none"] /\ registered' = [i \in Instances |-> <<>>]
    /\ sources' = [i \in Instances |-> <<>>] /\ call' = [i \in Instances |-> "none"]
    /\ arg' = [i \in Instances |-> None] /\ handle' = [i \in Instances |-> None]
    /\ todo' = [i \in Instances |-> <<>>]
    /\ installed' = None /\ adv' = [d \in Instances |-> Nothing]
    /\ found' = [d \in Instances |-> Nothing]
    /\ conn' = [i \in Instances |-> 0] /\ view' = [i \in Instances |-> {}]
    /\ UNCHANGED <<serverVars, sent, conns>>

\* Nothing an instance does between its creation and its drop reads the settings:
\* changing them is left to the times when no source is registered.
Quiet == \A i \in Instances : call[i] = "none" /\ registered[i] = <<>>

Configure ==
    /\ Quiet
    /\ \/ Load \/ Reload \/ SaveBegin \/ SaveEnd \/ SaveFail
       \/ \E k \in Keys : RemoveKey(k)
       \/ \E e \in Edits : SetString(e[1], e[2])
    /\ UNCHANGED <<instVars, mdnsVars, serverVars, linkVars>>

InstanceStep(i) ==
    \/ NewOnServer(i) \/ NewOnDns(i)
    \/ InstallState(i) \/ CreateFails(i) \/ Advertise(i)
    \/ \E n \in Registers[i] : RegisterDns(i, n) \/ RegisterServer(i, n)
    \/ \E q \in Names : Deregister(i, q)
    \/ DeregisterAll(i) \/ Withdraw(i) \/ Withdrawn(i)
    \/ RefreshBegin(i) \/ RefreshEnd(i)

Next ==
    \/ Configure \/ Crash \/ ServerStops
    \/ \E i \in Instances : InstanceStep(i) \/ ClientLearns(i)
    \/ \E d \in Instances, n \in Names : ServiceResolved(d, n) \/ ServiceRemoved(d, n)
    \/ \E c \in Conns : Serve(c) \/ ServerLeave(c)

Spec == Init /\ [][Next]_vars

-----------------------------------------------------------------------------
\* A call that has passed state() holds a daemon, and one that withdraws on DNS-SD
\* finds one installed.
TypeOK ==
    /\ SettingsTypeOK
    /\ mode \in [Instances -> {"none", "dns", "server"}]
    /\ registered \in [Instances -> Seq(Names)] /\ todo \in [Instances -> Seq(Names)]
    /\ call \in [Instances -> {"none", "create", "use", "withdraw", "drop"}]
    /\ arg \in [Instances -> Names \cup {None}] /\ handle \in [Instances -> Instances \cup {None}]
    /\ \A i \in Instances : call[i] = "use" => handle[i] # None
    /\ \A i \in Instances : mode[i] = "dns" /\ todo[i] # <<>> => installed # None
    /\ installed \in Instances \cup {None}
    /\ adv \in [Instances -> [Names -> Instances \cup {None}]]
    /\ found \in [Instances -> [Names -> AllPorts \cup {None}]]
    /\ conn \in [Instances -> 0..conns] /\ conns \in 0..MaxConns
    /\ sent \in [Conns -> Seq({"add", "remove"} \X Names \X Instances)]
    /\ view \in [Instances -> SUBSET (Names \X AllPorts)] /\ up \in BOOLEAN
    /\ members \subseteq 1..conns /\ owner \in [Sources -> 0..conns]

\* The instance still has n registered, or is about to withdraw it.
Accountable(i, n) == n \in Range(registered[i]) \cup Range(todo[i])

\* Nothing is left behind: what the installed daemon advertises, and what the
\* server lists for a live connection, belongs to an instance that still has it
\* registered or is still withdrawing it (for the server: or has the removal on
\* its way).
NothingLeftBehind ==
    /\ installed # None => \A n \in Names, i \in Instances :
          adv[installed][n] = i => Accountable(i, n)
    /\ \A n \in Names, i \in Instances :
          owner[<<n, i>>] # 0 /\ owner[<<n, i>>] = conn[i] =>
             Accountable(i, n) \/ <<"remove", n, i>> \in Range(sent[conn[i]])

\* Only instance i ever registers n.
Exclusive(i, n) == \A j \in Instances : n \in Registers[j] => j = i

\* What register() has accepted is offered: a name that no other instance uses is
\* advertised with this instance's port until it is withdrawn, and on a live server
\* connection the source is in the registry or on its way there - unless an older
\* connection of the same port was still in the registry when it was registered, or
\* withdrew it afterwards.
RegisteredIsOffered ==
    \A i \in Instances : \A n \in Range(registered[i]) :
        \/ mode[i] = "dns" /\ (Exclusive(i, n) => \E d \in Instances : adv[d][n] = i)
        \/ /\ mode[i] = "server"
           /\ conn[i] \in members =>
                 \/ owner[<<n, i>>] = conn[i]
                 \/ <<"add", n, i>> \in Range(sent[conn[i]])
                 \/ <<n, i>> \in contested

\* What refresh() returns: every name that DNS-SD or the server knows, once, in
\* order, with all its addresses and none twice; DNS-SD decides the port.
IsMerge(list, dns, srv) ==
    /\ {list[k].name : k \in DOMAIN list} = {a.name : a \in dns \cup srv}
    /\ \A j, k \in DOMAIN list : j < k => Position(list[j].name) < Position(list[k].name)
    /\ \A k \in DOMAIN list :
          LET from == {a \in dns \cup srv : a.name = list[k].name} IN
          /\ Range(list[k].addrs) = UNION {Range(a.addrs) : a \in from}
          /\ IsInjective(list[k].addrs)
          /\ \A a \in dns : a.name = list[k].name => a.port = list[k].port

\* Refreshing merges the two back ends without losing or repeating a source.
SourcesMerged ==
    [][\A i \in Instances : sources'[i] \notin {sources[i], <<>>} =>
          IsMerge(sources'[i], Range(Browsed(handle[i])), Range(Listed(i)))]_vars

\* "Withdraw every locally registered source.": no instance, no advertisement.
NoOrphans ==
    (\A i \in Instances : mode[i] = "none") => \A d \in Instances : adv[d] = Nothing
=============================================================================
