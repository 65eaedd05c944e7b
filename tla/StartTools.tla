----------------------------- MODULE StartTools -----------------------------
(***************************************************************************)
(* What mitmdump_start, mitmweb_start and mitmdump_replay make of a        *)
(* request: the checks, the ports leased and probed, and the addresses the *)
(* child is told to listen on, or left to choose.  The same ports go three *)
(* ways (to the lease, to the probe and to the command line), and nothing  *)
(* but these tools keeps the three in step.                                *)
(*                                                                         *)
(* The child binds its sockets one by one, some time after the probe       *)
(* closed its own; other programs bind and leave as they like.  The        *)
(* registry is here as PortLeases says it behaves.                         *)
(***************************************************************************)
EXTENDS Naturals, Sequences

CONSTANTS
    Sessions, Ports, Hosts,
    Loopback, AnyHost,  \* 127.0.0.1, and the address of all interfaces
    Kinds,              \* of proxy modes; reverse counts once per protocol
    Privileged,         \* the kinds that are refused
    Transports,         \* what each kind listens on
    DefaultPort,        \* where it listens when it is not told
    Requests            \* what may be asked for

Transport == {"tcp", "udp"}

\* ports are the listen_ports of the modes that have one, in order; web is the
\* web_port and webHost the web_host of mitmweb_start; allowed, whether the
\* paths are and every mode has the fields it needs; replayed, whether there
\* are files to replay.
Request == [tool : {"dump", "web", "replay"}, modes : Seq(Kinds) \ {<<>>},
            ports : Seq(Ports), host : Hosts, web : Ports, webHost : Hosts,
            allowed : BOOLEAN, replayed : BOOLEAN]

ASSUME HostsAssumption == {Loopback, AnyHost} \subseteq Hosts
ASSUME KindsAssumption ==
    /\ Privileged \subseteq Kinds
    /\ Transports \in [Kinds -> SUBSET Transport]
    /\ DefaultPort \in [Kinds -> Ports]
ASSUME RequestsAssumption == Requests \subseteq Request

VARIABLES
    state, held,    \* of PortLeases
    request,        \* that made, or will make, each session
    bound,          \* the sockets of each session's child
    foreign         \* the sockets of other programs

vars == <<state, held, request, bound, foreign>>

Registry == INSTANCE PortLeases

\* use is the number of the mode a socket serves; 0 is the web interface.
Socket == [use : Nat, transport : Transport, host : Hosts, port : Ports]
ForeignSocket == [use : {0}, transport : Transport, host : Hosts, port : Ports]

TypeOK ==
    /\ state \in [Sessions -> {"new", "granted", "live", "over"}]
    /\ held \in [Sessions -> SUBSET Ports]
    /\ request \in [Sessions -> Requests]
    /\ bound \in [Sessions -> SUBSET Socket]
    /\ \A s \in Sessions : state[s] # "live" => bound[s] = {}
    /\ foreign \in SUBSET ForeignSocket

Init ==
    /\ Registry!Init
    /\ request \in [Sessions -> Requests]
    /\ bound = [s \in Sessions |-> {}]
    /\ foreign = {}

----------------------------------------------------------------------------
(* what a request becomes *)

Unprivileged(r) == \A i \in DOMAIN r.modes : r.modes[i] \notin Privileged

Acceptable(r) ==
    /\ r.allowed
    /\ r.tool = "replay" => r.replayed
    /\ Unprivileged(r)

\* The listen_host the registry probes and lists.  The replay tool passes none
\* and gets the default.
StatedHost(r) == IF r.tool = "replay" THEN Loopback ELSE r.host

\* The host on the command line; without one mitmproxy takes all interfaces.
ChildHost(r) == IF r.tool = "replay" THEN AnyHost ELSE r.host

\* Variant, breaks TypeOK: a port for every mode, None for those that have
\* none.
ProxyClaimsOfAll(r) ==
    {[port |-> IF i \in DOMAIN r.ports THEN r.ports[i] ELSE "None", host |-> StatedHost(r)] :
        i \in DOMAIN r.modes}

ProxyClaims(r) == {[port |-> r.ports[i], host |-> StatedHost(r)] : i \in DOMAIN r.ports}

\* Variant, breaks AdmittedCanListen: one host for all ports.
WebClaimsAtListenHost(r) == {[port |-> r.web, host |-> r.host]}

WebClaims(r) == {[port |-> r.web, host |-> r.webHost]}

\* Variant, breaks SessionsDontCompete: the web port is not leased.
ClaimsOfProxy(r) == ProxyClaims(r)

\* The ports to lease, each with the host to probe it at.
Claims(r) == ProxyClaims(r) \cup IF r.tool = "web" THEN WebClaims(r) ELSE {}

\* Variant, breaks ListedPortsServe: the last port, not the first.
LastPort(r, kind) == IF r.ports = <<>> THEN DefaultPort[kind] ELSE r.ports[Len(r.ports)]

\* One --listen-port for all modes, the first that any of them names.
ListenPort(r, kind) == IF r.ports = <<>> THEN DefaultPort[kind] ELSE r.ports[1]

ProxySockets(r) ==
    {k \in [use : DOMAIN r.modes, transport : Transport, host : {ChildHost(r)}, port : Ports] :
        /\ k.transport \in Transports[r.modes[k.use]]
        /\ k.port = ListenPort(r, r.modes[k.use])}

WebSocket(r) == [use |-> 0, transport |-> "tcp", host |-> r.webHost, port |-> r.web]

\* All that the child will bind.
Sockets(r) == ProxySockets(r) \cup IF r.tool = "web" THEN {WebSocket(r)} ELSE {}

\* Those at ports the request names; the others are where mitmproxy likes.
Named(r) == {k \in Sockets(r) : k.use = 0 \/ r.ports # <<>>}

----------------------------------------------------------------------------
(* the operating system *)

Overlap(h, g) == h = g \/ h = AnyHost \/ g = AnyHost

Clash(k, l) == k.transport = l.transport /\ k.port = l.port /\ Overlap(k.host, l.host)

Free(k) == \A l \in foreign \cup UNION {bound[t] : t \in Sessions} : ~Clash(k, l)

ForeignTakes(k) ==
    /\ foreign = {}     \* a cap: one at a time
    /\ Free(k)
    /\ foreign' = {k}
    /\ UNCHANGED <<state, held, request, bound>>

ForeignLeaves ==
    /\ foreign # {}
    /\ foreign' = {}
    /\ UNCHANGED <<state, held, request, bound>>

----------------------------------------------------------------------------
(* the tools and their children *)

\* The probe binds a stream socket.
Probe(c) == Free([transport |-> "tcp", host |-> c.host, port |-> c.port])

\* A refused request leaves nothing behind and may be made again.
Start(s) ==
    /\ Acceptable(request[s])
    /\ \A c \in Claims(request[s]) : Probe(c)
    /\ Registry!Acquire(s, {c.port : c \in Claims(request[s])})
    /\ UNCHANGED <<request, bound, foreign>>

Spawned(s) ==
    /\ Registry!Launch(s)
    /\ UNCHANGED <<request, bound, foreign>>

SpawnFails(s) ==
    /\ state[s] = "granted"
    /\ Registry!End(s)
    /\ held'[s] = {}
    /\ UNCHANGED <<request, bound, foreign>>

\* By itself, or because a stop says so.
Exits(s) ==
    /\ state[s] = "live"
    /\ UNCHANGED held
    /\ Registry!End(s)
    /\ bound' = [bound EXCEPT ![s] = {}]
    /\ UNCHANGED <<request, foreign>>

StopReleases(s) ==
    /\ held[s] # {}
    /\ Registry!Release(s)
    /\ UNCHANGED <<request, bound, foreign>>

Binds(s, k) ==
    /\ state[s] = "live"
    /\ k \in Sockets(request[s]) \ bound[s]
    /\ Free(k)
    /\ bound' = [bound EXCEPT ![s] = @ \cup {k}]
    /\ UNCHANGED <<state, held, request, foreign>>

\* An address in use ends mitmproxy, be it in use by itself.
BindFails(s, k) ==
    /\ k \in Sockets(request[s]) \ bound[s]
    /\ ~Free(k)
    /\ Exits(s)

Next ==
    \/ \E k \in ForeignSocket : ForeignTakes(k)
    \/ ForeignLeaves
    \/ \E s \in Sessions :
        \/ Start(s) \/ Spawned(s) \/ SpawnFails(s) \/ Exits(s) \/ StopReleases(s)
        \/ \E k \in Sockets(request[s]) : Binds(s, k) \/ BindFails(s, k)

Spec == Init /\ [][Next]_vars

----------------------------------------------------------------------------
(* properties *)

Admitted(s) == state[s] \in {"granted", "live"}

\* "Lease proxy ports so two sessions never collide" (core/session.py): the
\* sockets of two admitted sessions never want the same address, unless one of
\* them leaves the port to mitmproxy, which no lease covers.
SessionsDontCompete ==
    \A s, t \in Sessions :
        s # t /\ Admitted(s) /\ Admitted(t) =>
            \A k \in Named(request[s]), l \in Named(request[t]) : ~Clash(k, l)

\* Each port is probed where the child will bind it (tools/mitmweb.py): on
\* admission every stream socket the request names could be bound, whatever
\* other programs, children and sessions without a port hold.  Replay is the
\* exception: it is probed at loopback and binds all interfaces.
AdmittedCanListen ==
    [][\A s \in Sessions :
        state[s] = "new" /\ state'[s] = "granted" /\ request[s].tool # "replay" =>
            \A k \in Named(request[s]) : k.transport = "tcp" => Free(k)]_vars

\* Those whose child answers at an address.
Answering(transport, host, port) ==
    {s \in Sessions : \E k \in bound[s] :
        Clash(k, [transport |-> transport, host |-> host, port |-> port])}

\* The addresses a SessionState lists lead to the session: once its child has
\* bound all its sockets, whoever connects to the first of listen_ports at
\* listen_host, or to web_port at web_host, reaches that child and no other.
ListedPortsServe ==
    \A s \in Sessions :
        LET r == request[s] IN
        state[s] = "live" /\ bound[s] = Sockets(r) =>
            /\ r.ports # <<>> =>
                  \A i \in DOMAIN r.modes : \A transport \in Transports[r.modes[i]] :
                      Answering(transport, StatedHost(r), r.ports[1]) = {s}
            /\ r.tool = "web" => Answering("tcp", r.webHost, r.web) = {s}

=============================================================================
