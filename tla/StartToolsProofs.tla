-------------------------- MODULE StartToolsProofs --------------------------
(***************************************************************************)
(* The safety properties of StartTools, for any sessions, ports, hosts,    *)
(* kinds of modes and requests.                                            *)
(***************************************************************************)
EXTENDS StartTools, TLAPS

PortsClaimed(r) == {c.port : c \in Claims(r)}

\* An admitted session holds the ports it claimed.
Leased == \A s \in Sessions : Admitted(s) => held[s] = PortsClaimed(request[s])

\* A child binds what its request makes it bind, and the operating system lets
\* nobody bind twice.
BindsItsOwn == \A s \in Sessions : bound[s] \subseteq Sockets(request[s])
Apart ==
    \A s, t \in Sessions : \A k \in bound[s], l \in bound[t] : Clash(k, l) => s = t

IInv == TypeOK /\ Registry!Exclusive /\ Leased /\ BindsItsOwn /\ Apart

----------------------------------------------------------------------------
(* the requests *)

LEMMA SocketsAreSockets ==
    ASSUME NEW r \in Requests
    PROVE  Sockets(r) \subseteq Socket
<1>1. r \in Request
  BY RequestsAssumption
<1>2. r.host \in Hosts /\ r.webHost \in Hosts /\ r.web \in Ports /\ ChildHost(r) \in Hosts
  BY <1>1, HostsAssumption DEF Request, ChildHost
<1>3. DOMAIN r.modes \subseteq Nat
  BY <1>1 DEF Request
<1>4. ProxySockets(r) \subseteq Socket
  BY <1>2, <1>3 DEF ProxySockets, Socket
<1>5. WebSocket(r) \in Socket
  BY <1>2 DEF WebSocket, Socket, Transport
<1> QED
  BY <1>4, <1>5 DEF Sockets

\* Every port that a request names and its child binds is claimed, and but for
\* replay at the host where it is bound.
LEMMA NamedIsClaimed ==
    ASSUME NEW r \in Requests, NEW k \in Named(r)
    PROVE  /\ k.port \in PortsClaimed(r)
           /\ r.tool # "replay" => [port |-> k.port, host |-> k.host] \in Claims(r)
<1>1. r \in Request
  BY RequestsAssumption
<1>2. CASE k \in ProxySockets(r) /\ k.use # 0
  <2>1. r.ports # <<>>
    BY <1>2 DEF Named
  <2>2. 1 \in DOMAIN r.ports
    BY <1>1, <2>1 DEF Request
  <2>3. k.port = r.ports[1] /\ k.host = ChildHost(r)
    BY <1>2, <2>1 DEF ProxySockets, ListenPort
  <2>4. [port |-> k.port, host |-> StatedHost(r)] \in ProxyClaims(r)
    BY <2>2, <2>3 DEF ProxyClaims
  <2>5. [port |-> k.port, host |-> StatedHost(r)] \in Claims(r)
    BY <2>4 DEF Claims
  <2>6. k.port \in PortsClaimed(r)
    BY <2>5 DEF PortsClaimed
  <2> QED
    BY <2>3, <2>5, <2>6 DEF ChildHost, StatedHost
<1>3. CASE r.tool = "web" /\ k = WebSocket(r)
  <2>1. [port |-> k.port, host |-> k.host] \in Claims(r)
    BY <1>3 DEF WebSocket, WebClaims, Claims
  <2> QED
    BY <2>1 DEF PortsClaimed
<1>4. \A l \in ProxySockets(r) : l.use # 0
  <2>1. 0 \notin DOMAIN r.modes
    BY <1>1 DEF Request
  <2> QED
    BY <2>1 DEF ProxySockets
<1> QED
  BY <1>2, <1>3, <1>4 DEF Named, Sockets

----------------------------------------------------------------------------
(* the invariant *)

LEMMA ClashCommutes == ASSUME NEW k, NEW l PROVE Clash(k, l) <=> Clash(l, k)
  BY DEF Clash, Overlap

LEMMA InitIInv == Init => IInv
  BY DEF Init, IInv, TypeOK, Registry!Init, Registry!Exclusive, Leased, Admitted,
         BindsItsOwn, Apart

\* What all steps of the registry alone do.
LEMMA KeepsBound ==
    ASSUME IInv, UNCHANGED <<request, bound>>
    PROVE  BindsItsOwn' /\ Apart'
  BY DEF IInv, BindsItsOwn, Apart

LEMMA StartKeepsIInv ==
    ASSUME IInv, NEW s \in Sessions, Start(s)
    PROVE  IInv'
<1> DEFINE P == PortsClaimed(request[s])
<1> USE DEF IInv
<1>1. Registry!Acquire(s, P) /\ UNCHANGED <<request, bound, foreign>>
  BY DEF Start, PortsClaimed
<1>2. P \subseteq Ports
  <2>1. request[s] \in Request
    BY RequestsAssumption DEF TypeOK
  <2> QED
    BY <2>1 DEF PortsClaimed, Claims, ProxyClaims, WebClaims, Request
<1> HIDE DEF P
<1>3. state' = [state EXCEPT ![s] = "granted"] /\ held' = [held EXCEPT ![s] = P]
      /\ state[s] = "new" /\ \A t \in Sessions : held[t] \cap P = {}
  BY <1>1 DEF Registry!Acquire
<1>4. TypeOK'
  BY <1>1, <1>2, <1>3 DEF TypeOK
<1>5. Registry!Exclusive'
  BY <1>3 DEF TypeOK, Registry!Exclusive
<1>6. Leased'
  <2> SUFFICES ASSUME NEW t \in Sessions, Admitted(t)'
               PROVE  held'[t] = PortsClaimed(request[t])
    BY <1>1 DEF Leased, PortsClaimed, Claims, ProxyClaims, WebClaims, StatedHost
  <2>1. CASE t = s
    BY <1>3, <2>1 DEF TypeOK, P
  <2>2. CASE t # s
    BY <1>3, <2>2 DEF TypeOK, Leased, Admitted
  <2> QED
    BY <2>1, <2>2
<1> QED
  BY <1>1, <1>4, <1>5, <1>6, KeepsBound

\* A session goes on in the registry, with the ports it has or none.
LEMMA MovesKeepIInv ==
    ASSUME IInv, NEW s \in Sessions, UNCHANGED request,
           NEW next \in {"live", "over"},
           state' = [state EXCEPT ![s] = next],
           next = "live" => Admitted(s) /\ UNCHANGED held,
           held' \in {held, [held EXCEPT ![s] = {}]},
           UNCHANGED foreign,
           \/ UNCHANGED bound /\ state[s] # "live"
           \/ next = "over" /\ bound' = [bound EXCEPT ![s] = {}]
    PROVE  IInv'
<1> USE DEF IInv
<1>1. TypeOK'
  BY DEF TypeOK
<1>2. Registry!Exclusive'
  BY DEF TypeOK, Registry!Exclusive
<1>3. Leased'
  BY DEF TypeOK, Leased, Admitted
<1>4. BindsItsOwn' /\ Apart'
  BY DEF TypeOK, BindsItsOwn, Apart
<1> QED
  BY <1>1, <1>2, <1>3, <1>4

LEMMA BindsKeepsIInv ==
    ASSUME IInv, NEW s \in Sessions, NEW k, Binds(s, k)
    PROVE  IInv'
<1> USE DEF IInv
<1>1. k \in Sockets(request[s]) /\ k \in Socket
  BY SocketsAreSockets DEF Binds, TypeOK
<1>2. bound' = [bound EXCEPT ![s] = @ \cup {k}] /\ state[s] = "live"
      /\ UNCHANGED <<state, held, request, foreign>>
  BY DEF Binds
<1>3. TypeOK' /\ Registry!Exclusive' /\ Leased'
  BY <1>1, <1>2 DEF TypeOK, Registry!Exclusive, Leased, Admitted
<1>4. BindsItsOwn'
  BY <1>1, <1>2 DEF TypeOK, BindsItsOwn
<1>5. \A t \in Sessions : \A l \in bound[t] : ~Clash(k, l)
  BY DEF Binds, Free
<1>6. Apart'
  <2> SUFFICES ASSUME NEW t \in Sessions, NEW u \in Sessions,
                      NEW m \in bound'[t], NEW n \in bound'[u], Clash(m, n), t # u
               PROVE  FALSE
    BY DEF Apart
  <2>1. m \in bound[t] \/ (t = s /\ m = k)
    BY <1>2 DEF TypeOK
  <2>2. n \in bound[u] \/ (u = s /\ n = k)
    BY <1>2 DEF TypeOK
  <2> QED
    BY <2>1, <2>2, <1>5, ClashCommutes DEF Apart
<1> QED
  BY <1>3, <1>4, <1>6

LEMMA NextKeepsIInv == IInv /\ [Next]_vars => IInv'
<1> SUFFICES ASSUME IInv, [Next]_vars
             PROVE  IInv'
  OBVIOUS
<1>1. CASE UNCHANGED vars
  BY <1>1 DEF vars, IInv, TypeOK, Registry!Exclusive, Leased, Admitted, BindsItsOwn, Apart
<1>2. CASE ForeignLeaves \/ \E k \in ForeignSocket : ForeignTakes(k)
  BY <1>2 DEF ForeignTakes, ForeignLeaves, IInv, TypeOK, Registry!Exclusive, Leased,
              Admitted, BindsItsOwn, Apart
<1>3. ASSUME NEW s \in Sessions, Start(s)
      PROVE  IInv'
  BY <1>3, StartKeepsIInv
<1>4. ASSUME NEW s \in Sessions, Spawned(s)
      PROVE  IInv'
  BY <1>4, MovesKeepIInv DEF Spawned, Registry!Launch, Admitted
<1>5. ASSUME NEW s \in Sessions, SpawnFails(s)
      PROVE  IInv'
  BY <1>5, MovesKeepIInv DEF SpawnFails, Registry!End
<1>6. ASSUME NEW s \in Sessions, Exits(s)
      PROVE  IInv'
  BY <1>6, MovesKeepIInv DEF Exits, Registry!End
<1>7. ASSUME NEW s \in Sessions, StopReleases(s)
      PROVE  IInv'
  <2>1. state' = [state EXCEPT ![s] = "over"] /\ state[s] = "over"
    BY <1>7 DEF StopReleases, Registry!Release, IInv, TypeOK
  <2> QED
    BY <1>7, <2>1, MovesKeepIInv DEF StopReleases, Registry!Release
<1>8. ASSUME NEW s \in Sessions, NEW k \in Sockets(request[s]), Binds(s, k)
      PROVE  IInv'
  BY <1>8, BindsKeepsIInv
<1>9. ASSUME NEW s \in Sessions, NEW k \in Sockets(request[s]), BindFails(s, k)
      PROVE  IInv'
  BY <1>9, <1>6 DEF BindFails
<1> QED
  BY <1>1, <1>2, <1>3, <1>4, <1>5, <1>6, <1>7, <1>8, <1>9 DEF Next

LEMMA IInvHolds == Spec => []IInv
  BY InitIInv, NextKeepsIInv, PTL DEF Spec

----------------------------------------------------------------------------
(* the properties *)

\* The variables of StartTools always have their types; only a child that is
\* live has sockets.
THEOREM TypeCorrect == Spec => []TypeOK
  BY IInvHolds, PTL DEF IInv

\* Two admitted sessions never want the same socket address, as the ports that
\* a request names and its child binds are among those leased
\* (core/session.py, SessionRegistry.start; core/modes.py).
THEOREM NoCompetition == Spec => []SessionsDontCompete
<1>1. IInv => SessionsDontCompete
  <2> SUFFICES ASSUME IInv, NEW s \in Sessions, NEW t \in Sessions, s # t,
                      Admitted(s), Admitted(t),
                      NEW k \in Named(request[s]), NEW l \in Named(request[t]), Clash(k, l)
               PROVE  FALSE
    BY DEF SessionsDontCompete
  <2>1. request[s] \in Requests /\ request[t] \in Requests
    BY DEF IInv, TypeOK
  <2>2. k.port \in held[s] /\ l.port \in held[t]
    BY <2>1, NamedIsClaimed DEF IInv, Leased
  <2> QED
    BY <2>2 DEF IInv, Registry!Exclusive, Clash
<1> QED
  BY <1>1, IInvHolds, PTL

\* Each stream socket a request names is probed where the child will bind it
\* (tools/mitmweb.py, port_hosts), replay excepted.
THEOREM ProbesWhereItBinds == Spec => AdmittedCanListen
<1>1. IInv /\ [Next]_vars =>
        [\A s \in Sessions :
            state[s] = "new" /\ state'[s] = "granted" /\ request[s].tool # "replay" =>
                \A k \in Named(request[s]) : k.transport = "tcp" => Free(k)]_vars
  <2> SUFFICES ASSUME IInv, Next, NEW s \in Sessions,
                      state[s] = "new", state'[s] = "granted", request[s].tool # "replay",
                      NEW k \in Named(request[s]), k.transport = "tcp"
               PROVE  Free(k)
    BY DEF vars
  <2>1. Start(s)
    BY DEF Next, ForeignTakes, ForeignLeaves, Start, Spawned, SpawnFails, Exits, StopReleases,
           Binds, BindFails, Registry!Acquire, Registry!Launch, Registry!End,
           Registry!Release, IInv, TypeOK
  <2>2. [port |-> k.port, host |-> k.host] \in Claims(request[s])
    BY NamedIsClaimed DEF IInv, TypeOK
  <2>3. Probe([port |-> k.port, host |-> k.host])
    BY <2>1, <2>2 DEF Start
  <2> QED
    BY <2>3 DEF Probe, Free, Clash
<1> QED
  BY <1>1, IInvHolds, PTL DEF Spec, AdmittedCanListen

\* Who connects to the first listed port at the listed host, or to the listed
\* web address, reaches the session, once its child has bound all its sockets
\* (schemas/process.py, SessionState).
THEOREM ListedAddressesLeadHome == Spec => []ListedPortsServe
<1>1. ASSUME IInv, NEW s \in Sessions, NEW transport, NEW host, NEW port, NEW k \in bound[s],
             k.transport = transport, k.port = port, k.host = host \/ k.host = AnyHost
      PROVE  Answering(transport, host, port) = {s}
  <2>1. s \in Answering(transport, host, port)
    BY <1>1 DEF Answering, Clash, Overlap
  <2>2. ASSUME NEW t \in Sessions, NEW l \in bound[t],
               Clash(l, [transport |-> transport, host |-> host, port |-> port])
        PROVE  t = s
    <3>1. Clash(l, k)
      BY <1>1, <2>2 DEF Clash, Overlap
    <3> QED
      BY <3>1, <1>1 DEF IInv, Apart
  <2> QED
    BY <2>1, <2>2 DEF Answering
<1>2. IInv => ListedPortsServe
  <2> SUFFICES ASSUME IInv, NEW s \in Sessions, bound[s] = Sockets(request[s])
               PROVE  /\ request[s].ports # <<>> =>
                           \A i \in DOMAIN request[s].modes :
                               \A transport \in Transports[request[s].modes[i]] :
                                   Answering(transport, StatedHost(request[s]),
                                             request[s].ports[1]) = {s}
                      /\ request[s].tool = "web" =>
                           Answering("tcp", request[s].webHost, request[s].web) = {s}
    BY Zenon DEF ListedPortsServe
  <2> DEFINE r == request[s]
  <2>1. r \in Request
    BY RequestsAssumption DEF IInv, TypeOK
  <2>2. ASSUME r.ports # <<>>, NEW i \in DOMAIN r.modes, NEW transport \in Transports[r.modes[i]]
        PROVE  Answering(transport, StatedHost(r), r.ports[1]) = {s}
    <3> DEFINE k == [use |-> i, transport |-> transport, host |-> ChildHost(r),
                     port |-> r.ports[1]]
    <3>1. r.ports[1] \in Ports /\ r.modes[i] \in Kinds
      BY <2>1, <2>2 DEF Request
    <3>2. transport \in Transport
      BY <2>2, <3>1, KindsAssumption
    <3>3. k \in ProxySockets(r)
      BY <2>2, <3>1, <3>2 DEF ProxySockets, ListenPort
    <3>4. k \in bound[s]
      BY <3>3 DEF Sockets
    <3>5. k.host = StatedHost(r) \/ k.host = AnyHost
      BY DEF StatedHost, ChildHost
    <3>6. k.transport = transport /\ k.port = r.ports[1]
      OBVIOUS
    <3> HIDE DEF k, r
    <3> QED
      BY <1>1, <3>4, <3>5, <3>6
  <2>3. ASSUME r.tool = "web"
        PROVE  Answering("tcp", r.webHost, r.web) = {s}
    <3>1. WebSocket(r) \in bound[s]
      BY <2>3 DEF Sockets
    <3> QED
      BY <1>1, <3>1 DEF WebSocket
  <2> QED
    BY <2>2, <2>3
<1> QED
  BY <1>2, IInvHolds, PTL

\* Nor do the tools and their children ask more of the registry than it promises
\* of ports: what SessionRegistry implements is what is relied on here.
THEOREM RegistryKeepsPromise == Spec => Registry!Spec
<1>1. Init => Registry!Init
  BY DEF Init
<1>2. IInv /\ [Next]_vars => [Registry!Next]_(Registry!vars)
  <2> SUFFICES ASSUME IInv, [Next]_vars PROVE Registry!Next \/ UNCHANGED <<state, held>>
    BY DEF Registry!vars
  <2>1. ASSUME NEW s \in Sessions, Start(s) PROVE Registry!Next
    <3> DEFINE P == PortsClaimed(request[s])
    <3>1. Registry!Acquire(s, P)
      BY <2>1 DEF Start, PortsClaimed
    <3>2. request[s] \in Request
      BY RequestsAssumption DEF IInv, TypeOK
    <3>3. P \in SUBSET Ports
      BY <3>2 DEF PortsClaimed, Claims, ProxyClaims, WebClaims, Request
    <3> HIDE DEF P
    <3> QED
      BY <3>1, <3>3 DEF Registry!Next
  <2>2. ASSUME NEW s \in Sessions, Spawned(s) \/ SpawnFails(s) \/ Exits(s) \/ StopReleases(s)
        PROVE  Registry!Next
    BY <2>2 DEF Spawned, SpawnFails, Exits, StopReleases, Registry!Next
  <2>3. ASSUME NEW s \in Sessions, NEW k, Binds(s, k) \/ BindFails(s, k)
        PROVE  Registry!Next \/ UNCHANGED <<state, held>>
    BY <2>2, <2>3 DEF Binds, BindFails
  <2>4. ASSUME NEW k, ForeignTakes(k) \/ ForeignLeaves PROVE UNCHANGED <<state, held>>
    BY <2>4 DEF ForeignTakes, ForeignLeaves
  <2>5. CASE UNCHANGED vars
    BY <2>5 DEF vars
  <2> QED
    BY <2>1, <2>2, <2>3, <2>4, <2>5 DEF Next
<1> QED
  BY <1>1, <1>2, IInvHolds, PTL DEF Spec, Registry!Spec

=============================================================================
