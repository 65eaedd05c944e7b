CONSTANTS
    p = p
    q = q
    loopback = loopback
    lan = lan
    any = any
    regular = regular
    wireguard = wireguard
    tun = tun
    s1 = s1
    s2 = s2
    Sessions = {s1, s2}
    Ports = {p, q}
    Hosts = {loopback, lan, any}
    Loopback = loopback
    AnyHost = any
    Kinds = {regular, wireguard, tun}
    Privileged = {tun}
    Transports <- MCTransports
    DefaultPort <- MCDefaultPort
    Requests <- MCRequests
SPECIFICATION Spec
INVARIANT TypeOK
INVARIANT SessionsDontCompete
INVARIANT ListedPortsServe
PROPERTY AdmittedCanListen
CHECK_DEADLOCK FALSE
