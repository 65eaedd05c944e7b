---------------------------- MODULE MCStartTools ----------------------------
(* StartTools with two sessions, two ports and three kinds of modes, one of  *)
(* which is privileged.                                                      *)
EXTENDS StartTools, TLC

CONSTANTS s1, s2, p, q, loopback, lan, any, regular, wireguard, tun

MCTransports == regular :> {"tcp"} @@ wireguard :> {"udp"} @@ tun :> {}
MCDefaultPort == [kind \in Kinds |-> p]

Ask(tool, modes, ports, host, web, webHost) ==
    [tool |-> tool, modes |-> modes, ports |-> ports, host |-> host,
     web |-> web, webHost |-> webHost, allowed |-> TRUE, replayed |-> TRUE]

Usual == Ask("dump", <<regular>>, <<q>>, loopback, p, loopback)

MCRequests ==
    {Ask("dump", <<regular>>, ports, host, p, loopback) :
        ports \in {<<>>, <<q>>}, host \in {loopback, any}}
    \cup {Ask("dump", <<regular, wireguard>>, ports, loopback, p, loopback) :
              ports \in {<<q>>, <<p, q>>, <<q, q>>}}
    \cup {Ask("dump", <<regular, regular>>, <<q>>, lan, p, loopback)}
    \cup {Ask("web", <<regular>>, ports, loopback, p, webHost) :
              ports \in {<<>>, <<p>>, <<q>>}, webHost \in {loopback, lan}}
    \cup {Ask("replay", <<regular>>, ports, lan, p, loopback) : ports \in {<<>>, <<p>>, <<q>>}}
    \cup {[Usual EXCEPT !.allowed = FALSE], [Usual EXCEPT !.modes = <<regular, tun>>],
           [Usual EXCEPT !.tool = "replay", !.replayed = FALSE]}

=============================================================================
