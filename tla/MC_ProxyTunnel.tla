-------------------------- MODULE MC_ProxyTunnel --------------------------
(* Small instances of ProxyTunnel for TLC. *)
EXTENDS ProxyTunnel, TLC

CONSTANTS A, B, s1, s2, s3, r1, r2, r3, netA, netB

\* Two connections of tenant A's agent (s2 its reconnection), one of B's.
MCSocketTenant == [s \in Sockets |-> IF s = s3 THEN B ELSE A]

\* r1 asks A for A's network, r2 asks B for B's, r3 asks B for A's.
MCPrincipal == [r \in Requests |-> IF r = r1 THEN A ELSE B]
MCTarget    == [r \in Requests |-> IF r = r2 THEN netB ELSE netA]
MCNetOwner  == [n \in Nets |-> IF n = netB THEN B ELSE A]

\* Every request is A's, for A's network.
MCAllA      == [r \in Requests |-> A]
MCAllNetA   == [r \in Requests |-> netA]

\* Then the sockets are alike (all of A) and so are the requests.
MCSymmetry  == Permutations(Sockets) \cup Permutations(Requests)
===========================================================================
