----------------------------- MODULE MCPeerServices ----------------------------
EXTENDS PeerServices, TLC

CONSTANTS s1, s2, n1, n2, v1, v2

OnePeer == {s1}
TwoPeers == {s1, s2}
OneName == {n1}
NoName == {}
TwoNames == {n1, n2}
TwoValues == {v1, v2}
OneToOne == (s1 :> n1) @@ (s2 :> n2)
OnlyOne == [s \in {s1} |-> n1]
=============================================================================
