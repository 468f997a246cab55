---------------------------- MODULE MCUserStreams ----------------------------
\* Two profiles of two accounts. The peer, when it is ready, wins the first.
EXTENDS UserStreams, TLC

CONSTANTS p1, p2, pod, peer

MCProfiles == {p1, p2}
MCOneProfile == {p1}
MCAccount == (p1 :> "a1") @@ (p2 :> "a2")
MCPeers == {peer}
MCScore == (pod :> [a1 |-> 1, a2 |-> 2]) @@ (peer :> [a1 |-> 2, a2 |-> 1])
================================================================================
