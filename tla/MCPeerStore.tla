---------------------------- MODULE MCPeerStore ----------------------------
(* Small instances of PeerStore, with its refinement mapping, for TLC. *)
EXTENDS PeerStoreAtomic, TLC

CONSTANTS p1, p2, k1, k2, c1, c2, c3

OnePeer == {p1}
TwoPeers == {p1, p2}
OneClient == {c1}
TwoClients == {c1, c2}
ThreeClients == {c1, c2, c3}
TwoKeys == {k1, k2}

NoKeys == {}

\* The key k1 belongs to every peer, k2 to another; or no id has a key.
OwnKeys == [p \in PeerIds |-> k1]
NoOwnKeys == [p \in PeerIds |-> NoKey]

\* Callers are interchangeable, and so are peers.
Symmetry == Permutations(Clients) \cup Permutations(PeerIds)
=============================================================================
