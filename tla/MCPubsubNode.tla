---------------------------- MODULE MCPubsubNode ----------------------------
(* Small instances of PubsubNode, with its refinement mapping, for TLC. *)
EXTENDS PubsubNodeFeed, TLC

CONSTANTS p1, o1, o2, o3, c1, c2, r1

OnePeer == {p1}
TwoStreams == {o1, o2}
ThreeStreams == {o1, o2, o3}
TwoCalls == {c1, c2}
OneReader == {r1}

\* Identifiers of objects, calls and readers are interchangeable, and so are
\* the peers: none is told from another by an action or a safety property.
Symmetry ==
    Permutations(Peers) \cup Permutations(Streams)
    \cup Permutations(Calls) \cup Permutations(Readers)
=============================================================================
