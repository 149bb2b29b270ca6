--------------------------- MODULE PeerStoreAtomic ---------------------------
(* The refinement mapping from PeerStore to AtomicPeerStore. *)
EXTENDS PeerStore

\* A due change is told from none.
ASSUME DueAssumption == NoOutcome \notin [peer : PeerIds, outcome : OutcomeType]

\* The change whose events are due is that of the client that has stored and
\* not dispatched, if there is one.
Due ==
    IF \E c \in Clients : phase[c] = "stored"
    THEN LET c == CHOOSE d \in Clients : phase[d] = "stored"
         IN  [peer |-> at[c], outcome |-> outcome[c]]
    ELSE NoOutcome

Atomic == INSTANCE AtomicPeerStore
            WITH store <- stored, due <- Due, NotDue <- NoOutcome

\* Every behaviour of the peer store is one of the atomic store: no update is
\* lost between the load and the put of a method, and no event overtakes
\* another.
ImplementsAtomic == Atomic!Spec
=============================================================================
