--------------------------- MODULE ProtocolChoice ---------------------------
(* What a multistream-select negotiation promises: whoever ends up with a    *)
(* protocol has the dialer's first choice among those the listener supports. *)
(* Either end may fail; the dialer never has a protocol before the listener. *)
EXTENDS Naturals, Sequences

CONSTANTS
    Pending,    \* no outcome yet
    Refused,    \* none of the protocols is supported
    Failed      \* the stream ended or the caller gave up

VARIABLES
    wanted,     \* the dialer's protocols, in the order of preference
    supported,  \* the listener's protocols
    dialed,     \* the dialer's outcome
    handled     \* the listener's outcome

vars == <<wanted, supported, dialed, handled>>

\* The first wanted protocol that is supported, if any.
Common == {i \in DOMAIN wanted : wanted[i] \in supported}
Choice ==
    IF Common = {} THEN Refused
    ELSE wanted[CHOOSE i \in Common : \A j \in Common : i <= j]

Init == dialed = Pending /\ handled = Pending

Accept ==
    /\ handled = Pending
    /\ Choice # Refused
    /\ handled' = Choice
    /\ UNCHANGED dialed

Agree ==
    /\ dialed = Pending
    /\ handled = Choice
    /\ dialed' = Choice
    /\ UNCHANGED handled

Refuse ==
    /\ dialed = Pending
    /\ Choice = Refused
    /\ dialed' = Refused
    /\ UNCHANGED handled

DialerFails == dialed = Pending /\ dialed' = Failed /\ UNCHANGED handled
ListenerFails == handled = Pending /\ handled' = Failed /\ UNCHANGED dialed

Next ==
    /\ Accept \/ Agree \/ Refuse \/ DialerFails \/ ListenerFails
    /\ UNCHANGED <<wanted, supported>>

Spec == Init /\ [][Next]_vars
=============================================================================
