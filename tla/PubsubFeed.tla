----------------------------- MODULE PubsubFeed -----------------------------
(***************************************************************************)
(* What a pubsub node promises each remote peer about its subscriptions:    *)
(* a feed that is down, open, or live, and that a live feed has said        *)
(* exactly what the node is subscribed to.  Subscribing and unsubscribing   *)
(* reach every feed in one step; dials, awaits and objects do not appear.   *)
(***************************************************************************)
CONSTANTS Peers, Topics

VARIABLES
    subs,       (* the node's subscriptions                                *)
    stage,      (* of the feed to each peer                                *)
    said        (* what the feed has said since it opened                  *)

vars == <<subs, stage, said>>

Stages == {"down", "open", "live"}

TypeOK ==
    /\ subs \in SUBSET Topics
    /\ stage \in [Peers -> Stages]
    /\ said \in [Peers -> SUBSET Topics]

Init ==
    /\ subs = {}
    /\ stage = [p \in Peers |-> "down"]
    /\ said = [p \in Peers |-> {}]

Say(T) == said' = [p \in Peers |-> IF stage[p] = "down" THEN {} ELSE T[p]]

Subscribe(t) ==
    /\ subs' = subs \cup {t}
    /\ Say([p \in Peers |-> said[p] \cup {t}])
    /\ UNCHANGED stage

Unsubscribe(t) ==
    /\ subs' = subs \ {t}
    /\ Say([p \in Peers |-> said[p] \ {t}])
    /\ UNCHANGED stage

\* The feed to p starts again, with nothing said, whatever it was before.
Open(p) ==
    /\ stage' = [stage EXCEPT ![p] = "open"]
    /\ said' = [said EXCEPT ![p] = {}]
    /\ UNCHANGED subs

\* All subscriptions are said at once; the feed may be live from here on.
CatchUp(p) ==
    /\ stage[p] # "down"
    /\ said' = [said EXCEPT ![p] = subs]
    /\ \E s \in {stage[p], "live"} : stage' = [stage EXCEPT ![p] = s]
    /\ UNCHANGED subs

Down(P) ==
    /\ stage' = [p \in Peers |-> IF p \in P THEN "down" ELSE stage[p]]
    /\ said' = [p \in Peers |-> IF p \in P THEN {} ELSE said[p]]

Drop(p) == Down({p}) /\ UNCHANGED subs

\* The node stops: every feed is down and nothing is subscribed to.
Stop == Down(Peers) /\ subs' = {}

Next ==
    \/ \E t \in Topics : Subscribe(t) \/ Unsubscribe(t)
    \/ \E p \in Peers : Open(p) \/ CatchUp(p) \/ Drop(p)
    \/ Stop

Spec == Init /\ [][Next]_vars

\* The promise itself: a live feed has said all subscriptions and no other.
LiveIsExact == \A p \in Peers : stage[p] = "live" => said[p] = subs
=============================================================================
