--------------------------- MODULE PubsubNodeFeed ---------------------------
(* The refinement mapping from PubsubNode to PubsubFeed. *)
EXTENDS PubsubNode

\* The feed to p is its entry's outbound stream, if it has one, and is live
\* once the call that attached the stream has sent its greeting.
FeedStage ==
    [p \in Peers |->
       IF ~ Writable(p) THEN "down"
       ELSE IF pc[outbound[peers[p]]] = "done" THEN "live" ELSE "open"]

FeedSaid ==
    [p \in Peers |-> IF Writable(p) THEN told[outbound[peers[p]]] ELSE {}]

Feed == INSTANCE PubsubFeed
          WITH subs <- subscriptions, stage <- FeedStage, said <- FeedSaid

\* Every behaviour of the node is one of the abstract feeds: the steps of
\* dials, awaits, removals and stream failures amount to opening, catching up
\* and dropping feeds, and each subscription change to one step of all feeds.
ImplementsFeed == Feed!Spec
=============================================================================
