------------------------ MODULE PubsubMessagesProofs ------------------------
(* MessagesInv, the inductive invariant of PubsubMessages, holds of every     *)
(* behaviour, for any topics, listeners, messages, objects and options, any   *)
(* concurrency and lists of any length. One lemma for what each operation on  *)
(* the lists of listeners does, one for what a step leaves alone, and one per *)
(* conjunct of the invariant.                                                 *)
EXTENDS PubsubMessages, ListsProofs

Delivering(id) == dispatching # None /\ dispatching.then.to = "relay" /\ dispatching.id = id

\* The messages that wait, those of an RPC whose change of subscriptions is being
\* dispatched included.
Waiting ==
    IF dispatching # None /\ dispatching.then.to = "queue"
    THEN queue \o dispatching.then.ids ELSE queue

\* No message waits twice.
QueueInOrder == \A i, j \in DOMAIN Waiting : i < j => Waiting[i] < Waiting[j]

\* The message that is being delivered has been validated and has its place among
\* the running ones; who is entitled to it has heard it or is still to be called.
InHand ==
    dispatching # None =>
        /\ \A l \in Range(dispatching.rest) : l.type = dispatching.type
        /\ dispatching.then.to = "queue" =>
              dispatching.id = 0 /\ dispatching.then.ids \in Seq(1 .. Len(received))
        /\ dispatching.then.to = "publish" => dispatching.id = 0
        /\ dispatching.then.to = "relay" =>
              LET id == dispatching.id
              IN  /\ id \in 1 .. Len(received)
                  /\ dispatching.type = received[id].topic
                  /\ [id |-> id, phase |-> "validating"] \in running
                  /\ wanted[id] \subseteq heard[id] \cup Called(dispatching.rest)

Untouched(id) == outcome[id] = "pending" /\ heard[id] = {} /\ \A r \in running : r.id # id

\* Nothing has happened to a message that waits; a message is heard only while it
\* is delivered, and is relayed then.
Lifecycle ==
    /\ \A id \in Ids : id > Len(received) \/ id \in Range(Waiting) => Untouched(id)
    /\ \A r \in running : outcome[r.id] = IF r.phase = "validating" THEN "pending" ELSE "relayed"
    /\ \A id \in Ids : heard[id] # {} => Delivering(id) \/ outcome[id] = "relayed"

TypesOfLists == \A t \in Types : \A l \in Range(targets[t]) \cup Range(lists[t]) : l.type = t

\* A target for good is counted. So is one for one event, if it is no stray, and
\* it is still to be called if its type is being dispatched.
TargetsAreCounted ==
    \A t \in Types : \A l \in Range(targets[t]) :
        /\ ~ l.once => l \in Range(lists[t])
        /\ l.once /\ l.callback \notin strays[t] =>
              /\ l \in Range(lists[t])
              /\ dispatching # None /\ dispatching.type = t => l \in Range(dispatching.rest)

\* The platform has the callback of a counted listener that is no stray, and has
\* it for good if the listener is for good; a listener for one event may have been
\* called by the dispatch that is going on.
CountedAreTargets ==
    \A t \in Types : \A l \in Range(lists[t]) :
        l.callback \notin strays[t] =>
            \/ \E m \in Range(targets[t]) : m.callback = l.callback /\ (m.once => l.once)
            \/ l.once /\ dispatching # None /\ dispatching.type = t

ListsAgree == TargetsAreCounted /\ CountedAreTargets

\* Whom the platform calls for a type, and does now, but for strays.
Served(t) == Called(targets[t]) \ strays[t]
ServedNow(t) == Called(targets'[t]) \ strays'[t]

\* Who is entitled to a message has heard it or can still be called for it, and
\* has heard it if the node is not subscribed to its topic any more.
WantedAreThere ==
    \A id \in 1 .. Len(received) :
        /\ wanted[id] \subseteq heard[id] \cup Served(received[id].topic)
        /\ received[id].topic \notin subscriptions => wanted[id] \subseteq heard[id]

MessagesInv ==
    /\ TypeOK
    /\ TypesOfLists
    /\ ListsAgree
    /\ QueueInOrder
    /\ InHand
    /\ Lifecycle
    /\ WantedAreThere
    /\ EntitledHear

-----------------------------------------------------------------------------
(* The operators on lists of listeners.                                       *)

\* A list whose elements are all in a set is a list of that set.
LEMMA ListOfItsRange ==
    ASSUME NEW E, NEW S, NEW list \in Seq(E), Range(list) \subseteq S
    PROVE  list \in Seq(S)
<1>1. Len(list) \in Nat /\ list = [i \in 1 .. Len(list) |-> list[i]] /\ DOMAIN list = 1 .. Len(list)
  OBVIOUS
<1>2. \A i \in 1 .. Len(list) : list[i] \in S
  BY <1>1 DEF Range
<1>3. QED
  BY <1>1, <1>2

LEMMA ListOfLargerSet ==
    ASSUME NEW E, NEW S, E \subseteq S, NEW list \in Seq(E)
    PROVE  list \in Seq(S)
<1>1. Range(list) \subseteq S
  BY RangeOfList
<1>2. QED
  BY <1>1, ListOfItsRange

LEMMA WithoutDoes ==
    ASSUME NEW list \in Seq(Listeners), NEW c
    PROVE  /\ Without(list, c) \in Seq(Listeners)
           /\ \A l : l \in Range(Without(list, c)) <=> l \in Range(list) /\ l.callback # c
<1> DEFINE S == {l \in Listeners : l.callback # c}
<1>1. /\ Only(list, S) \in Seq(Listeners)
      /\ Range(Only(list, S)) = Range(list) \cap S
  <2> HIDE DEF S
  <2>1. QED
    BY OnlyDoes
<1>2. Range(list) \subseteq Listeners
  BY RangeOfList
<1>3. QED
  BY <1>1, <1>2 DEF Without

LEMMA AddTargetDoes ==
    ASSUME NEW list \in Seq(Listeners), NEW l \in Listeners
    PROVE  /\ AddTarget(list, l) \in Seq(Listeners)
           /\ \A m : m \in Range(AddTarget(list, l)) <=>
                        m \in Range(list) \/ (m = l /\ l.callback \notin Called(list))
<1>1. CASE l.callback \in Called(list)
  BY <1>1 DEF AddTarget
<1>2. CASE l.callback \notin Called(list)
  BY <1>2, AppendDoes DEF AddTarget
<1>3. QED
  BY <1>1, <1>2

\* The callbacks of a list.
LEMMA CalledAre ==
    ASSUME NEW list
    PROVE  \A c : c \in Called(list) <=> \E l \in Range(list) : c = l.callback
  BY DEF Called, Range

-----------------------------------------------------------------------------
(* What the operations on the listeners do to the lists.                      *)

LEMMA ListenersAre ==
    ASSUME NEW l \in Listeners
    PROVE  /\ l.type \in Types /\ l.callback \in Callbacks /\ l.once \in BOOLEAN
           /\ l \in [type : Types, callback : Callbacks, once : BOOLEAN]
  BY ListenersAssumption

LEMMA DispatchesAre ==
    ASSUME NEW d \in Dispatches
    PROVE  /\ d # None
           /\ d.type \in Types /\ d.id \in 0 .. MaxMessages /\ d.rest \in Seq(Listeners)
           /\ d.then.to \in {"queue", "relay", "publish"}
           /\ d.then.to = "queue" => d.then.ids \in Seq(Ids)
           /\ d.then.to = "publish" => d.then.message \in OwnMessages
           /\ \A rest \in Seq(Listeners) :
                 LET e == [d EXCEPT !.rest = rest]
                 IN  /\ e \in Dispatches
                     /\ e.type = d.type /\ e.id = d.id /\ e.then = d.then /\ e.rest = rest
  BY MessagesAssumption DEF Dispatches

ListsTyped ==
    /\ targets \in [Types -> Seq(Listeners)]
    /\ lists \in [Types -> Seq(Listeners)]
    /\ strays \in [Types -> SUBSET Callbacks]

\* addEventListener(): one more listener, in both lists of its type, unless the
\* platform has its callback.
LEMMA AddDoes ==
    ASSUME TypeOK, NEW l \in Listeners, AddEventListener(l)
    PROVE  /\ ListsTyped' /\ UNCHANGED dispatching
           /\ \A t \in Types : \A m :
                 /\ m \in Range(targets'[t]) <=>
                       \/ m \in Range(targets[t])
                       \/ m = l /\ t = l.type /\ l.callback \notin Called(targets[t])
                 /\ m \in Range(lists'[t]) <=> m \in Range(lists[t]) \/ (m = l /\ t = l.type)
           /\ \A t \in Types : strays[t] \subseteq strays'[t]
           /\ Parts(l) => l.callback \in strays'[l.type]
<1> DEFINE old == targets[l.type]
           listed == lists[l.type]
           new == AddTarget(old, l)
           more == Append(listed, l)
<1>1. ListsTyped /\ l.type \in Types /\ l.callback \in Callbacks
  BY ListenersAre DEF TypeOK, ListsTyped
<1>2. old \in Seq(Listeners) /\ listed \in Seq(Listeners)
  BY <1>1 DEF ListsTyped
<1>3. /\ strays' \in [Types -> SUBSET Callbacks]
      /\ \A t \in Types : strays[t] \subseteq strays'[t]
      /\ Parts(l) => l.callback \in strays'[l.type]
  <2>1. strays' = IF Parts(l) THEN [strays EXCEPT ![l.type] = @ \cup {l.callback}] ELSE strays
    BY DEF AddEventListener
  <2>2. strays \in [Types -> SUBSET Callbacks]
    BY <1>1 DEF ListsTyped
  <2>3. QED
    BY ONLY <1>1, <2>1, <2>2
<1>4. /\ targets' = [targets EXCEPT ![l.type] = new] /\ lists' = [lists EXCEPT ![l.type] = more]
      /\ UNCHANGED dispatching
  BY DEF AddEventListener
<1> HIDE DEF old, listed
<1>5. /\ new \in Seq(Listeners)
      /\ \A m : m \in Range(new) <=> m \in Range(old) \/ (m = l /\ l.callback \notin Called(old))
  BY <1>2, AddTargetDoes
<1>6. more \in Seq(Listeners) /\ Range(more) = Range(listed) \cup {l}
  BY <1>2, AppendDoes
<1> HIDE DEF new, more
<1>7. ListsTyped'
  BY <1>1, <1>3, <1>4, <1>5, <1>6 DEF ListsTyped
<1>8. ASSUME NEW t \in Types, NEW m
      PROVE  /\ m \in Range(targets'[t]) <=>
                   \/ m \in Range(targets[t])
                   \/ m = l /\ t = l.type /\ l.callback \notin Called(targets[t])
             /\ m \in Range(lists'[t]) <=> m \in Range(lists[t]) \/ (m = l /\ t = l.type)
  <2>1. CASE t = l.type
    <3>1. targets'[t] = new /\ lists'[t] = more
      BY <1>1, <1>4, <2>1 DEF ListsTyped
    <3>2. targets[t] = old /\ lists[t] = listed
      BY <2>1 DEF old, listed
    <3>3. QED
      BY <1>5, <1>6, <2>1, <3>1, <3>2
  <2>2. CASE t # l.type
    <3>1. targets'[t] = targets[t] /\ lists'[t] = lists[t]
      BY <1>1, <1>4, <2>2 DEF ListsTyped
    <3>2. QED
      BY <2>2, <3>1
  <2>3. QED
    BY <2>1, <2>2
<1>9. QED
  BY <1>3, <1>4, <1>7, <1>8

\* What is removed from one list of a type.
LeftAt(f, g, t, c) ==
    /\ g \in [Types -> Seq(Listeners)]
    /\ \A u \in Types : \A m :
          m \in Range(g[u]) <=> m \in Range(f[u]) /\ (u = t => m.callback # c)

LEMMA WithoutAt ==
    ASSUME NEW f \in [Types -> Seq(Listeners)], NEW t \in Types, NEW c,
           NEW g, g = [f EXCEPT ![t] = Without(@, c)]
    PROVE  LeftAt(f, g, t, c)
<1> DEFINE left == Without(f[t], c)
<1>1. /\ left \in Seq(Listeners)
      /\ \A m : m \in Range(left) <=> m \in Range(f[t]) /\ m.callback # c
  BY WithoutDoes
<1>2. g = [f EXCEPT ![t] = left]
  OBVIOUS
<1> HIDE DEF left
<1>3. g \in [Types -> Seq(Listeners)]
  BY <1>1, <1>2
<1>4. g[t] = left /\ \A u \in Types : u # t => g[u] = f[u]
  BY <1>2
<1>5. \A u \in Types : \A m :
         m \in Range(g[u]) <=> m \in Range(f[u]) /\ (u = t => m.callback # c)
  BY ONLY <1>1, <1>4
<1>6. QED
  BY <1>3, <1>5 DEF LeftAt

\* A callback that is removed is no stray any more.
LEMMA StraysLeft ==
    ASSUME TypeOK, NEW t \in Types, NEW c \in Callbacks, RemoveEventListener(t, c)
    PROVE  /\ strays' \in [Types -> SUBSET Callbacks]
           /\ \A u \in Types : strays'[u] = IF u = t THEN strays[u] \ {c} ELSE strays[u]
<1>1. strays' = [strays EXCEPT ![t] = @ \ {c}]
  BY DEF RemoveEventListener
<1>2. strays \in [Types -> SUBSET Callbacks]
  BY DEF TypeOK
<1>3. QED
  BY ONLY t \in Types, <1>1, <1>2

\* removeEventListener(): the listeners with the callback go, those still to be
\* called included.
LEMMA RemoveDoes ==
    ASSUME TypeOK, NEW t \in Types, NEW c \in Callbacks, RemoveEventListener(t, c)
    PROVE  /\ ListsTyped'
           /\ \A u \in Types : \A m :
                 /\ m \in Range(targets'[u]) <=>
                       m \in Range(targets[u]) /\ (u = t => m.callback # c)
                 /\ m \in Range(lists'[u]) <=>
                       m \in Range(lists[u]) /\ (u = t => m.callback # c)
           /\ dispatching = None => dispatching' = None
           /\ dispatching # None =>
                 /\ dispatching' \in Dispatches
                 /\ dispatching'.type = dispatching.type
                 /\ dispatching'.id = dispatching.id
                 /\ dispatching'.then = dispatching.then
                 /\ \A m : m \in Range(dispatching'.rest) <=>
                              /\ m \in Range(dispatching.rest)
                              /\ dispatching.type = t => m.callback # c
<1>1. ListsTyped
  BY DEF TypeOK, ListsTyped
<1>2. /\ targets' = [targets EXCEPT ![t] = Without(@, c)]
      /\ lists' = [lists EXCEPT ![t] = Without(@, c)]
      /\ dispatching' = Removed(t, c)
  BY DEF RemoveEventListener, RemoveEntries
<1>3. targets \in [Types -> Seq(Listeners)] /\ lists \in [Types -> Seq(Listeners)]
  BY <1>1 DEF ListsTyped
<1>4. LeftAt(targets, targets', t, c)
  BY ONLY t \in Types, <1>2, <1>3, WithoutAt
<1>5. LeftAt(lists, lists', t, c)
  BY ONLY t \in Types, <1>2, <1>3, WithoutAt
<1>6. dispatching = None => dispatching' = None
  BY <1>2 DEF Removed
<1>7. ASSUME dispatching # None
      PROVE  /\ dispatching' \in Dispatches
             /\ dispatching'.type = dispatching.type
             /\ dispatching'.id = dispatching.id
             /\ dispatching'.then = dispatching.then
             /\ \A m : m \in Range(dispatching'.rest) <=>
                          /\ m \in Range(dispatching.rest)
                          /\ dispatching.type = t => m.callback # c
  <2> DEFINE left == Without(dispatching.rest, c)
  <2>1. dispatching \in Dispatches
    BY <1>7 DEF TypeOK
  <2>2. dispatching.rest \in Seq(Listeners)
    BY <2>1, DispatchesAre
  <2>3. CASE dispatching.type = t
    <3>1. dispatching' = [dispatching EXCEPT !.rest = left]
      BY <1>2, <1>7, <2>3 DEF Removed
    <3>2. /\ left \in Seq(Listeners)
          /\ \A m : m \in Range(left) <=> m \in Range(dispatching.rest) /\ m.callback # c
      BY <2>2, WithoutDoes
    <3> HIDE DEF left
    <3>3. /\ dispatching' \in Dispatches /\ dispatching'.rest = left
          /\ dispatching'.type = dispatching.type
          /\ dispatching'.id = dispatching.id
          /\ dispatching'.then = dispatching.then
      BY <2>1, <3>1, <3>2, DispatchesAre
    <3>4. QED
      BY <2>3, <3>2, <3>3
  <2>4. CASE dispatching.type # t
    <3>1. dispatching' = dispatching
      BY <1>2, <2>4 DEF Removed
    <3>2. QED
      BY <2>1, <2>4, <3>1
  <2>5. QED
    BY <2>3, <2>4
<1>8. QED
  BY <1>4, <1>5, <1>6, <1>7, StraysLeft DEF ListsTyped, LeftAt

\* One more listener is called; a listener for one event is no target any more.
Calling(l) ==
    /\ dispatching \in Dispatches /\ dispatching' \in Dispatches
    /\ dispatching'.type = dispatching.type
    /\ dispatching'.id = dispatching.id
    /\ dispatching'.then = dispatching.then
    /\ \A m : m \in Range(dispatching.rest) <=> m = l \/ m \in Range(dispatching'.rest)
    /\ \A t \in Types : \A m :
          m \in Range(targets'[t]) <=>
             /\ m \in Range(targets[t])
             /\ l.once /\ t = dispatching.type => m # l
    /\ UNCHANGED <<lists, strays>>
    /\ heard' = IF dispatching.id = 0 THEN heard
                ELSE [heard EXCEPT ![dispatching.id] = @ \cup {l.callback}]

LEMMA CallDoes ==
    ASSUME TypeOK, CallListener
    PROVE  ListsTyped' /\ \E l \in Listeners : Calling(l)
<1> DEFINE l == Head(dispatching.rest)
           rest == Tail(dispatching.rest)
           t == dispatching.type
           S == Listeners \ {l}
           left == Only(targets[t], S)
<1>1. dispatching \in Dispatches
  BY DEF TypeOK, CallListener
<1>2. dispatching.rest \in Seq(Listeners) /\ dispatching.rest # <<>> /\ t \in Types
  BY <1>1, DispatchesAre DEF CallListener
<1>3. /\ l \in Listeners /\ rest \in Seq(Listeners)
      /\ Range(dispatching.rest) = {l} \cup Range(rest)
  BY <1>2, HeadAndTail
<1>4. /\ dispatching' = [dispatching EXCEPT !.rest = rest]
      /\ targets' = IF l.once THEN [targets EXCEPT ![t] = left] ELSE targets
      /\ UNCHANGED <<lists, strays>>
      /\ heard' = IF dispatching.id = 0 THEN heard
                  ELSE [heard EXCEPT ![dispatching.id] = @ \cup {l.callback}]
  BY DEF CallListener
<1> HIDE DEF l, rest
<1>5. /\ dispatching' \in Dispatches /\ dispatching'.rest = rest
      /\ dispatching'.type = dispatching.type
      /\ dispatching'.id = dispatching.id
      /\ dispatching'.then = dispatching.then
  BY <1>1, <1>3, <1>4, DispatchesAre
<1>6. ListsTyped
  BY DEF TypeOK, ListsTyped
<1>11. targets[t] \in Seq(Listeners)
  BY <1>2, <1>6 DEF ListsTyped
<1> HIDE DEF S
<1>12. left \in Seq(Listeners) /\ Range(left) = Range(targets[t]) \cap S
  BY <1>11, OnlyDoes
<1>13. \A m : m \in Range(left) <=> m \in Range(targets[t]) /\ m # l
  BY <1>11, <1>12, RangeOfList DEF S
<1> HIDE DEF t, left
<1>7. /\ targets' \in [Types -> Seq(Listeners)]
      /\ \A u \in Types : \A m :
            m \in Range(targets'[u]) <=> m \in Range(targets[u]) /\ (l.once /\ u = t => m # l)
  <2>0. targets \in [Types -> Seq(Listeners)]
    BY <1>6 DEF ListsTyped
  <2>1. CASE l.once
    <3>1. targets' = [targets EXCEPT ![t] = left]
      BY <1>4, <2>1
    <3>2. targets'[t] = left /\ \A u \in Types : u # t => targets'[u] = targets[u]
      BY <1>2, <2>0, <3>1
    <3>3. targets' \in [Types -> Seq(Listeners)]
      BY <1>12, <2>0, <3>1
    <3>4. ASSUME NEW u \in Types, NEW m
          PROVE  m \in Range(targets'[u]) <=> m \in Range(targets[u]) /\ (u = t => m # l)
      <4>1. CASE u = t
        BY <1>13, <3>2, <4>1
      <4>2. CASE u # t
        BY <3>2, <4>2
      <4>3. QED
        BY <4>1, <4>2
    <3>5. QED
      BY <2>1, <3>3, <3>4
  <2>2. CASE ~ l.once
    BY <1>4, <2>0, <2>2
  <2>3. QED
    BY <2>1, <2>2
<1>8. ListsTyped'
  BY <1>4, <1>6, <1>7 DEF ListsTyped
<1>9. Calling(l)
  BY <1>1, <1>3, <1>4, <1>5, <1>7 DEF Calling, t
<1>10. QED
  BY <1>3, <1>8, <1>9

\* The end of a dispatch: nobody is left to be called, and the listeners for one
\* event of the type are not counted any more.
LEMMA FinishDoes ==
    ASSUME TypeOK, Finish
    PROVE  /\ dispatching \in Dispatches /\ dispatching' = None
           /\ Range(dispatching.rest) = {}
           /\ UNCHANGED <<targets, strays>>
           /\ lists' \in [Types -> Seq(Listeners)]
           /\ \A t \in Types : \A m :
                 m \in Range(lists'[t]) <=>
                    m \in Range(lists[t]) /\ (t = dispatching.type => ~ m.once)
<1> DEFINE S == {l \in Listeners : ~ l.once}
           u == dispatching.type
           list == lists[u]
           left == Only(list, S)
<1>1. /\ dispatching \in Dispatches /\ dispatching' = None /\ dispatching.rest = <<>>
      /\ UNCHANGED <<targets, strays>>
  BY DEF TypeOK, Finish
<1>2. u \in Types /\ dispatching.rest \in Seq(Listeners)
  BY <1>1, DispatchesAre
<1>3. Range(dispatching.rest) = {}
  BY <1>1, <1>2, RangeOfList
<1>4. lists \in [Types -> Seq(Listeners)]
  BY DEF TypeOK
<1>5. list \in Seq(Listeners)
  BY <1>2, <1>4
<1>6. lists' = [lists EXCEPT ![u] = left]
  BY DEF Finish
<1> HIDE DEF list, S, u
<1>7. left \in Seq(Listeners) /\ Range(left) = Range(list) \cap S
  BY <1>5, OnlyDoes
<1> HIDE DEF left
<1>8. lists' \in [Types -> Seq(Listeners)]
  BY <1>4, <1>6, <1>7
<1>9. lists'[u] = left /\ \A t \in Types : t # u => lists'[t] = lists[t]
  BY <1>2, <1>4, <1>6
<1>10. Range(list) \subseteq Listeners
  BY <1>5, RangeOfList
<1>11. ASSUME NEW t \in Types, NEW m
       PROVE  m \in Range(lists'[t]) <=> m \in Range(lists[t]) /\ (t = u => ~ m.once)
  <2>1. CASE t = u
    BY <1>7, <1>9, <1>10, <2>1 DEF list, S
  <2>2. CASE t # u
    BY <1>9, <2>2
  <2>3. QED
    BY <2>1, <2>2
<1>12. QED
  BY <1>1, <1>3, <1>8, <1>11 DEF u

\* A dispatch that begins has all the listeners of its type to call.
LEMMA DispatchDoes ==
    ASSUME TypeOK, NEW t \in Types, NEW id \in 0 .. MaxMessages, NEW then,
           \/ then.to = "queue" /\ then \in [to : {"queue"}, ids : Seq(Ids)]
           \/ then.to = "relay" /\ then \in [to : {"relay"}]
           \/ then.to = "publish" /\ then \in [to : {"publish"}, message : OwnMessages],
           Dispatch(t, id, then)
    PROVE  /\ dispatching' \in Dispatches
           /\ dispatching'.type = t /\ dispatching'.id = id
           /\ dispatching'.rest = targets[t] /\ dispatching'.then = then
<1>1. targets[t] \in Seq(Listeners)
  BY DEF TypeOK
<1>2. QED
  BY <1>1 DEF Dispatch, Dispatches

-----------------------------------------------------------------------------
(* What the operations on the messages do.                                    *)

\* An RPC: its complete messages are received in their order and wait, in the
\* queue or for the end of the dispatch of its change of subscriptions.
Receiving(ids) ==
    /\ dispatching = None
    /\ received' \in Seq(Complete) /\ Len(received') \in Len(received) .. MaxMessages
    /\ Len(received') + published <= MaxMessages
    /\ \A i \in 1 .. Len(received) : received'[i] = received[i]
    /\ ids \in Seq(1 .. Len(received'))
    /\ \A i \in 1 .. Len(ids) : ids[i] = Len(received) + i
    /\ \/ queue' = queue \o ids /\ dispatching' = None
       \/ /\ queue' = queue
          /\ dispatching' \in Dispatches
          /\ dispatching'.type = Change /\ dispatching'.id = 0
          /\ dispatching'.rest = targets[Change]
          /\ dispatching'.then = [to |-> "queue", ids |-> ids]

LEMMA ReceiveDoes == ASSUME TypeOK, Receives PROVE \E ids : Receiving(ids)
<1>1. PICK m \in Messages, more \in {<<>>} \cup {<<n>> : n \in Messages}, change \in BOOLEAN :
         ReceiveRpc(<<m>> \o more, change)
  BY DEF Receives
<1> DEFINE messages == <<m>> \o more
           complete == Only(messages, Complete)
           ids == [i \in DOMAIN complete |-> Len(received) + i]
<1>2. messages \in Seq(Messages)
  <2>1. CASE more = <<>>
    BY <2>1
  <2>2. CASE \E n \in Messages : more = <<n>>
    BY <2>2
  <2>3. QED
    BY <2>1, <2>2
<1>3. /\ dispatching = None
      /\ Len(received) + Len(complete) + published <= MaxMessages
      /\ received' = received \o complete
      /\ UNCHANGED published
      /\ IF change
         THEN Dispatch(Change, 0, [to |-> "queue", ids |-> ids]) /\ UNCHANGED queue
         ELSE queue' = queue \o ids /\ UNCHANGED dispatching
  BY <1>1 DEF ReceiveRpc, Idle, outgoing
<1> HIDE DEF messages
<1>4. complete \in Seq(Complete)
  <2>1. complete \in Seq(Messages) /\ Range(complete) \subseteq Complete
    BY <1>2, OnlyDoes
  <2> HIDE DEF complete
  <2>2. QED
    BY <2>1, ListOfItsRange
<1> HIDE DEF complete
<1>5. received \in Seq(Complete) /\ published \in Nat /\ MaxMessages \in Nat
  BY BoundsAreNumbers DEF TypeOK
<1>6. /\ received' \in Seq(Complete)
      /\ Len(received') = Len(received) + Len(complete)
      /\ \A i \in 1 .. Len(received) : received'[i] = received[i]
      /\ Len(received) \in Nat /\ Len(complete) \in Nat
      /\ DOMAIN complete = 1 .. Len(complete)
  BY <1>3, <1>4, <1>5, ConcatDoes
<1>7. /\ Len(received') + published <= MaxMessages
      /\ Len(received') \in Len(received) .. MaxMessages
  BY <1>3, <1>5, <1>6
<1>8. /\ ids \in Seq(1 .. Len(received')) /\ ids \in Seq(Ids)
      /\ \A i \in 1 .. Len(ids) : ids[i] = Len(received) + i
  <2>1. ids = [i \in 1 .. Len(complete) |-> Len(received) + i]
    BY <1>6
  <2>2. \A i \in 1 .. Len(complete) : Len(received) + i \in 1 .. Len(received')
    BY <1>6
  <2>3. \A i \in 1 .. Len(complete) : Len(received) + i \in Ids
    BY <1>5, <1>6, <1>7 DEF Ids
  <2> HIDE DEF ids
  <2>4. QED
    BY <1>6, <2>1, <2>2, <2>3
<1> HIDE DEF ids
<1>9. \/ queue' = queue \o ids /\ dispatching' = None
      \/ /\ queue' = queue
         /\ dispatching' \in Dispatches
         /\ dispatching'.type = Change /\ dispatching'.id = 0
         /\ dispatching'.rest = targets[Change]
         /\ dispatching'.then = [to |-> "queue", ids |-> ids]
  <2> DEFINE then == [to |-> "queue", ids |-> ids]
  <2>1. CASE change
    <3>1. Dispatch(Change, 0, then) /\ queue' = queue
      BY <1>3, <2>1
    <3>2. Change \in Types /\ 0 \in 0 .. MaxMessages
      BY <1>5 DEF Types
    <3>3. then.to = "queue" /\ then \in [to : {"queue"}, ids : Seq(Ids)]
      BY <1>8
    <3> HIDE DEF then
    <3>4. /\ dispatching' \in Dispatches
          /\ dispatching'.type = Change /\ dispatching'.id = 0
          /\ dispatching'.rest = targets[Change] /\ dispatching'.then = then
      BY <3>1, <3>2, <3>3, DispatchDoes
    <3>5. QED
      BY <3>1, <3>4 DEF then
  <2>2. CASE ~ change
    BY <1>3, <2>2
  <2>3. QED
    BY <2>1, <2>2
<1>10. QED
  BY <1>3, <1>6, <1>7, <1>8, <1>9 DEF Receiving

RunningTyped ==
    /\ running \subseteq [id : 1 .. Len(received), phase : {"validating", "relaying"}]
    /\ IsFiniteSet(running) /\ Cardinality(running) <= Concurrency

\* A message that is relayed keeps its place among the running ones.
LEMMA RelayDoes ==
    ASSUME RunningTyped, NEW id, [id |-> id, phase |-> "validating"] \in running,
           Relay(id), UNCHANGED received
    PROVE  RunningTyped'
<1> DEFINE old == [id |-> id, phase |-> "validating"]
           new == [id |-> id, phase |-> "relaying"]
           rest == running \ {old}
<1>1. running' = rest \cup {new}
  BY DEF Relay
<1>2. old \in running /\ IsFiniteSet(running) /\ Cardinality(running) <= Concurrency
  BY DEF RunningTyped
<1>3. id \in 1 .. Len(received)
  BY <1>2 DEF RunningTyped
<1>4. new \in [id : 1 .. Len(received), phase : {"validating", "relaying"}]
  BY <1>3
<1> HIDE DEF old, new
<1>5. /\ IsFiniteSet(rest) /\ Cardinality(rest) = Cardinality(running) - 1
      /\ Cardinality(running) \in Nat /\ Cardinality(rest) \in Nat
  BY <1>2, FS_RemoveElement, FS_CardinalityType
<1> HIDE DEF rest
<1>6. /\ IsFiniteSet(rest \cup {new})
      /\ Cardinality(rest \cup {new}) \in {Cardinality(rest), Cardinality(rest) + 1}
  BY <1>5, FS_AddElement
<1>7. IsFiniteSet(running') /\ Cardinality(running') <= Concurrency
  BY <1>1, <1>2, <1>5, <1>6, BoundsAreNumbers
<1>8. running' \subseteq [id : 1 .. Len(received'), phase : {"validating", "relaying"}]
  BY <1>1, <1>4 DEF rest, RunningTyped
<1>9. QED
  BY <1>7, <1>8 DEF RunningTyped

\* A message that is not running any more.
LEMMA RunningLess ==
    ASSUME RunningTyped, NEW gone, running' = running \ {gone}, UNCHANGED received
    PROVE  RunningTyped'
<1>1. IsFiniteSet(running) /\ running' \subseteq running
  BY DEF RunningTyped
<1>2. /\ IsFiniteSet(running') /\ Cardinality(running') <= Cardinality(running)
      /\ Cardinality(running') \in Nat /\ Cardinality(running) \in Nat
  BY <1>1, FS_Subset, FS_CardinalityType
<1>3. Cardinality(running') <= Concurrency
  BY <1>2, BoundsAreNumbers DEF RunningTyped
<1>4. QED
  BY <1>1, <1>2, <1>3 DEF RunningTyped

LEMMA ReceivedAre ==
    ASSUME TypeOK, NEW id \in 1 .. Len(received)
    PROVE  /\ id \in Ids /\ received[id] \in Complete
           /\ received[id].topic \in Topics /\ received[id].topic \in Types
<1>1. Len(received) \in Nat /\ received[id] \in Complete
  BY DEF TypeOK
<1>2. Len(received) <= MaxMessages
  BY <1>1, BoundsAreNumbers DEF TypeOK
<1>3. QED
  BY <1>1, <1>2, BoundsAreNumbers, MessagesAssumption DEF Ids, Complete, MessageType, Types

LEMMA RunningAre ==
    ASSUME TypeOK, NEW r \in running
    PROVE  r.id \in 1 .. Len(received) /\ r.id \in Ids /\ r.phase \in {"validating", "relaying"}
<1>1. r.id \in 1 .. Len(received) /\ r.phase \in {"validating", "relaying"}
  BY DEF TypeOK
<1>2. QED
  BY <1>1, ReceivedAre

\* A dispatch begins.
Beginning(t, id, to) ==
    /\ dispatching = None
    /\ dispatching' \in Dispatches
    /\ dispatching'.type = t /\ dispatching'.id = id
    /\ dispatching'.rest = targets[t] /\ dispatching'.then.to = to

\* A message that was validated is delivered, or relayed if nobody subscribes.
LEMMA AcceptedDoes ==
    ASSUME TypeOK, NEW id \in Ids, Accepted(id)
    PROVE  /\ id \in 1 .. Len(received) /\ [id |-> id, phase |-> "validating"] \in running
           /\ dispatching = None
           /\ \/ /\ Beginning(received[id].topic, id, "relay")
                 /\ UNCHANGED <<running, outcome>>
              \/ /\ received[id].topic \notin subscriptions
                 /\ dispatching' = None /\ Relay(id)
<1>1. [id |-> id, phase |-> "validating"] \in running /\ dispatching = None
  BY DEF Accepted, Validating, Idle
<1>2. id \in 1 .. Len(received)
  BY <1>1, RunningAre
<1>3. CASE received[id].topic \in subscriptions
  <2> DEFINE t == received[id].topic
             then == [to |-> "relay"]
  <2>1. Dispatch(t, id, then) /\ UNCHANGED <<running, outcome>>
    BY <1>3 DEF Accepted
  <2>2. t \in Types /\ id \in 0 .. MaxMessages
    BY <1>2, ReceivedAre, BoundsAreNumbers DEF Ids
  <2>3. then.to = "relay" /\ then \in [to : {"relay"}]
    OBVIOUS
  <2> HIDE DEF t, then
  <2>4. /\ dispatching' \in Dispatches
        /\ dispatching'.type = t /\ dispatching'.id = id
        /\ dispatching'.rest = targets[t] /\ dispatching'.then = then
    BY <2>1, <2>2, <2>3, DispatchDoes
  <2>5. QED
    BY <1>1, <1>2, <2>1, <2>3, <2>4 DEF Beginning, t
<1>4. CASE received[id].topic \notin subscriptions
  BY <1>1, <1>2, <1>4 DEF Accepted
<1>5. QED
  BY <1>3, <1>4

\* An own message goes out, or to the own listeners first.
LEMMA EmitDoes ==
    ASSUME TypeOK, NEW p \in publishing, Signed(p) \/ BuildUnsigned(p)
    PROVE  /\ dispatching = None
           /\ dispatching' = None \/ \E t \in Topics : Beginning(t, 0, "publish")
           /\ publishing' \subseteq publishing
           /\ emitted' \subseteq OwnMessages
<1>1. p.topic \in Topics /\ p.number \in Nat /\ seqnos \in [Objects -> Nat]
  BY DEF TypeOK
<1>2. ASSUME NEW message \in OwnMessages, dispatching = None, Emit(p, message)
      PROVE  /\ dispatching' = None \/ \E t \in Topics : Beginning(t, 0, "publish")
             /\ publishing' \subseteq publishing
             /\ emitted' \subseteq OwnMessages
  <2>1. publishing' \subseteq publishing /\ emitted' \subseteq OwnMessages
    BY <1>2 DEF Emit, TypeOK
  <2>2. CASE config.emitSelf /\ p.topic \in subscriptions
    <3> DEFINE then == [to |-> "publish", message |-> message]
    <3>1. Dispatch(p.topic, 0, then)
      BY <1>2, <2>2 DEF Emit
    <3>2. p.topic \in Types /\ 0 \in 0 .. MaxMessages
      BY <1>1, BoundsAreNumbers DEF Types
    <3>3. then.to = "publish" /\ then \in [to : {"publish"}, message : OwnMessages]
      BY <1>2
    <3> HIDE DEF then
    <3>4. /\ dispatching' \in Dispatches
          /\ dispatching'.type = p.topic /\ dispatching'.id = 0
          /\ dispatching'.rest = targets[p.topic] /\ dispatching'.then = then
      BY <3>1, <3>2, <3>3, DispatchDoes
    <3>5. QED
      BY <1>1, <1>2, <2>1, <3>3, <3>4 DEF Beginning
  <2>3. CASE ~ (config.emitSelf /\ p.topic \in subscriptions)
    BY <1>2, <2>1, <2>3 DEF Emit
  <2>4. QED
    BY <2>2, <2>3
<1>3. CASE Signed(p)
  <2> DEFINE message == [topic |-> p.topic,
                         seqno |-> IF p.object \in Objects THEN seqnos[p.object] ELSE p.number,
                         signs |-> p.number]
  <2>1. message \in OwnMessages
    BY <1>1 DEF OwnMessages
  <2>2. dispatching = None /\ Emit(p, message)
    BY <1>3 DEF Signed, Idle
  <2> HIDE DEF message
  <2>3. QED
    BY <1>2, <2>1, <2>2
<1>4. CASE BuildUnsigned(p)
  <2> DEFINE message == [topic |-> p.topic, seqno |-> 0, signs |-> 0]
  <2>1. message \in OwnMessages
    BY <1>1 DEF OwnMessages
  <2>2. dispatching = None /\ Emit(p, message)
    BY <1>4 DEF BuildUnsigned, Idle
  <2> HIDE DEF message
  <2>3. QED
    BY <1>2, <2>1, <2>2
<1>5. QED
  BY <1>3, <1>4

-----------------------------------------------------------------------------
(* Every step keeps the types.                                                *)

LEMMA ListsTypedStep == ASSUME TypeOK, Step PROVE ListsTyped'
<1>1. ListsTyped
  BY DEF TypeOK, ListsTyped
<1>2. CASE UNCHANGED listening
  BY <1>1, <1>2 DEF listening, ListsTyped
<1>3. ASSUME NEW l \in Listeners, AddEventListener(l) PROVE ListsTyped'
  BY <1>3, AddDoes
<1>4. ASSUME NEW t \in Types, NEW c \in Callbacks, RemoveEventListener(t, c) PROVE ListsTyped'
  BY <1>4, RemoveDoes
<1>5. CASE CallListener
  BY <1>5, CallDoes
<1>6. CASE Finish
  BY <1>1, <1>6, FinishDoes DEF ListsTyped
<1>7. QED
  BY <1>2, <1>3, <1>4, <1>5, <1>6
     DEF Step, Application, Calls, Settles, Publishes, Receives, Subscribe, Unsubscribe, Start,
         Stop, Publish, FinishChange, FinishReceived, FinishPublished, Accepted, Refused,
         Relayed, BuildSigned, Signed, BuildUnsigned, ReceiveRpc, StartTask

LEMMA HandTypedStep == ASSUME TypeOK, Step PROVE dispatching' \in Dispatches \cup {None}
<1>1. dispatching \in Dispatches \cup {None}
  BY DEF TypeOK
<1>2. CASE UNCHANGED dispatching
  BY <1>1, <1>2
<1>3. ASSUME NEW t \in Types, NEW c \in Callbacks, RemoveEventListener(t, c)
      PROVE  dispatching' \in Dispatches \cup {None}
  BY <1>3, RemoveDoes
<1>4. CASE CallListener
  BY <1>4, CallDoes DEF Calling
<1>5. CASE Finish
  BY <1>5, FinishDoes
<1>6. ASSUME NEW id \in Ids, Accepted(id) PROVE dispatching' \in Dispatches \cup {None}
  BY <1>6, AcceptedDoes DEF Beginning
<1>7. ASSUME NEW p \in publishing, Signed(p) \/ BuildUnsigned(p)
      PROVE  dispatching' \in Dispatches \cup {None}
  BY <1>7, EmitDoes DEF Beginning
<1>8. CASE Receives
  BY <1>8, ReceiveDoes DEF Receiving
<1>9. QED
  BY <1>2, <1>3, <1>4, <1>5, <1>6, <1>7, <1>8
     DEF Step, Application, Calls, Settles, Publishes, AddEventListener, Subscribe,
         Unsubscribe, Start, Stop, Publish, FinishChange, FinishReceived, FinishPublished,
         Refused, Relayed, BuildSigned, StartTask

\* The messages of an RPC come after those received before.
ReceivedTyped ==
    /\ received \in Seq(Complete)
    /\ published \in Nat /\ Len(received) + published <= MaxMessages

ReceivedGrows ==
    /\ ReceivedTyped'
    /\ Len(received) \in Nat /\ Len(received') \in Nat /\ Len(received) <= Len(received')
    /\ \A i \in 1 .. Len(received) : received'[i] = received[i]

LEMMA ReceivedTypedStep == ASSUME TypeOK, Step PROVE ReceivedGrows
<1>1. ReceivedTyped /\ Len(received) \in Nat /\ MaxMessages \in Nat
  BY BoundsAreNumbers DEF TypeOK, ReceivedTyped
<1>2. CASE UNCHANGED received /\ UNCHANGED published
  BY <1>1, <1>2 DEF ReceivedGrows, ReceivedTyped
<1>3. ASSUME NEW t \in Topics, NEW o \in Objects \cup {Absent}, Publish(t, o)
      PROVE  ReceivedGrows
  <2>1. /\ UNCHANGED received /\ published' = published + 1
        /\ Len(received) + published < MaxMessages
    BY <1>3 DEF Publish, incoming
  <2>2. QED
    BY <1>1, <2>1 DEF ReceivedGrows, ReceivedTyped
<1>4. CASE Receives
  <2>1. UNCHANGED published
    BY <1>4 DEF Receives, ReceiveRpc, outgoing
  <2>2. PICK ids : Receiving(ids)
    BY <1>4, ReceiveDoes
  <2>3. QED
    BY <1>1, <2>1, <2>2 DEF Receiving, ReceivedGrows, ReceivedTyped
<1>5. QED
  BY <1>2, <1>3, <1>4
     DEF Step, Application, Calls, Settles, Publishes, AddEventListener, RemoveEventListener,
         Subscribe, Unsubscribe, Start, Stop, CallListener, FinishChange, FinishReceived,
         FinishPublished, Accepted, Refused, Relayed, BuildSigned, Signed, BuildUnsigned,
         StartTask, incoming, outgoing

LEMMA QueueTypedStep ==
    ASSUME TypeOK, InHand, Step PROVE queue' \in Seq(1 .. Len(received'))
<1>1. queue \in Seq(1 .. Len(received)) /\ Len(received) \in Nat
  BY DEF TypeOK
<1>2. 1 .. Len(received) \subseteq 1 .. Len(received')
  BY ReceivedTypedStep DEF ReceivedGrows
<1>3. queue \in Seq(1 .. Len(received'))
  BY <1>1, <1>2, ListOfLargerSet
<1>4. CASE UNCHANGED queue
  BY <1>3, <1>4
<1>5. CASE FinishChange
  <2>1. /\ dispatching # None /\ dispatching.then.to = "queue"
        /\ queue' = queue \o dispatching.then.ids
    BY <1>5 DEF FinishChange, Finish
  <2>2. dispatching.then.ids \in Seq(1 .. Len(received))
    BY <2>1 DEF InHand
  <2>3. dispatching.then.ids \in Seq(1 .. Len(received'))
    BY <1>2, <2>2, ListOfLargerSet
  <2>4. QED
    BY <1>3, <2>1, <2>3, ConcatDoes
<1>6. CASE Receives
  <2>1. PICK ids : Receiving(ids)
    BY <1>6, ReceiveDoes
  <2>2. queue' = queue \/ queue' = queue \o ids
    BY <2>1 DEF Receiving
  <2>3. ids \in Seq(1 .. Len(received'))
    BY <2>1 DEF Receiving
  <2>4. queue \o ids \in Seq(1 .. Len(received'))
    BY ONLY <1>3, <2>3, ConcatDoes
  <2>5. QED
    BY <1>3, <2>2, <2>4
<1>7. CASE StartTask
  BY <1>3, <1>7 DEF StartTask
<1>8. QED
  BY <1>4, <1>5, <1>6, <1>7
     DEF Step, Application, Calls, Settles, Publishes, AddEventListener, RemoveEventListener,
         Subscribe, Unsubscribe, Start, Stop, Publish, CallListener, FinishReceived,
         FinishPublished, Accepted, Refused, Relayed, BuildSigned, Signed, BuildUnsigned, incoming

LEMMA RunningTypedStep == ASSUME TypeOK, InHand, Step PROVE RunningTyped'
<1>1. RunningTyped /\ Len(received) \in Nat
  BY DEF TypeOK, RunningTyped
<1>2. CASE UNCHANGED running
  <2>1. 1 .. Len(received) \subseteq 1 .. Len(received')
    BY ReceivedTypedStep DEF ReceivedGrows
  <2>2. QED
    BY <1>1, <1>2, <2>1 DEF RunningTyped
<1>3. CASE FinishReceived
  <2>1. dispatching # None /\ dispatching.then.to = "relay"
    BY <1>3 DEF FinishReceived, Finish
  <2>2. [id |-> dispatching.id, phase |-> "validating"] \in running
    BY <2>1 DEF InHand
  <2>3. Relay(dispatching.id) /\ UNCHANGED received
    BY <1>3 DEF FinishReceived
  <2>4. QED
    BY <1>1, <2>2, <2>3, RelayDoes
<1>4. ASSUME NEW id \in Ids, Accepted(id) PROVE RunningTyped'
  <2>1. [id |-> id, phase |-> "validating"] \in running /\ UNCHANGED received
    BY <1>4 DEF Accepted, Validating
  <2>2. CASE Relay(id)
    BY <1>1, <2>1, <2>2, RelayDoes
  <2>3. QED
    BY <1>2, <1>4, <2>2 DEF Accepted
<1>5. ASSUME NEW id \in Ids, Refused(id) \/ Relayed(id) PROVE RunningTyped'
  <2>1. UNCHANGED received /\ \E r : running' = running \ {r}
    BY <1>5 DEF Refused, Relayed
  <2>2. QED
    BY <1>1, <2>1, RunningLess
<1>6. CASE StartTask
  <2> DEFINE id == Head(queue)
             r == [id |-> id, phase |-> "validating"]
  <2>1. /\ queue # <<>> /\ Cardinality(running) < Concurrency /\ UNCHANGED received
        /\ running' = running \/ running' = running \cup {r}
    BY <1>6 DEF StartTask
  <2>2. id \in 1 .. Len(received)
    BY <2>1 DEF TypeOK
  <2>3. r \in [id : 1 .. Len(received), phase : {"validating", "relaying"}]
    BY <2>2
  <2>4. CASE running' = running
    BY <1>2, <2>4
  <2>5. CASE running' = running \cup {r}
    <3> HIDE DEF r
    <3>1. IsFiniteSet(running) /\ Cardinality(running) \in Nat
      BY <1>1, FS_CardinalityType DEF RunningTyped
    <3>2. /\ IsFiniteSet(running \cup {r})
          /\ Cardinality(running \cup {r}) \in {Cardinality(running), Cardinality(running) + 1}
      BY <3>1, FS_AddElement
    <3>3. IsFiniteSet(running') /\ Cardinality(running') <= Concurrency
      BY <2>1, <2>5, <3>1, <3>2, BoundsAreNumbers
    <3>4. running' \subseteq [id : 1 .. Len(received'), phase : {"validating", "relaying"}]
      BY <1>1, <2>1, <2>3, <2>5 DEF RunningTyped
    <3>5. QED
      BY <3>3, <3>4 DEF RunningTyped
  <2>6. QED
    BY <2>1, <2>4, <2>5
<1>7. QED
  BY <1>2, <1>3, <1>4, <1>5, <1>6
     DEF Step, Application, Calls, Settles, Publishes, Receives, AddEventListener,
         RemoveEventListener, Subscribe, Unsubscribe, Start, Stop, Publish, CallListener,
         FinishChange, FinishPublished, BuildSigned, Signed, BuildUnsigned, ReceiveRpc, incoming

\* A callback hears messages of its dispatch only, and what was heard stays.
LEMMA HeardStep ==
    ASSUME TypeOK, Step
    PROVE  /\ heard' \in [Ids -> SUBSET Callbacks]
           /\ \A id \in Ids : heard[id] \subseteq heard'[id]
<1>1. heard \in [Ids -> SUBSET Callbacks]
  BY DEF TypeOK
<1>2. CASE UNCHANGED heard
  BY <1>1, <1>2
<1>3. CASE CallListener
  <2>1. PICK l \in Listeners : Calling(l)
    BY <1>3, CallDoes
  <2>2. heard' = IF dispatching.id = 0 THEN heard
                 ELSE [heard EXCEPT ![dispatching.id] = @ \cup {l.callback}]
    BY <2>1 DEF Calling
  <2>3. l.callback \in Callbacks
    BY ListenersAre
  <2>4. QED
    BY <1>1, <2>2, <2>3
<1>4. QED
  BY <1>2, <1>3
     DEF Step, Application, Calls, Settles, Publishes, Receives, AddEventListener,
         RemoveEventListener, Subscribe, Unsubscribe, Start, Stop, Publish, FinishChange,
         FinishReceived, FinishPublished, Accepted, Refused, Relayed, BuildSigned, Signed,
         BuildUnsigned, ReceiveRpc, StartTask

\* Who is entitled to a message: of one that has just come, listeners of a topic
\* that is subscribed; of an older one, some of those that were, no more than have
\* heard it or can be called.
Watched ==
    /\ wanted' \in [Ids -> SUBSET Callbacks]
    /\ \A id \in 1 .. Len(received) :
          /\ wanted'[id] \subseteq wanted[id]
          /\ wanted'[id] \subseteq heard'[id] \cup ServedNow(received[id].topic)
          /\ ~ started' => wanted'[id] \subseteq heard'[id]
    /\ \A id \in 1 .. Len(received') :
          id > Len(received) =>
             /\ wanted'[id] \subseteq ServedNow(received'[id].topic)
             /\ received'[id].topic \notin subscriptions' => wanted'[id] = {}

LEMMA WatchDoes == ASSUME TypeOK, Step, Watch PROVE Watched
<1>1. ReceivedGrows /\ ListsTyped' /\ ReceivedTyped'
  BY ReceivedTypedStep, ListsTypedStep DEF ReceivedGrows
<1>2. 1 .. Len(received') \subseteq Ids /\ 1 .. Len(received) \subseteq 1 .. Len(received')
  BY <1>1, BoundsAreNumbers DEF ReceivedGrows, ReceivedTyped, Ids
<1>3. \A id \in 1 .. Len(received') : received'[id].topic \in Types
  BY <1>1, MessagesAssumption DEF ReceivedGrows, ReceivedTyped, Complete, MessageType, Types
<1>4. ASSUME NEW t \in Types PROVE ServedNow(t) \subseteq Callbacks
  <2>1. targets'[t] \in Seq(Listeners)
    BY <1>1 DEF ListsTyped
  <2>2. Range(targets'[t]) \subseteq Listeners
    BY <2>1, RangeOfList
  <2>3. QED
    BY <2>2, CalledAre, ListenersAre DEF ServedNow
<1> DEFINE Now(id) ==
             IF id > Len(received') THEN {}
             ELSE LET t == received'[id].topic
                  IN  IF id > Len(received)
                      THEN IF t \in subscriptions' THEN ServedNow(t) ELSE {}
                      ELSE wanted[id] \cap
                             (heard'[id] \cup IF started' THEN ServedNow(t) ELSE {})
<1>5. wanted' = [id \in Ids |-> Now(id)]
  BY DEF Watch, ServedNow
<1>6. \A id \in Ids : wanted'[id] = Now(id)
  BY <1>5
<1>7. wanted \in [Ids -> SUBSET Callbacks]
  BY DEF TypeOK
<1>8. \A id \in Ids : id \in 1 .. Len(received') \/ id > Len(received')
  BY <1>1, BoundsAreNumbers DEF Ids, ReceivedGrows
<1>9. \A id \in Ids : Now(id) \subseteq Callbacks
  BY <1>3, <1>4, <1>7, <1>8
<1>10. wanted' \in [Ids -> SUBSET Callbacks]
  <2> HIDE DEF Now
  <2>1. QED
    BY <1>5, <1>9
<1>11. ASSUME NEW id \in 1 .. Len(received)
       PROVE  /\ wanted'[id] \subseteq wanted[id]
              /\ wanted'[id] \subseteq heard'[id] \cup ServedNow(received[id].topic)
              /\ ~ started' => wanted'[id] \subseteq heard'[id]
  <2>1. /\ id \in Ids /\ received'[id] = received[id]
        /\ ~ id > Len(received') /\ ~ id > Len(received)
    BY <1>1, <1>2 DEF ReceivedGrows
  <2>2. wanted'[id] =
           wanted[id] \cap
             (heard'[id] \cup IF started' THEN ServedNow(received[id].topic) ELSE {})
    BY <1>6, <2>1
  <2>3. QED
    BY <2>2
<1>12. ASSUME NEW id \in 1 .. Len(received'), id > Len(received)
       PROVE  /\ wanted'[id] \subseteq ServedNow(received'[id].topic)
              /\ received'[id].topic \notin subscriptions' => wanted'[id] = {}
  <2>1. id \in Ids /\ ~ id > Len(received')
    BY <1>1, <1>2 DEF ReceivedGrows
  <2>2. QED
    BY <1>6, <1>12, <2>1
<1>13. QED
  BY <1>10, <1>11, <1>12 DEF Watched

\* What the node publishes.
OutgoingTyped ==
    /\ publishing \subseteq [number : Nat, topic : Topics, object : Objects \cup {Absent},
                             phase : {"posted", "signing"}]
    /\ seqnos \in [Objects -> Nat]
    /\ emitted \subseteq OwnMessages

LEMMA OutgoingStep == ASSUME TypeOK, Step PROVE OutgoingTyped'
<1>1. OutgoingTyped /\ published \in Nat
  BY DEF TypeOK, OutgoingTyped
<1>2. CASE UNCHANGED publishing /\ UNCHANGED seqnos /\ UNCHANGED emitted
  BY <1>1, <1>2 DEF OutgoingTyped
<1>3. ASSUME NEW t \in Topics, NEW o \in Objects \cup {Absent}, Publish(t, o) PROVE OutgoingTyped'
  <2>1. publishing' = publishing \cup
           {[number |-> published', topic |-> t, object |-> o, phase |-> "posted"]}
        /\ published' \in Nat /\ UNCHANGED <<seqnos, emitted>>
    BY <1>1, <1>3 DEF Publish
  <2>2. QED
    BY <1>1, <2>1 DEF OutgoingTyped
<1>4. ASSUME NEW p \in publishing, BuildSigned(p) PROVE OutgoingTyped'
  <2>1. p \in [number : Nat, topic : Topics, object : Objects \cup {Absent},
               phase : {"posted", "signing"}]
    BY <1>1 DEF OutgoingTyped
  <2>2. /\ publishing' = (publishing \ {p}) \cup {[p EXCEPT !.phase = "signing"]}
        /\ seqnos' = IF p.object \in Objects THEN [seqnos EXCEPT ![p.object] = p.number] ELSE seqnos
        /\ UNCHANGED emitted
    BY <1>4 DEF BuildSigned
  <2>3. seqnos' \in [Objects -> Nat]
    BY <1>1, <2>1, <2>2 DEF OutgoingTyped
  <2>4. [p EXCEPT !.phase = "signing"] \in
           [number : Nat, topic : Topics, object : Objects \cup {Absent},
            phase : {"posted", "signing"}]
    BY <2>1
  <2>5. QED
    BY <1>1, <2>2, <2>3, <2>4 DEF OutgoingTyped
<1>5. ASSUME NEW p \in publishing, Signed(p) \/ BuildUnsigned(p) PROVE OutgoingTyped'
  <2>1. UNCHANGED seqnos
    BY <1>5 DEF Signed, BuildUnsigned
  <2>2. QED
    BY <1>1, <1>5, <2>1, EmitDoes DEF OutgoingTyped
<1>6. CASE FinishPublished
  <2>1. dispatching \in Dispatches /\ dispatching.then.to = "publish"
    BY <1>6, FinishDoes DEF FinishPublished
  <2>2. dispatching.then.message \in OwnMessages
    BY <2>1, DispatchesAre
  <2>3. /\ UNCHANGED <<publishing, seqnos>>
        /\ emitted' \subseteq emitted \cup {dispatching.then.message}
    BY <1>6 DEF FinishPublished
  <2>4. QED
    BY <1>1, <2>2, <2>3 DEF OutgoingTyped
<1>7. QED
  BY <1>2, <1>3, <1>4, <1>5, <1>6
     DEF Step, Application, Calls, Settles, Publishes, Receives, AddEventListener,
         RemoveEventListener, Subscribe, Unsubscribe, Start, Stop, CallListener, FinishChange,
         FinishReceived, Accepted, Refused, Relayed, ReceiveRpc, StartTask, outgoing

LEMMA ConfigStays == ASSUME Step PROVE config' = config
  BY DEF Step, Application, Calls, Settles, Publishes, Receives, AddEventListener,
         RemoveEventListener, Subscribe, Unsubscribe, Start, Stop, Publish, CallListener,
         FinishChange, FinishReceived, FinishPublished, Accepted, Refused, Relayed,
         BuildSigned, Signed, BuildUnsigned, ReceiveRpc, StartTask

LEMMA TypeStep == ASSUME TypeOK, TypesOfLists, InHand, Next PROVE TypeOK'
<1>1. Step /\ Watch
  BY DEF Next
<1>2. config' = config
  BY <1>1, ConfigStays
<1>3. started' \in BOOLEAN
  BY <1>1
     DEF TypeOK, Step, Application, Calls, Settles, Publishes, Receives, AddEventListener,
         RemoveEventListener, Subscribe, Unsubscribe, Start, Stop, Publish, CallListener,
         FinishChange, FinishReceived, FinishPublished, Accepted, Refused, Relayed,
         BuildSigned, Signed, BuildUnsigned, ReceiveRpc, StartTask
<1>4. subscriptions' \subseteq Topics
  BY <1>1
     DEF TypeOK, Step, Application, Calls, Settles, Publishes, Receives, AddEventListener,
         RemoveEventListener, Subscribe, Unsubscribe, Unsubscribed, Start, Stop, Publish,
         CallListener, FinishChange, FinishReceived, FinishPublished, Accepted, Refused,
         Relayed, BuildSigned, Signed, BuildUnsigned, ReceiveRpc, StartTask
<1>5. outcome' \in [Ids -> {"pending", "unwanted", "refused", "relayed"}]
  BY <1>1
     DEF TypeOK, Step, Application, Calls, Settles, Publishes, Receives, AddEventListener,
         RemoveEventListener, Subscribe, Unsubscribe, Start, Stop, Publish, CallListener,
         FinishChange, FinishReceived, FinishPublished, Relay, Accepted, Refused, Relayed,
         BuildSigned, Signed, BuildUnsigned, ReceiveRpc, StartTask, incoming
<1>6. ListsTyped' /\ dispatching' \in Dispatches \cup {None}
  BY <1>1, ListsTypedStep, HandTypedStep
<1>7. ReceivedTyped' /\ queue' \in Seq(1 .. Len(received')) /\ RunningTyped'
  BY <1>1, ReceivedTypedStep, QueueTypedStep, RunningTypedStep DEF ReceivedGrows
<1>8. heard' \in [Ids -> SUBSET Callbacks] /\ wanted' \in [Ids -> SUBSET Callbacks]
  BY <1>1, HeardStep, WatchDoes DEF Watched
<1>9. OutgoingTyped'
  BY <1>1, OutgoingStep
<1>10. config' \in Configs
  BY <1>2 DEF TypeOK
<1>11. QED
  BY <1>3, <1>4, <1>5, <1>6, <1>7, <1>8, <1>9, <1>10
     DEF TypeOK, ListsTyped, ReceivedTyped, RunningTyped, OutgoingTyped

-----------------------------------------------------------------------------
(* The lists of listeners.                                                    *)

LEMMA TypesOfListsStep == ASSUME TypeOK, TypesOfLists, Step PROVE TypesOfLists'
<1>1. CASE UNCHANGED listening
  BY <1>1 DEF listening, TypesOfLists
<1>2. ASSUME NEW l \in Listeners, AddEventListener(l) PROVE TypesOfLists'
  BY <1>2, AddDoes DEF TypesOfLists
<1>3. ASSUME NEW t \in Types, NEW c \in Callbacks, RemoveEventListener(t, c) PROVE TypesOfLists'
  BY <1>3, RemoveDoes DEF TypesOfLists
<1>4. CASE CallListener
  <2>1. UNCHANGED lists
    BY <1>4 DEF CallListener
  <2>2. QED
    BY <1>4, <2>1, CallDoes DEF Calling, TypesOfLists
<1>5. CASE Finish
  BY <1>5, FinishDoes DEF TypesOfLists
<1>6. QED
  BY <1>1, <1>2, <1>3, <1>4, <1>5
     DEF Step, Application, Calls, Settles, Publishes, Receives, Subscribe, Unsubscribe, Start,
         Stop, Publish, FinishChange, FinishReceived, FinishPublished, Accepted, Refused,
         Relayed, BuildSigned, Signed, BuildUnsigned, ReceiveRpc, StartTask

\* A dispatch that begins has yet to call everyone.
LEMMA ListsAgreeBegin ==
    ASSUME TypeOK, ListsAgree, UNCHANGED listening, dispatching = None,
           \/ dispatching' = None
           \/ /\ dispatching' \in Dispatches
              /\ dispatching'.rest = targets[dispatching'.type]
    PROVE  ListsAgree'
<1>1. TargetsAreCounted'
  BY DEF ListsAgree, TargetsAreCounted, listening
<1>2. CountedAreTargets'
  BY DEF ListsAgree, CountedAreTargets, listening
<1>3. QED
  BY <1>1, <1>2 DEF ListsAgree

\* What is added is a target and counted, or the platform has its callback and
\* keeps it as long as it is counted, or it is a stray.
LEMMA AddAgrees ==
    ASSUME TypeOK, TypesOfLists, ListsAgree, NEW l \in Listeners, AddEventListener(l)
    PROVE  ListsAgree'
<1>1. \A t \in Types : Range(targets[t]) \subseteq Listeners
  BY RangeOfList DEF TypeOK
<1>2. ASSUME NEW t \in Types, NEW m \in Range(targets'[t])
      PROVE  /\ ~ m.once => m \in Range(lists'[t])
             /\ m.once /\ m.callback \notin strays'[t] =>
                   /\ m \in Range(lists'[t])
                   /\ dispatching' # None /\ dispatching'.type = t =>
                         m \in Range(dispatching'.rest)
  <2>1. CASE m \in Range(targets[t])
    <3>1. /\ m \in Range(lists[t]) => m \in Range(lists'[t])
          /\ strays[t] \subseteq strays'[t] /\ UNCHANGED dispatching
      BY AddDoes
    <3>2. /\ ~ m.once => m \in Range(lists[t])
          /\ m.once /\ m.callback \notin strays[t] =>
                /\ m \in Range(lists[t])
                /\ dispatching # None /\ dispatching.type = t => m \in Range(dispatching.rest)
      BY <2>1 DEF ListsAgree, TargetsAreCounted
    <3>3. QED
      BY <3>1, <3>2
  <2>2. CASE m \notin Range(targets[t])
    <3>1. /\ m = l /\ t = l.type /\ l.callback \notin Called(targets[t])
          /\ m \in Range(lists'[t]) /\ UNCHANGED dispatching
          /\ Parts(l) => l.callback \in strays'[t]
      BY <2>2, AddDoes
    <3>2. l.once /\ dispatching # None /\ dispatching.type = t => l.callback \in strays'[t]
      BY <3>1 DEF Parts
    <3>3. QED
      BY <3>1, <3>2
  <2>3. QED
    BY <2>1, <2>2
<1>3. ASSUME NEW t \in Types, NEW m \in Range(lists'[t]), m.callback \notin strays'[t]
      PROVE  \/ \E n \in Range(targets'[t]) : n.callback = m.callback /\ (n.once => m.once)
             \/ m.once /\ dispatching' # None /\ dispatching'.type = t
  <2>1. /\ strays[t] \subseteq strays'[t] /\ UNCHANGED dispatching
        /\ Range(targets[t]) \subseteq Range(targets'[t])
    BY AddDoes
  <2>2. CASE m \in Range(lists[t])
    <3>1. \/ \E n \in Range(targets[t]) : n.callback = m.callback /\ (n.once => m.once)
          \/ m.once /\ dispatching # None /\ dispatching.type = t
      BY <1>3, <2>1, <2>2 DEF ListsAgree, CountedAreTargets
    <3>2. QED
      BY <2>1, <3>1
  <2>3. CASE m \notin Range(lists[t])
    <3>1. /\ m = l /\ t = l.type
          /\ l.callback \notin Called(targets[t]) => l \in Range(targets'[t])
          /\ ~ Parts(l)
      BY <1>3, <2>3, AddDoes
    <3>2. CASE l.callback \notin Called(targets[t])
      BY <3>1, <3>2
    <3>3. CASE l.callback \in Called(targets[t])
      <4>1. PICK n \in Range(targets[t]) : n.callback = l.callback
        BY <3>3, CalledAre
      <4>2. n.type = t /\ n \in Listeners
        BY <1>1, <4>1 DEF TypesOfLists
      <4>3. n.once => l.once
        <5>1. SUFFICES ASSUME n.once, ~ l.once PROVE FALSE
          BY <4>2, ListenersAre
        <5>2. n = [l EXCEPT !.once = TRUE]
          <6>1. /\ n \in [type : Types, callback : Callbacks, once : BOOLEAN]
                /\ l \in [type : Types, callback : Callbacks, once : BOOLEAN]
            BY <4>2, ListenersAre
          <6>2. n.once = TRUE
            BY <5>1, <6>1
          <6>3. QED
            BY <3>1, <4>1, <4>2, <6>1, <6>2
        <5>3. \E i \in DOMAIN targets[l.type] : targets[l.type][i] = [l EXCEPT !.once = TRUE]
          BY <3>1, <4>1, <5>2 DEF Range
        <5>4. QED
          BY <3>1, <5>1, <5>3 DEF Parts
      <4>4. QED
        BY <2>1, <3>1, <4>1, <4>3
    <3>4. QED
      BY <3>2, <3>3
  <2>4. QED
    BY <2>2, <2>3
<1>4. QED
  BY <1>2, <1>3 DEF ListsAgree, TargetsAreCounted, CountedAreTargets

\* What is removed goes everywhere.
LEMMA RemoveAgrees ==
    ASSUME TypeOK, ListsAgree, NEW t \in Types, NEW c \in Callbacks, RemoveEventListener(t, c)
    PROVE  ListsAgree'
<1>1. /\ dispatching' # None => dispatching # None
      /\ dispatching # None => dispatching' # None
  BY RemoveDoes, DispatchesAre
<1>2. ASSUME NEW u \in Types, NEW m \in Range(targets'[u])
      PROVE  /\ ~ m.once => m \in Range(lists'[u])
             /\ m.once /\ m.callback \notin strays'[u] =>
                   /\ m \in Range(lists'[u])
                   /\ dispatching' # None /\ dispatching'.type = u =>
                         m \in Range(dispatching'.rest)
  <2>1. m \in Range(targets[u]) /\ (u = t => m.callback # c)
    BY <1>2, RemoveDoes
  <2>2. m.callback \notin strays'[u] => m.callback \notin strays[u]
    <3>1. strays'[u] = IF u = t THEN strays[u] \ {c} ELSE strays[u]
      BY StraysLeft
    <3>2. QED
      BY <2>1, <3>1
  <2>3. m \in Range(lists[u]) => m \in Range(lists'[u])
    BY <2>1, RemoveDoes
  <2>4. ASSUME dispatching' # None, dispatching'.type = u, m \in Range(dispatching.rest)
        PROVE  m \in Range(dispatching'.rest)
    BY <1>1, <2>1, <2>4, RemoveDoes
  <2>5. dispatching' # None /\ dispatching'.type = u => dispatching # None /\ dispatching.type = u
    BY <1>1, RemoveDoes
  <2>6. /\ ~ m.once => m \in Range(lists[u])
        /\ m.once /\ m.callback \notin strays[u] =>
              /\ m \in Range(lists[u])
              /\ dispatching # None /\ dispatching.type = u => m \in Range(dispatching.rest)
    BY <2>1 DEF ListsAgree, TargetsAreCounted
  <2>7. QED
    BY ONLY <2>2, <2>3, <2>4, <2>5, <2>6
<1>3. ASSUME NEW u \in Types, NEW m \in Range(lists'[u]), m.callback \notin strays'[u]
      PROVE  \/ \E n \in Range(targets'[u]) : n.callback = m.callback /\ (n.once => m.once)
             \/ m.once /\ dispatching' # None /\ dispatching'.type = u
  <2>1. m \in Range(lists[u]) /\ (u = t => m.callback # c)
    BY <1>3, RemoveDoes
  <2>2. m.callback \notin strays[u]
    <3>1. strays'[u] = IF u = t THEN strays[u] \ {c} ELSE strays[u]
      BY StraysLeft
    <3>2. QED
      BY <1>3, <2>1, <3>1
  <2>3. CASE \E n \in Range(targets[u]) : n.callback = m.callback /\ (n.once => m.once)
    <3>1. PICK n \in Range(targets[u]) : n.callback = m.callback /\ (n.once => m.once)
      BY <2>3
    <3>2. n \in Range(targets'[u])
      BY <2>1, <3>1, RemoveDoes
    <3>3. QED
      BY <3>1, <3>2
  <2>4. CASE m.once /\ dispatching # None /\ dispatching.type = u
    BY <1>1, <2>4, RemoveDoes
  <2>5. QED
    BY <2>1, <2>2, <2>3, <2>4 DEF ListsAgree, CountedAreTargets
<1>4. QED
  BY <1>2, <1>3 DEF ListsAgree, TargetsAreCounted, CountedAreTargets

\* The listener for one event that is called next is no target any more, and is
\* counted until the dispatch ends.
LEMMA CallAgrees ==
    ASSUME TypeOK, ListsAgree, CallListener
    PROVE  ListsAgree'
<1>1. PICK l \in Listeners : Calling(l)
  BY CallDoes
<1>2. /\ UNCHANGED <<lists, strays>> /\ dispatching # None /\ dispatching' # None
      /\ dispatching'.type = dispatching.type
      /\ \A m : m \in Range(dispatching.rest) <=> m = l \/ m \in Range(dispatching'.rest)
      /\ \A t \in Types : \A m :
            m \in Range(targets'[t]) <=>
               /\ m \in Range(targets[t])
               /\ l.once /\ t = dispatching.type => m # l
  BY <1>1, DispatchesAre DEF Calling
<1>3. ASSUME NEW t \in Types, NEW m \in Range(targets'[t])
      PROVE  /\ ~ m.once => m \in Range(lists'[t])
             /\ m.once /\ m.callback \notin strays'[t] =>
                   /\ m \in Range(lists'[t])
                   /\ dispatching' # None /\ dispatching'.type = t =>
                         m \in Range(dispatching'.rest)
  <2>1. m \in Range(targets[t]) /\ (l.once /\ t = dispatching.type => m # l)
    BY <1>2, <1>3
  <2>2. /\ ~ m.once => m \in Range(lists[t])
        /\ m.once /\ m.callback \notin strays[t] =>
              /\ m \in Range(lists[t])
              /\ dispatching # None /\ dispatching.type = t => m \in Range(dispatching.rest)
    BY <2>1 DEF ListsAgree, TargetsAreCounted
  <2>3. QED
    BY <1>2, <2>1, <2>2
<1>4. ASSUME NEW t \in Types, NEW m \in Range(lists'[t]), m.callback \notin strays'[t]
      PROVE  \/ \E n \in Range(targets'[t]) : n.callback = m.callback /\ (n.once => m.once)
             \/ m.once /\ dispatching' # None /\ dispatching'.type = t
  <2>1. \/ \E n \in Range(targets[t]) : n.callback = m.callback /\ (n.once => m.once)
        \/ m.once /\ dispatching # None /\ dispatching.type = t
    BY <1>2, <1>4 DEF ListsAgree, CountedAreTargets
  <2>2. CASE m.once /\ dispatching # None /\ dispatching.type = t
    BY <1>2, <2>2
  <2>3. ASSUME NEW n \in Range(targets[t]), n.callback = m.callback, n.once => m.once
        PROVE  \/ n \in Range(targets'[t])
               \/ m.once /\ dispatching' # None /\ dispatching'.type = t
    BY <1>2, <2>3
  <2>4. QED
    BY <2>1, <2>2, <2>3
<1>5. QED
  BY <1>3, <1>4 DEF ListsAgree, TargetsAreCounted, CountedAreTargets

\* At the end of a dispatch the listeners for one event that it has called are not
\* counted any more.
LEMMA FinishAgrees == ASSUME TypeOK, ListsAgree, Finish PROVE ListsAgree'
<1>1. /\ dispatching # None /\ dispatching' = None /\ UNCHANGED <<targets, strays>>
      /\ Range(dispatching.rest) = {}
      /\ \A t \in Types : \A m :
            m \in Range(lists'[t]) <=> m \in Range(lists[t]) /\ (t = dispatching.type => ~ m.once)
  BY FinishDoes, DispatchesAre
<1>2. TargetsAreCounted'
  BY <1>1 DEF ListsAgree, TargetsAreCounted
<1>3. CountedAreTargets'
  BY <1>1 DEF ListsAgree, CountedAreTargets
<1>4. QED
  BY <1>2, <1>3 DEF ListsAgree

LEMMA ListsAgreeStep == ASSUME TypeOK, TypesOfLists, ListsAgree, Step PROVE ListsAgree'
<1>1. CASE UNCHANGED <<listening, dispatching>>
  BY <1>1 DEF listening, ListsAgree, TargetsAreCounted, CountedAreTargets
<1>2. ASSUME NEW l \in Listeners, AddEventListener(l) PROVE ListsAgree'
  BY <1>2, AddAgrees
<1>3. ASSUME NEW t \in Types, NEW c \in Callbacks, RemoveEventListener(t, c) PROVE ListsAgree'
  BY <1>3, RemoveAgrees
<1>4. CASE CallListener
  BY <1>4, CallAgrees
<1>5. CASE Finish
  BY <1>5, FinishAgrees
<1>6. ASSUME NEW id \in Ids, Accepted(id) PROVE ListsAgree'
  <2>1. UNCHANGED listening
    BY <1>6 DEF Accepted
  <2>2. QED
    BY <1>6, <2>1, AcceptedDoes, ListsAgreeBegin DEF Beginning
<1>7. ASSUME NEW p \in publishing, Signed(p) \/ BuildUnsigned(p) PROVE ListsAgree'
  <2>1. UNCHANGED listening
    BY <1>7 DEF Signed, BuildUnsigned
  <2>2. QED
    BY <1>7, <2>1, EmitDoes, ListsAgreeBegin DEF Beginning
<1>8. CASE Receives
  <2>1. UNCHANGED listening
    BY <1>8 DEF Receives, ReceiveRpc
  <2>2. QED
    BY <1>8, <2>1, ReceiveDoes, ListsAgreeBegin DEF Receiving
<1>9. QED
  BY <1>1, <1>2, <1>3, <1>4, <1>5, <1>6, <1>7, <1>8
     DEF Step, Application, Calls, Settles, Publishes, Subscribe, Unsubscribe, Start, Stop,
         Publish, FinishChange, FinishReceived, FinishPublished, Refused, Relayed, BuildSigned,
         StartTask

-----------------------------------------------------------------------------
(* The messages that wait.                                                    *)

LEMMA WaitingTyped == ASSUME TypeOK, InHand PROVE Waiting \in Seq(1 .. Len(received))
<1>1. queue \in Seq(1 .. Len(received))
  BY DEF TypeOK
<1>2. CASE dispatching # None /\ dispatching.then.to = "queue"
  <2>1. dispatching.then.ids \in Seq(1 .. Len(received))
    BY <1>2 DEF InHand
  <2>2. queue \o dispatching.then.ids \in Seq(1 .. Len(received))
    BY ONLY <1>1, <2>1, ConcatDoes
  <2>3. QED
    BY <1>2, <2>2 DEF Waiting
<1>3. CASE ~ (dispatching # None /\ dispatching.then.to = "queue")
  BY <1>1, <1>3 DEF Waiting
<1>4. QED
  BY <1>2, <1>3

\* New messages wait at the end, and the first to wait is the first to be processed.
WaitingGoes ==
    \/ Waiting' = Waiting
    \/ \E ids : Receiving(ids) /\ Waiting' = Waiting \o ids
    \/ StartTask /\ Waiting = queue /\ Waiting' = Tail(Waiting)

LEMMA WaitingStep == ASSUME TypeOK, Step PROVE WaitingGoes
<1>1. CASE UNCHANGED <<queue, dispatching>>
  BY <1>1 DEF Waiting, WaitingGoes
<1>2. ASSUME NEW t \in Types, NEW c \in Callbacks, RemoveEventListener(t, c) PROVE WaitingGoes
  <2>1. UNCHANGED queue
    BY <1>2 DEF RemoveEventListener, incoming
  <2>2. CASE dispatching = None
    BY <1>2, <2>1, <2>2, RemoveDoes DEF Waiting, WaitingGoes
  <2>3. CASE dispatching # None
    <3>1. dispatching' # None /\ dispatching'.then = dispatching.then
      BY <1>2, <2>3, RemoveDoes, DispatchesAre
    <3>2. QED
      BY <2>1, <2>3, <3>1 DEF Waiting, WaitingGoes
  <2>4. QED
    BY <2>2, <2>3
<1>3. CASE CallListener
  <2>1. UNCHANGED queue
    BY <1>3 DEF CallListener, incoming
  <2>2. dispatching # None /\ dispatching' # None /\ dispatching'.then = dispatching.then
    BY <1>3, CallDoes, DispatchesAre DEF Calling
  <2>3. QED
    BY <2>1, <2>2 DEF Waiting, WaitingGoes
<1>4. CASE FinishChange
  BY <1>4 DEF FinishChange, Finish, Waiting, WaitingGoes
<1>5. CASE FinishReceived \/ FinishPublished
  BY <1>5 DEF FinishReceived, FinishPublished, Finish, incoming, Waiting, WaitingGoes
<1>6. ASSUME dispatching = None, UNCHANGED queue,
             dispatching' = None \/ dispatching'.then.to # "queue"
      PROVE  WaitingGoes
  BY <1>6 DEF Waiting, WaitingGoes
<1>7. ASSUME NEW id \in Ids, Accepted(id) PROVE WaitingGoes
  <2>1. UNCHANGED queue
    BY <1>7 DEF Accepted
  <2>2. QED
    BY <1>6, <1>7, <2>1, AcceptedDoes DEF Beginning
<1>8. ASSUME NEW p \in publishing, Signed(p) \/ BuildUnsigned(p) PROVE WaitingGoes
  <2>1. UNCHANGED queue
    BY <1>8 DEF Signed, BuildUnsigned, incoming
  <2>2. QED
    BY <1>6, <1>8, <2>1, EmitDoes DEF Beginning
<1>9. CASE Receives
  <2>1. PICK ids : Receiving(ids)
    BY <1>9, ReceiveDoes
  <2>2. Waiting = queue
    BY <2>1 DEF Receiving, Waiting
  <2>3. CASE queue' = queue \o ids /\ dispatching' = None
    BY <2>1, <2>2, <2>3 DEF Waiting, WaitingGoes
  <2>4. CASE /\ queue' = queue /\ dispatching' \in Dispatches
             /\ dispatching'.then = [to |-> "queue", ids |-> ids]
    <3>1. dispatching' # None /\ dispatching'.then.to = "queue" /\ dispatching'.then.ids = ids
      BY <2>4, DispatchesAre
    <3>2. QED
      BY <2>1, <2>2, <2>4, <3>1 DEF Waiting, WaitingGoes
  <2>5. QED
    BY <2>1, <2>3, <2>4 DEF Receiving
<1>10. CASE StartTask
  BY <1>10 DEF StartTask, Idle, Waiting, WaitingGoes
<1>11. QED
  BY <1>1, <1>2, <1>3, <1>4, <1>5, <1>7, <1>8, <1>9, <1>10
     DEF Step, Application, Calls, Settles, Publishes, AddEventListener, Subscribe,
         Unsubscribe, Start, Stop, Publish, Refused, Relayed, BuildSigned, incoming

\* The first of the messages that wait does not wait again.
LEMMA StartsOnce ==
    ASSUME TypeOK, InHand, QueueInOrder, StartTask
    PROVE  /\ dispatching = None
           /\ Head(queue) \in 1 .. Len(received) /\ Head(queue) \in Range(Waiting)
           /\ Range(Waiting') \subseteq Range(Waiting) \ {Head(queue)}
           /\ \A i, j \in DOMAIN Waiting' : i < j => Waiting'[i] < Waiting'[j]
<1>1. /\ dispatching = None /\ Waiting = queue /\ Waiting' = Tail(queue)
      /\ queue \in Seq(1 .. Len(received)) /\ queue # <<>>
  BY DEF StartTask, Idle, Waiting, TypeOK
<1>2. \A i, j \in DOMAIN queue : i < j => queue[i] < queue[j]
  BY <1>1 DEF QueueInOrder
<1>3. /\ Head(queue) = queue[1] /\ Len(queue) \in Nat /\ 1 <= Len(queue)
      /\ DOMAIN queue = 1 .. Len(queue)
      /\ DOMAIN Tail(queue) = 1 .. Len(queue) - 1
      /\ \A i \in 1 .. Len(queue) - 1 : Tail(queue)[i] = queue[i + 1]
      /\ \A i \in 1 .. Len(queue) : queue[i] \in 1 .. Len(received)
  BY <1>1
<1>4. /\ Head(queue) \in 1 .. Len(received)
      /\ Range(queue) = {Head(queue)} \cup Range(Tail(queue))
  BY <1>1, <1>3, HeadAndTail
<1>5. ASSUME NEW i \in 1 .. Len(queue) - 1
      PROVE  /\ i + 1 \in 1 .. Len(queue) /\ Tail(queue)[i] = queue[i + 1]
             /\ Tail(queue)[i] # Head(queue)
  <2>1. i + 1 \in 1 .. Len(queue) /\ 1 \in 1 .. Len(queue) /\ 1 < i + 1
    BY <1>3
  <2>2. queue[1] < queue[i + 1]
    BY <1>2, <1>3, <2>1
  <2>3. queue[1] \in 1 .. Len(received) /\ queue[i + 1] \in 1 .. Len(received)
    BY <1>3, <2>1
  <2>4. Len(received) \in Nat
    BY DEF TypeOK
  <2>5. QED
    BY <1>3, <2>1, <2>2, <2>3, <2>4
<1>6. Head(queue) \notin Range(Tail(queue))
  BY <1>3, <1>5 DEF Range
<1>7. ASSUME NEW i \in DOMAIN Tail(queue), NEW j \in DOMAIN Tail(queue), i < j
      PROVE  Tail(queue)[i] < Tail(queue)[j]
  <2>1. i + 1 \in DOMAIN queue /\ j + 1 \in DOMAIN queue /\ i + 1 < j + 1
    BY <1>3, <1>5, <1>7
  <2>2. queue[i + 1] < queue[j + 1]
    BY <1>2, <2>1
  <2>3. QED
    BY <1>3, <2>2
<1>8. Range(Waiting') \subseteq Range(Waiting) \ {Head(queue)}
  BY <1>1, <1>4, <1>6
<1>9. Head(queue) \in Range(Waiting)
  BY <1>1, <1>4
<1>10. \A i, j \in DOMAIN Waiting' : i < j => Waiting'[i] < Waiting'[j]
  BY <1>1, <1>7
<1>11. QED
  BY <1>1, <1>4, <1>8, <1>9, <1>10

LEMMA QueueInOrderStep == ASSUME TypeOK, InHand, QueueInOrder, Step PROVE QueueInOrder'
<1>1. CASE Waiting' = Waiting
  BY <1>1 DEF QueueInOrder
<1>2. ASSUME NEW ids, Receiving(ids), Waiting' = Waiting \o ids PROVE QueueInOrder'
  <2>1. Waiting \in Seq(1 .. Len(received)) /\ Len(received) \in Nat
    BY WaitingTyped DEF TypeOK
  <2>2. /\ ids \in Seq(1 .. Len(received')) /\ Len(received') \in Nat
        /\ \A i \in 1 .. Len(ids) : ids[i] = Len(received) + i
    BY <1>2, <2>1, BoundsAreNumbers DEF Receiving
  <2> DEFINE w == Waiting
             v == Waiting \o ids
  <2>3. /\ w \in Seq(1 .. Len(received)) /\ Len(w) \in Nat /\ Len(ids) \in Nat
        /\ DOMAIN w = 1 .. Len(w)
        /\ \A i, j \in 1 .. Len(w) : i < j => w[i] < w[j]
        /\ \A i \in 1 .. Len(w) : w[i] \in 1 .. Len(received)
    BY <2>1, <2>2 DEF QueueInOrder
  <2>4. w \in Seq(Nat) /\ ids \in Seq(Nat)
    <3>1. 1 .. Len(received) \subseteq Nat /\ 1 .. Len(received') \subseteq Nat
      OBVIOUS
    <3>2. QED
      BY <2>1, <2>2, <3>1, ListOfLargerSet
  <2>5. /\ DOMAIN v = 1 .. Len(w) + Len(ids)
        /\ \A i \in 1 .. Len(w) : v[i] = w[i]
        /\ \A i \in 1 .. Len(ids) : v[Len(w) + i] = ids[i]
    BY <2>4, ConcatDoes
  <2> HIDE DEF w, v
  <2>6. ASSUME NEW i \in DOMAIN v, ~ i <= Len(w)
        PROVE  v[i] = Len(received) + (i - Len(w)) /\ i - Len(w) \in 1 .. Len(ids)
    <3>1. i - Len(w) \in 1 .. Len(ids) /\ Len(w) + (i - Len(w)) = i
      BY <2>3, <2>5, <2>6
    <3>2. QED
      BY <2>2, <2>5, <3>1
  <2>7. ASSUME NEW i \in DOMAIN v, i <= Len(w)
        PROVE  i \in 1 .. Len(w) /\ v[i] = w[i] /\ v[i] \in 1 .. Len(received)
    BY <2>3, <2>5, <2>7
  <2>8. ASSUME NEW i \in DOMAIN v, NEW j \in DOMAIN v, i < j PROVE v[i] < v[j]
    <3>1. i \in Nat /\ j \in Nat
      BY <2>3, <2>5
    <3>2. CASE j <= Len(w)
      <4>1. i \in 1 .. Len(w) /\ j \in 1 .. Len(w) /\ v[i] = w[i] /\ v[j] = w[j]
        BY <2>3, <2>7, <2>8, <3>1, <3>2
      <4>2. QED
        BY <2>3, <2>8, <4>1
    <3>3. CASE ~ j <= Len(w) /\ i <= Len(w)
      BY <2>1, <2>2, <2>3, <2>6, <2>7, <3>3
    <3>4. CASE ~ j <= Len(w) /\ ~ i <= Len(w)
      BY <2>1, <2>3, <2>6, <2>8, <3>1, <3>4
    <3>5. QED
      BY <3>2, <3>3, <3>4
  <2>9. QED
    BY <1>2, <2>8 DEF QueueInOrder, v
<1>3. CASE StartTask
  BY <1>3, StartsOnce DEF QueueInOrder
<1>4. QED
  BY <1>1, <1>2, <1>3, WaitingStep DEF WaitingGoes

-----------------------------------------------------------------------------
(* The dispatch that is going on.                                             *)

\* While an event is dispatched no message is received, started or settled.
LEMMA Busy ==
    ASSUME Step, dispatching # None
    PROVE  \/ FinishChange \/ FinishReceived \/ FinishPublished
           \/ CallListener /\ UNCHANGED incoming
           \/ /\ \E t \in Types, c \in Callbacks : RemoveEventListener(t, c)
              /\ UNCHANGED <<incoming, heard>>
           \/ UNCHANGED <<dispatching, incoming, heard>>
  BY DEF Step, Application, Calls, Settles, Publishes, Receives, AddEventListener,
         RemoveEventListener, Subscribe, Unsubscribe, Start, Stop, Publish, CallListener,
         FinishChange, FinishReceived, FinishPublished, Accepted, Refused, Relayed, Validating,
         BuildSigned, Signed, BuildUnsigned, ReceiveRpc, StartTask, Idle

\* Otherwise one may begin.
LEMMA Free ==
    ASSUME TypeOK, Step, dispatching = None, dispatching' # None
    PROVE  \/ \E id \in Ids : Accepted(id) /\ Beginning(received[id].topic, id, "relay")
           \/ \E t \in Topics : Beginning(t, 0, "publish")
           \/ \E ids : Receiving(ids)
<1>1. ASSUME NEW t \in Types, NEW c \in Callbacks, RemoveEventListener(t, c) PROVE FALSE
  BY <1>1, RemoveDoes
<1>2. ~ (CallListener \/ FinishChange \/ FinishReceived \/ FinishPublished)
  BY DEF CallListener, FinishChange, FinishReceived, FinishPublished, Finish
<1>3. CASE UNCHANGED dispatching
  BY <1>3
<1>4. ASSUME NEW id \in Ids, Accepted(id)
      PROVE  Beginning(received[id].topic, id, "relay")
  BY <1>4, AcceptedDoes
<1>5. ASSUME NEW p \in publishing, Signed(p) \/ BuildUnsigned(p)
      PROVE  \E t \in Topics : Beginning(t, 0, "publish")
  BY <1>5, EmitDoes
<1>6. CASE Receives
  BY <1>6, ReceiveDoes
<1>7. QED
  BY <1>1, <1>2, <1>3, <1>4, <1>5, <1>6
     DEF Step, Application, Calls, Settles, Publishes, AddEventListener, Subscribe,
         Unsubscribe, Start, Stop, Publish, Refused, Relayed, BuildSigned, StartTask

\* What InHand says of a message.
OneInHand(id) ==
    /\ id \in 1 .. Len(received)
    /\ dispatching.type = received[id].topic
    /\ [id |-> id, phase |-> "validating"] \in running
    /\ wanted[id] \subseteq heard[id] \cup Called(dispatching.rest)

\* While others are called, and listeners are removed, the message is in hand.
LEMMA InHandBusy ==
    ASSUME TypeOK, InHand, Step, Watched, dispatching # None, dispatching' # None
    PROVE  InHand'
<1>1. dispatching \in Dispatches /\ ReceivedGrows
  BY ReceivedTypedStep DEF TypeOK
<1>2. /\ dispatching'.type = dispatching.type
      /\ dispatching'.id = dispatching.id
      /\ dispatching'.then = dispatching.then
      /\ Range(dispatching'.rest) \subseteq Range(dispatching.rest)
      /\ UNCHANGED incoming
  <2>1. ~ (FinishChange \/ FinishReceived \/ FinishPublished)
    BY FinishDoes DEF FinishChange, FinishReceived, FinishPublished
  <2>2. CASE CallListener /\ UNCHANGED incoming
    BY <2>2, CallDoes DEF Calling
  <2>3. ASSUME NEW t \in Types, NEW c \in Callbacks, RemoveEventListener(t, c)
        PROVE  /\ dispatching'.type = dispatching.type
               /\ dispatching'.id = dispatching.id
               /\ dispatching'.then = dispatching.then
               /\ Range(dispatching'.rest) \subseteq Range(dispatching.rest)
    BY <2>3, RemoveDoes
  <2>4. CASE UNCHANGED <<dispatching, incoming, heard>>
    BY <2>4 DEF incoming
  <2>5. UNCHANGED incoming
    BY <2>1, Busy DEF incoming
  <2>6. \/ CallListener /\ UNCHANGED incoming
        \/ \E t \in Types, c \in Callbacks : RemoveEventListener(t, c)
        \/ UNCHANGED <<dispatching, incoming, heard>>
    BY <2>1, Busy
  <2>7. QED
    BY <2>2, <2>3, <2>4, <2>5, <2>6
<1>3. \A l \in Range(dispatching'.rest) : l.type = dispatching'.type
  BY <1>2 DEF InHand
<1>4. UNCHANGED <<received, running>>
  BY <1>2 DEF incoming
<1>5. ASSUME dispatching.then.to = "relay" PROVE OneInHand(dispatching.id)'
  <2> PICK id : id = dispatching.id
    OBVIOUS
  <2>1. OneInHand(id)
    BY <1>5 DEF InHand, OneInHand
  <2>2. id \in 1 .. Len(received) /\ id \in Ids /\ received[id].topic = dispatching.type
    BY <2>1, ReceivedAre DEF OneInHand
  <2>3. /\ wanted'[id] \subseteq wanted[id] /\ heard[id] \subseteq heard'[id]
        /\ wanted'[id] \subseteq heard'[id] \cup Called(targets'[dispatching.type])
    BY <2>2, HeardStep DEF Watched, ServedNow
  <2>4. wanted[id] \subseteq heard[id] \cup Called(dispatching.rest)
    BY <2>1 DEF OneInHand
  <2>5. wanted'[id] \subseteq heard'[id] \cup Called(dispatching'.rest)
    <3>1. CASE CallListener
      <4>1. PICK l \in Listeners : Calling(l)
        BY <3>1, CallDoes
      <4>2. id # 0 /\ id = dispatching.id /\ heard \in [Ids -> SUBSET Callbacks] /\ id \in Ids
        BY <2>2 DEF TypeOK, Ids
      <4>3. l.callback \in heard'[id]
        BY <4>1, <4>2 DEF Calling
      <4>4. Called(dispatching.rest) \subseteq {l.callback} \cup Called(dispatching'.rest)
        BY <4>1, CalledAre DEF Calling
      <4>5. QED
        BY <2>3, <2>4, <4>3, <4>4
    <3>2. ASSUME NEW t \in Types, NEW c \in Callbacks, RemoveEventListener(t, c)
          PROVE  wanted'[id] \subseteq heard'[id] \cup Called(dispatching'.rest)
      <4>1. ASSUME NEW x \in wanted'[id], x \notin heard'[id]
            PROVE  x \in Called(dispatching'.rest)
        <5>1. PICK l \in Range(dispatching.rest) : x = l.callback
          BY <2>3, <2>4, <4>1, CalledAre
        <5>2. dispatching.type = t => x # c
          <6>1. PICK m \in Range(targets'[dispatching.type]) : x = m.callback
            BY <2>3, <4>1, CalledAre
          <6>2. dispatching.type \in Types
            BY <1>1, DispatchesAre
          <6>3. QED
            BY <3>2, <6>1, <6>2, RemoveDoes
        <5>3. l \in Range(dispatching'.rest)
          BY <3>2, <5>1, <5>2, RemoveDoes
        <5>4. QED
          BY <5>1, <5>3, CalledAre
      <4>2. QED
        BY <4>1
    <3>3. CASE UNCHANGED <<dispatching, incoming, heard>>
      BY <2>3, <2>4, <3>3
    <3>4. ~ (FinishChange \/ FinishReceived \/ FinishPublished)
      BY FinishDoes DEF FinishChange, FinishReceived, FinishPublished
    <3>5. QED
      BY <3>1, <3>2, <3>3, <3>4, Busy
  <2>6. [id |-> id, phase |-> "validating"] \in running
    BY <2>1 DEF OneInHand
  <2>7. OneInHand(id)'
    BY <1>2, <1>4, <2>2, <2>5, <2>6 DEF OneInHand
  <2>8. QED
    BY <1>2, <2>7 DEF OneInHand
<1>6. dispatching'.then.to = "queue" =>
         dispatching'.id = 0 /\ dispatching'.then.ids \in Seq(1 .. Len(received'))
  BY <1>2, <1>4 DEF InHand
<1>7. dispatching'.then.to = "publish" => dispatching'.id = 0
  BY <1>2 DEF InHand
<1>8. dispatching'.then.to = "relay" => OneInHand(dispatching.id)'
  BY <1>2, <1>5
<1>9. QED
  BY <1>3, <1>6, <1>7, <1>8 DEF InHand, OneInHand

LEMMA InHandStep ==
    ASSUME TypeOK, TypesOfLists, InHand, WantedAreThere, Step, Watched
    PROVE  InHand'
<1>1. CASE dispatching' = None
  BY <1>1 DEF InHand
<1>2. CASE dispatching # None /\ dispatching' # None
  BY <1>2, InHandBusy
<1>3. \A t \in Types : \A l \in Range(targets[t]) : l.type = t
  BY DEF TypesOfLists
<1>4. ASSUME NEW id \in Ids, Accepted(id), Beginning(received[id].topic, id, "relay")
      PROVE  InHand'
  <2>1. id \in 1 .. Len(received) /\ [id |-> id, phase |-> "validating"] \in running
    BY <1>4, AcceptedDoes
  <2>2. /\ dispatching'.type = received[id].topic /\ dispatching'.id = id
        /\ dispatching'.rest = targets[received[id].topic]
        /\ dispatching'.then.to = "relay"
    BY <1>4 DEF Beginning
  <2>3. UNCHANGED <<received, running, heard>>
    <3>1. UNCHANGED <<received, heard>>
      BY <1>4 DEF Accepted
    <3>2. UNCHANGED running
      <4>1. dispatching' # None
        BY <1>4, DispatchesAre DEF Beginning
      <4>2. QED
        BY <1>4, <4>1, AcceptedDoes
    <3>3. QED
      BY <3>1, <3>2
  <2>4. wanted'[id] \subseteq heard'[id] \cup Called(targets[received[id].topic])
    BY <2>1, <2>3 DEF Watched, WantedAreThere, Served
  <2>5. received[id].topic \in Types
    BY <2>1, ReceivedAre
  <2>6. QED
    BY <1>3, <2>1, <2>2, <2>3, <2>4, <2>5 DEF InHand
<1>5. ASSUME NEW t \in Topics, Beginning(t, 0, "publish") PROVE InHand'
  BY <1>3, <1>5 DEF Beginning, InHand, Types
<1>6. ASSUME NEW ids, Receiving(ids), dispatching' # None PROVE InHand'
  <2>1. /\ dispatching'.type = Change /\ dispatching'.id = 0
        /\ dispatching'.rest = targets[Change]
        /\ dispatching'.then = [to |-> "queue", ids |-> ids]
        /\ ids \in Seq(1 .. Len(received'))
    BY <1>6 DEF Receiving
  <2>2. QED
    BY <1>3, <2>1 DEF InHand, Types
<1>7. QED
  BY <1>1, <1>2, <1>4, <1>5, <1>6, Free

-----------------------------------------------------------------------------
(* What happens to a message.                                                 *)

\* The two phases of a message exclude each other.
LEMMA OnePhase ==
    ASSUME TypeOK, Lifecycle, NEW id, [id |-> id, phase |-> "validating"] \in running
    PROVE  /\ outcome[id] = "pending" /\ id \in 1 .. Len(received) /\ id \in Ids
           /\ id \notin Range(Waiting)
           /\ \A r \in running : r.id = id => r = [id |-> id, phase |-> "validating"]
<1>1. id \in 1 .. Len(received) /\ id \in Ids
  BY RunningAre
<1>2. outcome[id] = "pending" /\ id \notin Range(Waiting)
  BY <1>1 DEF Lifecycle, Untouched
<1>3. ASSUME NEW r \in running, r.id = id PROVE r = [id |-> id, phase |-> "validating"]
  <2>1. r \in [id : 1 .. Len(received), phase : {"validating", "relaying"}]
    BY DEF TypeOK
  <2>2. r.phase = "validating"
    BY <1>2, <1>3, <2>1 DEF Lifecycle
  <2>3. QED
    BY <1>3, <2>1, <2>2
<1>4. QED
  BY <1>1, <1>2, <1>3

\* What becomes of messages: nothing; the message in hand is heard; a message that
\* was validated is relayed, by itself or when its dispatch ends; a message is
\* refused; a relayed one is done with; the first to wait is started.
Fate ==
    \/ UNCHANGED <<running, outcome, heard>>
    \/ CallListener /\ UNCHANGED <<running, outcome>>
    \/ \E id \in Ids :
          /\ [id |-> id, phase |-> "validating"] \in running
          /\ \/ FinishReceived /\ Delivering(id) /\ wanted[id] \subseteq heard[id]
             \/ dispatching = None /\ received[id].topic \notin subscriptions
          /\ Relay(id) /\ UNCHANGED heard /\ dispatching' = None
    \/ \E id \in Ids : Refused(id) \/ Relayed(id)
    \/ StartTask

LEMMA FateStep == ASSUME TypeOK, InHand, Step PROVE Fate
<1>1. CASE UNCHANGED <<running, outcome, heard>>
  BY <1>1 DEF Fate
<1>2. CASE CallListener
  BY <1>2 DEF CallListener, incoming, Fate
<1>3. CASE FinishReceived
  <2> PICK id : id = dispatching.id
    OBVIOUS
  <2>1. /\ dispatching # None /\ dispatching.then.to = "relay"
        /\ dispatching' = None /\ Relay(id) /\ UNCHANGED heard
    BY <1>3 DEF FinishReceived, Finish
  <2>2. OneInHand(id)
    BY <2>1 DEF InHand, OneInHand
  <2>3. id \in Ids
    BY <2>2, ReceivedAre DEF OneInHand
  <2>4. wanted[id] \subseteq heard[id]
    <3>1. Called(dispatching.rest) = {}
      BY <1>3, FinishDoes, CalledAre DEF FinishReceived
    <3>2. QED
      BY <2>2, <3>1 DEF OneInHand
  <2>5. QED
    BY <1>3, <2>1, <2>2, <2>3, <2>4 DEF OneInHand, Delivering, Fate
<1>4. ASSUME NEW id \in Ids, Accepted(id) PROVE Fate
  <2>1. UNCHANGED heard
    BY <1>4 DEF Accepted
  <2>2. QED
    BY <1>4, <2>1, AcceptedDoes DEF Fate
<1>5. ASSUME NEW id \in Ids, Refused(id) \/ Relayed(id) PROVE Fate
  BY <1>5 DEF Fate
<1>6. CASE StartTask
  BY <1>6 DEF Fate
<1>7. QED
  BY <1>1, <1>2, <1>3, <1>4, <1>5, <1>6
     DEF Step, Application, Calls, Settles, Publishes, Receives, AddEventListener,
         RemoveEventListener, Subscribe, Unsubscribe, Start, Stop, Publish, FinishChange,
         FinishPublished, BuildSigned, Signed, BuildUnsigned, ReceiveRpc, incoming

\* A message that waits after a step has waited before, or had not come.
LEMMA WaitedBefore ==
    ASSUME TypeOK, InHand, QueueInOrder, Step, NEW id \in Ids,
           id > Len(received') \/ id \in Range(Waiting')
    PROVE  id > Len(received) \/ id \in Range(Waiting)
<1>1. ReceivedGrows
  BY ReceivedTypedStep
<1>2. CASE id > Len(received')
  BY <1>1, <1>2 DEF ReceivedGrows, Ids
<1>3. ASSUME NEW ids, Receiving(ids), Waiting' = Waiting \o ids, id \in Range(Waiting')
      PROVE  id > Len(received) \/ id \in Range(Waiting)
  <2>1. Waiting \in Seq(Nat) /\ ids \in Seq(Nat)
    <3>1. 1 .. Len(received) \subseteq Nat /\ 1 .. Len(received') \subseteq Nat
      OBVIOUS
    <3>2. Waiting \in Seq(1 .. Len(received)) /\ ids \in Seq(1 .. Len(received'))
      BY <1>3, WaitingTyped DEF Receiving
    <3>3. QED
      BY <3>1, <3>2, ListOfLargerSet
  <2>2. Range(Waiting \o ids) = Range(Waiting) \cup Range(ids)
    BY <2>1, ConcatDoes
  <2>3. \A n \in Range(ids) : n > Len(received)
    <3>1. DOMAIN ids = 1 .. Len(ids) /\ \A i \in 1 .. Len(ids) : ids[i] = Len(received) + i
      BY <1>3, <2>1 DEF Receiving
    <3>2. Len(received) \in Nat /\ Len(ids) \in Nat
      BY <1>1, <2>1 DEF ReceivedGrows
    <3>3. QED
      BY <3>1, <3>2 DEF Range
  <2>4. QED
    BY <1>3, <2>2, <2>3
<1>4. CASE StartTask /\ id \in Range(Waiting')
  BY <1>4, StartsOnce
<1>5. QED
  BY <1>2, <1>3, <1>4, WaitingStep DEF WaitingGoes

\* A message stays relayed.
LEMMA RelayedStays ==
    ASSUME TypeOK, InHand, QueueInOrder, Lifecycle, Step, NEW id \in Ids,
           outcome[id] = "relayed"
    PROVE  outcome'[id] = "relayed"
<1>1. outcome \in [Ids -> {"pending", "unwanted", "refused", "relayed"}]
  BY DEF TypeOK
<1>2. CASE UNCHANGED outcome
  BY <1>2
<1>3. ASSUME NEW i \in Ids, Relay(i) PROVE outcome'[id] = "relayed"
  BY <1>1, <1>3 DEF Relay
<1>4. ASSUME NEW i \in Ids, Refused(i) PROVE outcome'[id] = "relayed"
  <2>1. outcome[i] = "pending"
    BY <1>4, OnePhase DEF Refused, Validating
  <2>2. QED
    BY <1>1, <1>4, <2>1 DEF Refused
<1>5. CASE StartTask
  <2>1. Head(queue) \in Range(Waiting) /\ Head(queue) \in Ids
    BY <1>5, StartsOnce, ReceivedAre
  <2>2. outcome[Head(queue)] = "pending"
    BY <2>1 DEF Lifecycle, Untouched
  <2>3. QED
    BY <1>1, <1>5, <2>1, <2>2 DEF StartTask
<1>6. QED
  BY <1>2, <1>3, <1>4, <1>5, FateStep DEF Fate, Relayed

\* A message that is being delivered is delivered on, or relayed.
LEMMA DeliveredOn ==
    ASSUME TypeOK, InHand, Step, NEW id \in Ids, Delivering(id)
    PROVE  Delivering(id)' \/ outcome'[id] = "relayed"
<1>1. /\ dispatching # None /\ dispatching.then.to = "relay" /\ dispatching.id = id
      /\ outcome \in [Ids -> {"pending", "unwanted", "refused", "relayed"}]
  BY DEF Delivering, TypeOK
<1>2. CASE FinishReceived
  BY <1>1, <1>2 DEF FinishReceived, Relay
<1>3. ~ (FinishChange \/ FinishPublished)
  BY <1>1 DEF FinishChange, FinishPublished
<1>4. CASE CallListener
  BY <1>1, <1>4, CallDoes, DispatchesAre DEF Calling, Delivering
<1>5. ASSUME NEW t \in Types, NEW c \in Callbacks, RemoveEventListener(t, c)
      PROVE  Delivering(id)'
  BY <1>1, <1>5, RemoveDoes, DispatchesAre DEF Delivering
<1>6. CASE UNCHANGED dispatching
  BY <1>1, <1>6 DEF Delivering
<1>7. QED
  BY <1>1, <1>2, <1>3, <1>4, <1>5, <1>6, Busy

\* A message is heard for the first time while it is delivered.
LEMMA HeardNow ==
    ASSUME TypeOK, InHand, Step, NEW id \in Ids, heard[id] # heard'[id]
    PROVE  Delivering(id) /\ Delivering(id)' /\ OneInHand(id) /\ UNCHANGED incoming
<1>1. CallListener
  BY DEF Step, Application, Calls, Settles, Publishes, Receives, AddEventListener,
         RemoveEventListener, Subscribe, Unsubscribe, Start, Stop, Publish, FinishChange,
         FinishReceived, FinishPublished, Accepted, Refused, Relayed, BuildSigned, Signed,
         BuildUnsigned, ReceiveRpc, StartTask
<1>2. PICK l \in Listeners : Calling(l)
  BY <1>1, CallDoes
<1>3. dispatching.id = id /\ id # 0
  BY <1>2 DEF Calling, TypeOK, Ids
<1>4. /\ dispatching # None /\ dispatching' # None
      /\ dispatching.then.to \in {"queue", "relay", "publish"}
  BY <1>2, DispatchesAre DEF Calling
<1>5. dispatching.then.to = "relay"
  BY <1>3, <1>4 DEF InHand
<1>6. Delivering(id) /\ Delivering(id)'
  BY <1>2, <1>3, <1>4, <1>5 DEF Calling, Delivering
<1>7. OneInHand(id)
  BY <1>3, <1>4, <1>5 DEF InHand, OneInHand
<1>8. UNCHANGED incoming
  BY <1>1 DEF CallListener
<1>9. QED
  BY <1>6, <1>7, <1>8

LEMMA UntouchedStep ==
    ASSUME TypeOK, InHand, QueueInOrder, Lifecycle, Step, NEW id \in Ids,
           id > Len(received') \/ id \in Range(Waiting')
    PROVE  Untouched(id)'
<1>1. Untouched(id)
  BY WaitedBefore DEF Lifecycle
<1>2. heard'[id] = {}
  <2>1. CASE heard'[id] # heard[id]
    <3>1. OneInHand(id)
      BY <2>1, HeardNow
    <3>2. QED
      BY <1>1, <3>1 DEF OneInHand, Untouched
  <2>2. QED
    BY <1>1, <2>1 DEF Untouched
<1>3. outcome \in [Ids -> {"pending", "unwanted", "refused", "relayed"}]
  BY DEF TypeOK
<1>4. ASSUME NEW i \in Ids, [id |-> i, phase |-> "validating"] \in running PROVE i # id
  BY <1>1, <1>4 DEF Untouched
<1>5. ASSUME NEW i \in Ids, [id |-> i, phase |-> "validating"] \in running, Relay(i)
      PROVE  Untouched(id)'
  BY <1>1, <1>2, <1>3, <1>4, <1>5 DEF Relay, Untouched
<1>6. ASSUME NEW i \in Ids, Refused(i) PROVE Untouched(id)'
  BY <1>1, <1>2, <1>3, <1>4, <1>6 DEF Refused, Validating, Untouched
<1>7. ASSUME NEW i \in Ids, Relayed(i) PROVE Untouched(id)'
  BY <1>1, <1>2, <1>7 DEF Relayed, Untouched
<1>8. CASE StartTask
  <2>1. id # Head(queue)
    <3>1. /\ Head(queue) \in 1 .. Len(received)
          /\ Range(Waiting') \subseteq Range(Waiting) \ {Head(queue)}
      BY <1>8, StartsOnce
    <3>2. received' = received /\ Len(received) \in Nat
      BY <1>8 DEF StartTask, TypeOK
    <3>3. QED
      BY <3>1, <3>2
  <2>2. Head(queue) \in Ids
    BY <1>8, StartsOnce, ReceivedAre
  <2>3. outcome'[id] = outcome[id]
    BY <1>3, <1>8, <2>1 DEF StartTask
  <2>4. running' \subseteq running \cup {[id |-> Head(queue), phase |-> "validating"]}
    BY <1>8 DEF StartTask
  <2>5. QED
    BY <1>1, <1>2, <2>1, <2>3, <2>4 DEF Untouched
<1>9. CASE UNCHANGED <<running, outcome>>
  BY <1>1, <1>2, <1>9 DEF Untouched
<1>10. QED
  BY <1>5, <1>6, <1>7, <1>8, <1>9, FateStep DEF Fate

\* The phase of a running message goes with its outcome.
Phases ==
    \A r \in running : outcome[r.id] = IF r.phase = "validating" THEN "pending" ELSE "relayed"

LEMMA PhasesStep == ASSUME TypeOK, InHand, QueueInOrder, Lifecycle, Step PROVE Phases'
<1>1. Phases /\ outcome \in [Ids -> {"pending", "unwanted", "refused", "relayed"}]
  BY DEF Lifecycle, Phases, TypeOK
<1>2. CASE UNCHANGED <<running, outcome>>
  BY <1>1, <1>2 DEF Phases
<1>3. ASSUME NEW i \in Ids, [id |-> i, phase |-> "validating"] \in running, Relay(i)
      PROVE  Phases'
  <2>1. \A r \in running : r.id = i => r = [id |-> i, phase |-> "validating"]
    BY <1>3, OnePhase
  <2>2. /\ outcome' = [outcome EXCEPT ![i] = "relayed"]
        /\ running' = (running \ {[id |-> i, phase |-> "validating"]})
                          \cup {[id |-> i, phase |-> "relaying"]}
    BY <1>3 DEF Relay
  <2>3. ASSUME NEW r \in running', r.id # i PROVE r \in running /\ outcome'[r.id] = outcome[r.id]
    <3>1. r \in running
      BY <2>2, <2>3
    <3>2. QED
      BY <1>1, <2>2, <2>3, <3>1, RunningAre
  <2>4. ASSUME NEW r \in running', r.id = i PROVE r.phase = "relaying" /\ outcome'[r.id] = "relayed"
    BY <1>1, <2>1, <2>2, <2>4
  <2>5. QED
    BY <1>1, <2>3, <2>4 DEF Phases
<1>4. ASSUME NEW i \in Ids, Refused(i) PROVE Phases'
  <2>1. \A r \in running : r.id = i => r = [id |-> i, phase |-> "validating"]
    BY <1>4, OnePhase DEF Refused, Validating
  <2>2. /\ outcome' = [outcome EXCEPT ![i] = "refused"]
        /\ running' = running \ {[id |-> i, phase |-> "validating"]}
    BY <1>4 DEF Refused
  <2>3. ASSUME NEW r \in running' PROVE r \in running /\ outcome'[r.id] = outcome[r.id]
    BY <1>1, <2>1, <2>2, RunningAre
  <2>4. QED
    BY <1>1, <2>3 DEF Phases
<1>5. ASSUME NEW i \in Ids, Relayed(i) PROVE Phases'
  BY <1>1, <1>5 DEF Relayed, Phases
<1>6. CASE StartTask
  <2> DEFINE id == Head(queue)
             new == [id |-> id, phase |-> "validating"]
  <2>1. id \in Range(Waiting) /\ id \in Ids
    BY <1>6, StartsOnce, ReceivedAre
  <2>2. Untouched(id)
    BY <2>1 DEF Lifecycle
  <2>3. \/ running' = running
        \/ running' = running \cup {new} /\ outcome'[id] = outcome[id]
    BY <1>1, <1>6, <2>1 DEF StartTask
  <2>4. \A i \in Ids : i # id => outcome'[i] = outcome[i]
    BY <1>1, <1>6, <2>1 DEF StartTask
  <2>5. new.id = id /\ new.phase = "validating"
    OBVIOUS
  <2> HIDE DEF id, new
  <2>6. ASSUME NEW r \in running
        PROVE  outcome'[r.id] = IF r.phase = "validating" THEN "pending" ELSE "relayed"
    BY <1>1, <2>2, <2>4, RunningAre DEF Phases, Untouched
  <2>7. running' = running \cup {new} => outcome'[new.id] = "pending"
    <3>1. outcome[id] = "pending" /\ \A r \in running : r.id # id
      BY <2>2 DEF Untouched
    <3>2. QED
      BY <2>3, <2>5, <3>1
  <2>8. QED
    BY <2>3, <2>5, <2>6, <2>7 DEF Phases
<1>7. QED
  BY <1>2, <1>3, <1>4, <1>5, <1>6, FateStep DEF Fate

LEMMA LifecycleStep == ASSUME TypeOK, InHand, QueueInOrder, Lifecycle, Step PROVE Lifecycle'
<1>1. \A id \in Ids : id > Len(received') \/ id \in Range(Waiting') => Untouched(id)'
  BY UntouchedStep
<1>2. Phases'
  BY PhasesStep
<1>3. ASSUME NEW id \in Ids, heard'[id] # {} PROVE Delivering(id)' \/ outcome'[id] = "relayed"
  <2>1. CASE heard[id] # heard'[id]
    BY <2>1, HeardNow
  <2>2. CASE heard[id] = heard'[id]
    <3>1. Delivering(id) \/ outcome[id] = "relayed"
      BY <1>3, <2>2 DEF Lifecycle
    <3>2. QED
      BY <3>1, DeliveredOn, RelayedStays
  <2>3. QED
    BY <2>1, <2>2
<1>4. QED
  BY <1>1, <1>2, <1>3 DEF Lifecycle, Phases

-----------------------------------------------------------------------------
(* Who is entitled to a message.                                              *)

\* A topic is unsubscribed only if nobody but strays listens to it, or by stop().
LEMMA UnsubscribedWhen ==
    ASSUME TypeOK, ListsAgree', Step, NEW t \in Topics,
           t \in subscriptions, t \notin subscriptions', started'
    PROVE  Called(targets'[t]) \subseteq strays'[t]
<1>1. t \in Types /\ ListsTyped'
  BY ListsTypedStep DEF Types
<1>2. CASE lists'[t] = <<>>
  <2>1. Range(lists'[t]) = {}
    BY <1>2 DEF Range
  <2>2. \A l \in Range(targets'[t]) : l \in Listeners
    BY <1>1, RangeOfList DEF ListsTyped
  <2>3. \A l \in Range(targets'[t]) : l.callback \in strays'[t]
    BY <1>1, <2>1, <2>2, ListenersAre DEF ListsAgree, TargetsAreCounted
  <2>4. QED
    BY <2>3, CalledAre
<1>3. ASSUME NEW u \in Types, subscriptions' = Unsubscribed(u) PROVE lists'[t] = <<>>
  BY <1>3 DEF Unsubscribed
<1>4. CASE FinishPublished
  BY <1>2, <1>4 DEF FinishPublished
<1>5. ~ Stop
  BY DEF Stop
<1>6. QED
  BY <1>2, <1>3, <1>4, <1>5
     DEF Step, Application, Calls, Settles, Publishes, Receives, AddEventListener,
         RemoveEventListener, Subscribe, Unsubscribe, Start, Publish, CallListener,
         FinishChange, FinishReceived, Accepted, Refused, Relayed, BuildSigned, Signed,
         BuildUnsigned, ReceiveRpc, StartTask, Types

\* No message that was received before changes.
LEMMA OldOrNew ==
    ASSUME TypeOK, Step, NEW id \in 1 .. Len(received')
    PROVE  /\ id \in Ids
           /\ id \notin 1 .. Len(received) => id > Len(received)
           /\ id \in 1 .. Len(received) => received'[id] = received[id]
<1>1. ReceivedGrows /\ ReceivedTyped'
  BY ReceivedTypedStep DEF ReceivedGrows
<1>2. QED
  BY <1>1, BoundsAreNumbers DEF ReceivedGrows, ReceivedTyped, Ids

LEMMA WantedAreThereStep ==
    ASSUME TypeOK, ListsAgree', WantedAreThere, Step, Watched
    PROVE  WantedAreThere'
<1> SUFFICES ASSUME NEW id \in 1 .. Len(received')
             PROVE  /\ wanted'[id] \subseteq heard'[id] \cup ServedNow(received'[id].topic)
                    /\ received'[id].topic \notin subscriptions' => wanted'[id] \subseteq heard'[id]
  BY DEF WantedAreThere, Served, ServedNow
<1>1. CASE id \notin 1 .. Len(received)
  BY <1>1, OldOrNew DEF Watched
<1>2. CASE id \in 1 .. Len(received)
  <2> DEFINE t == received[id].topic
  <2>1. id \in Ids /\ received'[id] = received[id] /\ t \in Topics
    BY <1>2, OldOrNew, ReceivedAre
  <2>2. /\ wanted'[id] \subseteq wanted[id]
        /\ wanted'[id] \subseteq heard'[id] \cup ServedNow(t)
        /\ ~ started' => wanted'[id] \subseteq heard'[id]
    BY <1>2 DEF Watched
  <2>3. ASSUME t \notin subscriptions' PROVE wanted'[id] \subseteq heard'[id]
    <3>1. CASE t \in subscriptions
      BY <2>1, <2>2, <2>3, <3>1, UnsubscribedWhen DEF ServedNow
    <3>2. CASE t \notin subscriptions
      BY <1>2, <2>1, <2>2, <3>2, HeardStep DEF WantedAreThere
    <3>3. QED
      BY <3>1, <3>2
  <2>4. QED
    BY <2>1, <2>2, <2>3
<1>3. QED
  BY <1>1, <1>2

\* A message that has just come has no outcome and has not been heard.
LEMMA NewIsUntouched ==
    ASSUME TypeOK, InHand, Lifecycle, Step, NEW id \in 1 .. Len(received'),
           id \notin 1 .. Len(received)
    PROVE  outcome'[id] = "pending" /\ heard'[id] = {}
<1>1. id \in Ids /\ Untouched(id)
  BY OldOrNew DEF Lifecycle
<1>2. Receives
  <2>1. received' # received
    BY DEF TypeOK
  <2>2. QED
    BY <2>1
       DEF Step, Application, Calls, Settles, Publishes, AddEventListener,
           RemoveEventListener, Subscribe, Unsubscribe, Start, Stop, Publish, CallListener,
           FinishChange, FinishReceived, FinishPublished, Accepted, Refused, Relayed,
           BuildSigned, Signed, BuildUnsigned, StartTask, incoming
<1>3. UNCHANGED <<outcome, heard>>
  BY <1>2 DEF Receives, ReceiveRpc
<1>4. QED
  BY <1>1, <1>3 DEF Untouched

\* What EntitledHear says of a message.
Entitled(id) ==
    /\ outcome[id] = "relayed" => wanted[id] \subseteq heard[id]
    /\ outcome[id] = "unwanted" => wanted[id] = {}
    /\ outcome[id] = "refused" => heard[id] = {}

LEMMA EntitledAre ==
    EntitledHear <=> \A id \in 1 .. Len(received) : Entitled(id)
  BY DEF EntitledHear, Entitled

LEMMA EntitledHearStep ==
    ASSUME TypeOK, InHand, QueueInOrder, Lifecycle, WantedAreThere, EntitledHear, Step, Watched
    PROVE  EntitledHear'
<1> SUFFICES ASSUME NEW id \in 1 .. Len(received') PROVE Entitled(id)'
  BY DEF EntitledHear, Entitled
<1>1. CASE id \notin 1 .. Len(received)
  BY <1>1, NewIsUntouched DEF Entitled
<1>2. CASE id \in 1 .. Len(received)
  <2>1. /\ id \in Ids /\ Entitled(id) /\ wanted'[id] \subseteq wanted[id]
        /\ heard[id] \subseteq heard'[id]
    BY <1>2, EntitledAre, OldOrNew, HeardStep DEF Watched
  <2>2. outcome \in [Ids -> {"pending", "unwanted", "refused", "relayed"}]
    BY DEF TypeOK
  <2>3. CASE heard'[id] # heard[id]
    <3>1. OneInHand(id) /\ UNCHANGED outcome
      BY <2>1, <2>3, HeardNow DEF incoming
    <3>2. outcome'[id] = "pending"
      BY <3>1, OnePhase DEF OneInHand
    <3>3. QED
      BY <3>2 DEF Entitled
  <2>4. CASE outcome'[id] = outcome[id] /\ heard'[id] = heard[id]
    BY <2>1, <2>4 DEF Entitled
  <2>5. ASSUME NEW i \in Ids, Relay(i), UNCHANGED heard,
               \/ wanted[i] \subseteq heard[i]
               \/ received[i].topic \notin subscriptions
        PROVE  Entitled(id)'
    <3>1. CASE i = id
      <4>1. outcome'[id] = "relayed"
        BY <2>2, <2>5, <3>1 DEF Relay
      <4>2. wanted[id] \subseteq heard[id]
        BY <1>2, <2>5, <3>1 DEF WantedAreThere
      <4>3. QED
        BY <2>1, <4>1, <4>2 DEF Entitled
    <3>2. CASE i # id
      <4>1. outcome'[id] = outcome[id]
        BY <2>1, <2>2, <2>5, <3>2 DEF Relay
      <4>2. QED
        BY <2>4, <2>5, <4>1
    <3>3. QED
      BY <3>1, <3>2
  <2>6. ASSUME NEW i \in Ids, Refused(i), heard'[id] = heard[id] PROVE Entitled(id)'
    <3>1. CASE i = id
      <4>1. dispatching = None /\ outcome[id] = "pending"
        BY <2>6, <3>1, OnePhase DEF Refused, Validating, Idle
      <4>2. heard[id] = {}
        BY <2>1, <4>1 DEF Lifecycle, Delivering
      <4>3. outcome'[id] = "refused"
        BY <2>1, <2>2, <2>6, <3>1 DEF Refused
      <4>4. QED
        BY <2>6, <4>2, <4>3 DEF Entitled
    <3>2. CASE i # id
      <4>1. outcome'[id] = outcome[id]
        BY <2>1, <2>2, <2>6, <3>2 DEF Refused
      <4>2. QED
        BY <2>4, <2>6, <4>1
    <3>3. QED
      BY <3>1, <3>2
  <2>7. ASSUME StartTask, heard'[id] = heard[id] PROVE Entitled(id)'
    <3>1. CASE Head(queue) = id
      <4>1. Untouched(id)
        BY <2>1, <2>7, <3>1, StartsOnce DEF Lifecycle
      <4>2. outcome'[id] = "unwanted" => received[id].topic \notin subscriptions
        BY <2>1, <2>2, <2>7, <3>1, <4>1 DEF StartTask, Untouched
      <4>3. outcome'[id] \in {"unwanted", "refused", "pending"}
        BY <2>1, <2>2, <2>7, <3>1, <4>1 DEF StartTask, Untouched
      <4>4. received[id].topic \notin subscriptions => wanted[id] \subseteq heard[id]
        BY <1>2 DEF WantedAreThere
      <4>5. QED
        BY <2>1, <2>7, <4>1, <4>2, <4>3, <4>4 DEF Entitled, Untouched
    <3>2. CASE Head(queue) # id
      <4>1. outcome'[id] = outcome[id]
        BY <2>1, <2>2, <2>7, <3>2 DEF StartTask
      <4>2. QED
        BY <2>4, <2>7, <4>1
    <3>3. QED
      BY <3>1, <3>2
  <2>8. QED
    BY <2>3, <2>4, <2>5, <2>6, <2>7, FateStep DEF Fate, Relayed
<1>3. QED
  BY <1>1, <1>2

-----------------------------------------------------------------------------
(* The invariant.                                                             *)

LEMMA InitInv == ASSUME Init PROVE MessagesInv
<1>1. TypeOK
  <2>1. IsFiniteSet({}) /\ Cardinality({}) = 0
    BY FS_EmptySet
  <2>2. <<>> \in Seq(Complete) /\ <<>> \in Seq(1 .. Len(received)) /\ <<>> \in Seq(Listeners)
    OBVIOUS
  <2>3. Len(received) = 0 /\ 0 <= MaxMessages /\ 0 <= Concurrency
    BY BoundsAreNumbers DEF Init
  <2>4. ListsTyped /\ OutgoingTyped
    BY <2>2 DEF Init, ListsTyped, OutgoingTyped
  <2>5. /\ ReceivedTyped /\ queue \in Seq(1 .. Len(received)) /\ RunningTyped
    BY <2>1, <2>2, <2>3 DEF Init, ReceivedTyped, RunningTyped
  <2>6. /\ config \in Configs /\ started \in BOOLEAN /\ subscriptions \subseteq Topics
        /\ dispatching \in Dispatches \cup {None}
        /\ heard \in [Ids -> SUBSET Callbacks] /\ wanted \in [Ids -> SUBSET Callbacks]
        /\ outcome \in [Ids -> {"pending", "unwanted", "refused", "relayed"}]
    BY DEF Init
  <2>7. QED
    BY <2>4, <2>5, <2>6
       DEF TypeOK, ListsTyped, OutgoingTyped, ReceivedTyped, RunningTyped
<1>2. /\ \A t \in Types : Range(targets[t]) = {} /\ Range(lists[t]) = {}
      /\ dispatching = None /\ Waiting = <<>> /\ Len(received) = 0
  BY DEF Init, Range, Waiting
<1>3. TypesOfLists /\ ListsAgree /\ InHand
  BY <1>2 DEF TypesOfLists, ListsAgree, TargetsAreCounted, CountedAreTargets, InHand
<1>4. QueueInOrder
  <2>1. DOMAIN Waiting = {}
    BY <1>2
  <2>2. QED
    BY <2>1 DEF QueueInOrder
<1>5. Lifecycle
  BY <1>2 DEF Init, Lifecycle, Untouched
<1>6. WantedAreThere /\ EntitledHear
  BY <1>2 DEF WantedAreThere, EntitledHear
<1>7. QED
  BY <1>1, <1>3, <1>4, <1>5, <1>6 DEF MessagesInv

LEMMA NextInv == ASSUME MessagesInv, Next PROVE MessagesInv'
<1> USE DEF MessagesInv
<1>1. Step /\ Watch /\ TypeOK'
  BY TypeStep DEF Next
<1>2. Watched
  BY <1>1, WatchDoes
<1>3. TypesOfLists' /\ ListsAgree'
  BY <1>1, TypesOfListsStep, ListsAgreeStep
<1>4. QueueInOrder' /\ Lifecycle'
  BY <1>1, QueueInOrderStep, LifecycleStep
<1>5. InHand' /\ WantedAreThere'
  BY <1>1, <1>2, <1>3, InHandStep, WantedAreThereStep
<1>6. EntitledHear'
  BY <1>1, <1>2, EntitledHearStep
<1>7. QED
  BY <1>1, <1>3, <1>4, <1>5, <1>6

LEMMA StutterInv == ASSUME MessagesInv, UNCHANGED vars PROVE MessagesInv'
<1> USE DEF vars, listening, incoming, outgoing
<1>1. TypeOK'
  BY DEF MessagesInv, TypeOK
<1>2. TypesOfLists' /\ ListsAgree'
  BY DEF MessagesInv, TypesOfLists, ListsAgree, TargetsAreCounted, CountedAreTargets
<1>3. QueueInOrder'
  BY DEF MessagesInv, QueueInOrder, Waiting
<1>4. InHand'
  BY DEF MessagesInv, InHand
<1>5. Lifecycle'
  BY DEF MessagesInv, Lifecycle, Untouched, Delivering, Waiting
<1>6. WantedAreThere' /\ EntitledHear'
  BY DEF MessagesInv, WantedAreThere, Served, EntitledHear
<1>7. QED
  BY <1>1, <1>2, <1>3, <1>4, <1>5, <1>6 DEF MessagesInv

LEMMA InvariantHolds == Spec => []MessagesInv
<1>1. MessagesInv /\ [Next]_vars => MessagesInv'
  BY NextInv, StutterInv
<1>2. QED
  BY <1>1, InitInv, PTL DEF Spec

\* The state of the node has its types; no more messages are processed at a time
\* than the options allow, and each that waits or is processed has been received.
\* (pubsub/src/index.ts, interfaces/src/index.ts.)
THEOREM MessagesTyped == Spec => []TypeOK
<1>1. MessagesInv => TypeOK
  BY DEF MessagesInv
<1>2. QED
  BY <1>1, InvariantHolds, PTL

\* Between two dispatches listenerCount() counts the callbacks that the platform
\* calls, whatever is added, removed and called, in whatever order, but for the two
\* calls that make EventEmitter and the platform part. (EventEmitter,
\* interfaces/src/index.ts.)
THEOREM ListenersCounted == Spec => []CountsAgree
<1>1. MessagesInv => CountsAgree
  <2> SUFFICES ASSUME MessagesInv, dispatching = None, NEW t \in Types, NEW c, c \notin strays[t]
               PROVE  c \in Called(targets[t]) <=> c \in Called(lists[t])
    BY DEF CountsAgree, Idle, Called
  <2>1. /\ \A l \in Range(targets[t]) : l \in Listeners
        /\ TargetsAreCounted /\ CountedAreTargets
    BY RangeOfList DEF MessagesInv, TypeOK, ListsAgree
  <2>2. ASSUME NEW l \in Range(targets[t]), l.callback = c PROVE l \in Range(lists[t])
    BY <2>1, <2>2, ListenersAre DEF TargetsAreCounted
  <2>3. ASSUME NEW l \in Range(lists[t]), l.callback = c
        PROVE  \E m \in Range(targets[t]) : m.callback = c
    BY <2>1, <2>3 DEF CountedAreTargets
  <2>4. QED
    BY <2>2, <2>3, CalledAre
<1>2. QED
  BY <1>1, InvariantHolds, PTL

\* A message that is relayed has been heard by everyone who was listening when it
\* came and still is; it is dropped as unwanted only if there is nobody, and nobody
\* hears one that is refused. (processMessage and dispatchEvent,
\* pubsub/src/index.ts.)
THEOREM ListenersServed == Spec => []EntitledHear
<1>1. MessagesInv => EntitledHear
  BY DEF MessagesInv
<1>2. QED
  BY <1>1, InvariantHolds, PTL

\* A topic is given up only by stop(), or when nobody but strays listens to it any
\* more: whatever is added, removed, called and counted meanwhile, no listener is
\* cut off. (unsubscribe, removeEventListener and dispatchEvent,
\* pubsub/src/index.ts.)
THEOREM TopicsKept == Spec => TopicsKeepListeners
<1>1. ASSUME MessagesInv, MessagesInv', [Next]_vars
      PROVE  [\A t \in subscriptions \ subscriptions' :
                 started' => Called(targets'[t]) \subseteq strays'[t]]_vars
  <2>1. CASE UNCHANGED vars
    BY <2>1
  <2>2. CASE Next
    <3> SUFFICES ASSUME NEW t \in subscriptions \ subscriptions', started'
                 PROVE  Called(targets'[t]) \subseteq strays'[t]
      OBVIOUS
    <3>1. TypeOK /\ ListsAgree' /\ Step /\ t \in Topics
      BY <1>1, <2>2 DEF MessagesInv, TypeOK, Next
    <3>2. QED
      BY <3>1, UnsubscribedWhen
  <2>3. QED
    BY <1>1, <2>1, <2>2
<1>2. QED
  BY <1>1, InvariantHolds, PTL DEF Spec, TopicsKeepListeners
=============================================================================
