--------------------------- MODULE PubsubMessages ---------------------------
(* The messages of one pubsub node: listeners of topics, publishing with its  *)
(* signature, the queue of received messages, validation, delivery to the     *)
(* listeners and relaying (pubsub/src/index.ts, message/sign.ts, utils.ts and *)
(* the EventEmitter of interfaces/src/index.ts). Connections and the topics   *)
(* of other peers are those of PubsubNode.                                    *)
EXTENDS Naturals, Sequences, FiniteSets, SequencesExt, Lists

CONSTANTS
    Topics,
    Change,           \* the event type 'pubsub:subscription-change'
    Listeners,        \* [type, callback, once]: whom the application adds
    Callbacks,
    Messages,         \* messages that remote peers send, see MessageType
    Objects,          \* Message objects that the application publishes itself
    Absent,           \* a field that is not there
    None,             \* no dispatch
    Configs,          \* [policy, emitSelf, canRelay]: the options of the node
    Concurrency,      \* messageProcessingConcurrency
    MaxMessages,      \* bound: messages received and published
    MaxListeners      \* bound: entries of the lists of listeners

ASSUME BoundsAreNumbers ==
    /\ Concurrency \in Nat \ {0}
    /\ MaxMessages \in Nat /\ MaxListeners \in Nat

Types == Topics \cup {Change}
Ids == 1 .. MaxMessages

\* The id of the sender carries its key or a hash of it. The key of a message is
\* the sender's or another's, and its signature is made with one of these over the
\* bytes of the message as it was sent, or is bad. The seqno is eight bytes, fewer,
\* or none.
MessageType ==
    [topic : Topics \cup {Absent}, from : {"key", "hash", Absent},
     signature : {"sender", "other", "bad", Absent}, key : {"sender", "other", Absent},
     seqno : {"eight", "short", "empty", Absent}]

\* A message of this node when it goes out: its seqno, and that of the bytes that
\* were signed.
OwnMessages == [topic : Topics, seqno : Nat, signs : Nat]

\* The synchronous dispatch of an event, of the received message id unless that
\* is 0: the listeners still to be called, and what follows.
Dispatches ==
    [type : Types, id : 0 .. MaxMessages, rest : Seq(Listeners),
     then : [to : {"queue"}, ids : Seq(Ids)] \cup [to : {"relay"}]
                \cup [to : {"publish"}, message : OwnMessages]]

ASSUME ListenersAssumption ==
    Listeners \subseteq [type : Types, callback : Callbacks, once : BOOLEAN]

ASSUME MessagesAssumption ==
    /\ Messages \subseteq MessageType
    /\ Configs \subseteq [policy : {"StrictSign", "StrictNoSign"}, emitSelf : BOOLEAN,
                         canRelay : BOOLEAN]
    /\ None \notin Dispatches

VARIABLES
    config,       \* globalSignaturePolicy, emitSelf, canRelayMessage
    started,
    subscriptions,
    targets,      \* the listeners the platform calls, per event type
    lists,        \* the #listeners that listenerCount() counts
    strays,       \* history: the callbacks of each type for which the two part
    dispatching,  \* the synchronous dispatch that is going on
    received,     \* history: every message that was not dropped on arrival
    queue,        \* ids of received messages that wait
    running,      \* [id, phase] of those that are being processed
    published,    \* number of dispatchEvent() calls
    publishing,   \* [number, topic, object, phase] of those under way
    seqnos,       \* the seqno of each Message object of the application
    emitted,      \* history: own messages given to publishMessage()
    heard,        \* history: the callbacks called for a received message
    wanted,       \* history: those that have been entitled to it ever since
    outcome       \* history: what became of a received message

listening == <<targets, lists, strays>>
incoming == <<received, queue, running, outcome>>
outgoing == <<publishing, seqnos, published, emitted>>
vars == <<config, started, subscriptions, listening, dispatching, incoming, outgoing,
          heard, wanted>>

Init ==
    /\ config \in Configs
    /\ started = FALSE
    /\ subscriptions = {}
    /\ targets = [t \in Types |-> <<>>]
    /\ lists = [t \in Types |-> <<>>]
    /\ strays = [t \in Types |-> {}]
    /\ dispatching = None
    /\ received = <<>>
    /\ queue = <<>>
    /\ running = {}
    /\ publishing = {}
    /\ seqnos = [o \in Objects |-> 0]
    /\ published = 0
    /\ emitted = {}
    /\ heard = [i \in Ids |-> {}]
    /\ wanted = [i \in Ids |-> {}]
    /\ outcome = [i \in Ids |-> "pending"]

-----------------------------------------------------------------------------
(* The application. It calls from outside, or from a listener while an event  *)
(* is dispatched.                                                             *)

\* The callbacks of a list.
Called(list) == {list[i].callback : i \in DOMAIN list}

\* The platform keeps one listener per callback, the first.
AddTarget(list, l) ==
    IF l.callback \in Called(list) THEN list ELSE Append(list, l)

Without(list, callback) == Only(list, {l \in Listeners : l.callback # callback})

HasRoom == FoldFunction(LAMBDA list, n : Len(list) + n, 0, lists) < MaxListeners

\* With l the platform and EventEmitter part. A listener for one event that the
\* platform takes while its type is dispatched is forgotten by EventEmitter at the
\* end of the dispatch. A callback that the platform has for one event only, and
\* drops then, stays with EventEmitter when it is added again for good.
Parts(l) ==
    IF l.once
    THEN /\ dispatching # None /\ dispatching.type = l.type
         /\ l.callback \notin Called(targets[l.type])
    ELSE \E i \in DOMAIN targets[l.type] : targets[l.type][i] = [l EXCEPT !.once = TRUE]

\* subscribe() and addEventListener().
AddEventListener(l) ==
    /\ started
    /\ HasRoom
    /\ strays' = IF Parts(l) THEN [strays EXCEPT ![l.type] = @ \cup {l.callback}] ELSE strays
    /\ subscriptions' = subscriptions \cup ({l.type} \cap Topics)
    /\ targets' = [targets EXCEPT ![l.type] = AddTarget(@, l)]
    /\ lists' = [lists EXCEPT ![l.type] = Append(@, l)]
    /\ UNCHANGED <<config, started, dispatching, incoming, outgoing, heard>>

\* subscribe() alone.
Subscribe(t) ==
    /\ started
    /\ subscriptions' = subscriptions \cup {t}
    /\ UNCHANGED <<config, started, listening, dispatching, incoming, outgoing, heard>>

\* Faulty variant: the subscription goes, whatever listens.
UnsubscribedAlways(t) == subscriptions \ {t}

\* Of a topic with listeners, unsubscribe() changes nothing: it removes the
\* listeners without a callback, and there are none.
Unsubscribed(t) == IF lists'[t] = <<>> THEN subscriptions \ {t} ELSE subscriptions

Unsubscribe(t) ==
    /\ started
    /\ UNCHANGED listening
    /\ subscriptions' = Unsubscribed(t)
    /\ UNCHANGED <<config, started, dispatching, incoming, outgoing, heard>>

\* A removed listener is not called by the dispatch that is going on, either.
Removed(t, callback) ==
    IF dispatching # None /\ dispatching.type = t
    THEN [dispatching EXCEPT !.rest = Without(@, callback)]
    ELSE dispatching

\* Faulty variant: of a callback that was added twice one entry is left.
RemoveOneEntry(t, callback) ==
    /\ targets' = [targets EXCEPT ![t] = Without(@, callback)]
    /\ lists' = [lists EXCEPT ![t] =
                    IF \E i \in DOMAIN @ : @[i].callback = callback
                    THEN RemoveAt(@, CHOOSE i \in DOMAIN @ : @[i].callback = callback) ELSE @]

RemoveEntries(t, callback) ==
    /\ targets' = [targets EXCEPT ![t] = Without(@, callback)]
    /\ lists' = [lists EXCEPT ![t] = Without(@, callback)]

\* unsubscribe() throws if the node has stopped; the listener is gone then.
RemoveEventListener(t, callback) ==
    /\ RemoveEntries(t, callback)
    /\ strays' = [strays EXCEPT ![t] = @ \ {callback}]
    /\ dispatching' = Removed(t, callback)
    /\ subscriptions' = IF started THEN Unsubscribed(t) ELSE subscriptions
    /\ UNCHANGED <<config, started, incoming, outgoing, heard>>

Start ==
    /\ ~ started
    /\ started' = TRUE
    /\ UNCHANGED <<config, subscriptions, listening, dispatching, incoming, outgoing, heard>>

\* Neither the listeners nor the messages in the queue go.
Stop ==
    /\ started
    /\ started' = FALSE
    /\ subscriptions' = {}
    /\ UNCHANGED <<config, listening, dispatching, incoming, outgoing, heard>>

\* dispatchEvent() with data, or with a Message object, returns at once.
Publish(t, object) ==
    /\ started
    /\ Len(received) + published < MaxMessages
    /\ published' = published + 1
    /\ publishing' = publishing \cup
           {[number |-> published', topic |-> t, object |-> object, phase |-> "posted"]}
    /\ UNCHANGED <<config, started, subscriptions, listening, dispatching, incoming,
                   seqnos, emitted, heard>>

-----------------------------------------------------------------------------
(* Dispatching. The listeners are those of the moment; what follows is done   *)
(* when the last has returned.                                                *)

Dispatch(t, id, then) ==
    dispatching' = [type |-> t, id |-> id, rest |-> targets[t], then |-> then]

\* A listener for one event goes before it is called.
CallListener ==
    /\ dispatching # None
    /\ dispatching.rest # <<>>
    /\ LET l == Head(dispatching.rest)
       IN  /\ dispatching' = [dispatching EXCEPT !.rest = Tail(@)]
           /\ targets' = IF l.once
                         THEN [targets EXCEPT ![dispatching.type] = Only(@, Listeners \ {l})]
                         ELSE targets
           /\ heard' = IF dispatching.id = 0 THEN heard
                       ELSE [heard EXCEPT ![dispatching.id] = @ \cup {l.callback}]
    /\ UNCHANGED <<config, started, subscriptions, lists, strays, incoming, outgoing>>

\* Faulty variant: the test of the filter is turned round.
FinishKeepingOnce ==
    /\ dispatching # None
    /\ dispatching.rest = <<>>
    /\ lists' = [lists EXCEPT ![dispatching.type] = Only(@, {l \in Listeners : l.once})]
    /\ UNCHANGED <<targets, strays>>
    /\ dispatching' = None

\* The end of EventEmitter.dispatchEvent().
Finish ==
    /\ dispatching # None
    /\ dispatching.rest = <<>>
    /\ lists' = [lists EXCEPT ![dispatching.type] = Only(@, {l \in Listeners : ~ l.once})]
    /\ UNCHANGED <<targets, strays>>
    /\ dispatching' = None

\* An update of subscriptions was dispatched: the messages of the RPC follow.
FinishChange ==
    /\ Finish
    /\ dispatching.then.to = "queue"
    /\ queue' = queue \o dispatching.then.ids
    /\ UNCHANGED <<config, started, subscriptions, received, running, outcome, outgoing, heard>>

\* A received message was dispatched: publishMessage() relays it.
Relay(id) ==
    /\ outcome' = [outcome EXCEPT ![id] = "relayed"]
    /\ running' = (running \ {[id |-> id, phase |-> "validating"]})
                      \cup {[id |-> id, phase |-> "relaying"]}

FinishReceived ==
    /\ Finish
    /\ dispatching.then.to = "relay"
    /\ Relay(dispatching.id)
    /\ UNCHANGED <<config, started, subscriptions, received, queue, outgoing, heard>>

\* An own message was dispatched: the topic goes with its last listener, unless
\* the node has stopped, which stops the publishing, too.
FinishPublished ==
    /\ Finish
    /\ dispatching.then.to = "publish"
    /\ LET t == dispatching.type
           gone == lists'[t] = <<>>
       IN  /\ subscriptions' = IF gone /\ started THEN subscriptions \ {t} ELSE subscriptions
           /\ emitted' = IF gone /\ ~ started THEN emitted
                         ELSE emitted \cup {dispatching.then.message}
    /\ UNCHANGED <<config, started, incoming, publishing, seqnos, published, heard>>

-----------------------------------------------------------------------------
(* Publishing. *)

Idle == dispatching = None

\* What follows buildMessage(): own listeners first, then publishMessage().
Emit(p, message) ==
    /\ publishing' = publishing \ {p}
    /\ IF config.emitSelf /\ p.topic \in subscriptions
       THEN /\ Dispatch(p.topic, 0, [to |-> "publish", message |-> message])
            /\ UNCHANGED emitted
       ELSE /\ emitted' = emitted \cup {message}
            /\ UNCHANGED dispatching

\* StrictSign: a random seqno, here the number of the call, is written into the
\* message object, the bytes to sign are taken from it, and the keys are awaited.
BuildSigned(p) ==
    /\ Idle /\ config.policy = "StrictSign"
    /\ p.phase = "posted"
    /\ seqnos' = IF p.object \in Objects THEN [seqnos EXCEPT ![p.object] = p.number] ELSE seqnos
    /\ publishing' = (publishing \ {p}) \cup {[p EXCEPT !.phase = "signing"]}
    /\ UNCHANGED <<config, started, subscriptions, listening, dispatching, incoming,
                   published, emitted, heard>>

\* The message that goes out is the object as it is now.
Signed(p) ==
    /\ Idle
    /\ p.phase = "signing"
    /\ Emit(p, [topic |-> p.topic,
                seqno |-> IF p.object \in Objects THEN seqnos[p.object] ELSE p.number,
                signs |-> p.number])
    /\ UNCHANGED <<config, started, subscriptions, listening, incoming, seqnos, published, heard>>

\* StrictNoSign sends the object as it is.
BuildUnsigned(p) ==
    /\ Idle /\ config.policy = "StrictNoSign"
    /\ p.phase = "posted"
    /\ Emit(p, [topic |-> p.topic, seqno |-> 0, signs |-> 0])
    /\ UNCHANGED <<config, started, subscriptions, listening, incoming, seqnos, published, heard>>

-----------------------------------------------------------------------------
(* Receiving. *)

\* processMessages() drops a message without from, data or topic.
Complete == {m \in Messages : m.from # Absent /\ m.topic # Absent}

\* An RPC: a change of subscriptions is dispatched before the messages are queued.
ReceiveRpc(messages, change) ==
    /\ Idle
    /\ LET complete == Only(messages, Complete)
           ids == [i \in DOMAIN complete |-> Len(received) + i]
       IN  /\ Len(received) + Len(complete) + published <= MaxMessages
           /\ received' = received \o complete
           /\ IF change
              THEN Dispatch(Change, 0, [to |-> "queue", ids |-> ids]) /\ UNCHANGED queue
              ELSE queue' = queue \o ids /\ UNCHANGED dispatching
    /\ UNCHANGED <<config, started, subscriptions, listening, running, outcome, outgoing, heard>>

\* toMessage() throws for the seqno of no bytes, BigInt('0x').
Readable(m) == m.seqno # "empty"

\* Faulty variant: every message is started as it comes.
StartTaskAtOnce ==
    /\ Idle
    /\ queue # <<>>
    /\ queue' = Tail(queue)
    /\ running' = running \cup {[id |-> Head(queue), phase |-> "validating"]}
    /\ UNCHANGED <<config, started, subscriptions, listening, dispatching, received, outcome,
                   outgoing, heard>>

\* The task of a message starts: of a topic that nobody wants it is dropped.
StartTask ==
    /\ Idle
    /\ queue # <<>>
    /\ Cardinality(running) < Concurrency
    /\ queue' = Tail(queue)
    /\ LET id == Head(queue)
           m == received[id]
           relevant == m.topic \in subscriptions \/ config.canRelay
       IN  /\ outcome' = [outcome EXCEPT ![id] = CASE ~ relevant -> "unwanted"
                                                   [] relevant /\ ~ Readable(m) -> "refused"
                                                   [] OTHER -> @]
           /\ running' = IF relevant /\ Readable(m)
                         THEN running \cup {[id |-> id, phase |-> "validating"]} ELSE running
    /\ UNCHANGED <<config, started, subscriptions, listening, dispatching, received, outgoing,
                   heard>>

\* The key given with the message, without a look at the sender, else the one in
\* the sender's id; it throws if there is none.
MessagePublicKey(m) ==
    CASE m.key # Absent -> m.key
      [] m.key = Absent /\ m.from = "key" -> "sender"
      [] OTHER -> Absent

\* verifySignature() encodes the message again, with a seqno of eight bytes.
Verifies(m) ==
    m.seqno = "eight" /\ MessagePublicKey(m) # Absent /\ m.signature = MessagePublicKey(m)

\* validate(), but for the topic's validator. The sender is never looked at.
Valid(m) ==
    CASE config.policy = "StrictNoSign" -> m.signature = Absent /\ m.key = Absent /\ m.seqno = Absent
      [] config.policy = "StrictSign" -> m.signature # Absent /\ m.seqno # Absent /\ Verifies(m)

Validating(id) == Idle /\ [id |-> id, phase |-> "validating"] \in running

\* The message is valid and the topic's validator, if any, accepts it.
Accepted(id) ==
    /\ Validating(id)
    /\ Valid(received[id])
    /\ IF received[id].topic \in subscriptions
       THEN /\ Dispatch(received[id].topic, id, [to |-> "relay"])
            /\ UNCHANGED <<running, outcome>>
       ELSE Relay(id) /\ UNCHANGED dispatching
    /\ UNCHANGED <<config, started, subscriptions, listening, received, queue, outgoing, heard>>

\* Faulty variant: a message that is refused keeps its place in the queue.
RefusedInPlace(id) ==
    /\ Validating(id)
    /\ outcome[id] = "pending"
    /\ outcome' = [outcome EXCEPT ![id] = "refused"]
    /\ UNCHANGED running
    /\ UNCHANGED <<config, started, subscriptions, listening, dispatching, received, queue,
                   outgoing, heard>>

\* It is not, or the validator throws.
Refused(id) ==
    /\ Validating(id)
    /\ outcome' = [outcome EXCEPT ![id] = "refused"]
    /\ running' = running \ {[id |-> id, phase |-> "validating"]}
    /\ UNCHANGED <<config, started, subscriptions, listening, dispatching, received, queue,
                   outgoing, heard>>

\* publishMessage() of a received message settles.
Relayed(id) ==
    /\ Idle
    /\ [id |-> id, phase |-> "relaying"] \in running
    /\ running' = running \ {[id |-> id, phase |-> "relaying"]}
    /\ UNCHANGED <<config, started, subscriptions, listening, dispatching, received, queue,
                   outcome, outgoing, heard>>

-----------------------------------------------------------------------------
Application ==
    \/ \E l \in Listeners : AddEventListener(l)
    \/ \E t \in Types, c \in Callbacks : RemoveEventListener(t, c)
    \/ \E t \in Topics : Subscribe(t) \/ Unsubscribe(t)
    \/ Start
    \/ Stop
    \/ \E t \in Topics, o \in Objects \cup {Absent} : Publish(t, o)

Calls == CallListener \/ FinishChange \/ FinishReceived \/ FinishPublished

Settles == \E id \in Ids : Accepted(id) \/ Refused(id) \/ Relayed(id)

Publishes == \E p \in publishing : BuildSigned(p) \/ Signed(p) \/ BuildUnsigned(p)

\* RPCs of up to two messages.
Receives ==
    \E m \in Messages, more \in {<<>>} \cup {<<n>> : n \in Messages}, change \in BOOLEAN :
        ReceiveRpc(<<m>> \o more, change)

\* The callbacks that are entitled to a message: those on the topic when it was
\* received, if the node was subscribed, until they are removed before they have
\* heard it, or the node stops. Strays are not.
Watch ==
    wanted' = [id \in Ids |->
        IF id > Len(received') THEN {}
        ELSE LET t == received'[id].topic
                 served == Called(targets'[t]) \ strays'[t]
             IN  IF id > Len(received)
                 THEN IF t \in subscriptions' THEN served ELSE {}
                 ELSE wanted[id] \cap (heard'[id] \cup IF started' THEN served ELSE {})]

Step == Application \/ Calls \/ Settles \/ Publishes \/ Receives \/ StartTask

Next == Step /\ Watch

Spec == Init /\ [][Next]_vars

\* Listeners return; keys, validators and publishMessage() settle, and the event
\* loop takes each turn in the end, whatever else comes in between, hence the
\* strong fairness. (What the application and other peers do is not fair.)
FairSpec ==
    /\ Spec
    /\ WF_vars(Calls /\ Watch)
    /\ SF_vars(Settles /\ Watch)
    /\ SF_vars(Publishes /\ Watch)
    /\ SF_vars(StartTask /\ Watch)

-----------------------------------------------------------------------------
TypeOK ==
    /\ config \in Configs
    /\ started \in BOOLEAN
    /\ subscriptions \subseteq Topics
    /\ targets \in [Types -> Seq(Listeners)]
    /\ lists \in [Types -> Seq(Listeners)]
    /\ strays \in [Types -> SUBSET Callbacks]
    /\ dispatching \in Dispatches \cup {None}
    /\ received \in Seq(Complete)
    /\ published \in Nat /\ Len(received) + published <= MaxMessages
    /\ queue \in Seq(1 .. Len(received))
    /\ running \subseteq [id : 1 .. Len(received), phase : {"validating", "relaying"}]
    /\ IsFiniteSet(running) /\ Cardinality(running) <= Concurrency
    /\ publishing \subseteq [number : Nat, topic : Topics, object : Objects \cup {Absent},
                             phase : {"posted", "signing"}]
    /\ seqnos \in [Objects -> Nat]
    /\ emitted \subseteq OwnMessages
    /\ heard \in [Ids -> SUBSET Callbacks]
    /\ wanted \in [Ids -> SUBSET Callbacks]
    /\ outcome \in [Ids -> {"pending", "unwanted", "refused", "relayed"}]

\* Between two dispatches EventEmitter counts the listeners that the platform has,
\* whatever was added, removed or called meanwhile, duplicates and listeners for one
\* event included. Two calls alone make them part, for a callback and until it is
\* removed: one that adds it for one event while its type is dispatched, and one
\* that adds it for good while the platform has it for one event.
CountsAgree ==
    Idle => \A t \in Types : Called(targets[t]) \ strays[t] = Called(lists[t]) \ strays[t]

\* A listener that was there when a message of a subscribed topic arrived hears
\* it if it is relayed, unless it was removed or the node was stopped meanwhile,
\* whatever unsubscribe() calls there are; a message is dropped as unwanted only
\* if nobody is entitled to it any more, and nobody hears one that is refused.
\* Listeners for which platform and EventEmitter part are entitled to nothing.
\* (processRpc and processMessage look at the subscription when the task starts
\* and after validation; dispatchEvent unsubscribes topics without listeners.)
EntitledHear ==
    \A id \in 1 .. Len(received) :
        CASE outcome[id] = "relayed" -> wanted[id] \subseteq heard[id]
          [] outcome[id] = "unwanted" -> wanted[id] = {}
          [] outcome[id] = "refused" -> heard[id] = {}
          [] OTHER -> TRUE

\* The node gives a topic up only when it stops or when nobody is left whom the
\* platform would call, but for strays: neither unsubscribe() nor the count that
\* removeEventListener and dispatchEvent consult cuts off a listener.
TopicsKeepListeners ==
    [][\A t \in subscriptions \ subscriptions' :
         started' => Called(targets'[t]) \subseteq strays'[t]]_vars

\* Every message that is received comes to an end, however few are processed at a
\* time, if validators and publishMessage() settle. (The queue.)
QueueDrains ==
    \A id \in Ids : (id <= Len(received)) ~> (outcome[id] # "pending" /\ id \notin Range(queue))

\* The signature of every message that goes out is that of its seqno: the
\* receivers that verify it accept it. (buildMessage, signMessage.)
SignaturesVerify == \A m \in emitted : m.seqno = m.signs
=============================================================================
