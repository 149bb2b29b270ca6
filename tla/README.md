# Verification of the libp2p interfaces monorepo

This directory holds a TLA+ development beside the TypeScript packages under
`src/packages`: modules that model the parts with state, concurrency or data
that must survive a trip, TLC configurations that check them on small
instances, and proofs, checked by TLAPS, that hold for every value of the
constants. `PROJECT.json` maps each definition to the source lines it stands
for.

## The system

The packages run in one JavaScript process. Nothing preempts anything: a
function runs until it awaits, returns or calls a listener. All the
concurrency there is comes from what the event loop runs while a function is
suspended, and from the remote ends of streams. An action of a module is
therefore a stretch of code between two suspension points.

| component | state it keeps | operations | interacts by |
|---|---|---|---|
| pubsub node (`libp2p-pubsub/src/index.ts`, `peer-streams.ts`) | `started`, `topics`, `subscriptions`, `peers`; per `PeerStreams` its raw and wrapped streams, `closed`, an abort controller | `start`, `stop`, `subscribe`, `unsubscribe`, topology and stream handlers, one reading loop per incoming stream | registrar callbacks, `conn.newStream`, 'close' events |
| pubsub messages (same file, `utils.ts`, `message/sign.ts`) | listeners, a queue of messages under validation, topic validators | `addEventListener`, `dispatchEvent`, `processRpc`, `processMessage`, `validate`, `buildMessage` | the queue, listeners, `publishMessage` of the subclass |
| event emitter (`libp2p-interfaces/src/index.ts`) | a list of listeners per event type beside the platform's | `addEventListener`, `removeEventListener`, `dispatchEvent`, `listenerCount` | calls |
| peer store (`libp2p-peer-store`) | one entry per peer in a datastore, a read/write lock | 15 writing and 8 reading methods of the store and four books | datastore, events |
| multistream-select | a running negotiation, `shaken` | `select`, `handle`, `ls` | a duplex stream |
| connection (`libp2p-connection`) | status, `_closing`, a registry of streams, tags | `newStream`, `close`, `addStream`, `removeStream` | the functions it is made with |
| mock muxer and connection (compliance tests) | streams by id and direction | create, data, close, reset messages; the muxer's end | a duplex stream |
| peer records, envelopes, peer ids and their factory | none but caches | parsing, sealing, formatting | calls |
| generated protobuf classes | none | `encode`, `decode`, `fromObject`, `toObject` | calls |
| topology, registrar mock, peer map, tracked map, logger | a set or a map | thin wrappers | calls |

Where it is hard:

- **Awaits in the middle of a state change.** `start` and `stop` test a flag
  before an await and set it after; `_onPeerConnected` awaits a stream for a
  peer that may be gone when it comes; `signMessage` takes the bytes before its
  awaits and the message after them; `processMessage` validates between looking
  at the subscriptions and delivering.
- **Closures over objects.** The `onEnd` of a pushable clears whatever stream
  its object has by then; the error of a loop removes whatever entry its peer
  has by then.
- **Two lists that must agree.** `listenerCount` decides whether a topic is
  unsubscribed, from a list that is kept beside the platform's.
- **Incremental announcements.** A peer learns the subscriptions from one
  greeting and from the updates before and after it.
- **Check, load, put, announce.** Every method of a book is four steps under
  one lock, any of which may fail.
- **Two ends of a stream.** Negotiation and muxing, with answers, closes,
  resets and chunks that cross.
- **One reader, many writers.** What is decoded may have been written by
  another implementation, or by a reader of another form of the same thing.

What makes each component correct: the node's map of peers and its streams
agree, peers know its subscriptions, loops end; whoever is entitled to a
message hears it, invalid ones are never heard, the queue drains; the store
loses no update and its events tell the truth in order; a negotiation ends with
both sides on the same protocol and the stream clean; a stream that ends at one
end of a connection ends at the other, and the registries forget it; what is
written is read as what it was.

## Modules

| module | models | source |
|---|---|---|
| `PubsubNode` | one pubsub node: lifecycle, `PeerStreams` objects, `_onPeerConnected` calls, reading loops, subscriptions | `libp2p-pubsub/src/index.ts`, `peer-streams.ts` |
| `PubsubFeed` | abstract: what each peer is told of the subscriptions | |
| `PubsubNodeFeed` | the refinement mapping between the two | |
| `PubsubMessages` | listeners, publishing and signing, the queue, validation, delivery, relaying | `libp2p-pubsub/src/index.ts`, `utils.ts`, `message/sign.ts`, `libp2p-interfaces/src/index.ts` |
| `Lists` | `filter` and `sort` of arrays, written without recursion so that they can be proved about | |
| `PeerBooks` | each method of the four books as an operator on one entry | `libp2p-peer-store/src/*-book.ts`, `store.ts` |
| `PeerStore` | concurrent calls, the lock, the datastore, failures, events | the same, and `index.ts` |
| `AtomicPeerStore` | abstract: every method takes effect in one step; what methods compute is a parameter | |
| `PeerStoreAtomic` | the refinement mapping | |
| `Multistream` | a Dialer and a Listener between two queues of lines | `libp2p-multistream-select/src/*.ts` |
| `ProtocolChoice` | abstract: the outcomes of the two ends, and which protocol may be chosen | |
| `Connections` | two ends of a multiplexed connection, their registries and muxed streams | `libp2p-connection/src/index.ts`, mocks `muxer.ts`, `connection.ts` |
| `WireMessages` | the fields of the 19 generated message classes | `peer.js`, `peer-record.js`, `envelope.js`, `proto.js`, `rpc.js`, `topic-descriptor.js` |
| `Protobuf` | what those classes' constructor, `encode`, `decode`, `fromObject` and `toObject` do | the same (mapped to `Peer`, of which the others are copies over other fields) |
| `PeerIds` | the types of peer ids, their forms, and every reader of them | `libp2p-peer-id/src/index.ts`, `libp2p-peer-id-factory/src/index.ts` |
| `Records` | entries in the datastore, peer records, envelopes | `store.ts`, `libp2p-peer-record/src` |
| `Trips` | a value that is written, rewritten by others, and read | all of the above |
| `*Proofs` | the theorems: `PubsubNode` and its feeds, `PubsubMessages`, `PeerStore` and its books, `Multistream`, `Connections`, `Lists`, `Protobuf`, `Trips`; see Proofs | |
| `MC*` | values of the constants for TLC | |

Definitions called "faulty variant" are bugs that the code does not have; each
is there to show that a property would notice it.

### PubsubNode

`pc[c]` says where invocation `c` of `_onPeerConnected` is suspended: at
`newStream` ("dialing"), at the await for the old stream's end ("replacing"),
or between the return of `attachOutboundStream` and the send of the
subscriptions ("attached"). A call dials one stream at most and that stream
has one pushable at most, so a call also names its stream (`open`), its
pushable (`ended`) and what has been written to it (`told`, the fold of all
announcements in order). The raw stream's end (`RawEnds`) and the return of its
pushable by the pipeline (`PushableReturned`) are two steps: in between, the
object still has its outbound stream, and what is written is lost. The return
runs `onEnd`, a closure over the object, which resets and clears whatever stream
the object has by then; it comes also to a pushable whose raw stream the `onEnd`
of another has reset. `reading[i]` says where a `processMessages` loop is,
"chunk" being a read that has settled but not been handed to the loop.

Abstracted: RPCs are the topics that a peer joins and leaves; messages and
listeners are those of `PubsubMessages`. Once `started`, the registrar's
`handle` is modelled by what the code relies on: it rejects a second handler
for the same protocol.

### PubsubMessages

`targets` is what the platform would call and `lists` what `listenerCount`
counts. A dispatch is a state of its own, `dispatching`: the listeners are
called one by one, and between two of them the application, that is the
listener's own code, may subscribe, remove listeners, stop the node or publish;
nothing else of the node runs until the dispatch returns and its continuation
(`then`) is done. `running` holds the tasks of the queue with the await they
are in. `wanted` and `heard` are history: who has been entitled to a message
ever since it came, and who was called for it.

A listener may be added at any moment, once or for good, and one callback in
both ways. There are two calls for which the two lists part: one that adds a
listener for one event to a type while that type is dispatched (EventEmitter
forgets it at the end of the dispatch, the platform does not), and one that adds
for good a callback that the platform has for one event (the platform drops it
after that event, EventEmitter does not). `strays` is history, the callbacks of
each type that were added so and not removed since; the properties are about all
the others, and so say that nothing else makes the lists part. A dispatch calls
the listeners that were there when it began and are still there, as the platform's
standard has it. Received messages come from other peers. `Configs` lists the
options of the node; `publishMessage` is the abstract method, which settles.

### PeerStore

A caller asks for the lock, is served in its batch, loads, computes an outcome
(one of the operators of `PeerBooks`), puts it, and in one last step releases
the lock and dispatches the events: in the code `release()` and
`dispatchEvent` follow each other without an await. A load, a put, or the load
that ends `save` may reject. The lock is the package `mortice` with
`singleProcess`, which is not part of this repository: it is modelled by the
order in which it serves, batches of reads and single writes.

Arguments are sets, so duplicates in a list given by a caller are outside the
model (`Records` has them). `heard` is a history variable, what a listener of
the events that carry a whole field knows; 'change:metadata' is not among them,
because `metadataBook.set` announces only what it was given. Its part `missed`
names the events that the listener should have had and has not: all of them after
`delete()` of the whole peer, which dispatches nothing, and those of a method that
threw after its put, because the load that ends `save` was rejected. A later event
of the same field makes up for it. `ListenersUpToDate` says that whatever else a
listener is told is what the store holds.

### Multistream

A line is a protocol, `PROTOCOL_ID`, 'ls', 'na', the answer to 'ls', or a chunk
that an application writes once it has its stream. `dialer` says which read a
call of the Dialer is suspended in; `ls()` may be called before `select()`, and
performs the handshake once. A read fails when the stream ends, a line has no
newline, or the caller's signal aborts.

### Connections

The Connection of `libp2p-connection` is wired to the mock muxer as
`mockConnection` wires its own (which is the case where `close()` is never
called). A muxed stream is its two halves (`source`, `sink`) and the loop of
its sink (`writer`), which may be aborted or reset and not have noticed it yet.
`wire[e]` are the messages pushed at the other end and not yet handled at `e`.
When a muxer's input ends, what its pipeline has not written is lost: any
prefix may have been. A user's `abort()` and `reset()` end both halves; the
loop of an aborted sink tells the other end, that of a sink its user has reset
('cut') sends nothing and falls 'silent'. An end of input that a loop reads
just before it notices such a signal counts as come before the signal. The
receiving end registers nothing, as `addStream` of
the mock is empty. The recipient of a stream calls its sink at once, as
`Listener.handle` does.

### Trips

A value is written (any of the messages, entries, records and ids that the
constants allow: `Samples`, `Entries`, `SeqNumbers` and so on), a message is
perhaps rewritten in ways that protobuf allows other implementations
(`MaxLiberties`), and it is read; a message that was read is forwarded, or
turned into a plain object and back. A wire is a sequence of tagged values, not
of bytes. A signature is its key with what it signs, a multihash its code,
length and preimage. Multiaddrs, protocols and keys of metadata are numbers in
the order of their text.

A message is the function of its own properties that are not null, since every
test of the generated code takes null for absent. From a plain object a list of
bytes has a hole for each empty member, and a value that the enum does not have is
dropped, as `fromObject` does; empty members at the end are cut off. `isCertified` of an entry is
true, false or unset (1, 0 and `Null`). `SaveEntry` refuses a public key that is
not the peer's. The codecs of nested messages
call each other; no message nests deeper than four levels
(`RPC.control.prune.peers`), so that `Encode1` to `Encode3` and `Encode` are
these calls unrolled, and no operator is recursive. `InOrder` is what a sort by
a total order returns; `SortedProtocols` sorts positions, which makes it stable.

## Runs

| run | instance | what it shows |
|---|---|---|
| `pubsub_node` | 1 peer, 1 topic, 3 objects, 2 calls, 1 loop, 2 overlapping stops, fairness | the inductive invariant, removal, refinement of the feeds; loops of removed peers end, peers are informed again and again |
| `pubsub_stop_streams` | as above | refutes a document, see Findings |
| `pubsub_messages` | 1 topic, a callback added for good and once, another added once, 3 kinds of message, 2 configurations, 2 messages, 1 task at a time, fairness | delivery, listener counts, subscriptions, and that the queue drains |
| `pubsub_sign_race` | 1 topic, 1 Message object, no remote messages | refutes a comment |
| `peer_store` | 2 peers, 3 callers, addresses only | lock, snapshots, events, refinement of the atomic store |
| `peer_store_live` | 1 peer, 3 callers, 2 sequence numbers, fairness | nobody starves in the lock's queue; signed records only advance |
| `peer_books` | 1 peer, 2 addresses, 2 keys, 2 sequence numbers, 1 caller | every method over every reachable entry: what listeners are told |
| `books_certified` | as `peer_books` | refutes a comment |
| `multistream` | 3 protocols, every list of up to 3, every set, 2 calls of `ls` | streams are clean, answers in order, every selection ends, refinement of the choice |
| `connections` | 2 streams, one opened by each end, with 1 fault or 1 chunk; 1 stream with 1 chunk and 2 faults at each end; fairness | registries, resets and aborts of both ends, the muxer's death |
| `muxer_close` | 2 streams, 1 chunk, no faults | refutes a test's statement |
| `trips` | all 19 message types, 5 keys of 3 types, 2 multiaddrs, 2 domains, 1 liberty | what is written is read |

Bounds. Two calls for one peer give a stream and its replacement or a second
connection after the removal or the stop; three objects give an entry and its
successors. Two overlapping stops with a start between them need `MaxStops` 2.
Two messages with one task at a time make one wait for the other, and a
publication can take the place of either. A callback in both forms and another
for one event, with two entries in the lists, give every difference there can be
between these: a duplicate, a listener that goes with its event, and both ways of
parting. Three callers give every shape of the lock's queue that matters: a
batch of two readers behind or before a writer. Two sequence numbers give an
older, an equal and a newer record. Lists of three protocols have a first, a
middle and a last one, with repetitions. With two streams, of which each end opens
one, the ends are alike, and one fault or chunk at one stands for one at the other.
With one stream, two faults at each end let failures, aborts and resets of both
ends cross; one chunk is enough to be in flight when its stream goes. Two elements in a list, and a field given twice,
are what decoding can get wrong. The proofs do without the bounds.

Deadlock is checked except where the system really can end with nothing to do:
calls are used up, a negotiation or a muxer has ended, and two overlapping
stops can wedge a node (see Observations).

Fairness. For the node: a promise of the registrar or of `newStream` settles,
a suspended function resumes, and a settled read is handed over. No fairness
for connections, failures or the API. For messages: listeners return (weak);
keys, validators and `publishMessage` settle and the queue starts its tasks
(strong, since each of these waits for the end of dispatches that come and go).
For the store: the datastore answers. No fairness for the caller of `getPeers`,
whose loop holds the read lock; `CallsEnd` has the end of such loops as its
premise, and a caller that awaits a write inside the loop is the deadlock it
excludes. For a negotiation: lines arrive and are read; none for the
application. For connections: the wire delivers and an aborted loop notices it,
one weak fairness for all of these together, which is less than the event loops
of both ends grant; none for users, negotiations or failures.

## Proofs

`PubsubInv` is inductive: `OutboundIsLive`, that the outbound stream of an object
has a pushable that takes what is written (`WritesAreTaken`; the raw stream below
may have gone), needs to know which object a call attached its stream to, and `AnnouncedInFull` and `PeersAreOpen` need that
objects belong to one peer for good, so `Bookkeeping` says what holds of
objects, calls and loops at each stage. `PubsubNodeProofs` proves one lemma
per conjunct and, under it, one step per group of actions, from
`PubsubAssumption` alone (the null values are none of the identifiers).
The same module proves that each step of the node is a step of
`PubsubFeed` or leaves the mapped variables as they are. TLC's instances have
one peer; these proofs are for any number of them.

`PeerStoreProofs` proves `OutcomeSound` of the books: whatever the entry and the
arguments, each method yields an entry of the right type, announces the fields it changes
unless it deletes the whole peer, and never rewinds the signed record. It is one lemma per book over one lemma
per kind of change, and uses `BooksAssumption` (sequence numbers are naturals)
and `EntryAssumption` (the null values are no data). Of the store it has an
inductive invariant, `PeerStoreInv`: the order of the lock's queue
(`LockInOrder`) makes a client that holds the lock and does not read the only
holder (`WriterAlone`), which is why a put can neither overtake a computed
outcome nor disturb a reader. `ChangesInHand` is the strengthening that
`ListenersUpToDate` needs: between a put and its dispatch it says which events
the listener still lacks, beside those it has `missed`. One lemma per conjunct has one step per action, the
14 calls taken as one (`CallComputes`). From the invariant follow that reads
are snapshots, that listeners are up to date, that records advance, and the
refinement of `AtomicPeerStore`, where a put maps to a change, a dispatch to
its settlement, and every other step to a stutter (`DueAssumption`: a due
change is no null value).

`MultistreamProofs` rests on `Inv`: `InStep` lists, for each read the Dialer may
be suspended in, the lines that can be under way in both directions, and
`Progress` which protocols have been refused so far. The lines are so few
because neither end writes before it has read the answer to what it wrote, but
for the one write of `PROTOCOL_ID` and the first protocol. From it follow that
the streams are handed over clean, that each answer is read by the call that
asked for it, and that both ends refine `ProtocolChoice`, for any lists of
protocols and any number of calls of `ls`. `MultistreamAssumption` says that
the words of the negotiation name no protocol.

`ConnectionsProofs` has two inductive invariants, for any number of streams,
writes and faults. `Named` is about where streams come from: the halves of a
stream are made together, nothing on the wire is of a stream that its writer has
not made, the stream of an opener is known to the other end or announced on the
wire, and on a wire nothing of a stream precedes its `create`, which is the only
one. From it follows that the messages a muxer throws for are of streams that
have ended there (`UnknownHaveEnded`). `Told` is about how they end: streams whose
loop was aborted have ended, a stream that was reset has ended at the end the
reset came from, and a loop that is done has told the other end or its message is
on the way. A loop that fell silent has told nobody, and only its user's `reset()`
makes one; hence `EndsReachOther`. Both invariants are quantified over one end
and one stream, and most steps keep them through one of three lemmas, for steps
that leave the wires alone, push a message, or handle one. `EndedAreRemoved`
needs the types only. The assumption is `EndsOfStreams`: there are two ends, and
each stream has the one that opens it.

`PubsubMessagesProofs` rests on `MessagesInv`, for any listeners, messages,
options and concurrency and lists of any length. `ListsAgree` says that, strays apart, the
platform's list and EventEmitter's have the same callbacks but for listeners
for one event of the type being dispatched, and that those the platform still
has are still to be called; `CountsAgree` follows when the dispatch is over, and
`TopicsKeepListeners`, since a topic is given up where EventEmitter counts nobody.
`EntitledHear` needs more: `WantedAreThere` (who is entitled to a message has
heard it or is a target, and has heard it if its topic is not subscribed),
which in turn needs that the message in hand is valid, has its place among the
running ones and has its remaining listeners in `rest` (`InHand`); and that a
message that starts has had nothing happen to it (`Lifecycle`), which holds
because no id waits twice (`QueueInOrder`, over the queue and the ids that a
change of subscriptions holds back). There is one lemma for each operation on the
lists and for each conjunct, with one step per action. `ListenersAssumption` and
`MessagesAssumption` give listeners, messages and options their types
and tell `None` from a dispatch.

`ListsProofs` proves what `Only`, the `filter` of arrays, returns. It is a
recursive function, and what such a function computes for every list takes an
induction that the library's theorems, which have an operator for a parameter,
cannot be asked for. The module derives induction for a set of numbers from
finiteness: a gap above 0 would give a finite set that is mapped injectively into
itself and not onto itself. With it follow the recursive equation of a filter,
the elements and the order that it keeps, and what it does of appended,
concatenated and shortened lists. Of `InOrder` it proves that a finite set has
such a list (`OrderExists`, by ranks) and that the list is its set in its order
(`InOrderDoes`); that what is sorted already stays as it is follows from
`AscentIsIdentity`, that a one-to-one ascent of `1 .. n` onto itself moves
nothing.

`ProtobufProofs` is about one codec with a parameter for nested values: what a
wire holds for each field (`WireDoes`), and that decoding an encoded message
gives its image (`Image`): the properties it owns, with each value replaced by
what the nested codecs make of it. The four levels follow one from the other.
`AllDeclared` has the tags of the 19 classes, distinct in each class, which is
all that the codec needs to know of them.

`TripsProofs` proves the five invariants of `Trips` for all messages with lists
of any length, all entries, records and ids. Its parts:

- `MessagesArrive` from `MessageInv`: the wire is `Alike` to the one that was
  written, that is, has for each list the same values and for any other field
  the same last one, which is what an unknown tag, an overridden value or an
  exchange of two fields leaves alone; and `got` is its decoding. Without
  liberties the wire is that of `Encode`, and encoding what was decoded gives it
  again, level by level.
- `ObjectsAgree` from its last part, `OutIs`: `out` is the object of `got`, or
  the message made from it. The name of an optional field's oneof must not be
  taken for a field (`OneofAssumption`).
- The other three from `ValueInv`, that `wire` and `got` are what was written of
  `thing` and what is read of that. `SealsHold` and `IdsAreKept` follow by
  calculation from the codec, the ids by key type and form.
- `EntriesKept` from the lemmas about sorting: the first address of each
  multiaddr has a place in the sorted list, what is loaded ascends, and a list
  that ascends is sorted into itself.

Assumptions: `KindsAssumption` and `NullAssumption` tell the null value from
kinds and data, `KeysAreDistinct` says that a key has one type, `SamplesAssumption` says that the samples are
messages, `EntriesAssumption` that entries have lists of addresses, certified or
not or unset, and of protocols, and finitely many keys, `LibertiesAreFinite` that the bound is a number.

Only model-checked: the liveness properties (`ReadersStop`,
`PeersLearnSubscriptions`, `QueueDrains`, `CallsEnd`, `SelectionEnds`,
`AbortEndsBoth`), which are out of the provers' reach. Every other property that
a passing run checks is a theorem.

## Findings

- A dial in flight when `stop()` completes attaches its stream to the stopped
  node, against "guarantees that the open streams in the protocol are properly
  closed" (`pubsub_stop_streams`).
- A Message object that is published twice goes out the first time with the
  second's seqno, and a signature no receiver accepts (`pubsub_sign_race`).
- Addresses become certified by being added twice, and lose certification by
  any other merge (`books_certified`).
- Closing one muxed stream of the mock muxer while a chunk for it is in flight
  brings all the others down, against "closing one of the muxed streams doesn't
  close others" (`muxer_close`).

### Observations

Behaviours met while modelling, which the models have and no run states:

- Two overlapping `stop()` calls with a `start()` between their ends leave the
  node registered and not started, and neither call repairs it.
- Two replacements of an outbound stream that wait together leave one stream
  open and forgotten (`attachOutboundStream`).
- `protoBook.set` ignores a different set of the same size, and
  `addressBook.add` dispatches 'peer' exactly when the peer is not new.
- The listeners of a node survive `stop()`, its subscriptions do not: after a
  restart they hear nothing until somebody subscribes.
- Unsubscribing while a message is validated keeps it from the listeners, not
  from being relayed.
- A listener for one event that is added while its type is dispatched is called by
  the platform and not counted by `listenerCount`; a callback that is added for one
  event and then for good is called once and counted until it is removed. The topic
  of the first may be unsubscribed, that of the second stays subscribed.
- What is written to an outbound stream between the end of the raw stream and the
  return of its pushable is lost.
- `delete()` of a whole peer dispatches no event, and a change whose load after the
  put is rejected is never announced; "When data in the PeerStore is updated the
  PeerStore will emit events based on the changes"
  (`libp2p-peer-store/src/README.md:29`).
- `consumePeerRecord` refuses a record as new as the stored one, where its comment
  says "ensure seq is greater than, or equal to, the last received"
  (`address-book.ts:81`).
- A user's `reset()` of a muxed stream sends nothing, so the other end's source
  stays open until its own user or the muxer ends it.
- An empty member of a list of bytes is skipped by `fromObject` with its place kept:
  the hole that is left makes a later `encode()` throw.
- A one-time listener that a received message fires leaves its topic subscribed
  with no listener; after an own message the topic is unsubscribed.
- A message whose seqno is empty makes `toMessage` throw; one whose seqno has
  other than eight bytes fails verification, which encodes eight.
- Under StrictNoSign the interface says that a message has no `from` and that one
  with it is rejected (`libp2p-interfaces/src/pubsub/index.ts:19,23`). The code does
  the contrary: `validate` does not look at `from`, and `processMessages` drops what
  comes without it.
- `messagePublicKey` takes the key that a message brings without comparing it with
  the message's `from`.
- `newStream` on a connection whose muxer has ended never settles, and a stream
  that ended during its negotiation stays in the Connection's registry.
- `peerIdFromCID` compares the length of the whole multihash with that of the
  keys, so it refuses the CID of every Ed25519 and secp256k1 id.
- A protobuf peer id without its private key cannot be read back: the absent
  field reads as an empty buffer, which `unmarshalPrivateKey` refuses.
- An entry saved with `isCertified` undefined changes its bytes when it is loaded
  and saved again. An embedded message given twice is replaced, where protobuf
  would merge the two.

## Not modelled

- Conversions without state or a second reader: the logger, the peer map, the
  topology (a hand-over of callbacks) and the tracked map.
- The mock registrar but for its one handler per protocol (in `PubsubNode`), and
  the compliance test suites, which are read as documentation.
- Bytes: lengths on the wire, truncated input, text encodings, `Number(seq)`
  beyond 2^53; keys and signatures but for which key signed what; the caches of
  marshalled records and envelopes.
- Message ids, which the code computes and does not keep; metrics; drawing keys.

## Plan

What further work would add, most useful first: the composition of two
`PubsubMessages` nodes over `PubsubNode` streams; `Connections` with reused ids
of streams; the hazards in `PROJECT.json` that no property covers.
