----------------------------- MODULE PubsubNode -----------------------------
(***************************************************************************)
(* One node of the publish/subscribe base protocol: its lifecycle, the      *)
(* PeerStreams it keeps per remote peer, and the subscriptions it announces *)
(* and learns.  The code is single threaded: an action below is a stretch   *)
(* of code between two suspension points (await, or the entry of a callback *)
(* or of an API call), so the interleavings are those of the event loop.    *)
(*                                                                         *)
(* A "call" is one invocation of _onPeerConnected.  It dials at most one    *)
(* stream, and that stream gets at most one pushable, so the call, the raw  *)
(* stream and the pushable share one identifier.                            *)
(***************************************************************************)
EXTENDS Naturals, FiniteSets

CONSTANTS
    Peers,      (* the remote peers                                         *)
    Topics,     (* the topics, 'pubsub:subscription-change' excluded        *)
    Streams,    (* PeerStreams objects; a finite set bounds the creations   *)
    Calls,      (* invocations of _onPeerConnected, with what each dials    *)
    Readers,    (* incoming streams, each with its processMessages loop     *)
    NoStreams,  (* "undefined" where a PeerStreams is expected              *)
    NoCall,     (* "undefined" where an outbound stream is expected         *)
    NoPeer,     (* the peer of an object, call or reader not yet in use     *)
    MaxStops    (* bound on stop() calls that overlap                       *)

ASSUME PubsubAssumption ==
    /\ NoStreams \notin Streams
    /\ NoCall \notin Calls
    /\ NoPeer \notin Peers
    /\ MaxStops \in Nat

VARIABLES
    started,       (* this.started                                          *)
    starting,      (* a start() awaits registrar.handle                     *)
    stopping,      (* number of stop()s that await registrar.unhandle       *)
    handled,       (* the registrar has our stream handler                  *)
    registered,    (* the registrar has our topology                        *)
    subscriptions, (* this.subscriptions                                    *)
    topics,        (* this.topics: remote subscribers, by topic             *)
    peers,         (* this.peers                                            *)
    owner,         (* PeerStreams.id                                        *)
    closed,        (* PeerStreams.closed                                    *)
    outbound,      (* PeerStreams.outboundStream and _rawOutboundStream,    *)
                   (* always set and cleared together                       *)
    readable,      (* PeerStreams.isReadable: inboundStream is set          *)
    aborted,       (* PeerStreams._inboundAbortController has been aborted  *)
    pc,            (* where an _onPeerConnected invocation is suspended     *)
    remote,        (* the peer it was called for                            *)
    target,        (* the PeerStreams it attaches its stream to             *)
    open,          (* its raw stream is open: what is pushed is sent        *)
    ended,         (* its pushable has ended, and onEnd has run             *)
    told,          (* the subscriptions pushed on it, folded in order       *)
    source,        (* the PeerStreams a processMessages loop reads for      *)
    reading        (* where that loop is                                    *)

lifeVars == <<started, starting, stopping, handled, registered>>
psVars   == <<owner, closed, outbound, readable, aborted>>
callVars == <<pc, remote, target, open, ended, told>>
loopVars == <<source, reading>>
vars == <<lifeVars, subscriptions, topics, peers, psVars, callVars, loopVars>>

CallStates == {"idle", "dialing", "replacing", "attached", "done"}
LoopStates == {"unused", "reading", "chunk", "failing", "done"}

TypeOK ==
    /\ started \in BOOLEAN /\ starting \in BOOLEAN
    /\ handled \in BOOLEAN /\ registered \in BOOLEAN
    /\ stopping \in 0..MaxStops
    /\ subscriptions \in SUBSET Topics
    /\ topics \in [Topics -> SUBSET Peers]
    /\ peers \in [Peers -> Streams \cup {NoStreams}]
    /\ owner \in [Streams -> Peers \cup {NoPeer}]
    /\ closed \in [Streams -> BOOLEAN]
    /\ outbound \in [Streams -> Calls \cup {NoCall}]
    /\ readable \in [Streams -> BOOLEAN]
    /\ aborted \in [Streams -> BOOLEAN]
    /\ pc \in [Calls -> CallStates]
    /\ remote \in [Calls -> Peers \cup {NoPeer}]
    /\ target \in [Calls -> Streams \cup {NoStreams}]
    /\ open \in [Calls -> BOOLEAN]
    /\ ended \in [Calls -> BOOLEAN]
    /\ told \in [Calls -> SUBSET Topics]
    /\ source \in [Readers -> Streams \cup {NoStreams}]
    /\ reading \in [Readers -> LoopStates]

Init ==
    /\ started = FALSE /\ starting = FALSE /\ stopping = 0
    /\ handled = FALSE /\ registered = FALSE
    /\ subscriptions = {}
    /\ topics = [t \in Topics |-> {}]
    /\ peers = [p \in Peers |-> NoStreams]
    /\ owner = [o \in Streams |-> NoPeer]
    /\ closed = [o \in Streams |-> FALSE]
    /\ outbound = [o \in Streams |-> NoCall]
    /\ readable = [o \in Streams |-> FALSE]
    /\ aborted = [o \in Streams |-> FALSE]
    /\ pc = [c \in Calls |-> "idle"]
    /\ remote = [c \in Calls |-> NoPeer]
    /\ target = [c \in Calls |-> NoStreams]
    /\ open = [c \in Calls |-> FALSE]
    /\ ended = [c \in Calls |-> FALSE]
    /\ told = [c \in Calls |-> {}]
    /\ source = [i \in Readers |-> NoStreams]
    /\ reading = [i \in Readers |-> "unused"]

-----------------------------------------------------------------------------
(* Helpers of the handlers.                                                *)

Connected(p) == peers[p] # NoStreams

\* PeerStreams.isWritable of the entry of p, as sendRpc asks for it.
Writable(p) == Connected(p) /\ outbound[peers[p]] # NoCall

\* The outbound streams that a send to a peer of P is written to.
SentOn(P) == {outbound[peers[p]] : p \in {q \in P : Writable(q)}}

\* addPeer: the entry of p, or else a fresh object.
AddPeer(p, o) ==
    IF Connected(p) THEN o = peers[p] ELSE o \in Streams /\ owner[o] = NoPeer

\* onEnd of the pushables that the objects of S hold: each resets the raw
\* stream of its object; the pushables themselves have ended.
EndOutbound(S) ==
    /\ open' = [c \in Calls |-> open[c] /\ ~ \E o \in S : outbound[o] = c]
    /\ ended' = [c \in Calls |-> ended[c] \/ \E o \in S : outbound[o] = c]

\* Faulty variant: close() leaves the inbound stream to the remote peer.
CloseWithoutAbort(S) ==
    /\ closed' = [o \in Streams |-> closed[o] \/ o \in S]
    /\ readable' = [o \in Streams |-> readable[o] /\ o \notin S]
    /\ outbound' = [o \in Streams |-> IF o \in S THEN NoCall ELSE outbound[o]]
    /\ EndOutbound(S)
    /\ UNCHANGED aborted

\* PeerStreams.close of the objects of S, which are not closed yet.
Close(S) ==
    /\ closed' = [o \in Streams |-> closed[o] \/ o \in S]
    /\ aborted' = [o \in Streams |-> aborted[o] \/ (o \in S /\ readable[o])]
    /\ readable' = [o \in Streams |-> readable[o] /\ o \notin S]
    /\ outbound' = [o \in Streams |-> IF o \in S THEN NoCall ELSE outbound[o]]
    /\ EndOutbound(S)

\* Faulty variants: the entry, or the peer's topics, are left behind.
RemovePeersKeepEntry(P) ==
    /\ Close({peers[p] : p \in {q \in P : Connected(q)}})
    /\ topics' = [t \in Topics |-> topics[t] \ {p \in P : Connected(p)}]
    /\ UNCHANGED <<owner, peers>>

RemovePeersKeepTopics(P) ==
    /\ Close({peers[p] : p \in {q \in P : Connected(q)}})
    /\ peers' = [p \in Peers |-> IF p \in P THEN NoStreams ELSE peers[p]]
    /\ UNCHANGED <<owner, topics>>

\* _removePeer of each peer of P: it does nothing for a peer without entry.
\* The 'close' event that close() emits calls it again and changes nothing.
RemovePeers(P) ==
    /\ Close({peers[p] : p \in {q \in P : Connected(q)}})
    /\ peers' = [p \in Peers |-> IF p \in P THEN NoStreams ELSE peers[p]]
    /\ topics' = [t \in Topics |-> topics[t] \ {p \in P : Connected(p)}]
    /\ UNCHANGED owner

-----------------------------------------------------------------------------
(* start() and stop().                                                     *)

\* Faulty variant: start() does not ask whether the node is started.
StartWhileStarted ==
    /\ ~ handled
    /\ starting' = TRUE
    /\ handled' = TRUE
    /\ UNCHANGED <<started, stopping, registered, subscriptions, topics, peers,
                   psVars, callVars, loopVars>>

\* start() up to its await.  A registrar that has our handler already makes
\* registrar.handle reject, and start() with it, before anything changed.
Start ==
    /\ ~ started
    /\ ~ handled
    /\ starting' = TRUE
    /\ handled' = TRUE
    /\ UNCHANGED <<started, stopping, registered, subscriptions, topics, peers,
                   psVars, callVars, loopVars>>

\* The rest of start(): the topology is registered, the node is started.
StartDone ==
    /\ starting
    /\ starting' = FALSE
    /\ registered' = TRUE
    /\ started' = TRUE
    /\ UNCHANGED <<stopping, handled, subscriptions, topics, peers,
                   psVars, callVars, loopVars>>

\* stop() up to its await.
Stop ==
    /\ started
    /\ stopping < MaxStops
    /\ registered' = FALSE
    /\ handled' = FALSE
    /\ stopping' = stopping + 1
    /\ UNCHANGED <<started, starting, subscriptions, topics, peers,
                   psVars, callVars, loopVars>>

\* Faulty variant: stop() leaves this.started set.
StopDoneStillStarted ==
    /\ stopping > 0
    /\ stopping' = stopping - 1
    /\ RemovePeers(Peers)
    /\ subscriptions' = {}
    /\ UNCHANGED <<started, starting, handled, registered, pc, remote, target,
                   told, loopVars>>

\* The rest of stop(): every PeerStreams is closed (and so removed).
StopDone ==
    /\ stopping > 0
    /\ stopping' = stopping - 1
    /\ RemovePeers(Peers)
    /\ subscriptions' = {}
    /\ started' = FALSE
    /\ UNCHANGED <<starting, handled, registered, pc, remote, target, told,
                   loopVars>>

-----------------------------------------------------------------------------
(* subscribe() and unsubscribe().                                          *)

Subscribe(t) ==
    /\ started
    /\ t \notin subscriptions
    /\ subscriptions' = subscriptions \cup {t}
    /\ told' = [c \in Calls |->
                  IF c \in SentOn(Peers) THEN told[c] \cup {t} ELSE told[c]]
    /\ UNCHANGED <<lifeVars, topics, peers, psVars,
                   pc, remote, target, open, ended, loopVars>>

\* Faulty variant: unsubscribe() tells no one.
UnsubscribeSilently(t) ==
    /\ started
    /\ t \in subscriptions
    /\ subscriptions' = subscriptions \ {t}
    /\ UNCHANGED <<lifeVars, topics, peers, psVars, callVars, loopVars>>

\* With a listener left on the topic unsubscribe() changes nothing: that case
\* is the subject of module PubsubMessages.
Unsubscribe(t) ==
    /\ started
    /\ t \in subscriptions
    /\ subscriptions' = subscriptions \ {t}
    /\ told' = [c \in Calls |->
                  IF c \in SentOn(Peers) THEN told[c] \ {t} ELSE told[c]]
    /\ UNCHANGED <<lifeVars, topics, peers, psVars,
                   pc, remote, target, open, ended, loopVars>>

-----------------------------------------------------------------------------
(* _onPeerConnected, called by the registered topology, and the outbound    *)
(* stream it dials.                                                         *)

\* Up to the await of newStream.
PeerConnected(p, c) ==
    /\ registered
    /\ pc[c] = "idle"
    /\ pc' = [pc EXCEPT ![c] = "dialing"]
    /\ remote' = [remote EXCEPT ![c] = p]
    /\ UNCHANGED <<lifeVars, subscriptions, topics, peers, psVars,
                   target, open, ended, told, loopVars>>

\* The stream of call c becomes the outbound stream of o.
Attach(o, c) == outbound' = [outbound EXCEPT ![o] = c]

\* newStream resolves and the entry has no outbound stream: addPeer and
\* attachOutboundStream run through.
DialedFirst(c, o) ==
    /\ pc[c] = "dialing"
    /\ AddPeer(remote[c], o)
    /\ outbound[o] = NoCall
    /\ peers' = [peers EXCEPT ![remote[c]] = o]
    /\ owner' = [owner EXCEPT ![o] = remote[c]]
    /\ Attach(o, c)
    /\ target' = [target EXCEPT ![c] = o]
    /\ open' = [open EXCEPT ![c] = TRUE]
    /\ pc' = [pc EXCEPT ![c] = "attached"]
    /\ UNCHANGED <<lifeVars, subscriptions, topics, closed, readable, aborted,
                   remote, ended, told, loopVars>>

\* Faulty variant: the onEnd of the old stream does not clear it.
DialedAgainKeepsOld(c, o) ==
    /\ pc[c] = "dialing"
    /\ Connected(remote[c]) /\ o = peers[remote[c]]
    /\ outbound[o] # NoCall
    /\ open' = [open EXCEPT ![outbound[o]] = FALSE, ![c] = TRUE]
    /\ ended' = [ended EXCEPT ![outbound[o]] = TRUE]
    /\ target' = [target EXCEPT ![c] = o]
    /\ pc' = [pc EXCEPT ![c] = "replacing"]
    /\ UNCHANGED <<lifeVars, subscriptions, topics, peers, psVars, remote,
                   told, loopVars>>

\* newStream resolves and the entry has an outbound stream, which is ended
\* (its onEnd runs at once) before the await in attachOutboundStream.
DialedAgain(c, o) ==
    /\ pc[c] = "dialing"
    /\ Connected(remote[c]) /\ o = peers[remote[c]]
    /\ outbound[o] # NoCall
    /\ outbound' = [outbound EXCEPT ![o] = NoCall]
    /\ open' = [open EXCEPT ![outbound[o]] = FALSE, ![c] = TRUE]
    /\ ended' = [ended EXCEPT ![outbound[o]] = TRUE]
    /\ target' = [target EXCEPT ![c] = o]
    /\ pc' = [pc EXCEPT ![c] = "replacing"]
    /\ UNCHANGED <<lifeVars, subscriptions, topics, peers, owner, closed,
                   readable, aborted, remote, told, loopVars>>

\* attachOutboundStream resumes after that await: it looks neither at closed
\* nor at an outbound stream attached meanwhile.
AttachResumes(c) ==
    /\ pc[c] = "replacing"
    /\ Attach(target[c], c)
    /\ pc' = [pc EXCEPT ![c] = "attached"]
    /\ UNCHANGED <<lifeVars, subscriptions, topics, peers, owner, closed,
                   readable, aborted, remote, target, open, ended, told,
                   loopVars>>

\* Faulty variant: the greeting is empty.
SendNothing(p) == p \in Peers /\ UNCHANGED told

\* send(peerId, { subscriptions, subscribe: true }): all our subscriptions,
\* on the outbound stream that the entry of p has now, if any.
SendSubscriptions(p) ==
    told' = [c \in Calls |-> IF c \in SentOn({p}) THEN told[c] \cup subscriptions
                                                  ELSE told[c]]

\* attachOutboundStream has returned: the call ends with the send.
Greet(c) ==
    /\ pc[c] = "attached"
    /\ SendSubscriptions(remote[c])
    /\ pc' = [pc EXCEPT ![c] = "done"]
    /\ UNCHANGED <<lifeVars, subscriptions, topics, peers, psVars,
                   remote, target, open, ended, loopVars>>

\* newStream rejects: the error is logged, and the send happens all the same.
DialFailed(c) ==
    /\ pc[c] = "dialing"
    /\ SendSubscriptions(remote[c])
    /\ pc' = [pc EXCEPT ![c] = "done"]
    /\ UNCHANGED <<lifeVars, subscriptions, topics, peers, psVars,
                   remote, target, open, ended, loopVars>>

\* The raw stream of c ends: the remote peer resets it, or the connection
\* goes.  The object does not learn of it yet, and writes are lost.
RawEnds(c) ==
    /\ open[c]
    /\ open' = [open EXCEPT ![c] = FALSE]
    /\ UNCHANGED <<lifeVars, subscriptions, topics, peers, psVars, pc, remote,
                   target, ended, told, loopVars>>

\* The pipeline returns the pushable of c, which is live though its raw stream
\* has ended, by itself or reset by the onEnd of another pushable.  Its own
\* onEnd, a closure over the object, resets and clears whatever outbound stream
\* the object has by then.  No 'close' event follows, as there is no error
\* argument.
PushableReturned(c) ==
    /\ ~ open[c] /\ ~ ended[c] /\ pc[c] \in {"attached", "done"}
    /\ target[c] # NoStreams
    /\ ended' = [ended EXCEPT ![c] = TRUE]
    /\ open' = [d \in Calls |-> open[d] /\ outbound[target[c]] # d]
    /\ outbound' = [outbound EXCEPT ![target[c]] = NoCall]
    /\ UNCHANGED <<lifeVars, subscriptions, topics, peers, owner, closed,
                   readable, aborted, pc, remote, target, told, loopVars>>

\* _onPeerDisconnected, called by the registered topology.
PeerDisconnected(p) ==
    /\ registered
    /\ Connected(p)
    /\ RemovePeers({p})
    /\ UNCHANGED <<lifeVars, subscriptions, pc, remote, target, told, loopVars>>

-----------------------------------------------------------------------------
(* _onIncomingStream and the processMessages loops.                        *)

\* Faulty variant: addPeer does not record whom the object is for.
IncomingStreamOfNobody(p, i, o) ==
    /\ handled
    /\ reading[i] = "unused"
    /\ AddPeer(p, o)
    /\ peers' = [peers EXCEPT ![p] = o]
    /\ readable' = [readable EXCEPT ![o] = TRUE]
    /\ source' = [source EXCEPT ![i] = o]
    /\ reading' = [reading EXCEPT ![i] = "reading"]
    /\ UNCHANGED <<lifeVars, subscriptions, topics, closed, outbound, aborted,
                   callVars, owner>>

\* The registrar hands over an incoming stream: addPeer, attachInboundStream,
\* and a processMessages loop is started.  Earlier loops keep running.
IncomingStream(p, i, o) ==
    /\ handled
    /\ reading[i] = "unused"
    /\ AddPeer(p, o)
    /\ peers' = [peers EXCEPT ![p] = o]
    /\ owner' = [owner EXCEPT ![o] = p]
    /\ readable' = [readable EXCEPT ![o] = TRUE]
    /\ source' = [source EXCEPT ![i] = o]
    /\ reading' = [reading EXCEPT ![i] = "reading"]
    /\ UNCHANGED <<lifeVars, subscriptions, topics, closed, outbound, aborted,
                   callVars>>

\* The pending read settles before an abort: with a chunk, with an error, or
\* with the end of the stream, after which nothing is called.
ReadSettles(i) ==
    /\ reading[i] = "reading"
    /\ ~ aborted[source[i]]
    /\ \E s \in {"chunk", "failing", "done"} : reading' = [reading EXCEPT ![i] = s]
    /\ UNCHANGED <<lifeVars, subscriptions, topics, peers, psVars, callVars, source>>

\* The abort settles the pending read: the loop ends (returnOnAbort).
ReadAborted(i) ==
    /\ reading[i] = "reading"
    /\ aborted[source[i]]
    /\ reading' = [reading EXCEPT ![i] = "done"]
    /\ UNCHANGED <<lifeVars, subscriptions, topics, peers, psVars, callVars, source>>

\* The body of the loop gets the chunk, an RPC by which the peer joins and
\* leaves topics: processRpc and processRpcSubOpt.  Nothing checks that the
\* object is still the entry of its peer.
ProcessRpc(i, joins, leaves) ==
    /\ reading[i] = "chunk"
    /\ topics' = [t \in Topics |->
                    IF t \in joins THEN topics[t] \cup {owner[source[i]]}
                    ELSE IF t \in leaves THEN topics[t] \ {owner[source[i]]}
                    ELSE topics[t]]
    /\ reading' = [reading EXCEPT ![i] = "reading"]
    /\ UNCHANGED <<lifeVars, subscriptions, peers, psVars, callVars, source>>

\* The catch clause: the read failed, or the chunk does not decode.  It
\* removes the entry of the peer, whichever object that is by now.
LoopFails(i) ==
    /\ reading[i] \in {"chunk", "failing"}
    /\ reading' = [reading EXCEPT ![i] = "done"]
    /\ RemovePeers({owner[source[i]]})
    /\ UNCHANGED <<lifeVars, subscriptions, pc, remote, target, told, source>>

-----------------------------------------------------------------------------
Dialed(c) == \E o \in Streams : DialedFirst(c, o) \/ DialedAgain(c, o)

ProcessChunk(i) ==
    \E joins, leaves \in SUBSET Topics :
        joins \cap leaves = {} /\ ProcessRpc(i, joins, leaves)

Next ==
    \/ Start \/ StartDone \/ Stop \/ StopDone
    \/ \E t \in Topics : Subscribe(t) \/ Unsubscribe(t)
    \/ \E p \in Peers, c \in Calls : PeerConnected(p, c)
    \/ \E p \in Peers : PeerDisconnected(p)
    \/ \E c \in Calls :
          \/ Dialed(c) \/ DialFailed(c) \/ AttachResumes(c)
          \/ Greet(c) \/ RawEnds(c) \/ PushableReturned(c)
    \/ \E p \in Peers, i \in Readers, o \in Streams : IncomingStream(p, i, o)
    \/ \E i \in Readers :
          ReadSettles(i) \/ ReadAborted(i) \/ ProcessChunk(i) \/ LoopFails(i)

Spec == Init /\ [][Next]_vars

\* Promises that the registrar and newStream hand out settle, a resumed
\* function runs on, and a settled read reaches the loop.  Nothing makes a
\* peer connect, a stream fail or a user call the API.
Fairness ==
    /\ WF_vars(StartDone) /\ WF_vars(StopDone)
    /\ \A c \in Calls :
          /\ WF_vars(Dialed(c) \/ DialFailed(c))
          /\ WF_vars(AttachResumes(c))
          /\ WF_vars(Greet(c))
    /\ \A i \in Readers :
          /\ WF_vars(ReadAborted(i))
          /\ WF_vars(ProcessChunk(i) \/ LoopFails(i))

FairSpec == Spec /\ Fairness

-----------------------------------------------------------------------------
(* Safety.                                                                 *)

\* this.peers maps each peer to the one PeerStreams of it that is not closed:
\* no closed object is ever looked up, and none that is open is lost from the
\* map (it could never be closed again).  addPeer, _removePeer, the 'close'
\* listener and stop() maintain this together.
PeersAreOpen ==
    /\ \A p \in Peers :
         Connected(p) => owner[peers[p]] = p /\ ~ closed[peers[p]]
    /\ \A o \in Streams :
         owner[o] # NoPeer /\ ~ closed[o] => peers[owner[o]] = o

\* The outbound stream of an object is a pushable made for it whose onEnd has
\* not run: what is written to it is taken, though the raw stream may have
\* ended and it is lost until the pipeline returns the pushable.  The onEnd
\* closures, which clear what others have attached, and the await in
\* attachOutboundStream could break it.
OutboundIsLive ==
    \A o \in Streams : outbound[o] # NoCall =>
        LET c == outbound[o]
        IN  target[c] = o /\ ~ ended[c] /\ pc[c] \in {"attached", "done"}

\* What has been written on the current outbound stream to a peer, read from
\* the start, is exactly our subscriptions once the call that attached the
\* stream has sent its greeting, and never more than them before: no
\* subscribe() or unsubscribe() falls between the greeting and the incremental
\* updates.
AnnouncedInFull ==
    \A p \in Peers : Writable(p) =>
        LET c == outbound[peers[p]]
        IN  /\ told[c] \subseteq subscriptions
            /\ pc[c] = "done" => told[c] = subscriptions

\* A closed object has aborted the loops that read for it: none is left that
\* only the remote peer can end.
ClosedReadersAborted ==
    \A i \in Readers :
        reading[i] # "unused" /\ closed[source[i]] => aborted[source[i]]

\* A node that says it is started, with no stop() under way, is known to the
\* registrar, whatever calls of start() and stop() overlapped before.
StartedIsRegistered == started /\ stopping = 0 => handled /\ registered

\* The bookkeeping the invariants above rest on: what is true of objects,
\* calls and loops at each stage of their lives.
Bookkeeping ==
    /\ starting => ~ started /\ handled
    /\ \A o \in Streams : owner[o] = NoPeer =>
         ~ closed[o] /\ outbound[o] = NoCall /\ ~ readable[o]
    /\ \A c \in Calls :
         /\ pc[c] # "idle" => remote[c] \in Peers
         /\ pc[c] \in {"idle", "dialing"} => ~ open[c] /\ target[c] = NoStreams
         /\ pc[c] \in {"idle", "dialing", "replacing"} =>
               ~ ended[c] /\ told[c] = {}
         /\ open[c] \/ pc[c] \in {"replacing", "attached"} => target[c] # NoStreams
         /\ target[c] # NoStreams => owner[target[c]] = remote[c]
    /\ \A i \in Readers : reading[i] # "unused" =>
         /\ source[i] \in Streams
         /\ owner[source[i]] \in Peers
         /\ ~ closed[source[i]] => readable[source[i]]

\* The inductive invariant.
PubsubInv ==
    /\ TypeOK
    /\ Bookkeeping
    /\ PeersAreOpen
    /\ OutboundIsLive
    /\ AnnouncedInFull
    /\ ClosedReadersAborted
    /\ StartedIsRegistered

\* However an entry goes away (disconnection, read error, stop), the topics
\* forget the peer in the same step, and an entry is never exchanged for
\* another without going away first.
RemovalForgets ==
    [][\A p \in Peers : Connected(p) /\ peers'[p] # peers[p] =>
          peers'[p] = NoStreams /\ \A t \in Topics : p \notin topics'[t]]_vars

-----------------------------------------------------------------------------
(* Liveness, under FairSpec.                                               *)

\* Every loop that reads for a removed peer comes to its end.
ReadersStop ==
    \A i \in Readers :
        (reading[i] # "unused" /\ closed[source[i]]) ~> reading[i] = "done"

\* To a peer with an outbound stream all our subscriptions have, again and
\* again, been written on it: no greeting is put off for ever.
PeersLearnSubscriptions ==
    \A p \in Peers :
        []<>(Writable(p) => told[outbound[peers[p]]] = subscriptions)

-----------------------------------------------------------------------------
(* What the documentation claims and the code does not keep.               *)

\* README of the pubsub interface: stop "guarantees that the open streams in
\* the protocol are properly closed".  A dial in flight when the node stops
\* attaches its stream afterwards.
StopClosesStreams ==
    ~ started /\ ~ starting => \A c \in Calls : ~ open[c]
=============================================================================
