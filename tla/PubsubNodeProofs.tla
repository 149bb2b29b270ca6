-------------------------- MODULE PubsubNodeProofs --------------------------
(***************************************************************************)
(* PubsubInv, the inductive invariant of PubsubNode, holds of every         *)
(* behaviour, for any sets of peers, topics, objects, calls and readers.    *)
(* One lemma per conjunct of the invariant: each has a step for every       *)
(* action that touches what the conjunct speaks of, and one step for all    *)
(* the actions that leave it alone.                                        *)
(***************************************************************************)
EXTENDS PubsubNodeFeed, TLAPS

\* The initial state: nothing is registered, created or called.
LEMMA InitInv == Init => PubsubInv
  <1> SUFFICES ASSUME Init PROVE PubsubInv
    OBVIOUS
  <1>1. TypeOK
    <2>1. stopping \in 0..MaxStops
      BY PubsubAssumption DEF Init
    <2>2. QED
      BY <2>1 DEF Init, TypeOK, CallStates, LoopStates
  <1>2. PeersAreOpen /\ OutboundIsLive /\ AnnouncedInFull
    BY DEF Init, PeersAreOpen, OutboundIsLive, AnnouncedInFull, Writable, Connected
  <1>3. Bookkeeping /\ ClosedReadersAborted /\ StartedIsRegistered
    BY DEF Init, Bookkeeping, ClosedReadersAborted, StartedIsRegistered
  <1>4. QED
    BY <1>1, <1>2, <1>3 DEF PubsubInv

\* Removing entries keeps the types of what it assigns.
LEMMA RemovePeersType ==
  ASSUME TypeOK, NEW P \in SUBSET Peers, RemovePeers(P)
  PROVE  /\ peers' \in [Peers -> Streams \cup {NoStreams}]
         /\ topics' \in [Topics -> SUBSET Peers]
         /\ owner' \in [Streams -> Peers \cup {NoPeer}]
         /\ closed' \in [Streams -> BOOLEAN]
         /\ outbound' \in [Streams -> Calls \cup {NoCall}]
         /\ readable' \in [Streams -> BOOLEAN]
         /\ aborted' \in [Streams -> BOOLEAN]
         /\ open' \in [Calls -> BOOLEAN]
         /\ ended' \in [Calls -> BOOLEAN]
  BY DEF TypeOK, RemovePeers, Close, EndOutbound, Connected

\* Every step keeps the types.
LEMMA TypeStep == ASSUME PubsubInv, [Next]_vars PROVE TypeOK'
  <1> USE PubsubAssumption DEF PubsubInv, lifeVars, psVars, callVars, loopVars
  <1>1. CASE Start
    BY <1>1 DEF Start, TypeOK
  <1>2. CASE StartDone
    BY <1>2 DEF StartDone, TypeOK
  <1>3. CASE Stop
    <2>1. stopping' \in 0..MaxStops
      BY <1>3 DEF Stop, TypeOK
    <2>2. QED
      BY <1>3, <2>1 DEF Stop, TypeOK
  <1>4. CASE StopDone
    <2>1. stopping' \in 0..MaxStops
      BY <1>4 DEF StopDone, TypeOK
    <2>2. QED
      BY <1>4, <2>1, RemovePeersType DEF StopDone, TypeOK
  <1>5. ASSUME NEW t \in Topics, Subscribe(t) \/ Unsubscribe(t) PROVE TypeOK'
    BY <1>5 DEF Subscribe, Unsubscribe, TypeOK
  <1>6. ASSUME NEW p \in Peers, NEW c \in Calls, PeerConnected(p, c) PROVE TypeOK'
    BY <1>6 DEF PeerConnected, TypeOK, CallStates
  <1>7. ASSUME NEW p \in Peers, PeerDisconnected(p) PROVE TypeOK'
    BY <1>7, RemovePeersType DEF PeerDisconnected, TypeOK
  <1>8. ASSUME NEW c \in Calls, NEW o \in Streams, DialedFirst(c, o) PROVE TypeOK'
    BY <1>8 DEF DialedFirst, AddPeer, Attach, TypeOK, CallStates, Bookkeeping
  <1>9. ASSUME NEW c \in Calls, NEW o \in Streams, DialedAgain(c, o) PROVE TypeOK'
    BY <1>9 DEF DialedAgain, TypeOK, CallStates
  <1>10. ASSUME NEW c \in Calls, DialFailed(c) \/ Greet(c) PROVE TypeOK'
    BY <1>10 DEF DialFailed, Greet, SendSubscriptions, TypeOK, CallStates
  <1>11. ASSUME NEW c \in Calls, AttachResumes(c) PROVE TypeOK'
    BY <1>11 DEF AttachResumes, Attach, TypeOK, CallStates
  <1>12. ASSUME NEW c \in Calls, RawEnds(c) \/ PushableReturned(c) PROVE TypeOK'
    <2>1. CASE RawEnds(c)
      BY <2>1 DEF RawEnds, TypeOK
    <2>2. CASE PushableReturned(c)
      BY <2>2 DEF PushableReturned, TypeOK
    <2>3. QED
      BY <1>12, <2>1, <2>2
  <1>13. ASSUME NEW p \in Peers, NEW i \in Readers, NEW o \in Streams,
                IncomingStream(p, i, o)
         PROVE  TypeOK'
    BY <1>13 DEF IncomingStream, AddPeer, TypeOK, LoopStates
  <1>14. ASSUME NEW i \in Readers, ReadSettles(i) \/ ReadAborted(i) PROVE TypeOK'
    BY <1>14 DEF ReadSettles, ReadAborted, TypeOK, LoopStates
  <1>15. ASSUME NEW i \in Readers, ProcessChunk(i) PROVE TypeOK'
    BY <1>15 DEF ProcessChunk, ProcessRpc, TypeOK, LoopStates, Bookkeeping
  <1>16. ASSUME NEW i \in Readers, LoopFails(i) PROVE TypeOK'
    BY <1>16, RemovePeersType DEF LoopFails, TypeOK, LoopStates, Bookkeeping
  <1>17. CASE UNCHANGED vars
    BY <1>17 DEF vars, TypeOK
  <1>18. QED
    BY <1>1, <1>2, <1>3, <1>4, <1>5, <1>6, <1>7, <1>8, <1>9, <1>10, <1>11,
       <1>12, <1>13, <1>14, <1>15, <1>16, <1>17 DEF Next, Dialed

\* What closing does to the map and to the objects: the entries of P go, and
\* exactly the objects they pointed to are closed.
LEMMA PeersAreOpenStep == ASSUME PubsubInv, [Next]_vars PROVE PeersAreOpen'
  <1> USE PubsubAssumption DEF PubsubInv
  <1>1. CASE UNCHANGED <<peers, owner, closed>>
    BY <1>1 DEF PeersAreOpen, Connected
  <1>2. ASSUME NEW P \in SUBSET Peers, RemovePeers(P) PROVE PeersAreOpen'
    <2>1. ASSUME NEW p \in Peers, Connected(p)'
          PROVE  owner'[peers'[p]] = p /\ ~ closed'[peers'[p]]
      <3>1. p \notin P /\ Connected(p) /\ peers'[p] = peers[p]
        BY <1>2, <2>1 DEF RemovePeers, Connected, TypeOK
      <3>2. \A q \in P : Connected(q) => peers[q] # peers[p]
        BY <3>1 DEF PeersAreOpen
      <3>3. QED
        BY <1>2, <3>1, <3>2 DEF RemovePeers, Close, PeersAreOpen, TypeOK, Connected
    <2>2. ASSUME NEW o \in Streams, owner'[o] # NoPeer, ~ closed'[o]
          PROVE  peers'[owner'[o]] = o
      <3>1. owner[o] # NoPeer /\ ~ closed[o] /\ peers[owner[o]] = o
        BY <1>2, <2>2 DEF RemovePeers, Close, PeersAreOpen, TypeOK
      <3>2. ASSUME owner[o] \in P PROVE FALSE
        <4>1. o \in {peers[p] : p \in {q \in P : Connected(q)}}
          BY <3>1, <3>2 DEF Connected
        <4>2. QED
          BY <1>2, <2>2, <4>1 DEF RemovePeers, Close
      <3>3. QED
        BY <1>2, <3>1, <3>2 DEF RemovePeers, TypeOK
    <2>3. QED
      BY <2>1, <2>2 DEF PeersAreOpen, Connected
  <1>3. ASSUME NEW c \in Calls, NEW o \in Streams, DialedFirst(c, o)
        PROVE  PeersAreOpen'
    BY <1>3 DEF DialedFirst, AddPeer, PeersAreOpen, Connected, TypeOK, Bookkeeping
  <1>4. ASSUME NEW p \in Peers, NEW i \in Readers, NEW o \in Streams,
               IncomingStream(p, i, o)
        PROVE  PeersAreOpen'
    BY <1>4 DEF IncomingStream, AddPeer, PeersAreOpen, Connected, TypeOK, Bookkeeping
  <1>5. ASSUME NEW i \in Readers, LoopFails(i) PROVE PeersAreOpen'
    BY <1>2, <1>5 DEF LoopFails, Bookkeeping
  <1>6. QED
    BY <1>1, <1>2, <1>3, <1>4, <1>5
       DEF Next, vars, lifeVars, psVars, callVars, loopVars, Dialed, Start,
           StartDone, Stop, StopDone, Subscribe, Unsubscribe, PeerConnected,
           PeerDisconnected, DialedAgain, DialFailed, AttachResumes, Greet,
           RawEnds, PushableReturned, ReadSettles, ReadAborted, ProcessChunk,
           ProcessRpc

\* After entries have been removed, an object still has the outbound stream it
\* had or has none; a call that is still somebody's outbound stream was not
\* touched, as only the outbound streams of the removed objects end.
LEMMA OutboundKept ==
  ASSUME TypeOK, OutboundIsLive, NEW P \in SUBSET Peers, RemovePeers(P),
         NEW o \in Streams, outbound'[o] # NoCall
  PROVE  /\ outbound'[o] = outbound[o]
         /\ ended'[outbound[o]] = ended[outbound[o]]
         /\ o \notin {peers[p] : p \in {q \in P : Connected(q)}}
  <1> DEFINE S == {peers[p] : p \in {q \in P : Connected(q)}}
  <1>1. o \notin S /\ outbound'[o] = outbound[o]
    BY DEF RemovePeers, Close, TypeOK
  <1>2. S \subseteq Streams
    BY DEF TypeOK, Connected
  <1>3. \A d \in S : outbound[d] # outbound[o]
    BY <1>1, <1>2 DEF OutboundIsLive
  <1>4. outbound[o] \in Calls
    BY <1>1 DEF TypeOK
  <1>5. /\ open' = [c \in Calls |-> open[c] /\ ~ \E d \in S : outbound[d] = c]
        /\ ended' = [c \in Calls |-> ended[c] \/ \E d \in S : outbound[d] = c]
    BY DEF RemovePeers, Close, EndOutbound
  <1>6. QED
    BY <1>1, <1>3, <1>4, <1>5, Zenon DEF TypeOK

\* A pushable stays live for as long as it is the outbound stream of its
\* object.
LEMMA OutboundIsLiveStep == ASSUME PubsubInv, [Next]_vars PROVE OutboundIsLive'
  <1> USE PubsubAssumption DEF PubsubInv
  <1>1. CASE UNCHANGED <<outbound, target, ended, pc>>
    BY <1>1 DEF OutboundIsLive
  <1>2. ASSUME NEW P \in SUBSET Peers, RemovePeers(P), UNCHANGED <<target, pc>>
        PROVE  OutboundIsLive'
    BY <1>2, OutboundKept DEF OutboundIsLive
  <1>3. ASSUME NEW p \in Peers, NEW c \in Calls, PeerConnected(p, c)
        PROVE  OutboundIsLive'
    BY <1>3 DEF PeerConnected, callVars, psVars, OutboundIsLive, TypeOK
  <1>4. ASSUME NEW c \in Calls, NEW o \in Streams, DialedFirst(c, o)
        PROVE  OutboundIsLive'
    BY <1>4 DEF DialedFirst, Attach, OutboundIsLive, TypeOK, Bookkeeping
  <1>5. ASSUME NEW c \in Calls, NEW o \in Streams, DialedAgain(c, o)
        PROVE  OutboundIsLive'
    BY <1>5 DEF DialedAgain, OutboundIsLive, TypeOK, Bookkeeping
  <1>6. ASSUME NEW c \in Calls, AttachResumes(c) PROVE OutboundIsLive'
    BY <1>6 DEF AttachResumes, Attach, OutboundIsLive, TypeOK, Bookkeeping
  <1>7. ASSUME NEW c \in Calls, DialFailed(c) \/ Greet(c) PROVE OutboundIsLive'
    BY <1>7 DEF DialFailed, Greet, psVars, OutboundIsLive, TypeOK
  <1>8. ASSUME NEW c \in Calls, PushableReturned(c) PROVE OutboundIsLive'
    BY <1>8 DEF PushableReturned, OutboundIsLive, TypeOK, Bookkeeping
  <1>9. ASSUME NEW i \in Readers, LoopFails(i) PROVE OutboundIsLive'
    BY <1>2, <1>9 DEF LoopFails, Bookkeeping
  <1>10. QED
    BY <1>1, <1>2, <1>3, <1>4, <1>5, <1>6, <1>7, <1>8, <1>9
       DEF Next, vars, lifeVars, psVars, callVars, loopVars, Dialed, Start,
           StartDone, Stop, StopDone, Subscribe, Unsubscribe, PeerDisconnected,
           IncomingStream, RawEnds, ReadSettles, ReadAborted, ProcessChunk,
           ProcessRpc

\* The outbound stream of a peer's entry belongs to that entry alone, and was
\* dialled for that peer.
LEMMA SentOnOnce ==
  ASSUME PubsubInv, NEW p \in Peers, Writable(p)
  PROVE  /\ outbound[peers[p]] \in Calls
         /\ pc[outbound[peers[p]]] \in {"attached", "done"}
         /\ remote[outbound[peers[p]]] = p
         /\ \A P \in SUBSET Peers :
               p \in P => outbound[peers[p]] \in SentOn(P)
  BY DEF PubsubInv, TypeOK, Bookkeeping, PeersAreOpen, OutboundIsLive,
         Connected, Writable, SentOn

\* The entries that are left after a removal are as they were.
LEMMA WritableKept ==
  ASSUME PubsubInv, NEW P \in SUBSET Peers, RemovePeers(P),
         NEW p \in Peers, Writable(p)'
  PROVE  /\ p \notin P
         /\ Writable(p)
         /\ outbound'[peers'[p]] = outbound[peers[p]]
  <1>1. p \notin P /\ peers'[p] = peers[p] /\ peers[p] \in Streams
    BY DEF RemovePeers, Writable, Connected, PubsubInv, TypeOK
  <1>2. QED
    BY <1>1, OutboundKept DEF Writable, Connected, PubsubInv

\* Subscriptions, greetings and streams stay in step.
LEMMA AnnouncedStep == ASSUME PubsubInv, [Next]_vars PROVE AnnouncedInFull'
  <1> USE PubsubAssumption DEF PubsubInv
  <1>1. CASE UNCHANGED <<peers, outbound, told, pc, subscriptions>>
    BY <1>1 DEF AnnouncedInFull, Writable, Connected
  <1>2. ASSUME NEW P \in SUBSET Peers, RemovePeers(P),
               UNCHANGED <<told, pc, subscriptions>>
        PROVE  AnnouncedInFull'
    BY <1>2, WritableKept DEF AnnouncedInFull
  <1>3. CASE StopDone
    BY <1>3, WritableKept DEF StopDone, AnnouncedInFull
  <1>4. ASSUME NEW t \in Topics, Subscribe(t) \/ Unsubscribe(t)
        PROVE  AnnouncedInFull'
    <2> SUFFICES ASSUME NEW p \in Peers, Writable(p)'
                 PROVE  LET c == outbound'[peers'[p]]
                        IN  /\ told'[c] \subseteq subscriptions'
                            /\ pc'[c] = "done" => told'[c] = subscriptions'
      BY DEF AnnouncedInFull
    <2>1. UNCHANGED <<peers, outbound, pc>> /\ Writable(p)
      BY <1>4 DEF Subscribe, Unsubscribe, psVars, Writable, Connected
    <2>2. outbound[peers[p]] \in SentOn(Peers) /\ outbound[peers[p]] \in Calls
      BY <2>1, SentOnOnce
    <2>3. CASE Subscribe(t)
      <3>1. told'[outbound[peers[p]]] = told[outbound[peers[p]]] \cup {t}
        BY <2>2, <2>3 DEF Subscribe
      <3>2. QED
        BY <2>1, <2>3, <3>1 DEF Subscribe, AnnouncedInFull
    <2>4. CASE Unsubscribe(t)
      <3>1. told'[outbound[peers[p]]] = told[outbound[peers[p]]] \ {t}
        BY <2>2, <2>4 DEF Unsubscribe
      <3>2. QED
        BY <2>1, <2>4, <3>1 DEF Unsubscribe, AnnouncedInFull
    <2>5. QED
      BY <1>4, <2>3, <2>4
  <1>5. ASSUME NEW p \in Peers, NEW c \in Calls, PeerConnected(p, c)
        PROVE  AnnouncedInFull'
    BY <1>5, SentOnOnce
       DEF PeerConnected, psVars, AnnouncedInFull, TypeOK, Writable, Connected
  <1>6. ASSUME NEW c \in Calls, NEW o \in Streams, DialedFirst(c, o)
        PROVE  AnnouncedInFull'
    BY <1>6, SentOnOnce DEF DialedFirst, AddPeer, Attach, AnnouncedInFull, TypeOK,
       Bookkeeping, Writable, Connected, PeersAreOpen
  <1>7. ASSUME NEW c \in Calls, NEW o \in Streams, DialedAgain(c, o)
        PROVE  AnnouncedInFull'
    BY <1>7, SentOnOnce
       DEF DialedAgain, AnnouncedInFull, TypeOK, Writable, Connected
  <1>8. ASSUME NEW c \in Calls, AttachResumes(c) PROVE AnnouncedInFull'
    BY <1>8, SentOnOnce DEF AttachResumes, Attach, AnnouncedInFull, TypeOK,
       Bookkeeping, Writable, Connected
  <1>9. ASSUME NEW c \in Calls, DialFailed(c) \/ Greet(c) PROVE AnnouncedInFull'
    <2> SUFFICES ASSUME NEW p \in Peers, Writable(p)'
                 PROVE  LET d == outbound'[peers'[p]]
                        IN  /\ told'[d] \subseteq subscriptions'
                            /\ pc'[d] = "done" => told'[d] = subscriptions'
      BY DEF AnnouncedInFull
    <2>1. UNCHANGED <<peers, outbound, subscriptions>> /\ Writable(p)
      BY <1>9 DEF DialFailed, Greet, psVars, Writable, Connected
    <2>2. SendSubscriptions(remote[c]) /\ pc' = [pc EXCEPT ![c] = "done"]
      BY <1>9 DEF DialFailed, Greet
    <2>3. CASE outbound[peers[p]] = c
      <3>1. remote[c] = p /\ c \in SentOn({p})
        BY <2>1, <2>3, SentOnOnce
      <3>2. QED
        BY <2>1, <2>2, <2>3, <3>1 DEF SendSubscriptions, AnnouncedInFull, TypeOK
    <2>4. CASE outbound[peers[p]] # c
      BY <2>1, <2>2, <2>4, SentOnOnce DEF SendSubscriptions, AnnouncedInFull, TypeOK
    <2>5. QED
      BY <2>3, <2>4
  <1>10. ASSUME NEW c \in Calls, PushableReturned(c) PROVE AnnouncedInFull'
    BY <1>10 DEF PushableReturned, AnnouncedInFull, TypeOK, Writable, Connected
  <1>11. ASSUME NEW p \in Peers, NEW i \in Readers, NEW o \in Streams,
                IncomingStream(p, i, o)
         PROVE  AnnouncedInFull'
    BY <1>11 DEF IncomingStream, AddPeer, callVars, AnnouncedInFull, TypeOK,
       Bookkeeping, Writable, Connected
  <1>12. ASSUME NEW i \in Readers, LoopFails(i) PROVE AnnouncedInFull'
    BY <1>2, <1>12 DEF LoopFails, Bookkeeping
  <1>13. QED
    BY <1>1, <1>2, <1>3, <1>4, <1>5, <1>6, <1>7, <1>8, <1>9, <1>10, <1>11, <1>12
       DEF Next, vars, lifeVars, psVars, callVars, loopVars, Dialed, Start,
           StartDone, Stop, PeerDisconnected, RawEnds, ReadSettles,
           ReadAborted, ProcessChunk, ProcessRpc

\* A loop and the object it reads for are never parted, and closing an object
\* that has loops aborts them.
LEMMA ReadersStep == ASSUME PubsubInv, [Next]_vars PROVE ClosedReadersAborted'
  <1> USE PubsubAssumption DEF PubsubInv
  <1>1. CASE UNCHANGED <<reading, source, closed, aborted>>
    BY <1>1 DEF ClosedReadersAborted
  <1>2. ASSUME NEW P \in SUBSET Peers, RemovePeers(P), UNCHANGED source,
               \A i \in Readers : reading'[i] # "unused" => reading[i] # "unused"
        PROVE  ClosedReadersAborted'
    BY <1>2 DEF RemovePeers, Close, ClosedReadersAborted, TypeOK, Bookkeeping
  <1>3. ASSUME NEW p \in Peers, NEW i \in Readers, NEW o \in Streams,
               IncomingStream(p, i, o)
        PROVE  ClosedReadersAborted'
    BY <1>3 DEF IncomingStream, AddPeer, ClosedReadersAborted, TypeOK,
       Bookkeeping, PeersAreOpen, Connected
  <1>4. ASSUME NEW i \in Readers,
               ReadSettles(i) \/ ReadAborted(i) \/ ProcessChunk(i)
        PROVE  ClosedReadersAborted'
    BY <1>4 DEF ReadSettles, ReadAborted, ProcessChunk, ProcessRpc, psVars,
       ClosedReadersAborted, TypeOK
  <1>5. ASSUME NEW i \in Readers, LoopFails(i) PROVE ClosedReadersAborted'
    <2>1. RemovePeers({owner[source[i]]}) /\ owner[source[i]] \in Peers
      BY <1>5 DEF LoopFails, Bookkeeping
    <2>2. QED
      BY <1>2, <1>5, <2>1 DEF LoopFails, TypeOK
  <1>6. QED
    BY <1>1, <1>2, <1>3, <1>4, <1>5
       DEF Next, vars, lifeVars, psVars, callVars, loopVars, Dialed, Start,
           StartDone, Stop, StopDone, Subscribe, Unsubscribe, PeerConnected,
           PeerDisconnected, DialedFirst, DialedAgain, DialFailed,
           AttachResumes, Greet, RawEnds, PushableReturned

\* Only start() and stop() touch the registration.
LEMMA StartedStep == ASSUME PubsubInv, [Next]_vars PROVE StartedIsRegistered'
  <1> USE DEF PubsubInv, StartedIsRegistered, Bookkeeping, TypeOK
  <1>1. CASE UNCHANGED lifeVars
    BY <1>1 DEF lifeVars
  <1>2. CASE Start \/ StartDone
    BY <1>2 DEF Start, StartDone
  <1>3. CASE Stop
    <2>1. stopping' # 0
      BY <1>3 DEF Stop
    <2>2. QED
      BY <2>1
  <1>4. CASE StopDone
    BY <1>4 DEF StopDone
  <1>5. QED
    BY <1>1, <1>2, <1>3, <1>4
       DEF Next, vars, Dialed, Subscribe, Unsubscribe, PeerConnected,
           PeerDisconnected, DialedFirst, DialedAgain, DialFailed,
           AttachResumes, Greet, RawEnds, PushableReturned, IncomingStream,
           ReadSettles, ReadAborted, ProcessChunk, ProcessRpc, LoopFails

\* The bookkeeping of objects, calls and loops, part by part.
LEMMA BookkeepingStep == ASSUME PubsubInv, [Next]_vars PROVE Bookkeeping'
  <1> USE PubsubAssumption DEF PubsubInv, TypeOK, Bookkeeping, lifeVars, psVars,
      callVars, loopVars
  <1>1. CASE Start \/ StartDone \/ Stop
    BY <1>1 DEF Start, StartDone, Stop
  <1>2. ASSUME NEW P \in SUBSET Peers, RemovePeers(P),
               UNCHANGED <<pc, remote, target, told, source>>,
               starting' => ~ started' /\ handled',
               \A i \in Readers : reading'[i] # "unused" => reading[i] # "unused"
        PROVE  Bookkeeping'
    <2>1. \A o \in Streams : owner[o] = NoPeer =>
             o \notin {peers[p] : p \in {q \in P : Connected(q)}}
      BY <1>2 DEF PeersAreOpen
    <2>2. \A c \in Calls : pc[c] \notin {"attached", "done"} =>
             open'[c] = open[c] /\ ended'[c] = ended[c]
      BY <1>2 DEF RemovePeers, Close, EndOutbound, OutboundIsLive, Connected
    <2>3. \A c \in Calls : open'[c] => open[c]
      BY <1>2 DEF RemovePeers, Close, EndOutbound
    <2>4. \A o \in Streams : ~ closed'[o] =>
             ~ closed[o] /\ readable'[o] = readable[o] /\ owner' = owner
      BY <1>2 DEF RemovePeers, Close
    <2>5. \A o \in Streams : owner'[o] = NoPeer =>
             ~ closed'[o] /\ outbound'[o] = NoCall /\ ~ readable'[o]
      BY <1>2, <2>1 DEF RemovePeers, Close
    <2>6. \A i \in Readers : reading'[i] # "unused" =>
             /\ source'[i] \in Streams
             /\ owner'[source'[i]] \in Peers
             /\ ~ closed'[source'[i]] => readable'[source'[i]]
      BY <1>2, <2>4 DEF RemovePeers
    <2>7. owner' = owner
      BY <1>2 DEF RemovePeers
    <2>8. QED
      BY <1>2, <2>2, <2>3, <2>5, <2>6, <2>7
  <1>3. CASE StopDone
    BY <1>2, <1>3 DEF StopDone
  <1>4. ASSUME NEW t \in Topics, Subscribe(t) \/ Unsubscribe(t) PROVE Bookkeeping'
    BY <1>4 DEF Subscribe, Unsubscribe, SentOn, Writable, Connected, OutboundIsLive
  <1>5. ASSUME NEW p \in Peers, NEW c \in Calls, PeerConnected(p, c)
        PROVE  Bookkeeping'
    BY <1>5 DEF PeerConnected
  <1>6. ASSUME NEW p \in Peers, PeerDisconnected(p) PROVE Bookkeeping'
    BY <1>2, <1>6 DEF PeerDisconnected
  <1>7. ASSUME NEW c \in Calls, NEW o \in Streams, DialedFirst(c, o)
        PROVE  Bookkeeping'
    BY <1>7 DEF DialedFirst, AddPeer, Attach, Connected, PeersAreOpen
  <1>8. ASSUME NEW c \in Calls, NEW o \in Streams, DialedAgain(c, o)
        PROVE  Bookkeeping'
    BY <1>8 DEF DialedAgain, Connected, PeersAreOpen, OutboundIsLive
  <1>9. ASSUME NEW c \in Calls, AttachResumes(c) PROVE Bookkeeping'
    BY <1>9 DEF AttachResumes, Attach
  <1>10. ASSUME NEW c \in Calls, DialFailed(c) \/ Greet(c) PROVE Bookkeeping'
    BY <1>10 DEF DialFailed, Greet, SendSubscriptions, SentOn, Writable,
       Connected, OutboundIsLive
  <1>11. ASSUME NEW c \in Calls, RawEnds(c) \/ PushableReturned(c)
         PROVE  Bookkeeping'
    <2>1. CASE RawEnds(c)
      BY <2>1 DEF RawEnds
    <2>2. CASE PushableReturned(c)
      BY <2>2 DEF PushableReturned
    <2>3. QED
      BY <1>11, <2>1, <2>2
  <1>12. ASSUME NEW p \in Peers, NEW i \in Readers, NEW o \in Streams,
                IncomingStream(p, i, o)
         PROVE  Bookkeeping'
    BY <1>12 DEF IncomingStream, AddPeer, Connected, PeersAreOpen
  <1>13. ASSUME NEW i \in Readers,
                ReadSettles(i) \/ ReadAborted(i) \/ ProcessChunk(i)
         PROVE  Bookkeeping'
    BY <1>13 DEF ReadSettles, ReadAborted, ProcessChunk, ProcessRpc
  <1>14. ASSUME NEW i \in Readers, LoopFails(i) PROVE Bookkeeping'
    BY <1>2, <1>14 DEF LoopFails
  <1>15. CASE UNCHANGED vars
    BY <1>15 DEF vars
  <1>16. QED
    BY <1>1, <1>3, <1>4, <1>5, <1>6, <1>7, <1>8, <1>9, <1>10, <1>11, <1>12,
       <1>13, <1>14, <1>15 DEF Next, Dialed

-----------------------------------------------------------------------------
(* The theorems.                                                           *)

\* The inductive invariant holds of every behaviour of the node.
THEOREM Correct == Spec => []PubsubInv
  <1>1. Init => PubsubInv
    BY InitInv
  <1>2. PubsubInv /\ [Next]_vars => PubsubInv'
    BY TypeStep, BookkeepingStep, PeersAreOpenStep, OutboundIsLiveStep,
       AnnouncedStep, ReadersStep, StartedStep DEF PubsubInv
  <1>3. QED
    BY <1>1, <1>2, PTL DEF Spec

\* Every variable keeps its type.
THEOREM TypeCorrect == Spec => []TypeOK
  BY Correct, PTL DEF PubsubInv

\* The objects, dials and loops agree: only a dial that goes on holds a stream
\* of its own, and a loop reads for an object that has a peer.
THEOREM BooksAgree == Spec => []Bookkeeping
  BY Correct, PTL DEF PubsubInv

\* The peer map holds, for each peer, the one PeerStreams that is not closed.
THEOREM PeerMapCorrect == Spec => []PeersAreOpen
  BY Correct, PTL DEF PubsubInv

\* A writable entry writes to a live pushable of its own: one whose onEnd has
\* not run, so that the write is taken.
THEOREM WritesAreTaken == Spec => []OutboundIsLive
  BY Correct, PTL DEF PubsubInv

\* A greeted peer has been sent exactly our subscriptions, whatever the order
\* in which dials, greetings, subscriptions and removals interleave.
THEOREM Announced == Spec => []AnnouncedInFull
  BY Correct, PTL DEF PubsubInv

\* No loop is left reading, unaborted, for a closed object.
THEOREM ReadersAborted == Spec => []ClosedReadersAborted
  BY Correct, PTL DEF PubsubInv

\* However many start() and stop() calls overlap, a node that is started and
\* not stopping is registered.
THEOREM Registered == Spec => []StartedIsRegistered
  BY Correct, PTL DEF PubsubInv

\* A step that takes away an entry makes the topics forget its peer.
THEOREM Forgotten == Spec => RemovalForgets
  <1> DEFINE Forget == \A p \in Peers : Connected(p) /\ peers'[p] # peers[p] =>
                          peers'[p] = NoStreams /\ \A t \in Topics : p \notin topics'[t]
  <1>1. ASSUME PubsubInv, NEW P \in SUBSET Peers, RemovePeers(P) PROVE Forget
    BY <1>1 DEF RemovePeers, PubsubInv, TypeOK
  <1>2. ASSUME PubsubInv, NEW i \in Readers, LoopFails(i) PROVE Forget
    BY <1>1, <1>2 DEF LoopFails, PubsubInv, Bookkeeping
  <1>3. PubsubInv /\ [Next]_vars => [Forget]_vars
    <2> SUFFICES ASSUME PubsubInv, [Next]_vars PROVE Forget
      OBVIOUS
    <2>1. CASE UNCHANGED peers
      BY <2>1
    <2>2. ASSUME NEW c \in Calls, NEW o \in Streams, DialedFirst(c, o) PROVE Forget
      BY <2>2 DEF DialedFirst, AddPeer, PubsubInv, TypeOK
    <2>3. ASSUME NEW p \in Peers, NEW i \in Readers, NEW o \in Streams,
                 IncomingStream(p, i, o)
          PROVE  Forget
      BY <2>3 DEF IncomingStream, AddPeer, PubsubInv, TypeOK
    <2>4. QED
      BY <1>1, <1>2, <2>1, <2>2, <2>3
         DEF Next, vars, lifeVars, psVars, callVars, loopVars, Dialed, Start,
             StartDone, Stop, StopDone, Subscribe, Unsubscribe, PeerConnected,
             PeerDisconnected, DialedAgain, DialFailed, AttachResumes, Greet,
             RawEnds, PushableReturned, ReadSettles, ReadAborted, ProcessChunk,
             ProcessRpc
  <1>4. QED
    BY <1>3, Correct, PTL DEF Spec, RemovalForgets

-----------------------------------------------------------------------------
(* PubsubNode implements PubsubFeed: PubsubInv lets every step of the node   *)
(* be read as one step of the feeds, or as none.                             *)

\* The feeds depend on nothing but the map, the outbound streams, where the
\* calls are and what was pushed.
LEMMA FeedFrame ==
  ASSUME UNCHANGED <<peers, outbound, pc, told>>
  PROVE  UNCHANGED <<FeedStage, FeedSaid>>
  BY DEF FeedStage, FeedSaid, Writable, Connected

\* What the mapping says of one peer, before and after a step.
LEMMA FeedStageOf ==
  ASSUME NEW p \in Peers
  PROVE  /\ FeedStage[p] = IF ~ Writable(p) THEN "down"
                           ELSE IF pc[outbound[peers[p]]] = "done" THEN "live"
                           ELSE "open"
         /\ FeedSaid[p] = IF Writable(p) THEN told[outbound[peers[p]]] ELSE {}
         /\ FeedStage'[p] = IF ~ Writable(p)' THEN "down"
                            ELSE IF pc'[outbound'[peers'[p]]] = "done" THEN "live"
                            ELSE "open"
         /\ FeedSaid'[p] = IF Writable(p)' THEN told'[outbound'[peers'[p]]] ELSE {}
  BY DEF FeedStage, FeedSaid

\* One peer's outbound stream changes, the others keep theirs.
LEMMA OneFeed ==
  ASSUME NEW p \in Peers,
         \A q \in Peers \ {p} : FeedStage'[q] = FeedStage[q] /\ FeedSaid'[q] = FeedSaid[q]
  PROVE  /\ FeedStage' = [FeedStage EXCEPT ![p] = FeedStage'[p]]
         /\ FeedSaid' = [FeedSaid EXCEPT ![p] = FeedSaid'[p]]
  <1>1. /\ FeedStage = [q \in Peers |-> FeedStage[q]]
        /\ FeedSaid = [q \in Peers |-> FeedSaid[q]]
        /\ FeedStage' = [q \in Peers |-> FeedStage'[q]]
        /\ FeedSaid' = [q \in Peers |-> FeedSaid'[q]]
    BY DEF FeedStage, FeedSaid
  <1>2. QED
    BY <1>1

\* Feeds that agree for every peer are the same feeds.
LEMMA SameFeeds ==
  ASSUME \A q \in Peers : FeedStage'[q] = FeedStage[q] /\ FeedSaid'[q] = FeedSaid[q]
  PROVE  UNCHANGED <<FeedStage, FeedSaid>>
  <1>1. /\ FeedStage = [q \in Peers |-> FeedStage[q]]
        /\ FeedSaid = [q \in Peers |-> FeedSaid[q]]
        /\ FeedStage' = [q \in Peers |-> FeedStage'[q]]
        /\ FeedSaid' = [q \in Peers |-> FeedSaid'[q]]
    BY DEF FeedStage, FeedSaid
  <1>2. QED
    BY <1>1

\* Taking a peer's outbound stream away, whatever the cause, drops its feed.
LEMMA DropStep ==
  ASSUME NEW p \in Peers, ~ Writable(p)', UNCHANGED subscriptions,
         \A q \in Peers \ {p} : FeedStage'[q] = FeedStage[q] /\ FeedSaid'[q] = FeedSaid[q]
  PROVE  Feed!Drop(p)
  <1>1. FeedStage'[p] = "down" /\ FeedSaid'[p] = {}
    BY FeedStageOf
  <1>2. /\ FeedStage' = [q \in Peers |-> FeedStage'[q]]
        /\ FeedSaid' = [q \in Peers |-> FeedSaid'[q]]
    BY DEF FeedStage, FeedSaid
  <1>3. /\ FeedStage' = [q \in Peers |-> IF q \in {p} THEN "down" ELSE FeedStage[q]]
        /\ FeedSaid' = [q \in Peers |-> IF q \in {p} THEN {} ELSE FeedSaid[q]]
    BY <1>1, <1>2
  <1>4. QED
    BY <1>3 DEF Feed!Drop, Feed!Down

\* A new outbound stream for one peer opens its feed.
LEMMA OpenStep ==
  ASSUME NEW p \in Peers, FeedStage'[p] = "open", FeedSaid'[p] = {},
         UNCHANGED subscriptions,
         \A q \in Peers \ {p} : FeedStage'[q] = FeedStage[q] /\ FeedSaid'[q] = FeedSaid[q]
  PROVE  Feed!Open(p)
  BY OneFeed DEF Feed!Open

\* An object is the entry of at most the peer that owns it.
LEMMA EntryOf ==
  ASSUME PubsubInv, NEW q \in Peers, Connected(q)
  PROVE  peers[q] \in Streams /\ owner[peers[q]] = q
  BY DEF PubsubInv, TypeOK, PeersAreOpen, Connected

\* Removing entries leaves the feeds of the other peers alone.
LEMMA RemoveFeeds ==
  ASSUME PubsubInv, NEW P \in SUBSET Peers, RemovePeers(P), UNCHANGED <<pc, told>>
  PROVE  \A q \in Peers :
           /\ q \in P => ~ Writable(q)'
           /\ q \notin P => FeedStage'[q] = FeedStage[q] /\ FeedSaid'[q] = FeedSaid[q]
  <1> SUFFICES ASSUME NEW q \in Peers
               PROVE  /\ q \in P => ~ Writable(q)'
                      /\ q \notin P => /\ FeedStage'[q] = FeedStage[q]
                                       /\ FeedSaid'[q] = FeedSaid[q]
    OBVIOUS
  <1>1. q \in P => ~ Writable(q)'
    BY WritableKept
  <1>2. q \notin P => Writable(q)' = Writable(q)
    <2> SUFFICES ASSUME q \notin P PROVE Writable(q)' = Writable(q)
      OBVIOUS
    <2>1. peers'[q] = peers[q]
      BY DEF RemovePeers, PubsubInv, TypeOK
    <2>2. Connected(q) => /\ peers[q] \notin {peers[r] : r \in {s \in P : Connected(s)}}
                          /\ peers[q] \in Streams
      BY DEF PubsubInv, PeersAreOpen, Connected, TypeOK
    <2>3. Connected(q) => outbound'[peers[q]] = outbound[peers[q]]
      BY <2>2 DEF RemovePeers, Close
    <2>4. QED
      BY <2>1, <2>3 DEF Writable, Connected
  <1>3. Writable(q)' => outbound'[peers'[q]] = outbound[peers[q]]
    BY WritableKept
  <1>4. QED
    BY <1>1, <1>2, <1>3, FeedStageOf

\* The initial state of the node maps to the initial feeds.
LEMMA FeedInit == Init => Feed!Init
  BY DEF Init, Feed!Init, FeedStage, FeedSaid, Writable, Connected

\* Every step of the node is a step of the feeds or leaves them unchanged.
LEMMA FeedStep == ASSUME PubsubInv, [Next]_vars PROVE [Feed!Next]_(Feed!vars)
  <1> DEFINE Unchanged == UNCHANGED <<subscriptions, FeedStage, FeedSaid>>
             Goal == Feed!Next \/ Unchanged
  <1> SUFFICES Goal
    BY DEF Feed!vars
  <1> USE PubsubAssumption
  <1>1. CASE UNCHANGED <<subscriptions, peers, outbound, pc, told>>
    BY <1>1, FeedFrame
  <1>2. ASSUME NEW p \in Peers, RemovePeers({p}), UNCHANGED <<subscriptions, pc, told>>
        PROVE  Goal
    BY <1>2, RemoveFeeds, DropStep DEF Feed!Next
  <1>3. CASE StopDone
    <2>1. \A q \in Peers : FeedStage'[q] = "down" /\ FeedSaid'[q] = {}
      BY <1>3, RemoveFeeds, FeedStageOf DEF StopDone
    <2>2. /\ FeedStage' = [q \in Peers |-> FeedStage'[q]]
          /\ FeedSaid' = [q \in Peers |-> FeedSaid'[q]]
      BY DEF FeedStage, FeedSaid
    <2>3. Feed!Stop
      BY <1>3, <2>1, <2>2 DEF StopDone, Feed!Stop, Feed!Down
    <2>4. QED
      BY <2>3 DEF Feed!Next
  <1>4. ASSUME NEW t \in Topics, Subscribe(t) \/ Unsubscribe(t) PROVE Goal
    <2>1. UNCHANGED <<peers, outbound, pc>>
      BY <1>4 DEF Subscribe, Unsubscribe, psVars
    <2>2. \A q \in Peers : Writable(q)' = Writable(q) /\ FeedStage'[q] = FeedStage[q]
      BY <2>1, FeedStageOf DEF Writable, Connected
    <2>3. UNCHANGED FeedStage
      BY <2>1 DEF FeedStage, Writable, Connected
    <2>4. CASE Subscribe(t)
      <3>1. \A q \in Peers : FeedSaid'[q] = IF FeedStage[q] = "down" THEN {}
                                            ELSE FeedSaid[q] \cup {t}
        <4> SUFFICES ASSUME NEW q \in Peers
                     PROVE  FeedSaid'[q] = IF FeedStage[q] = "down" THEN {}
                                           ELSE FeedSaid[q] \cup {t}
          OBVIOUS
        <4>1. Writable(q) => told'[outbound[peers[q]]] = told[outbound[peers[q]]] \cup {t}
          BY <2>4, SentOnOnce DEF Subscribe
        <4>2. QED
          BY <2>1, <2>2, <4>1, FeedStageOf
      <3>2. FeedSaid' = [q \in Peers |-> FeedSaid'[q]]
        BY DEF FeedSaid
      <3>3. Feed!Subscribe(t)
        BY <2>3, <2>4, <3>1, <3>2 DEF Subscribe, Feed!Subscribe, Feed!Say
      <3>4. QED
        BY <3>3 DEF Feed!Next
    <2>5. CASE Unsubscribe(t)
      <3>1. \A q \in Peers : FeedSaid'[q] = IF FeedStage[q] = "down" THEN {}
                                            ELSE FeedSaid[q] \ {t}
        <4> SUFFICES ASSUME NEW q \in Peers
                     PROVE  FeedSaid'[q] = IF FeedStage[q] = "down" THEN {}
                                           ELSE FeedSaid[q] \ {t}
          OBVIOUS
        <4>1. Writable(q) => told'[outbound[peers[q]]] = told[outbound[peers[q]]] \ {t}
          BY <2>5, SentOnOnce DEF Unsubscribe
        <4>2. QED
          BY <2>1, <2>2, <4>1, FeedStageOf
      <3>2. FeedSaid' = [q \in Peers |-> FeedSaid'[q]]
        BY DEF FeedSaid
      <3>3. Feed!Unsubscribe(t)
        BY <2>3, <2>5, <3>1, <3>2 DEF Unsubscribe, Feed!Unsubscribe, Feed!Say
      <3>4. QED
        BY <3>3 DEF Feed!Next
    <2>6. QED
      BY <1>4, <2>4, <2>5
  <1>5. ASSUME NEW p \in Peers, NEW c \in Calls, PeerConnected(p, c) PROVE Goal
    <2>1. UNCHANGED <<subscriptions, peers, outbound, told>>
      BY <1>5 DEF PeerConnected, psVars
    <2>2. \A q \in Peers : Writable(q) =>
             (pc'[outbound[peers[q]]] = "done" <=> pc[outbound[peers[q]]] = "done")
      BY <1>5, SentOnOnce DEF PeerConnected, PubsubInv, TypeOK
    <2>3. UNCHANGED <<FeedStage, FeedSaid>>
      BY <2>1, <2>2 DEF FeedStage, FeedSaid, Writable, Connected
    <2>4. QED
      BY <2>1, <2>3
  <1>6. ASSUME NEW c \in Calls, NEW o \in Streams, DialedFirst(c, o) PROVE Goal
    <2>1. remote[c] \in Peers
      BY <1>6 DEF DialedFirst, PubsubInv, Bookkeeping
    <2>2. /\ peers'[remote[c]] = o /\ outbound'[o] = c /\ pc'[c] = "attached"
          /\ told' = told /\ told[c] = {}
      BY <1>6, <2>1 DEF DialedFirst, Attach, PubsubInv, TypeOK, Bookkeeping
    <2>3. FeedStage'[remote[c]] = "open" /\ FeedSaid'[remote[c]] = {}
      BY <2>1, <2>2, FeedStageOf, PubsubAssumption DEF Writable, Connected
    <2>4. ASSUME NEW q \in Peers \ {remote[c]}
          PROVE  FeedStage'[q] = FeedStage[q] /\ FeedSaid'[q] = FeedSaid[q]
      <3>1. peers'[q] = peers[q]
        BY <1>6 DEF DialedFirst, PubsubInv, TypeOK
      <3>2. Connected(q) => peers[q] # o /\ outbound'[peers[q]] = outbound[peers[q]]
        BY <1>6, <2>1, EntryOf
           DEF DialedFirst, AddPeer, Attach, PubsubInv, TypeOK
      <3>3. Writable(q) => pc'[outbound[peers[q]]] = pc[outbound[peers[q]]]
        BY <1>6, SentOnOnce DEF DialedFirst, PubsubInv, TypeOK
      <3>4. QED
        BY <2>2, <3>1, <3>2, <3>3, FeedStageOf DEF Writable, Connected
    <2>5. QED
      BY <1>6, <2>1, <2>3, <2>4, OpenStep DEF DialedFirst, Feed!Next
  <1>7. ASSUME NEW c \in Calls, NEW o \in Streams, DialedAgain(c, o) PROVE Goal
    <2>1. remote[c] \in Peers
      BY <1>7 DEF DialedAgain, PubsubInv, Bookkeeping
    <2>2. ~ Writable(remote[c])'
      BY <1>7 DEF DialedAgain, Writable, PubsubInv, TypeOK
    <2>3. ASSUME NEW q \in Peers \ {remote[c]}
          PROVE  FeedStage'[q] = FeedStage[q] /\ FeedSaid'[q] = FeedSaid[q]
      <3>1. Connected(q) => outbound'[peers[q]] = outbound[peers[q]]
        BY <1>7, <2>1, EntryOf DEF DialedAgain, PubsubInv, TypeOK
      <3>2. Writable(q) => pc'[outbound[peers[q]]] = pc[outbound[peers[q]]]
        BY <1>7, SentOnOnce DEF DialedAgain, PubsubInv, TypeOK
      <3>3. peers' = peers /\ told' = told
        BY <1>7 DEF DialedAgain
      <3>4. QED
        BY <3>1, <3>2, <3>3, FeedStageOf DEF Writable, Connected
    <2>4. QED
      BY <1>7, <2>1, <2>2, <2>3, DropStep DEF DialedAgain, Feed!Next
  <1>8. ASSUME NEW c \in Calls, AttachResumes(c) PROVE Goal
    <2> DEFINE p == remote[c]
    <2>1. p \in Peers /\ target[c] \in Streams /\ owner[target[c]] = p /\ told[c] = {}
      BY <1>8 DEF AttachResumes, PubsubInv, TypeOK, Bookkeeping
    <2>2. /\ outbound'[target[c]] = c /\ pc'[c] = "attached"
          /\ peers' = peers /\ told' = told /\ subscriptions' = subscriptions
      BY <1>8, <2>1 DEF AttachResumes, Attach, PubsubInv, TypeOK
    <2>3. ASSUME NEW q \in Peers, peers[q] # target[c]
          PROVE  FeedStage'[q] = FeedStage[q] /\ FeedSaid'[q] = FeedSaid[q]
      <3>1. Connected(q) => outbound'[peers[q]] = outbound[peers[q]]
        BY <1>8, <2>3, EntryOf DEF AttachResumes, Attach, PubsubInv, TypeOK
      <3>2. Writable(q) => pc'[outbound[peers[q]]] = pc[outbound[peers[q]]]
        BY <1>8, SentOnOnce DEF AttachResumes, PubsubInv, TypeOK
      <3>3. QED
        BY <2>2, <3>1, <3>2, FeedStageOf DEF Writable, Connected
    <2>4. CASE peers[p] = target[c]
      <3>1. FeedStage'[p] = "open" /\ FeedSaid'[p] = {}
        BY <2>1, <2>2, <2>4, FeedStageOf, PubsubAssumption DEF Writable, Connected
      <3>2. \A q \in Peers \ {p} : peers[q] # target[c]
        BY <2>1, EntryOf, PubsubAssumption DEF Connected
      <3>3. QED
        BY <2>1, <2>2, <2>3, <3>1, <3>2, OpenStep DEF Feed!Next
    <2>5. CASE peers[p] # target[c]
      <3>1. \A q \in Peers : peers[q] # target[c]
        BY <2>1, <2>5, EntryOf, PubsubAssumption DEF Connected
      <3>2. UNCHANGED <<FeedStage, FeedSaid>>
        <4>1. \A q \in Peers : FeedStage'[q] = FeedStage[q] /\ FeedSaid'[q] = FeedSaid[q]
          BY <2>3, <3>1
        <4>2. QED
          BY <4>1, SameFeeds
      <3>3. QED
        BY <2>2, <3>2
    <2>6. QED
      BY <2>4, <2>5
  <1>9. ASSUME NEW c \in Calls, DialFailed(c) \/ Greet(c) PROVE Goal
    <2> DEFINE p == remote[c]
    <2>1. p \in Peers
      BY <1>9 DEF DialFailed, Greet, PubsubInv, Bookkeeping
    <2>2. /\ UNCHANGED <<peers, outbound, subscriptions>>
          /\ SendSubscriptions(p) /\ pc' = [pc EXCEPT ![c] = "done"]
      BY <1>9 DEF DialFailed, Greet, psVars
    <2>3. \A q \in Peers : Writable(q)' = Writable(q)
      BY <2>2 DEF Writable, Connected
    <2>4. ASSUME NEW q \in Peers \ {p}
          PROVE  FeedStage'[q] = FeedStage[q] /\ FeedSaid'[q] = FeedSaid[q]
      <3>1. Writable(q) => /\ outbound[peers[q]] # c
                           /\ outbound[peers[q]] \notin SentOn({p})
        BY SentOnOnce, <2>1 DEF SentOn
      <3>2. Writable(q) => /\ pc'[outbound[peers[q]]] = pc[outbound[peers[q]]]
                           /\ told'[outbound[peers[q]]] = told[outbound[peers[q]]]
        BY <2>2, <3>1, SentOnOnce DEF SendSubscriptions, PubsubInv, TypeOK
      <3>3. QED
        BY <2>2, <2>3, <3>2, FeedStageOf
    <2>5. CASE Writable(p)
      <3> DEFINE d == outbound[peers[p]]
      <3>1. d \in Calls /\ d \in SentOn({p})
        BY <2>1, <2>5, SentOnOnce
      <3>2. told'[d] = subscriptions
        BY <2>1, <2>2, <2>5, <3>1 DEF SendSubscriptions, PubsubInv, AnnouncedInFull
      <3>3. pc'[d] = pc[d] \/ pc'[d] = "done"
        BY <2>2, <3>1 DEF PubsubInv, TypeOK
      <3>4. FeedSaid'[p] = subscriptions
        BY <2>1, <2>2, <2>3, <2>5, <3>2, FeedStageOf
      <3>5. FeedStage[p] # "down" /\ FeedStage'[p] \in {FeedStage[p], "live"}
        BY <2>1, <2>2, <2>3, <2>5, <3>3, FeedStageOf
      <3>6. /\ FeedStage' = [FeedStage EXCEPT ![p] = FeedStage'[p]]
            /\ FeedSaid' = [FeedSaid EXCEPT ![p] = FeedSaid'[p]]
        BY <2>1, <2>4, OneFeed
      <3>7. Feed!CatchUp(p)
        BY <2>2, <3>4, <3>5, <3>6 DEF Feed!CatchUp
      <3>8. QED
        BY <2>1, <3>7 DEF Feed!Next
    <2>6. CASE ~ Writable(p)
      <3>1. FeedStage'[p] = FeedStage[p] /\ FeedSaid'[p] = FeedSaid[p]
        BY <2>1, <2>3, <2>6, FeedStageOf
      <3>2. UNCHANGED <<FeedStage, FeedSaid>>
        BY <2>4, <3>1, SameFeeds
      <3>3. QED
        BY <2>2, <3>2
    <2>7. QED
      BY <2>5, <2>6
  <1>10. ASSUME NEW c \in Calls, PushableReturned(c) PROVE Goal
    <2>1. PICK p \in Peers : target[c] \in Streams /\ owner[target[c]] = p
      BY <1>10 DEF PushableReturned, PubsubInv, TypeOK, Bookkeeping
    <2>3. /\ UNCHANGED <<peers, pc, told, subscriptions>>
          /\ outbound' = [outbound EXCEPT ![target[c]] = NoCall]
      BY <1>10 DEF PushableReturned
    <2>4. ASSUME NEW q \in Peers, peers[q] # target[c]
          PROVE  FeedStage'[q] = FeedStage[q] /\ FeedSaid'[q] = FeedSaid[q]
      <3>1. Connected(q) => outbound'[peers[q]] = outbound[peers[q]]
        BY <2>3, <2>4, EntryOf DEF PubsubInv, TypeOK
      <3>2. QED
        BY <2>3, <3>1, FeedStageOf DEF Writable, Connected
    <2>5. CASE peers[p] = target[c]
      <3>1. ~ Writable(p)'
        <4>1. outbound'[target[c]] = NoCall
          BY <2>1, <2>3 DEF PubsubInv, TypeOK
        <4>2. QED
          BY <2>3, <2>5, <4>1 DEF Writable
      <3>2. \A q \in Peers \ {p} : peers[q] # target[c]
        BY <2>1, EntryOf, PubsubAssumption DEF Connected
      <3>3. Feed!Drop(p)
        BY <2>3, <2>4, <3>1, <3>2, DropStep
      <3>4. QED
        BY <3>3 DEF Feed!Next
    <2>6. CASE peers[p] # target[c]
      <3>1. \A q \in Peers : peers[q] # target[c]
        BY <2>1, <2>6, EntryOf, PubsubAssumption DEF Connected
      <3>2. UNCHANGED <<FeedStage, FeedSaid>>
        <4>1. \A q \in Peers : FeedStage'[q] = FeedStage[q] /\ FeedSaid'[q] = FeedSaid[q]
          BY <2>4, <3>1
        <4>2. QED
          BY <4>1, SameFeeds
      <3>3. QED
        BY <2>3, <3>2
    <2>7. QED
      BY <2>5, <2>6
  <1>11. ASSUME NEW p \in Peers, NEW i \in Readers, NEW o \in Streams,
                IncomingStream(p, i, o)
         PROVE  Goal
    <2>1. /\ UNCHANGED <<outbound, pc, told, subscriptions>>
          /\ peers' = [peers EXCEPT ![p] = o] /\ AddPeer(p, o)
      BY <1>11 DEF IncomingStream, callVars
    <2>2. \A q \in Peers : Writable(q)' = Writable(q) /\
                           (Writable(q) => peers'[q] = peers[q])
      BY <2>1 DEF AddPeer, Writable, Connected, PubsubInv, TypeOK, Bookkeeping
    <2>3. \A q \in Peers : FeedStage'[q] = FeedStage[q] /\ FeedSaid'[q] = FeedSaid[q]
      BY <2>1, <2>2, FeedStageOf
    <2>4. QED
      BY <2>1, <2>3, SameFeeds
  <1>12. ASSUME NEW i \in Readers, LoopFails(i) PROVE Goal
    BY <1>2, <1>12 DEF LoopFails, PubsubInv, Bookkeeping
  <1>13. ASSUME NEW p \in Peers, PeerDisconnected(p) PROVE Goal
    BY <1>2, <1>13 DEF PeerDisconnected
  <1>14. QED
    BY <1>1, <1>3, <1>4, <1>5, <1>6, <1>7, <1>8, <1>9, <1>10, <1>11, <1>12, <1>13
       DEF Next, vars, lifeVars, psVars, callVars, loopVars, Dialed, Start,
           StartDone, Stop, RawEnds, ReadSettles, ReadAborted, ProcessChunk,
           ProcessRpc

\* The node implements the feeds.
THEOREM Refinement == Spec => ImplementsFeed
  <1>1. Init => Feed!Init
    BY FeedInit
  <1>2. PubsubInv /\ [Next]_vars => [Feed!Next]_(Feed!vars)
    BY FeedStep
  <1>3. QED
    BY <1>1, <1>2, Correct, PTL DEF Spec, Feed!Spec, ImplementsFeed
=============================================================================
