---------------------------- MODULE Connections ----------------------------
(* The two ends of a connection that the stream muxer of the compliance tests *)
(* multiplexes (interface-compliance-tests/src/mocks/muxer.ts, connection.ts) *)
(* and the Connection that registers its streams (connection/src/index.ts).   *)
EXTENDS Naturals, Sequences

CONSTANTS
    Ends,
    Streams,          \* ids of muxed streams, random numbers in the code
    Opener,           \* [Streams -> Ends]: the end whose newStream() makes the id
    Bounds            \* bounds: streams that are opened together, chunks written to
                      \* them, and faults of each end (failures, aborts, resets,
                      \* calls of Connection.close())

ASSUME EndsOfStreams ==
    /\ \E e, f \in Ends : e # f /\ Ends = {e, f}
    /\ Opener \in [Streams -> Ends]
    /\ Bounds \subseteq [streams : SUBSET Streams, writes : Nat, faults : [Ends -> Nat]]

Other(e) == CHOOSE f \in Ends : f # e

VARIABLES
    status,       \* of the Connection: OPEN, CLOSING or CLOSED
    registry,     \* ids in the Connection's registry
    selecting,    \* ids whose protocol is being negotiated
    alive,        \* the muxer's input has not ended
    wire,         \* messages to an end that it has not handled
    source,       \* of a muxed stream: "none", "open" or "ended"
    sink,         \* likewise
    writer,       \* the loop that reads the sink's source, see Writers
    written,      \* chunks written, counted for Bounds
    faults        \* of each end, counted for Bounds

connection == <<status, registry, selecting>>
muxer == <<alive, wire>>
stream == <<source, sink, writer, written>>
vars == <<connection, muxer, stream, faults>>

\* A loop that was aborted, or reset by a message or by its user ("cut"), has yet
\* to notice it. One that its user has reset falls silent.
Writers == {"none", "running", "aborted", "reset", "cut", "done", "silent"}
Signals == {"aborted", "reset", "cut"}

None == [e \in Ends |-> [s \in Streams |-> "none"]]

Init ==
    /\ status = [e \in Ends |-> "OPEN"]
    /\ registry = [e \in Ends |-> {}]
    /\ selecting = [e \in Ends |-> {}]
    /\ alive = [e \in Ends |-> TRUE]
    /\ wire = [e \in Ends |-> <<>>]
    /\ source = None
    /\ sink = None
    /\ writer = None
    /\ written = 0
    /\ faults = [e \in Ends |-> 0]

\* The muxer's registries: a stream goes when both its halves have ended.
Known(e) == {s \in Streams : source[e][s] = "open" \/ sink[e][s] = "open"}

-----------------------------------------------------------------------------
(* Parts of the steps. *)

Message(type, s) == [type |-> type, id |-> s]

\* Faulty variant: a muxer that has ended goes on writing.
PushedAlways(e, messages) == [wire EXCEPT ![Other(e)] = @ \o messages]

\* What is pushed to a muxer that has ended goes nowhere, nor does the other
\* end read any more when its own has.
Pushed(e, messages) ==
    IF alive[e] /\ alive[Other(e)]
    THEN [wire EXCEPT ![Other(e)] = @ \o messages] ELSE wire

\* Faulty variant: a stream leaves the registry when its source ends last.
EndOfSource(e, sources, sinks) ==
    /\ source' = [source EXCEPT ![e] = [s \in Streams |->
                      IF s \in sources THEN "ended" ELSE @[s]]]
    /\ sink' = [sink EXCEPT ![e] = [s \in Streams |-> IF s \in sinks THEN "ended" ELSE @[s]]]
    /\ registry' = [registry EXCEPT ![e] = @ \ {s \in sources : sink[e][s] = "ended"}]

\* onSourceEnd() and onSinkEnd() of the streams in the given sets; onEnd(), when
\* both have come, takes the stream out of the registries.
End(e, sources, sinks) ==
    LET ended == {s \in Known(e) : /\ s \in sources \/ source[e][s] = "ended"
                                   /\ s \in sinks \/ sink[e][s] = "ended"}
    IN  /\ source' = [source EXCEPT ![e] = [s \in Streams |->
                          IF s \in sources THEN "ended" ELSE @[s]]]
        /\ sink' = [sink EXCEPT ![e] = [s \in Streams |-> IF s \in sinks THEN "ended" ELSE @[s]]]
        /\ registry' = [registry EXCEPT ![e] = @ \ ended]

\* Faulty variant: of several signals the loop notices the last.
SignalledLast(e, ss, signal) ==
    [writer EXCEPT ![e] = [s \in Streams |->
        IF s \in ss /\ @[s] \in Signals \cup {"running"} THEN signal ELSE @[s]]]

\* Of several signals, an abort is what the loop notices.
Signalled(e, ss, signal) ==
    [writer EXCEPT ![e] = [s \in Streams |->
        IF s \in ss /\ (@[s] = "running" \/ (signal = "aborted" /\ @[s] \in Signals))
        THEN signal ELSE @[s]]]

\* The muxer's input ends: every stream it knows is aborted, and what its
\* pipeline has not written is lost.
Die(e) ==
    /\ alive[e]
    /\ alive' = [alive EXCEPT ![e] = FALSE]
    /\ \E n \in 0 .. Len(wire[Other(e)]) :
           wire' = [wire EXCEPT ![e] = <<>>,
                                ![Other(e)] = IF alive[Other(e)]
                                              THEN SubSeq(@, 1, n) \o <<[type |-> "end"]>>
                                              ELSE <<>>]
    /\ End(e, Known(e), Known(e))
    /\ writer' = Signalled(e, Known(e), "aborted")
    /\ UNCHANGED <<status, selecting, written>>

\* createStream(); the negotiation calls the sink at once. (Where a stream comes
\* in, its negotiation registers nothing: addStream() of the mock is empty.)
Create(e, s) ==
    /\ source' = [source EXCEPT ![e][s] = "open"]
    /\ sink' = [sink EXCEPT ![e][s] = "open"]
    /\ writer' = [writer EXCEPT ![e][s] = "running"]

-----------------------------------------------------------------------------
(* The connection. *)

\* Faulty variant: the initiator does not announce its stream.
NewStreamSilently(e, s) ==
    /\ status[e] = "OPEN"
    /\ Opener[s] = e
    /\ source[e][s] = "none"
    /\ Create(e, s)
    /\ selecting' = [selecting EXCEPT ![e] = @ \cup {s}]
    /\ UNCHANGED <<status, registry, muxer, written>>

\* newStream() throws when the connection closes or is closed, but not when its
\* muxer has ended.
NewStream(e, s) ==
    /\ status[e] = "OPEN"
    /\ Opener[s] = e
    /\ source[e][s] = "none"
    /\ Create(e, s)
    /\ selecting' = [selecting EXCEPT ![e] = @ \cup {s}]
    /\ wire' = Pushed(e, <<Message("create", s)>>)
    /\ UNCHANGED <<status, registry, alive, written>>

\* The negotiation ends; the stream is registered even if it has ended since.
Selected(e, s) ==
    /\ s \in selecting[e]
    /\ source[Other(e)][s] # "none"
    /\ selecting' = [selecting EXCEPT ![e] = @ \ {s}]
    /\ registry' = [registry EXCEPT ![e] = @ \cup {s}]
    /\ UNCHANGED <<status, muxer, stream>>

\* Nobody closes the stream of a negotiation that fails.
SelectFails(e, s) ==
    /\ s \in selecting[e]
    /\ selecting' = [selecting EXCEPT ![e] = @ \ {s}]
    /\ UNCHANGED <<status, registry, muxer, stream>>

\* close(), until the raw connection's close() settles; a rejection is final.
Close(e) ==
    /\ status[e] = "OPEN"
    /\ status' = [status EXCEPT ![e] = "CLOSING"]
    /\ UNCHANGED <<registry, selecting, muxer, stream>>

Closed(e) ==
    /\ status[e] = "CLOSING"
    /\ status' = [status EXCEPT ![e] = "CLOSED"]
    /\ UNCHANGED <<registry, selecting, muxer, stream>>

-----------------------------------------------------------------------------
(* A muxed stream in the hands of its user. *)

\* A chunk that was read before the loop notices its end is still sent.
Write(e, s) ==
    /\ writer[e][s] \in Signals \cup {"running"}
    /\ written' = written + 1
    /\ wire' = Pushed(e, <<Message("data", s)>>)
    /\ UNCHANGED <<connection, alive, source, sink, writer>>

\* The user's source ends: the sink does, and says so. (An end that was read just
\* before a signal counts as come before it.)
SinkEnds(e, s) ==
    /\ writer[e][s] = "running"
    /\ writer' = [writer EXCEPT ![e][s] = "done"]
    /\ End(e, {}, {s})
    /\ wire' = Pushed(e, <<Message("close", s)>>)
    /\ UNCHANGED <<status, selecting, alive, written>>

\* It throws, which resets the stream.
SinkErrs(e, s) ==
    /\ writer[e][s] = "running"
    /\ writer' = [writer EXCEPT ![e][s] = "done"]
    /\ End(e, {s}, {s})
    /\ wire' = Pushed(e, <<Message("reset", s)>>)
    /\ UNCHANGED <<status, selecting, alive, written>>

\* Faulty variant: no loop says that it was stopped.
NoticeSilently(e, s) ==
    /\ writer[e][s] \in Signals
    /\ writer' = [writer EXCEPT ![e][s] = IF @ = "cut" THEN "silent" ELSE "done"]
    /\ UNCHANGED <<connection, muxer, source, sink, written>>

\* The loop notices that it was aborted, and says so, or that it was reset, and
\* takes it that the other end knows.
Notice(e, s) ==
    /\ writer[e][s] \in Signals
    /\ writer' = [writer EXCEPT ![e][s] = IF @ = "cut" THEN "silent" ELSE "done"]
    /\ wire' = IF writer[e][s] = "aborted" THEN Pushed(e, <<Message("reset", s)>>) ELSE wire
    /\ UNCHANGED <<connection, alive, source, sink, written>>

\* close() ends the source alone, and tells nobody.
CloseStream(e, s) ==
    /\ source[e][s] = "open"
    /\ End(e, {s}, {})
    /\ UNCHANGED <<status, selecting, muxer, writer, written>>

\* abort() and reset() end both halves, also of a stream that has ended.
Abort(e, s) ==
    /\ source[e][s] # "none"
    /\ End(e, {s}, {s})
    /\ writer' = Signalled(e, {s}, "aborted")
    /\ UNCHANGED <<status, selecting, muxer, written>>

Reset(e, s) ==
    /\ source[e][s] # "none"
    /\ End(e, {s}, {s})
    /\ writer' = Signalled(e, {s}, "cut")
    /\ UNCHANGED <<status, selecting, muxer, written>>

-----------------------------------------------------------------------------
(* The muxer's sink: handleMessage(). *)

First(e) == Head(wire[e])
Handled(e) == [wire EXCEPT ![e] = Tail(@)]
Arrives(e, type) == wire[e] # <<>> /\ First(e).type = type

ReceiveCreate(e) ==
    /\ Arrives(e, "create")
    /\ First(e).id \notin Known(e)
    /\ Create(e, First(e).id)
    /\ wire' = Handled(e)
    /\ UNCHANGED <<connection, alive, written>>

\* What reads the stream is not of interest here, and a source that has ended
\* takes no more.
ReceiveData(e) ==
    /\ Arrives(e, "data")
    /\ First(e).id \in Known(e)
    /\ wire' = Handled(e)
    /\ UNCHANGED <<connection, alive, stream>>

ReceiveClose(e) ==
    /\ Arrives(e, "close")
    /\ First(e).id \in Known(e)
    /\ End(e, {First(e).id}, {})
    /\ wire' = Handled(e)
    /\ UNCHANGED <<status, selecting, alive, writer, written>>

ReceiveReset(e) ==
    /\ Arrives(e, "reset")
    /\ First(e).id \in Known(e)
    /\ End(e, {First(e).id}, {First(e).id})
    /\ writer' = Signalled(e, {First(e).id}, "reset")
    /\ wire' = Handled(e)
    /\ UNCHANGED <<status, selecting, alive, written>>

\* handleMessage() throws for a stream that is not in the registry, or is to be
\* created again.
ReceiveUnknown(e) ==
    /\ wire[e] # <<>> /\ First(e).type # "end"
    /\ (First(e).type = "create") = (First(e).id \in Known(e))
    /\ Die(e)

ReceiveEnd(e) == Arrives(e, "end") /\ Die(e)

\* The wire to this end ends.
Disconnect(e) == Die(e)

-----------------------------------------------------------------------------
Receive(e) ==
    \/ ReceiveCreate(e)
    \/ ReceiveData(e)
    \/ ReceiveClose(e)
    \/ ReceiveReset(e)
    \/ ReceiveUnknown(e)
    \/ ReceiveEnd(e)

\* What is done is within one of the bounds.
Opened == {s \in Streams : source[Opener[s]][s] # "none"}

WithinBounds(streams, writes, counts) ==
    \E bound \in Bounds :
        /\ streams \subseteq bound.streams
        /\ writes <= bound.writes
        /\ \A e \in Ends : counts[e] <= bound.faults[e]

UseStream(e, s) ==
    \/ WithinBounds(Opened \cup {s}, written, faults) /\ NewStream(e, s)
    \/ Selected(e, s)
    \/ WithinBounds(Opened, written + 1, faults) /\ Write(e, s)
    \/ SinkEnds(e, s)
    \/ CloseStream(e, s)

Fails(e) ==
    /\ faults' = [faults EXCEPT ![e] = @ + 1]
    /\ WithinBounds(Opened, written, faults')
    /\ \/ Close(e)
       \/ Disconnect(e)
       \/ \E s \in Streams : SelectFails(e, s) \/ SinkErrs(e, s) \/ Abort(e, s) \/ Reset(e, s)

Proceeds ==
    \/ \E e \in Ends : Receive(e) \/ Closed(e)
    \/ \E e \in Ends, s \in Streams : UseStream(e, s) \/ Notice(e, s)

Next ==
    \/ Proceeds /\ UNCHANGED faults
    \/ \E e \in Ends : Fails(e)

Spec == Init /\ [][Next]_vars

\* The wire delivers, and the event loop lets a loop notice its signal; what
\* users, transports and negotiations do is not fair.
Delivers ==
    /\ \E e \in Ends : Receive(e) \/ \E s \in Streams : Notice(e, s)
    /\ UNCHANGED faults

FairSpec == Spec /\ WF_vars(Delivers)

-----------------------------------------------------------------------------
Messages == [type : {"create", "data", "close", "reset"}, id : Streams] \cup {[type |-> "end"]}

TypeOK ==
    /\ status \in [Ends -> {"OPEN", "CLOSING", "CLOSED"}]
    /\ registry \in [Ends -> SUBSET Streams]
    /\ selecting \in [Ends -> SUBSET Streams]
    /\ alive \in [Ends -> BOOLEAN]
    /\ wire \in [Ends -> Seq(Messages)]
    /\ \A e \in Ends : wire[e] # <<>> => alive[e]
    /\ source \in [Ends -> [Streams -> {"none", "open", "ended"}]]
    /\ sink \in [Ends -> [Streams -> {"none", "open", "ended"}]]
    /\ writer \in [Ends -> [Streams -> Writers]]
    /\ written \in Nat
    /\ faults \in [Ends -> Nat]

\* When the loop that writes a stream is done and what it said has arrived, the
\* other end's source has ended: no half of a stream stays open at a reader that
\* nobody will write to again, however the closes, aborts, errors and resets of
\* the two ends cross. A loop falls silent without that for one reason only, its
\* own user's reset(), which sends nothing. (The sink's close and reset messages.)
EndsReachOther ==
    \A e \in Ends, s \in Streams :
        LET f == Other(e)
        IN  (/\ alive[e] /\ alive[f]
             /\ writer[e][s] = "done"
             /\ \A i \in DOMAIN wire[f] : wire[f][i].id # s)
            => source[f][s] = "ended"

\* The message that brings a muxer down is for a stream that has ended at this
\* end: none comes before the one that creates its stream, and no stream is
\* created twice. (handleMessage throws for streams that it does not know.)
UnknownHaveEnded ==
    \A e \in Ends :
        wire[e] # <<>> /\ First(e).type # "end" =>
            LET s == First(e).id
            IN  IF First(e).type = "create" THEN source[e][s] = "none"
                ELSE source[e][s] # "none"

\* Whichever way a registered stream ends, by its user, by a message or with its
\* muxer, it leaves the connection's registry in the same step. (onEnd and
\* onStreamEnd; only a stream that ends during its negotiation stays.)
EndedAreRemoved ==
    [][\A e \in Ends : \A s \in Known(e) :
        (source'[e][s] = "ended" /\ sink'[e][s] = "ended") => s \notin registry'[e]]_vars

\* A stream that one end aborts, or that ends with its muxer, ends at the other
\* end, too, with its muxer if need be. (abort, reset, the muxer's onEnd.)
AbortEndsBoth ==
    \A s \in Streams :
        (\E e \in Ends : writer[e][s] = "aborted") ~> (\A e \in Ends : s \notin Known(e))

\* The test of closing one stream (stream-muxer/close-test.ts): that no other is
\* closed with it. Where nothing fails and no user aborts, a loop is aborted only
\* when the muxer goes down with all its streams.
ClosingClosesOne == \A e \in Ends, s \in Streams : writer[e][s] # "aborted"
=============================================================================
