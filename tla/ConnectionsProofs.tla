------------------------- MODULE ConnectionsProofs -------------------------
(* Proofs about Connections, for any number of streams, writes and faults.    *)
(* Named explains why no message is for a stream that its reader never had,   *)
(* Told why a reader learns of the end of its writer.                         *)
EXTENDS Connections, SequenceTheorems, TLAPS

\* The two ends.
LEMMA OtherEnd ==
    ASSUME NEW e \in Ends
    PROVE  /\ Other(e) \in Ends
           /\ Other(e) # e
           /\ Other(Other(e)) = e
           /\ \A f \in Ends : f = e \/ f = Other(e)
<1>1. PICK a, b \in Ends : a # b /\ Ends = {a, b}
  BY EndsOfStreams
<1>2. \A f \in Ends : Other(f) \in Ends /\ Other(f) # f
  BY <1>1 DEF Other
<1>3. QED
  BY <1>1, <1>2

-----------------------------------------------------------------------------
(* What the parts of the steps do, component by component.                    *)

\* What end() makes of the halves of the streams.
HalvesEnd(e, sources, sinks) ==
    \A f \in Ends, s \in Streams :
        /\ source'[f][s] = IF f = e /\ s \in sources THEN "ended" ELSE source[f][s]
        /\ sink'[f][s] = IF f = e /\ s \in sinks THEN "ended" ELSE sink[f][s]

LEMMA EndDoes ==
    ASSUME TypeOK, NEW e \in Ends, NEW sources \in SUBSET Streams,
           NEW sinks \in SUBSET Streams, End(e, sources, sinks)
    PROVE  /\ source' \in [Ends -> [Streams -> {"none", "open", "ended"}]]
           /\ sink' \in [Ends -> [Streams -> {"none", "open", "ended"}]]
           /\ registry' \in [Ends -> SUBSET Streams]
           /\ HalvesEnd(e, sources, sinks)
           /\ \A f \in Ends : \A s \in Known(f) :
                 (source'[f][s] = "ended" /\ sink'[f][s] = "ended") => s \notin registry'[f]
<1> DEFINE src == [s \in Streams |-> IF s \in sources THEN "ended" ELSE source[e][s]]
           snk == [s \in Streams |-> IF s \in sinks THEN "ended" ELSE sink[e][s]]
<1>1. /\ source' = [source EXCEPT ![e] = src]
      /\ sink' = [sink EXCEPT ![e] = snk]
  BY DEF End
<1>2. PICK ended : /\ ended = {s \in Known(e) : /\ s \in sources \/ source[e][s] = "ended"
                                                /\ s \in sinks \/ sink[e][s] = "ended"}
                   /\ registry' = [registry EXCEPT ![e] = @ \ ended]
  BY DEF End
<1>3. /\ src \in [Streams -> {"none", "open", "ended"}]
      /\ snk \in [Streams -> {"none", "open", "ended"}]
  BY DEF TypeOK
<1>4. /\ source' \in [Ends -> [Streams -> {"none", "open", "ended"}]]
      /\ sink' \in [Ends -> [Streams -> {"none", "open", "ended"}]]
  BY <1>1, <1>3 DEF TypeOK
<1>5. registry' \in [Ends -> SUBSET Streams]
  BY <1>2 DEF TypeOK
<1>6. ASSUME NEW f \in Ends, NEW s \in Streams
      PROVE  /\ source'[f][s] = IF f = e /\ s \in sources THEN "ended" ELSE source[f][s]
             /\ sink'[f][s] = IF f = e /\ s \in sinks THEN "ended" ELSE sink[f][s]
  BY <1>1 DEF TypeOK
<1>7. ASSUME NEW f \in Ends, NEW s \in Known(f), source'[f][s] = "ended", sink'[f][s] = "ended"
      PROVE  s \notin registry'[f]
  <2>1. s \in Streams /\ (source[f][s] = "open" \/ sink[f][s] = "open")
    BY DEF Known
  <2>2. f = e
    BY <1>6, <1>7, <2>1
  <2>3. s \in ended
    BY <1>2, <1>6, <1>7, <2>1, <2>2
  <2>4. QED
    BY <1>2, <2>2, <2>3 DEF TypeOK
<1>8. QED
  BY <1>4, <1>5, <1>6, <1>7 DEF HalvesEnd

\* What a signal makes of the writers.
WritersSignalled(e, ss, signal) ==
    \A f \in Ends, s \in Streams :
        writer'[f][s] = IF /\ f = e /\ s \in ss
                           /\ \/ writer[f][s] = "running"
                              \/ signal = "aborted" /\ writer[f][s] \in Signals
                        THEN signal ELSE writer[f][s]

LEMMA SignalledDoes ==
    ASSUME TypeOK, NEW e \in Ends, NEW ss \in SUBSET Streams,
           NEW signal \in Signals, writer' = Signalled(e, ss, signal)
    PROVE  /\ writer' \in [Ends -> [Streams -> Writers]]
           /\ WritersSignalled(e, ss, signal)
<1> DEFINE w == [s \in Streams |->
                    IF /\ s \in ss
                       /\ writer[e][s] = "running"
                          \/ (signal = "aborted" /\ writer[e][s] \in Signals)
                    THEN signal ELSE writer[e][s]]
<1>1. writer' = [writer EXCEPT ![e] = w]
  BY DEF Signalled
<1>2. w \in [Streams -> Writers]
  BY DEF TypeOK, Writers, Signals
<1>3. QED
  BY <1>1, <1>2 DEF TypeOK, WritersSignalled

\* What becomes of the writer that notices a signal.
Noticed(e, s) ==
    \A f \in Ends, t \in Streams :
        writer'[f][t] = IF f = e /\ t = s
                        THEN (IF writer[e][s] = "cut" THEN "silent" ELSE "done")
                        ELSE writer[f][t]

LEMMA NoticeDoes ==
    ASSUME TypeOK, NEW e \in Ends, NEW s \in Streams, Notice(e, s)
    PROVE  writer' \in [Ends -> [Streams -> Writers]] /\ Noticed(e, s)
<1> DEFINE w == [writer[e] EXCEPT ![s] = IF @ = "cut" THEN "silent" ELSE "done"]
<1>1. writer' = [writer EXCEPT ![e] = w]
  BY DEF Notice
<1>2. w \in [Streams -> Writers]
  BY DEF TypeOK, Writers
<1>3. QED
  BY <1>1, <1>2 DEF TypeOK, Noticed

LEMMA CreateDoes ==
    ASSUME TypeOK, NEW e \in Ends, NEW s \in Streams, Create(e, s)
    PROVE  /\ source' \in [Ends -> [Streams -> {"none", "open", "ended"}]]
           /\ sink' \in [Ends -> [Streams -> {"none", "open", "ended"}]]
           /\ writer' \in [Ends -> [Streams -> Writers]]
           /\ \A f \in Ends, t \in Streams :
                 /\ source'[f][t] = IF f = e /\ t = s THEN "open" ELSE source[f][t]
                 /\ sink'[f][t] = IF f = e /\ t = s THEN "open" ELSE sink[f][t]
                 /\ writer'[f][t] = IF f = e /\ t = s THEN "running" ELSE writer[f][t]
<1>1. /\ source' = [source EXCEPT ![e] = [@ EXCEPT ![s] = "open"]]
      /\ sink' = [sink EXCEPT ![e] = [@ EXCEPT ![s] = "open"]]
      /\ writer' = [writer EXCEPT ![e] = [@ EXCEPT ![s] = "running"]]
  BY DEF Create
<1>2. QED
  BY <1>1 DEF TypeOK, Writers

LEMMA DoneDoes ==
    ASSUME TypeOK, NEW e \in Ends, NEW s \in Streams,
           writer' = [writer EXCEPT ![e][s] = "done"]
    PROVE  /\ writer' \in [Ends -> [Streams -> Writers]]
           /\ \A f \in Ends, t \in Streams :
                 writer'[f][t] = IF f = e /\ t = s THEN "done" ELSE writer[f][t]
  BY DEF TypeOK, Writers

\* A message that a live muxer pushes to a live one is the last on the wire.
LEMMA PushedDoes ==
    ASSUME TypeOK, NEW e \in Ends, NEW m \in Messages, wire' = Pushed(e, <<m>>)
    PROVE  /\ wire' \in [Ends -> Seq(Messages)]
           /\ wire'[e] = wire[e]
           /\ \/ alive[e] /\ alive[Other(e)] /\ wire'[Other(e)] = Append(wire[Other(e)], m)
              \/ ~(alive[e] /\ alive[Other(e)]) /\ wire' = wire
<1>1. Other(e) \in Ends /\ Other(e) # e
  BY OtherEnd
<1>2. CASE alive[e] /\ alive[Other(e)]
  <2>1. wire' = [wire EXCEPT ![Other(e)] = wire[Other(e)] \o <<m>>]
    BY <1>2 DEF Pushed
  <2>2. wire[Other(e)] \in Seq(Messages)
    BY <1>1 DEF TypeOK
  <2>3. wire[Other(e)] \o <<m>> = Append(wire[Other(e)], m)
    BY <2>2
  <2>4. Append(wire[Other(e)], m) \in Seq(Messages)
    BY <2>2
  <2>5. wire'[Other(e)] = Append(wire[Other(e)], m) /\ wire'[e] = wire[e]
    BY <1>1, <2>1, <2>3 DEF TypeOK
  <2>6. wire' \in [Ends -> Seq(Messages)]
    <3>1. wire \in [Ends -> Seq(Messages)]
      BY DEF TypeOK
    <3>2. QED
      BY ONLY <1>1, <2>1, <2>3, <2>4, <3>1
  <2>7. QED
    BY <1>2, <2>5, <2>6
<1>3. CASE ~(alive[e] /\ alive[Other(e)])
  BY <1>3 DEF Pushed, TypeOK
<1>4. QED
  BY <1>2, <1>3

LEMMA HandledDoes ==
    ASSUME TypeOK, NEW e \in Ends, wire[e] # <<>>, wire' = Handled(e)
    PROVE  /\ wire' \in [Ends -> Seq(Messages)]
           /\ wire'[e] = Tail(wire[e])
           /\ \A f \in Ends \ {e} : wire'[f] = wire[f]
           /\ Len(wire'[e]) = Len(wire[e]) - 1
           /\ \A i \in 1 .. Len(wire[e]) - 1 : wire'[e][i] = wire[e][i + 1]
<1>1. wire[e] \in Seq(Messages)
  BY DEF TypeOK
<1>2. /\ Tail(wire[e]) \in Seq(Messages)
      /\ Len(Tail(wire[e])) = Len(wire[e]) - 1
      /\ \A i \in 1 .. Len(wire[e]) - 1 : Tail(wire[e])[i] = wire[e][i + 1]
  BY <1>1
<1>3. wire' = [wire EXCEPT ![e] = Tail(wire[e])]
  BY DEF Handled
<1>4. QED
  BY <1>2, <1>3 DEF TypeOK

\* A muxer that ends takes in no more, and of what it wrote a part arrives.
LEMMA DieDoes ==
    ASSUME TypeOK, NEW e \in Ends, Die(e)
    PROVE  /\ alive[e] /\ alive' \in [Ends -> BOOLEAN] /\ ~ alive'[e]
           /\ alive'[Other(e)] = alive[Other(e)]
           /\ wire' \in [Ends -> Seq(Messages)]
           /\ wire'[e] = <<>>
           /\ wire'[Other(e)] # <<>> => alive[Other(e)]
           /\ \A i \in DOMAIN wire'[Other(e)] :
                 \/ wire'[Other(e)][i] = [type |-> "end"]
                 \/ i \in DOMAIN wire[Other(e)] /\
                    \A j \in 1 .. i : wire'[Other(e)][j] = wire[Other(e)][j]
<1> DEFINE f == Other(e)
<1>1. f \in Ends /\ f # e /\ \A g \in Ends : g = e \/ g = f
  BY OtherEnd
<1>2. alive[e] /\ alive' = [alive EXCEPT ![e] = FALSE]
  BY DEF Die
<1>3. alive' \in [Ends -> BOOLEAN] /\ ~ alive'[e] /\ alive'[f] = alive[f]
  BY <1>1, <1>2 DEF TypeOK
<1>4. PICK n \in 0 .. Len(wire[f]) :
         wire' = [wire EXCEPT ![e] = <<>>,
                              ![f] = IF alive[f] THEN SubSeq(wire[f], 1, n) \o <<[type |-> "end"]>>
                                     ELSE <<>>]
  BY <1>1 DEF Die, TypeOK
<1>5. wire[f] \in Seq(Messages) /\ [type |-> "end"] \in Messages
  BY <1>1 DEF TypeOK, Messages
<1> DEFINE q == SubSeq(wire[f], 1, n) \o <<[type |-> "end"]>>
<1>6. /\ SubSeq(wire[f], 1, n) \in Seq(Messages)
      /\ Len(SubSeq(wire[f], 1, n)) = n
      /\ \A i \in 1 .. n : SubSeq(wire[f], 1, n)[i] = wire[f][i]
  BY <1>5
<1>7. /\ q \in Seq(Messages)
      /\ Len(q) = n + 1
      /\ \A i \in 1 .. n : q[i] = wire[f][i]
      /\ q[n + 1] = [type |-> "end"]
  BY <1>5, <1>6
<1>8. wire'[e] = <<>> /\ wire'[f] = IF alive[f] THEN q ELSE <<>>
  BY <1>1, <1>4 DEF TypeOK
<1>9. wire' \in [Ends -> Seq(Messages)]
  <2>1. <<>> \in Seq(Messages)
    OBVIOUS
  <2>2. QED
    BY <1>1, <1>4, <1>7, <2>1 DEF TypeOK
<1>10. ASSUME NEW i \in DOMAIN wire'[f]
       PROVE  \/ wire'[f][i] = [type |-> "end"]
              \/ i \in DOMAIN wire[f] /\ \A j \in 1 .. i : wire'[f][j] = wire[f][j]
  <2>1. CASE alive[f]
    <3>1. i \in 1 .. n + 1
      BY <1>7, <1>8, <2>1
    <3>2. QED
      BY <1>5, <1>7, <1>8, <2>1, <3>1
  <2>2. CASE ~ alive[f]
    BY <1>8, <2>2
  <2>3. QED
    BY <2>1, <2>2
<1>11. QED
  BY <1>2, <1>3, <1>8, <1>9, <1>10

-----------------------------------------------------------------------------
(* Types.                                                                     *)

LEMMA InitTypes == Init => TypeOK
<1> SUFFICES ASSUME Init PROVE TypeOK
  OBVIOUS
<1>1. None \in [Ends -> [Streams -> {"none", "open", "ended"}]]
      /\ None \in [Ends -> [Streams -> Writers]]
  BY DEF None, Writers
<1>2. wire \in [Ends -> Seq(Messages)] /\ \A e \in Ends : wire[e] = <<>>
  <2>1. <<>> \in Seq(Messages)
    OBVIOUS
  <2>2. QED
    BY <2>1 DEF Init
<1>3. 0 \in Nat
  OBVIOUS
<1>4. QED
  BY <1>1, <1>2, <1>3 DEF Init, TypeOK

\* Everything but the fault count, in a step of an end.
Typed ==
    /\ status' \in [Ends -> {"OPEN", "CLOSING", "CLOSED"}]
    /\ registry' \in [Ends -> SUBSET Streams]
    /\ selecting' \in [Ends -> SUBSET Streams]
    /\ alive' \in [Ends -> BOOLEAN]
    /\ wire' \in [Ends -> Seq(Messages)]
    /\ \A e \in Ends : wire'[e] # <<>> => alive'[e]
    /\ source' \in [Ends -> [Streams -> {"none", "open", "ended"}]]
    /\ sink' \in [Ends -> [Streams -> {"none", "open", "ended"}]]
    /\ writer' \in [Ends -> [Streams -> Writers]]
    /\ written' \in Nat

EndTyped ==
    /\ source' \in [Ends -> [Streams -> {"none", "open", "ended"}]]
    /\ sink' \in [Ends -> [Streams -> {"none", "open", "ended"}]]
    /\ registry' \in [Ends -> SUBSET Streams]

WireTyped ==
    /\ wire' \in [Ends -> Seq(Messages)]
    /\ \A e \in Ends : wire'[e] # <<>> => alive'[e]

LEMMA PushedTypes ==
    ASSUME TypeOK, NEW e \in Ends, NEW s \in Streams,
           NEW type \in {"create", "data", "close", "reset"},
           wire' = Pushed(e, <<Message(type, s)>>), alive' = alive
    PROVE  WireTyped
<1>1. Message(type, s) \in Messages
  BY DEF Message, Messages
<1> DEFINE m == Message(type, s)
<1>2. /\ wire' \in [Ends -> Seq(Messages)]
      /\ wire'[e] = wire[e]
      /\ (alive[e] /\ alive[Other(e)]) \/ wire' = wire
  <2> HIDE DEF m
  <2>1. m \in Messages /\ wire' = Pushed(e, <<m>>)
    BY <1>1 DEF m
  <2>2. QED
    BY <2>1, PushedDoes
<1>3. \A f \in Ends : wire'[f] # <<>> => alive'[f]
  BY <1>2, OtherEnd DEF TypeOK
<1>4. QED
  BY <1>2, <1>3 DEF WireTyped

\* What arrives is for a stream, or the end.
LEMMA FirstTypes ==
    ASSUME TypeOK, NEW e \in Ends, wire[e] # <<>>
    PROVE  /\ First(e) = wire[e][1] /\ First(e) \in Messages /\ 1 \in DOMAIN wire[e]
           /\ First(e).type # "end" =>
                 /\ First(e).id \in Streams
                 /\ First(e) = Message(First(e).type, First(e).id)
<1>1. wire[e] \in Seq(Messages)
  BY DEF TypeOK
<1>2. Head(wire[e]) = wire[e][1] /\ wire[e][1] \in Messages /\ 1 \in DOMAIN wire[e]
  BY <1>1
<1>3. QED
  BY <1>2 DEF First, Messages, Message

LEMMA HandledTypes ==
    ASSUME TypeOK, NEW e \in Ends, wire[e] # <<>>, wire' = Handled(e), alive' = alive
    PROVE  WireTyped
  BY HandledDoes DEF WireTyped, TypeOK

LEMMA DieTypes ==
    ASSUME TypeOK, NEW e \in Ends, Die(e)
    PROVE  Typed
<1>1. Known(e) \in SUBSET Streams
  BY DEF Known
<1>2. /\ End(e, Known(e), Known(e)) /\ writer' = Signalled(e, Known(e), "aborted")
      /\ UNCHANGED <<status, selecting, written>>
  BY DEF Die
<1>3. EndTyped
  BY <1>1, <1>2, EndDoes DEF EndTyped
<1>4. writer' \in [Ends -> [Streams -> Writers]]
  BY <1>1, <1>2, SignalledDoes DEF Signals
<1>5. wire' \in [Ends -> Seq(Messages)] /\ alive' \in [Ends -> BOOLEAN]
  BY DieDoes
<1>6. \A f \in Ends : wire'[f] # <<>> => alive'[f]
  BY DieDoes, OtherEnd
<1>7. QED
  BY <1>2, <1>3, <1>4, <1>5, <1>6 DEF Typed, EndTyped, TypeOK

LEMMA UseTypes ==
    ASSUME TypeOK, NEW e \in Ends, NEW s \in Streams,
           \/ UseStream(e, s) \/ Notice(e, s) \/ SelectFails(e, s)
           \/ SinkErrs(e, s) \/ Abort(e, s) \/ Reset(e, s)
    PROVE  Typed
<1>a. ASSUME NEW sources \in SUBSET Streams, NEW sinks \in SUBSET Streams,
             End(e, sources, sinks)
      PROVE  EndTyped
  BY <1>a, EndDoes DEF EndTyped
<1>b. ASSUME writer' = [writer EXCEPT ![e][s] = "done"]
      PROVE  writer' \in [Ends -> [Streams -> Writers]]
  BY <1>b, DoneDoes
<1>1. CASE NewStream(e, s)
  <2>1. WireTyped
    BY <1>1, PushedTypes DEF NewStream
  <2>2. /\ source' \in [Ends -> [Streams -> {"none", "open", "ended"}]]
        /\ sink' \in [Ends -> [Streams -> {"none", "open", "ended"}]]
        /\ writer' \in [Ends -> [Streams -> Writers]]
    BY <1>1, CreateDoes DEF NewStream
  <2>3. selecting' \in [Ends -> SUBSET Streams]
    <3>1. selecting \in [Ends -> SUBSET Streams] /\ selecting[e] \cup {s} \in SUBSET Streams
      BY DEF TypeOK
    <3>2. selecting' = [selecting EXCEPT ![e] = @ \cup {s}]
      BY <1>1 DEF NewStream
    <3>3. QED
      BY ONLY <3>1, <3>2
  <2>4. UNCHANGED <<status, registry, alive, written>>
    BY <1>1 DEF NewStream
  <2>5. QED
    BY <2>1, <2>2, <2>3, <2>4 DEF TypeOK, Typed, WireTyped
<1>2. CASE Selected(e, s) \/ SelectFails(e, s)
  <2>1. UNCHANGED <<status, alive, wire, source, sink, writer, written>>
    BY <1>2 DEF Selected, SelectFails, muxer, stream
  <2>2. selecting' = [selecting EXCEPT ![e] = @ \ {s}]
    BY <1>2 DEF Selected, SelectFails
  <2>3. registry' = registry \/ registry' = [registry EXCEPT ![e] = @ \cup {s}]
    BY <1>2 DEF Selected, SelectFails
  <2>4. registry' \in [Ends -> SUBSET Streams] /\ selecting' \in [Ends -> SUBSET Streams]
    <3>1. /\ registry \in [Ends -> SUBSET Streams] /\ registry[e] \cup {s} \in SUBSET Streams
          /\ selecting \in [Ends -> SUBSET Streams] /\ selecting[e] \ {s} \in SUBSET Streams
      BY DEF TypeOK
    <3>2. QED
      BY ONLY <2>2, <2>3, <3>1
  <2>5. QED
    BY <2>1, <2>4 DEF TypeOK, Typed
<1>3. CASE Write(e, s)
  <2>1. written' \in Nat
    BY <1>3 DEF Write, TypeOK
  <2>2. WireTyped
    BY <1>3, PushedTypes DEF Write
  <2>3. QED
    BY <1>3, <2>1, <2>2 DEF Write, TypeOK, connection, Typed, WireTyped
<1>4. CASE SinkEnds(e, s)
  <2>1. WireTyped
    BY <1>4, PushedTypes DEF SinkEnds
  <2>2. EndTyped
    BY <1>4, <1>a DEF SinkEnds
  <2>3. QED
    BY <1>4, <1>b, <2>1, <2>2 DEF SinkEnds, TypeOK, Typed, WireTyped, EndTyped
<1>5. CASE CloseStream(e, s)
  <2>1. EndTyped
    BY <1>5, <1>a DEF CloseStream
  <2>2. QED
    BY <1>5, <2>1 DEF CloseStream, TypeOK, muxer, Typed, EndTyped
<1>6. CASE Notice(e, s)
  <2>1. WireTyped
    <3>1. CASE wire' = wire
      BY <1>6, <3>1 DEF Notice, WireTyped, TypeOK
    <3>2. CASE wire' # wire
      BY <1>6, <3>2, PushedTypes DEF Notice
    <3>3. QED
      BY <3>1, <3>2
  <2>2. QED
    BY <1>6, <2>1, NoticeDoes DEF Notice, TypeOK, connection, Typed, WireTyped
<1>7. CASE SinkErrs(e, s)
  <2>1. WireTyped
    BY <1>7, PushedTypes DEF SinkErrs
  <2>2. EndTyped
    BY <1>7, <1>a DEF SinkErrs
  <2>3. QED
    BY <1>7, <1>b, <2>1, <2>2 DEF SinkErrs, TypeOK, Typed, WireTyped, EndTyped
<1>8. CASE Abort(e, s) \/ Reset(e, s)
  <2>1. EndTyped
    BY <1>8, <1>a DEF Abort, Reset
  <2>2. writer' \in [Ends -> [Streams -> Writers]]
    BY <1>8, SignalledDoes DEF Abort, Reset, Signals
  <2>3. QED
    BY <1>8, <2>1, <2>2 DEF Abort, Reset, TypeOK, muxer, Typed, EndTyped
<1>9. QED
  BY <1>1, <1>2, <1>3, <1>4, <1>5, <1>6, <1>7, <1>8 DEF UseStream

LEMMA ReceiveTypes ==
    ASSUME TypeOK, NEW e \in Ends, Receive(e)
    PROVE  Typed
<1>a. ASSUME wire[e] # <<>>, First(e).type # "end" PROVE First(e).id \in Streams
  BY <1>a, FirstTypes
<1>b. ASSUME wire[e] # <<>>, wire' = Handled(e), alive' = alive PROVE WireTyped
  BY <1>b, HandledTypes
<1>1. CASE ReceiveCreate(e)
  <2>1. WireTyped
    BY <1>1, <1>b DEF ReceiveCreate, Arrives
  <2>2. /\ source' \in [Ends -> [Streams -> {"none", "open", "ended"}]]
        /\ sink' \in [Ends -> [Streams -> {"none", "open", "ended"}]]
        /\ writer' \in [Ends -> [Streams -> Writers]]
    <3>1. First(e).id \in Streams
      BY <1>1, <1>a DEF ReceiveCreate, Arrives
    <3>2. QED
      BY <1>1, <3>1, CreateDoes DEF ReceiveCreate
  <2>3. QED
    BY <1>1, <2>1, <2>2 DEF ReceiveCreate, TypeOK, connection, Typed, WireTyped
<1>2. CASE ReceiveData(e)
  BY <1>2, <1>b DEF ReceiveData, Arrives, TypeOK, connection, stream, Typed, WireTyped
<1>3. CASE ReceiveClose(e)
  <2>1. WireTyped
    BY <1>3, <1>b DEF ReceiveClose, Arrives
  <2>2. EndTyped
    <3>1. {First(e).id} \in SUBSET Streams
      BY <1>3, <1>a DEF ReceiveClose, Arrives
    <3>2. End(e, {First(e).id}, {})
      BY <1>3 DEF ReceiveClose
    <3>3. {} \in SUBSET Streams
      OBVIOUS
    <3>4. QED
      BY <3>1, <3>2, <3>3, EndDoes DEF EndTyped
  <2>3. QED
    BY <1>3, <2>1, <2>2 DEF ReceiveClose, TypeOK, Typed, WireTyped, EndTyped
<1>4. CASE ReceiveReset(e)
  <2>1. WireTyped
    BY <1>4, <1>b DEF ReceiveReset, Arrives
  <2>2. {First(e).id} \in SUBSET Streams
    BY <1>4, <1>a DEF ReceiveReset, Arrives
  <2>3. EndTyped
    <3>1. End(e, {First(e).id}, {First(e).id})
      BY <1>4 DEF ReceiveReset
    <3>2. QED
      BY <2>2, <3>1, EndDoes DEF EndTyped
  <2>4. writer' \in [Ends -> [Streams -> Writers]]
    BY <1>4, <2>2, SignalledDoes DEF ReceiveReset, Signals
  <2>5. QED
    BY <1>4, <2>1, <2>3, <2>4 DEF ReceiveReset, TypeOK, Typed, WireTyped, EndTyped
<1>5. CASE ReceiveUnknown(e) \/ ReceiveEnd(e)
  BY <1>5, DieTypes DEF ReceiveUnknown, ReceiveEnd
<1>6. QED
  BY <1>1, <1>2, <1>3, <1>4, <1>5 DEF Receive

LEMMA StepTypes == TypeOK /\ [Next]_vars => TypeOK'
<1> SUFFICES ASSUME TypeOK, [Next]_vars PROVE TypeOK'
  OBVIOUS
<1>1. ASSUME NEW e \in Ends, Close(e) \/ Closed(e) PROVE Typed
  BY <1>1 DEF Close, Closed, Typed, TypeOK, muxer, stream
<1>2. CASE Proceeds /\ UNCHANGED faults
  <2>1. Typed
    BY <1>1, <1>2, UseTypes, ReceiveTypes DEF Proceeds
  <2>2. QED
    BY <1>2, <2>1 DEF Typed, TypeOK
<1>3. CASE \E e \in Ends : Fails(e)
  <2>1. Typed
    BY <1>1, <1>3, UseTypes, DieTypes DEF Fails, Disconnect
  <2>2. faults' \in [Ends -> Nat]
    BY <1>3 DEF Fails, TypeOK
  <2>3. QED
    BY <2>1, <2>2 DEF Typed, TypeOK
<1>4. CASE UNCHANGED vars
  BY <1>4 DEF vars, connection, muxer, stream, TypeOK
<1>5. QED
  BY <1>2, <1>3, <1>4 DEF Next

\* The state of both ends keeps its type.
THEOREM Types == Spec => []TypeOK
  BY InitTypes, StepTypes, PTL DEF Spec

-----------------------------------------------------------------------------
(* Registries.                                                                *)

LEMMA RemovesEnded ==
    ASSUME TypeOK, [Next]_vars, NEW e \in Ends, NEW s \in Known(e),
           source'[e][s] = "ended", sink'[e][s] = "ended"
    PROVE  s \notin registry'[e]
<1>1. s \in Streams /\ ~ (source[e][s] = "ended" /\ sink[e][s] = "ended")
  BY DEF Known
<1>2. ~ UNCHANGED <<source, sink>>
  BY <1>1
<1>3. ASSUME NEW f \in Ends, NEW t \in Streams, Create(f, t) PROVE FALSE
  BY <1>1, <1>3, CreateDoes
<1>4. ASSUME NEW f \in Ends, NEW sources \in SUBSET Streams, NEW sinks \in SUBSET Streams,
             End(f, sources, sinks)
      PROVE  s \notin registry'[e]
  BY <1>4, EndDoes
<1>5. ASSUME NEW f \in Ends, Die(f) PROVE s \notin registry'[e]
  <2>1. Known(f) \in SUBSET Streams /\ End(f, Known(f), Known(f))
    BY <1>5 DEF Known, Die
  <2>2. QED
    BY <1>4, <2>1
<1>6. ASSUME NEW f \in Ends, Receive(f) PROVE s \notin registry'[e]
  <2>1. CASE ReceiveCreate(f)
    BY <1>3, <2>1, FirstTypes DEF ReceiveCreate, Arrives
  <2>2. CASE ReceiveData(f)
    BY <1>2, <2>2 DEF ReceiveData, stream
  <2>3. CASE ReceiveClose(f)
    BY <1>4, <2>3, FirstTypes DEF ReceiveClose, Arrives
  <2>4. CASE ReceiveReset(f)
    BY <1>4, <2>4, FirstTypes DEF ReceiveReset, Arrives
  <2>5. CASE ReceiveUnknown(f) \/ ReceiveEnd(f)
    BY <1>5, <2>5 DEF ReceiveUnknown, ReceiveEnd
  <2>6. QED
    BY <1>6, <2>1, <2>2, <2>3, <2>4, <2>5 DEF Receive
<1>7. ASSUME NEW f \in Ends, NEW t \in Streams,
             \/ UseStream(f, t) \/ Notice(f, t) \/ SelectFails(f, t)
             \/ SinkErrs(f, t) \/ Abort(f, t) \/ Reset(f, t)
      PROVE  s \notin registry'[e]
  <2>1. CASE NewStream(f, t)
    BY <1>3, <2>1 DEF NewStream
  <2>2. CASE Selected(f, t) \/ SelectFails(f, t)
    BY <1>2, <2>2 DEF Selected, SelectFails, stream
  <2>3. CASE Write(f, t) \/ Notice(f, t)
    BY <1>2, <2>3 DEF Write, Notice
  <2>4. CASE SinkEnds(f, t)
    BY <1>4, <2>4 DEF SinkEnds
  <2>5. CASE CloseStream(f, t)
    BY <1>4, <2>5 DEF CloseStream
  <2>6. CASE SinkErrs(f, t)
    BY <1>4, <2>6 DEF SinkErrs
  <2>7. CASE Abort(f, t) \/ Reset(f, t)
    BY <1>4, <2>7 DEF Abort, Reset
  <2>8. QED
    BY <1>7, <2>1, <2>2, <2>3, <2>4, <2>5, <2>6, <2>7 DEF UseStream
<1>8. ASSUME NEW f \in Ends, Close(f) \/ Closed(f) PROVE s \notin registry'[e]
  BY <1>2, <1>8 DEF Close, Closed, stream
<1>9. CASE Proceeds
  BY <1>6, <1>7, <1>8, <1>9 DEF Proceeds
<1>10. CASE \E f \in Ends : Fails(f)
  BY <1>5, <1>7, <1>8, <1>10 DEF Fails, Disconnect
<1>11. CASE UNCHANGED vars
  BY <1>2, <1>11 DEF vars, stream
<1>12. QED
  BY <1>9, <1>10, <1>11 DEF Next

\* A registered stream leaves the registry in the step in which it ends.
THEOREM Removed == Spec => EndedAreRemoved
<1>1. TypeOK /\ [Next]_vars =>
         [\A e \in Ends : \A s \in Known(e) :
             (source'[e][s] = "ended" /\ sink'[e][s] = "ended") => s \notin registry'[e]]_vars
  BY RemovesEnded
<1>2. QED
  BY <1>1, Types, PTL DEF Spec, EndedAreRemoved

-----------------------------------------------------------------------------
(* Streams are created before anything else is said of them, and once.        *)

Of(m, s) == m # [type |-> "end"] /\ m.id = s

Halves(e, s) ==
    /\ source[e][s] = "none" <=> sink[e][s] = "none"
    /\ source[e][s] = "none" <=> writer[e][s] = "none"

\* Nothing is said of a stream that its writer has not made.
Unsaid(e, s) ==
    source[e][s] = "none" => \A i \in DOMAIN wire[Other(e)] : ~ Of(wire[Other(e)][i], s)

\* A stream that its opener has made is known to the other end, or on its way
\* there.
Announced(e, s) ==
    Opener[s] = e =>
        IF source[e][s] = "none" THEN source[Other(e)][s] = "none"
        ELSE (alive[e] /\ alive[Other(e)]) =>
                \/ source[Other(e)][s] # "none"
                \/ \E i \in DOMAIN wire[Other(e)] : wire[Other(e)][i] = Message("create", s)

\* On a wire nothing precedes the message that creates a stream.
InOrder(e, s) ==
    \A i \in DOMAIN wire[e] :
        /\ wire[e][i] = Message("create", s) =>
              source[e][s] = "none" /\ \A j \in 1 .. i - 1 : ~ Of(wire[e][j], s)
        /\ Of(wire[e][i], s) =>
              \/ wire[e][i] = Message("create", s)
              \/ source[e][s] # "none"
              \/ \E j \in 1 .. i - 1 : wire[e][j] = Message("create", s)

NamedAt(e, s) == Halves(e, s) /\ Unsaid(e, s) /\ Announced(e, s) /\ InOrder(e, s)

Named == \A e \in Ends, s \in Streams : NamedAt(e, s)

\* A step that makes no stream.
Steady ==
    \A e \in Ends, s \in Streams :
        /\ source'[e][s] = "none" <=> source[e][s] = "none"
        /\ sink'[e][s] = "none" <=> sink[e][s] = "none"
        /\ writer'[e][s] = "none" <=> writer[e][s] = "none"
        /\ source[e][s] = "ended" => source'[e][s] = "ended"

LEMMA EndIsSteady ==
    ASSUME TypeOK, Named, NEW e \in Ends, NEW sources \in SUBSET Streams,
           NEW sinks \in SUBSET Streams, End(e, sources, sinks),
           \A s \in sources \cup sinks : source[e][s] # "none",
           \A f \in Ends, s \in Streams : writer'[f][s] = "none" <=> writer[f][s] = "none"
    PROVE  Steady
<1>1. HalvesEnd(e, sources, sinks)
  BY EndDoes
<1>2. \A s \in Streams : source[e][s] # "none" => sink[e][s] # "none"
  BY DEF Named, NamedAt, Halves, Unsaid, Announced, InOrder
<1>3. QED
  BY <1>1, <1>2 DEF Steady, HalvesEnd

LEMMA KnownAreMade ==
    ASSUME Named, NEW e \in Ends, NEW s \in Known(e)
    PROVE  s \in Streams /\ source[e][s] # "none"
  BY DEF Known, Named, NamedAt, Halves, Unsaid, Announced, InOrder

LEMMA NamedInQuiet ==
    ASSUME TypeOK, Named, Steady, wire' = wire, alive' = alive
    PROVE  Named'
<1> SUFFICES ASSUME NEW e \in Ends, NEW s \in Streams PROVE NamedAt(e, s)'
  BY DEF Named
<1>1. NamedAt(e, s) /\ Other(e) \in Ends
  BY OtherEnd DEF Named
<1>2. QED
  BY <1>1 DEF NamedAt, Halves, Unsaid, Announced, InOrder, Steady

\* Of a stream that its writer has made, anything may be said.
LEMMA NamedInPush ==
    ASSUME TypeOK, Named, Steady, alive' = alive, NEW f \in Ends, NEW t \in Streams,
           NEW type \in {"data", "close", "reset"}, source[f][t] # "none",
           wire' = Pushed(f, <<Message(type, t)>>)
    PROVE  Named'
<1> DEFINE m == Message(type, t)
           g == Other(f)
<1>1. m \in Messages /\ Of(m, t) /\ \A s \in Streams : m # Message("create", s)
  BY DEF Messages, Message, Of
<1>2. g \in Ends /\ g # f /\ Other(g) = f /\ \A e \in Ends : e = f \/ e = g
  BY OtherEnd
<1>3. /\ wire'[f] = wire[f]
      /\ \/ alive[f] /\ alive[g] /\ wire'[g] = Append(wire[g], m)
         \/ wire' = wire
  <2>1. wire' = Pushed(f, <<m>>)
    OBVIOUS
  <2> HIDE DEF m
  <2>2. QED
    BY <1>1, <2>1, PushedDoes
<1>4. \A s \in Streams : Of(m, s) => s = t
  BY DEF Of, Message
<1> HIDE DEF m, g
<1>5. CASE wire' = wire
  BY <1>5, NamedInQuiet
<1>6. CASE alive[f] /\ alive[g] /\ wire'[g] = Append(wire[g], m)
  <2>1. wire[g] \in Seq(Messages)
    BY <1>2 DEF TypeOK
  <2>2. /\ DOMAIN wire'[g] = 1 .. Len(wire[g]) + 1 /\ DOMAIN wire[g] = 1 .. Len(wire[g])
        /\ Len(wire[g]) \in Nat
        /\ \A i \in 1 .. Len(wire[g]) : wire'[g][i] = wire[g][i]
        /\ wire'[g][Len(wire[g]) + 1] = m
    BY <1>1, <1>6, <2>1
  <2>3. ASSUME NEW s \in Streams PROVE NamedAt(f, s)'
    <3>1. NamedAt(f, s)
      BY DEF Named
    <3>2. ASSUME source'[f][s] = "none", NEW i \in DOMAIN wire'[g] PROVE ~ Of(wire'[g][i], s)
      <4>1. source[f][s] = "none" /\ s # t
        BY <3>2 DEF Steady
      <4>2. \A j \in DOMAIN wire[g] : ~ Of(wire[g][j], s)
        BY <3>1, <4>1 DEF NamedAt, Unsaid, g
      <4>3. i \in DOMAIN wire[g] \/ i = Len(wire[g]) + 1
        BY <2>2, <3>2
      <4>4. CASE i \in DOMAIN wire[g]
        BY <2>2, <4>2, <4>4
      <4>5. CASE i = Len(wire[g]) + 1
        BY <1>4, <2>2, <4>1, <4>5
      <4>6. QED
        BY <4>3, <4>4, <4>5
    <3>3. ASSUME alive[f], alive[g], Opener[s] = f, source'[f][s] # "none"
          PROVE  \/ source'[g][s] # "none"
                 \/ \E i \in DOMAIN wire'[g] : wire'[g][i] = Message("create", s)
      <4>1. CASE source[g][s] # "none"
        BY <1>2, <4>1 DEF Steady
      <4>2. CASE \E i \in DOMAIN wire[g] : wire[g][i] = Message("create", s)
        BY <2>2, <4>2
      <4>3. QED
        BY <3>1, <3>3, <4>1, <4>2 DEF NamedAt, Halves, Unsaid, Announced, InOrder, Steady, g
    <3>4. Opener[s] = f /\ source'[f][s] = "none" => source'[g][s] = "none"
      BY <1>2, <3>1 DEF NamedAt, Announced, Steady, g
    <3>5. Halves(f, s)'
      BY <3>1 DEF NamedAt, Halves, Steady
    <3>6. Unsaid(f, s)'
      BY <3>2 DEF Unsaid, g
    <3>7. Announced(f, s)'
      <4>1. alive'[f] /\ alive'[g] => alive[f] /\ alive[g]
        OBVIOUS
      <4>2. QED
        BY <3>3, <3>4, <4>1 DEF Announced, g
    <3>8. InOrder(f, s)'
      BY <1>3, <3>1 DEF NamedAt, InOrder, Steady
    <3>9. QED
      BY <3>5, <3>6, <3>7, <3>8 DEF NamedAt
  <2>4. ASSUME NEW s \in Streams PROVE NamedAt(g, s)'
    <3>1. NamedAt(g, s) /\ NamedAt(f, s)
      BY <1>2 DEF Named
    <3>2. ASSUME NEW i \in DOMAIN wire'[g]
          PROVE  /\ wire'[g][i] = Message("create", s) =>
                       source'[g][s] = "none" /\ \A j \in 1 .. i - 1 : ~ Of(wire'[g][j], s)
                 /\ Of(wire'[g][i], s) =>
                       \/ wire'[g][i] = Message("create", s)
                       \/ source'[g][s] # "none"
                       \/ \E j \in 1 .. i - 1 : wire'[g][j] = Message("create", s)
      <4>1. CASE i \in 1 .. Len(wire[g])
        <5>1. wire'[g][i] = wire[g][i] /\ \A j \in 1 .. i - 1 : wire'[g][j] = wire[g][j]
          <6>1. \A j \in 1 .. i - 1 : j \in 1 .. Len(wire[g])
            BY <2>2, <4>1
          <6>2. QED
            BY <2>2, <4>1, <6>1
        <5>2. i \in DOMAIN wire[g] /\ (source'[g][s] = "none" <=> source[g][s] = "none")
          BY <1>2, <2>2, <4>1 DEF Steady
        <5>3. QED
          <6>1. InOrder(g, s)
            BY <3>1 DEF NamedAt
          <6>2. /\ wire[g][i] = Message("create", s) =>
                      source[g][s] = "none" /\ \A j \in 1 .. i - 1 : ~ Of(wire[g][j], s)
                /\ Of(wire[g][i], s) =>
                      \/ wire[g][i] = Message("create", s)
                      \/ source[g][s] # "none"
                      \/ \E j \in 1 .. i - 1 : wire[g][j] = Message("create", s)
            BY <5>2, <6>1 DEF InOrder
          <6>3. QED
            BY <5>1, <5>2, <6>2
      <4>2. CASE i = Len(wire[g]) + 1 /\ s # t
        BY <1>1, <1>4, <2>2, <4>2
      <4>3. CASE i = Len(wire[g]) + 1 /\ s = t
        <5>1. source[g][t] # "none" \/ \E j \in 1 .. Len(wire[g]) : wire[g][j] = Message("create", t)
          <6>1. CASE Opener[t] = f
            BY <1>6, <2>2, <3>1, <4>3, <6>1 DEF NamedAt, Announced, g
          <6>2. CASE Opener[t] = g
            BY <1>2, <3>1, <4>3, <6>2 DEF NamedAt, Announced
          <6>3. QED
            BY <1>2, <6>1, <6>2, EndsOfStreams
        <5>2. source[g][t] # "none" => source'[g][t] # "none"
          BY <1>2 DEF Steady
        <5>3. ASSUME NEW j \in 1 .. Len(wire[g]), wire[g][j] = Message("create", t)
              PROVE  j \in 1 .. i - 1 /\ wire'[g][j] = Message("create", t)
          BY <2>2, <4>3, <5>3
        <5>4. wire'[g][i] # Message("create", t)
          BY <1>1, <2>2, <4>3
        <5>5. QED
          BY <4>3, <5>1, <5>2, <5>3, <5>4
      <4>4. i \in 1 .. Len(wire[g]) \/ i = Len(wire[g]) + 1
        BY <2>2
      <4>5. QED
        BY <4>1, <4>2, <4>3, <4>4
    <3>3. Halves(g, s)'
      BY <1>2, <3>1 DEF NamedAt, Halves, Steady
    <3>4. Unsaid(g, s)'
      BY <1>2, <1>3, <3>1 DEF NamedAt, Unsaid, Steady
    <3>5. Announced(g, s)'
      BY <1>2, <1>3, <3>1 DEF NamedAt, Announced, Steady
    <3>6. InOrder(g, s)'
      BY <3>2 DEF InOrder
    <3>7. QED
      BY <3>3, <3>4, <3>5, <3>6 DEF NamedAt
  <2>5. QED
    BY <1>2, <2>3, <2>4 DEF Named
<1>7. QED
  BY <1>3, <1>5, <1>6

\* A message that creates no stream is handled.
LEMMA NamedInHandle ==
    ASSUME TypeOK, Named, Steady, alive' = alive, NEW f \in Ends, wire[f] # <<>>,
           First(f).type # "create", wire' = Handled(f)
    PROVE  Named'
<1> DEFINE g == Other(f)
<1>1. g \in Ends /\ g # f /\ Other(g) = f /\ \A e \in Ends : e = f \/ e = g
  BY OtherEnd
<1>2. /\ wire'[g] = wire[g] /\ wire[f] \in Seq(Messages) /\ wire'[f] \in Seq(Messages)
      /\ DOMAIN wire'[f] = 1 .. Len(wire[f]) - 1 /\ DOMAIN wire[f] = 1 .. Len(wire[f])
      /\ Len(wire[f]) \in Nat /\ Len(wire[f]) >= 1
      /\ \A i \in 1 .. Len(wire[f]) - 1 : wire'[f][i] = wire[f][i + 1]
  BY <1>1, HandledDoes DEF TypeOK
<1>3. \A s \in Streams : wire[f][1] # Message("create", s)
  BY FirstTypes DEF Message
<1>4. \A e \in Ends : alive'[e] = alive[e]
  OBVIOUS
<1> HIDE DEF g
<1>5. ASSUME NEW s \in Streams PROVE NamedAt(g, s)'
  <2>1. NamedAt(g, s)
    BY <1>1 DEF Named
  <2>2. ASSUME source'[g][s] = "none", NEW i \in DOMAIN wire'[f]
        PROVE  ~ Of(wire'[f][i], s)
    <3>1. i \in 1 .. Len(wire[f]) - 1 /\ i + 1 \in DOMAIN wire[f] /\ wire'[f][i] = wire[f][i + 1]
      BY <1>2
    <3>2. source[g][s] = "none"
      BY <1>1, <2>2 DEF Steady
    <3>3. QED
      BY <1>1, <2>1, <3>1, <3>2 DEF NamedAt, Halves, Unsaid, Announced, InOrder
  <2>3. ASSUME NEW i \in DOMAIN wire[f], wire[f][i] = Message("create", s)
        PROVE  \E j \in DOMAIN wire'[f] : wire'[f][j] = Message("create", s)
    <3>1. i # 1
      BY <1>3, <2>3
    <3>2. i - 1 \in DOMAIN wire'[f] /\ wire'[f][i - 1] = wire[f][i]
      BY <1>2, <3>1
    <3>3. QED
      BY <2>3, <3>2
  <2>4. QED
    BY <1>1, <1>2, <1>4, <2>1, <2>2, <2>3 DEF NamedAt, Halves, Unsaid, Announced, InOrder, Steady
<1>6. ASSUME NEW s \in Streams PROVE NamedAt(f, s)'
  <2>1. NamedAt(f, s)
    BY DEF Named
  <2>2. ASSUME NEW i \in DOMAIN wire'[f]
        PROVE  /\ wire'[f][i] = Message("create", s) =>
                     source'[f][s] = "none" /\ \A j \in 1 .. i - 1 : ~ Of(wire'[f][j], s)
               /\ Of(wire'[f][i], s) =>
                     \/ wire'[f][i] = Message("create", s)
                     \/ source'[f][s] # "none"
                     \/ \E j \in 1 .. i - 1 : wire'[f][j] = Message("create", s)
    <3>1. /\ i + 1 \in DOMAIN wire[f] /\ wire'[f][i] = wire[f][i + 1] /\ (i + 1) - 1 = i
          /\ \A j \in 1 .. i - 1 : j + 1 \in 1 .. i /\ wire'[f][j] = wire[f][j + 1]
          /\ \A j \in 1 .. i : j # 1 => j - 1 \in 1 .. i - 1 /\ wire'[f][j - 1] = wire[f][j]
      <4>1. i \in 1 .. Len(wire[f]) - 1 /\ i \in Nat
        BY <1>2
      <4>2. i + 1 \in 1 .. Len(wire[f]) /\ (i + 1) - 1 = i
        BY <1>2, <4>1
      <4>3. \A j \in 1 .. i - 1 : j + 1 \in 1 .. i /\ j \in 1 .. Len(wire[f]) - 1
        BY <1>2, <4>1
      <4>4. ASSUME NEW j \in 1 .. i, j # 1
            PROVE  j - 1 \in 1 .. i - 1 /\ j - 1 \in 1 .. Len(wire[f]) - 1 /\ (j - 1) + 1 = j
        BY <1>2, <4>1, <4>4
      <4>5. QED
        BY <1>2, <4>1, <4>2, <4>3, <4>4
    <3>2. CASE wire[f][i + 1] = Message("create", s)
      <4>1. source[f][s] = "none" /\ \A j \in 1 .. i : ~ Of(wire[f][j], s)
        BY <2>1, <3>1, <3>2 DEF NamedAt, Halves, Unsaid, Announced, InOrder
      <4>2. QED
        BY <3>1, <3>2, <4>1 DEF Steady
    <3>3. CASE wire[f][i + 1] # Message("create", s) /\ Of(wire[f][i + 1], s)
      <4>1. CASE source[f][s] # "none"
        BY <3>1, <3>3, <4>1 DEF Steady
      <4>2. ASSUME NEW j \in 1 .. i, wire[f][j] = Message("create", s)
            PROVE  \E k \in 1 .. i - 1 : wire'[f][k] = Message("create", s)
        BY <1>3, <3>1, <4>2
      <4>3. QED
        BY <2>1, <3>1, <3>3, <4>1, <4>2 DEF NamedAt, Halves, Unsaid, Announced, InOrder
    <3>4. QED
      BY <3>1, <3>2, <3>3
  <2>3. QED
    BY <1>1, <1>2, <1>4, <2>1, <2>2 DEF NamedAt, Halves, Unsaid, Announced, InOrder, Steady, g
<1>7. QED
  BY <1>1, <1>5, <1>6 DEF Named

LEMMA DieIsSteady ==
    ASSUME TypeOK, Named, NEW e \in Ends, Die(e)
    PROVE  Steady
<1>1. Known(e) \in SUBSET Streams /\ \A s \in Known(e) \cup Known(e) : source[e][s] # "none"
  BY KnownAreMade DEF Known
<1>2. \A f \in Ends, s \in Streams : writer'[f][s] = "none" <=> writer[f][s] = "none"
  <2>1. WritersSignalled(e, Known(e), "aborted")
    BY <1>1, SignalledDoes DEF Die, Signals
  <2>2. QED
    BY <2>1 DEF WritersSignalled, Signals
<1>3. End(e, Known(e), Known(e))
  BY DEF Die
<1>4. QED
  BY <1>1, <1>2, <1>3, EndIsSteady

LEMMA NamedInDie ==
    ASSUME TypeOK, Named, NEW f \in Ends, Die(f)
    PROVE  Named'
<1> DEFINE g == Other(f)
<1>1. g \in Ends /\ g # f /\ Other(g) = f /\ \A e \in Ends : e = f \/ e = g
  BY OtherEnd
<1>2. Steady
  BY DieIsSteady
<1>3. /\ ~ alive'[f]
      /\ DOMAIN wire'[f] = {}
      /\ \A i \in DOMAIN wire'[g] :
            \/ wire'[g][i] = [type |-> "end"]
            \/ i \in DOMAIN wire[g] /\ \A j \in 1 .. i : wire'[g][j] = wire[g][j]
  BY DieDoes
<1>4. /\ wire[g] \in Seq(Messages) /\ wire'[g] \in Seq(Messages)
      /\ \A i \in DOMAIN wire'[g] : i \in Nat /\ i >= 1 /\ \A j \in 1 .. i - 1 : j \in 1 .. i
  BY <1>1, DieDoes DEF TypeOK
<1>5. \A s \in Streams :
         ~ Of([type |-> "end"], s) /\ [type |-> "end"] # Message("create", s)
  <2>1. \A s \in Streams : Message("create", s).type # [type |-> "end"].type
    BY DEF Message
  <2>2. QED
    BY <2>1 DEF Of
<1> HIDE DEF g
<1>6. ASSUME NEW s \in Streams PROVE NamedAt(f, s)'
  <2>1. NamedAt(f, s)
    BY DEF Named
  <2>2. source'[f][s] = "none" => \A i \in DOMAIN wire'[g] : ~ Of(wire'[g][i], s)
    BY <1>2, <1>3, <1>4, <1>5, <2>1 DEF NamedAt, Halves, Unsaid, Announced, InOrder, Steady, g
  <2>3. Opener[s] = f /\ source'[f][s] = "none" => source'[g][s] = "none"
    BY <1>1, <1>2, <2>1 DEF NamedAt, Halves, Unsaid, Announced, InOrder, Steady, g
  <2>4. QED
    BY <1>2, <1>3, <2>1, <2>2, <2>3 DEF NamedAt, Halves, Unsaid, Announced, InOrder, Steady, g
<1>7. ASSUME NEW s \in Streams PROVE NamedAt(g, s)'
  <2>1. NamedAt(g, s)
    BY <1>1 DEF Named
  <2>2. ASSUME NEW i \in DOMAIN wire'[g]
        PROVE  /\ wire'[g][i] = Message("create", s) =>
                     source'[g][s] = "none" /\ \A j \in 1 .. i - 1 : ~ Of(wire'[g][j], s)
               /\ Of(wire'[g][i], s) =>
                     \/ wire'[g][i] = Message("create", s)
                     \/ source'[g][s] # "none"
                     \/ \E j \in 1 .. i - 1 : wire'[g][j] = Message("create", s)
    <3>1. CASE wire'[g][i] = [type |-> "end"]
      BY <1>5, <3>1
    <3>2. CASE i \in DOMAIN wire[g] /\ \A j \in 1 .. i : wire'[g][j] = wire[g][j]
      <4>1. wire'[g][i] = wire[g][i] /\ \A j \in 1 .. i - 1 : wire'[g][j] = wire[g][j]
        BY <1>4, <3>2
      <4>2. QED
        BY <1>1, <1>2, <2>1, <3>2, <4>1 DEF NamedAt, Halves, Unsaid, Announced, InOrder, Steady
    <3>3. QED
      BY <1>3, <3>1, <3>2
  <2>3. Opener[s] = g /\ source'[g][s] = "none" => source'[f][s] = "none"
    BY <1>1, <1>2, <2>1 DEF NamedAt, Halves, Unsaid, Announced, InOrder, Steady
  <2>4. QED
    BY <1>1, <1>2, <1>3, <2>1, <2>2, <2>3 DEF NamedAt, Halves, Unsaid, Announced, InOrder, Steady
<1>8. QED
  BY <1>1, <1>6, <1>7 DEF Named

LEMMA NamedInNewStream ==
    ASSUME TypeOK, Named, NEW f \in Ends, NEW t \in Streams, NewStream(f, t)
    PROVE  Named'
<1> DEFINE m == Message("create", t)
           g == Other(f)
<1>1. m \in Messages /\ Of(m, t) /\ \A s \in Streams : Of(m, s) \/ m = Message("create", s) => s = t
  <2>1. m.id = t /\ m.type = "create" /\ m \in Messages
    BY DEF Messages, Message
  <2>2. m # [type |-> "end"]
    BY <2>1
  <2>3. \A s \in Streams : Message("create", s).id = s
    BY DEF Message
  <2>4. QED
    BY <2>1, <2>2, <2>3 DEF Of
<1>2. g \in Ends /\ g # f /\ Other(g) = f /\ \A e \in Ends : e = f \/ e = g
  BY OtherEnd
<1>3. /\ wire'[f] = wire[f]
      /\ \/ alive[f] /\ alive[g] /\ wire'[g] = Append(wire[g], m)
         \/ ~ (alive[f] /\ alive[g]) /\ wire' = wire
  <2>1. wire' = Pushed(f, <<m>>)
    BY DEF NewStream
  <2> HIDE DEF m
  <2>2. QED
    BY <1>1, <2>1, PushedDoes
<1>4. \A e \in Ends, s \in Streams :
         /\ source'[e][s] = IF e = f /\ s = t THEN "open" ELSE source[e][s]
         /\ sink'[e][s] = IF e = f /\ s = t THEN "open" ELSE sink[e][s]
         /\ writer'[e][s] = IF e = f /\ s = t THEN "running" ELSE writer[e][s]
  BY CreateDoes DEF NewStream
<1>5. Opener[t] = f /\ source[f][t] = "none" /\ alive' = alive
  BY DEF NewStream
<1> HIDE DEF m, g
<1>6. /\ source[g][t] = "none"
      /\ \A i \in DOMAIN wire[f] : ~ Of(wire[f][i], t)
      /\ \A i \in DOMAIN wire[g] : ~ Of(wire[g][i], t)
  <2>1. NamedAt(f, t) /\ NamedAt(g, t)
    BY <1>2 DEF Named
  <2>2. source[g][t] = "none"
    BY <1>5, <2>1 DEF NamedAt, Halves, Unsaid, Announced, InOrder, g
  <2>3. QED
    BY <1>2, <1>5, <2>1, <2>2 DEF NamedAt, Halves, Unsaid, Announced, InOrder, g
<1>7. wire[g] \in Seq(Messages) /\ DOMAIN wire[g] = 1 .. Len(wire[g]) /\ Len(wire[g]) \in Nat
  BY <1>2 DEF TypeOK
<1>8. /\ \A i \in DOMAIN wire[g] : i \in DOMAIN wire'[g] /\ wire'[g][i] = wire[g][i]
      /\ \A i \in DOMAIN wire'[g] :
            \/ i \in DOMAIN wire[g] /\ \A j \in 1 .. i - 1 : j \in DOMAIN wire[g]
            \/ /\ i = Len(wire[g]) + 1 /\ wire'[g][i] = m
               /\ \A j \in 1 .. i - 1 : j \in DOMAIN wire[g]
      /\ (alive[f] /\ alive[g]) =>
            Len(wire[g]) + 1 \in DOMAIN wire'[g] /\ wire'[g][Len(wire[g]) + 1] = m
  BY <1>1, <1>3, <1>7
<1>9. ASSUME NEW s \in Streams PROVE NamedAt(f, s)'
  <2>1. NamedAt(f, s)
    BY DEF Named
  <2>2. CASE s # t
    <3>1. source[f][s] = "none" => \A i \in DOMAIN wire'[g] : ~ Of(wire'[g][i], s)
      BY <1>1, <1>8, <2>1, <2>2 DEF NamedAt, Halves, Unsaid, Announced, InOrder, g
    <3>2. (\E i \in DOMAIN wire[g] : wire[g][i] = Message("create", s)) =>
             \E i \in DOMAIN wire'[g] : wire'[g][i] = Message("create", s)
      BY <1>8
    <3>3. /\ source'[f][s] = source[f][s] /\ sink'[f][s] = sink[f][s] /\ writer'[f][s] = writer[f][s]
          /\ source'[g][s] = source[g][s]
      BY <1>2, <1>4, <2>2
    <3>4. QED
      BY <1>3, <1>5, <2>1, <3>1, <3>2, <3>3 DEF NamedAt, Halves, Unsaid, Announced, InOrder, g
  <2>3. CASE s = t
    <3>1. source'[f][s] = "open" /\ sink'[f][s] = "open" /\ writer'[f][s] = "running"
      BY <1>4, <2>3
    <3>2. \A i \in DOMAIN wire'[f] : ~ Of(wire'[f][i], t) /\ wire'[f][i] # Message("create", t)
      BY <1>1, <1>3, <1>6 DEF m
    <3>3. alive'[f] /\ alive'[g] => \E i \in DOMAIN wire'[g] : wire'[g][i] = Message("create", s)
      BY <1>5, <1>8, <2>3 DEF m
    <3>4. QED
      BY <2>3, <3>1, <3>2, <3>3 DEF NamedAt, Halves, Unsaid, Announced, InOrder, g
  <2>4. QED
    BY <2>2, <2>3
<1>10. ASSUME NEW s \in Streams PROVE NamedAt(g, s)'
  <2>1. NamedAt(g, s)
    BY <1>2 DEF Named
  <2>2. source'[g][s] = source[g][s] /\ sink'[g][s] = sink[g][s] /\ writer'[g][s] = writer[g][s]
    BY <1>2, <1>4
  <2>3. ASSUME NEW i \in DOMAIN wire'[g]
        PROVE  /\ wire'[g][i] = Message("create", s) =>
                     source'[g][s] = "none" /\ \A j \in 1 .. i - 1 : ~ Of(wire'[g][j], s)
               /\ Of(wire'[g][i], s) =>
                     \/ wire'[g][i] = Message("create", s)
                     \/ source'[g][s] # "none"
                     \/ \E j \in 1 .. i - 1 : wire'[g][j] = Message("create", s)
    <3>1. CASE i \in DOMAIN wire[g] /\ \A j \in 1 .. i - 1 : j \in DOMAIN wire[g]
      BY <1>8, <2>1, <2>2, <3>1 DEF NamedAt, Halves, Unsaid, Announced, InOrder
    <3>2. CASE wire'[g][i] = m /\ \A j \in 1 .. i - 1 : j \in DOMAIN wire[g]
      <4>1. Of(m, s) \/ m = Message("create", s) => s = t
        BY <1>1
      <4>2. s = t => source'[g][s] = "none" /\ \A j \in 1 .. i - 1 : ~ Of(wire'[g][j], s)
        BY <1>6, <1>8, <2>2, <3>2
      <4>3. s = t => wire'[g][i] = Message("create", s)
        BY <3>2 DEF m
      <4>4. QED
        BY <3>2, <4>1, <4>2, <4>3
    <3>3. QED
      BY <1>8, <3>1, <3>2
  <2>4. Opener[s] = g => source'[f][s] = source[f][s]
    BY <1>2, <1>4, <1>5
  <2>5. QED
    BY <1>2, <1>3, <1>5, <2>1, <2>2, <2>3, <2>4 DEF NamedAt, Halves, Unsaid, Announced, InOrder
<1>11. QED
  BY <1>2, <1>9, <1>10 DEF Named

LEMMA NamedInReceiveCreate ==
    ASSUME TypeOK, Named, NEW f \in Ends, ReceiveCreate(f)
    PROVE  /\ Named'
           /\ First(f).id \in Streams /\ source[f][First(f).id] = "none"
<1> DEFINE t == First(f).id
           g == Other(f)
<1>1. g \in Ends /\ g # f /\ Other(g) = f /\ \A e \in Ends : e = f \/ e = g
  BY OtherEnd
<1>2. t \in Streams /\ 1 \in DOMAIN wire[f] /\ wire[f][1] = Message("create", t) /\ wire[f] # <<>>
  BY FirstTypes DEF ReceiveCreate, Arrives
<1>3. Of(wire[f][1], t) /\ \A s \in Streams : wire[f][1] = Message("create", s) => s = t
  <2>1. Message("create", t).type = "create" /\ \A s \in Streams : Message("create", s).id = s
    BY DEF Message
  <2>2. Message("create", t) # [type |-> "end"]
    BY <2>1
  <2>3. QED
    BY <1>2, <2>1, <2>2 DEF Of
<1>4. /\ wire'[g] = wire[g] /\ wire[f] \in Seq(Messages) /\ wire'[f] \in Seq(Messages)
      /\ DOMAIN wire'[f] = 1 .. Len(wire[f]) - 1 /\ DOMAIN wire[f] = 1 .. Len(wire[f])
      /\ Len(wire[f]) \in Nat /\ Len(wire[f]) >= 1
      /\ \A i \in 1 .. Len(wire[f]) - 1 : wire'[f][i] = wire[f][i + 1]
  BY <1>1, <1>2, HandledDoes DEF ReceiveCreate, TypeOK
<1>5. \A e \in Ends, s \in Streams :
         /\ source'[e][s] = IF e = f /\ s = t THEN "open" ELSE source[e][s]
         /\ sink'[e][s] = IF e = f /\ s = t THEN "open" ELSE sink[e][s]
         /\ writer'[e][s] = IF e = f /\ s = t THEN "running" ELSE writer[e][s]
  BY <1>2, CreateDoes DEF ReceiveCreate
<1>6. alive' = alive
  BY DEF ReceiveCreate
<1> HIDE DEF t, g
<1>7. /\ source[f][t] = "none" /\ source[g][t] # "none"
      /\ \A i \in DOMAIN wire[f] : i # 1 => wire[f][i] # Message("create", t)
  <2>1. NamedAt(f, t) /\ NamedAt(g, t)
    BY <1>1, <1>2 DEF Named
  <2>2. \A i \in DOMAIN wire[f] : i # 1 => 1 \in 1 .. i - 1
    BY <1>4
  <2>3. QED
    BY <1>1, <1>2, <1>3, <2>1, <2>2 DEF NamedAt, Halves, Unsaid, Announced, InOrder
<1>8. /\ \A i \in DOMAIN wire'[f] :
            /\ i \in Nat /\ i + 1 \in DOMAIN wire[f] /\ wire'[f][i] = wire[f][i + 1]
            /\ i + 1 # 1 /\ (i + 1) - 1 = i
      /\ \A i \in DOMAIN wire[f] : i # 1 =>
            i - 1 \in DOMAIN wire'[f] /\ wire'[f][i - 1] = wire[f][i]
  <2>1. ASSUME NEW i \in DOMAIN wire'[f]
        PROVE  /\ i \in Nat /\ i + 1 \in DOMAIN wire[f] /\ wire'[f][i] = wire[f][i + 1]
               /\ i + 1 # 1 /\ (i + 1) - 1 = i
    <3>1. i \in 1 .. Len(wire[f]) - 1
      BY <1>4, <2>1
    <3>2. i + 1 \in 1 .. Len(wire[f]) /\ i \in Nat /\ i + 1 # 1 /\ (i + 1) - 1 = i
      BY <1>4, <3>1
    <3>3. QED
      BY <1>4, <3>1, <3>2
  <2>2. ASSUME NEW i \in DOMAIN wire[f], i # 1
        PROVE  i - 1 \in DOMAIN wire'[f] /\ wire'[f][i - 1] = wire[f][i]
    <3>1. i - 1 \in 1 .. Len(wire[f]) - 1 /\ (i - 1) + 1 = i
      BY <1>4, <2>2
    <3>2. QED
      BY <1>4, <3>1
  <2>3. QED
    BY <2>1, <2>2
<1>9. ASSUME NEW s \in Streams PROVE NamedAt(f, s)'
  <2>1. NamedAt(f, s)
    BY DEF Named
  <2>2. CASE s = t
    <3>1. \A i \in DOMAIN wire'[f] : wire'[f][i] # Message("create", t)
      BY <1>7, <1>8
    <3>2. /\ source'[f][s] = "open" /\ sink'[f][s] = "open" /\ writer'[f][s] = "running"
          /\ source'[g][s] # "none"
      BY <1>1, <1>5, <1>7, <2>2
    <3>3. QED
      BY <2>2, <3>1, <3>2 DEF NamedAt, Halves, Unsaid, Announced, InOrder, g
  <2>3. CASE s # t
    <3>1. /\ source'[f][s] = source[f][s] /\ sink'[f][s] = sink[f][s] /\ writer'[f][s] = writer[f][s]
          /\ source'[g][s] = source[g][s]
      BY <1>1, <1>5, <2>3
    <3>2. ASSUME NEW i \in DOMAIN wire'[f]
          PROVE  /\ wire'[f][i] = Message("create", s) =>
                       source'[f][s] = "none" /\ \A j \in 1 .. i - 1 : ~ Of(wire'[f][j], s)
                 /\ Of(wire'[f][i], s) =>
                       \/ wire'[f][i] = Message("create", s)
                       \/ source'[f][s] # "none"
                       \/ \E j \in 1 .. i - 1 : wire'[f][j] = Message("create", s)
      <4>1. i + 1 \in DOMAIN wire[f] /\ wire'[f][i] = wire[f][i + 1] /\ (i + 1) - 1 = i /\ i \in Nat
        BY <1>8
      <4>2. ASSUME NEW j \in 1 .. i - 1
            PROVE  j \in DOMAIN wire'[f] /\ j + 1 \in 1 .. i /\ wire'[f][j] = wire[f][j + 1]
        BY <1>4, <4>1, <4>2
      <4>3. ASSUME NEW j \in 1 .. i, j # 1
            PROVE  j - 1 \in 1 .. i - 1 /\ wire'[f][j - 1] = wire[f][j]
        BY <1>4, <4>1, <4>3
      <4>4. CASE wire[f][i + 1] = Message("create", s)
        BY <2>1, <3>1, <4>1, <4>2, <4>4 DEF NamedAt, Halves, Unsaid, Announced, InOrder
      <4>5. CASE Of(wire[f][i + 1], s) /\ wire[f][i + 1] # Message("create", s)
        <5>1. ASSUME NEW j \in 1 .. i, wire[f][j] = Message("create", s)
              PROVE  \E k \in 1 .. i - 1 : wire'[f][k] = Message("create", s)
          BY <1>3, <2>3, <4>3, <5>1
        <5>2. QED
          BY <2>1, <3>1, <4>1, <4>5, <5>1 DEF NamedAt, Halves, Unsaid, Announced, InOrder
      <4>6. QED
        BY <4>1, <4>4, <4>5
    <3>3. QED
      BY <1>4, <1>6, <2>1, <3>1, <3>2 DEF NamedAt, Halves, Unsaid, Announced, InOrder, g
  <2>4. QED
    BY <2>2, <2>3
<1>10. ASSUME NEW s \in Streams PROVE NamedAt(g, s)'
  <2>1. NamedAt(g, s)
    BY <1>1 DEF Named
  <2>2. source'[g][s] = source[g][s] /\ sink'[g][s] = sink[g][s] /\ writer'[g][s] = writer[g][s]
    BY <1>1, <1>5
  <2>3. source[g][s] = "none" => \A i \in DOMAIN wire'[f] : ~ Of(wire'[f][i], s)
    BY <1>1, <1>8, <2>1 DEF NamedAt, Halves, Unsaid, Announced, InOrder
  <2>4. source[g][s] = "none" => source'[f][s] = source[f][s]
    BY <1>5, <1>7
  <2>5. ASSUME source[f][s] # "none" \/ \E i \in DOMAIN wire[f] : wire[f][i] = Message("create", s)
        PROVE  source'[f][s] # "none" \/ \E i \in DOMAIN wire'[f] : wire'[f][i] = Message("create", s)
    <3>1. source[f][s] # "none" \/ s = t => source'[f][s] # "none"
      BY <1>5
    <3>2. ASSUME NEW i \in DOMAIN wire[f], wire[f][i] = Message("create", s), s # t
          PROVE  \E j \in DOMAIN wire'[f] : wire'[f][j] = Message("create", s)
      BY <1>3, <1>8, <3>2
    <3>3. QED
      BY <2>5, <3>1, <3>2
  <2>6. QED
    BY <1>1, <1>4, <1>6, <2>1, <2>2, <2>3, <2>4, <2>5 DEF NamedAt, Halves, Unsaid, Announced, InOrder
<1>11. QED
  BY <1>1, <1>2, <1>7, <1>9, <1>10 DEF Named, t

LEMMA InitNamed == Init => Named
<1> SUFFICES ASSUME Init, NEW e \in Ends, NEW s \in Streams PROVE NamedAt(e, s)
  BY DEF Named
<1>1. Other(e) \in Ends
  BY OtherEnd
<1>2. /\ source[e][s] = "none" /\ sink[e][s] = "none" /\ writer[e][s] = "none"
      /\ source[Other(e)][s] = "none" /\ wire[e] = <<>> /\ wire[Other(e)] = <<>>
  BY <1>1 DEF Init, None
<1>3. QED
  BY <1>2 DEF NamedAt, Halves, Unsaid, Announced, InOrder

LEMMA NamedInUse ==
    ASSUME TypeOK, Named, NEW e \in Ends, NEW s \in Streams,
           \/ UseStream(e, s) \/ Notice(e, s) \/ SelectFails(e, s)
           \/ SinkErrs(e, s) \/ Abort(e, s) \/ Reset(e, s)
    PROVE  Named'
<1>1. writer[e][s] # "none" => source[e][s] # "none"
  BY DEF Named, NamedAt, Halves, Unsaid, Announced, InOrder
<1>2. ASSUME NEW sources \in SUBSET {s}, NEW sinks \in SUBSET {s}, End(e, sources, sinks),
             source[e][s] # "none",
             \A f \in Ends, t \in Streams : writer'[f][t] = "none" <=> writer[f][t] = "none"
      PROVE  Steady
  <2>1. /\ sources \in SUBSET Streams /\ sinks \in SUBSET Streams
        /\ \A t \in sources \cup sinks : source[e][t] # "none"
    BY <1>2
  <2>2. QED
    BY <1>2, <2>1, EndIsSteady
<1>3. ASSUME writer[e][s] # "none", writer' = [writer EXCEPT ![e][s] = "done"]
      PROVE  \A f \in Ends, t \in Streams : writer'[f][t] = "none" <=> writer[f][t] = "none"
  BY <1>3, DoneDoes
<1>4. {} \in SUBSET {s} /\ {s} \in SUBSET {s}
  OBVIOUS
<1>5. CASE NewStream(e, s)
  BY <1>5, NamedInNewStream
<1>6. CASE Selected(e, s) \/ SelectFails(e, s)
  <2>1. UNCHANGED <<wire, alive, source, sink, writer>>
    BY <1>6 DEF Selected, SelectFails, muxer, stream
  <2>2. QED
    BY <2>1, NamedInQuiet DEF Steady
<1>7. CASE Write(e, s)
  <2>1. Steady /\ source[e][s] # "none"
    BY <1>1, <1>7 DEF Write, Steady, Signals
  <2>2. QED
    BY <1>7, <2>1, NamedInPush DEF Write
<1>8. CASE SinkEnds(e, s)
  <2>1. source[e][s] # "none" /\ writer[e][s] # "none"
    BY <1>1, <1>8 DEF SinkEnds
  <2>2. \A f \in Ends, t \in Streams : writer'[f][t] = "none" <=> writer[f][t] = "none"
    BY <1>3, <1>8, <2>1 DEF SinkEnds
  <2>3. Steady
    BY <1>2, <1>4, <1>8, <2>1, <2>2 DEF SinkEnds
  <2>4. QED
    BY <1>8, <2>1, <2>3, NamedInPush DEF SinkEnds
<1>9. CASE CloseStream(e, s)
  <2>1. Steady
    BY <1>2, <1>4, <1>9 DEF CloseStream
  <2>2. QED
    BY <1>9, <2>1, NamedInQuiet DEF CloseStream, muxer
<1>10. CASE Notice(e, s)
  <2>1. source[e][s] # "none" /\ writer[e][s] # "none"
    BY <1>1, <1>10 DEF Notice, Signals
  <2>2. \A f \in Ends, t \in Streams : writer'[f][t] = "none" <=> writer[f][t] = "none"
    BY <1>10, <2>1, NoticeDoes DEF Noticed
  <2>3. Steady
    BY <1>10, <2>2 DEF Notice, Steady
  <2>4. CASE wire' = wire
    BY <1>10, <2>3, <2>4, NamedInQuiet DEF Notice
  <2>5. CASE wire' = Pushed(e, <<Message("reset", s)>>)
    BY <1>10, <2>1, <2>3, <2>5, NamedInPush DEF Notice
  <2>6. QED
    BY <1>10, <2>4, <2>5 DEF Notice
<1>11. CASE SinkErrs(e, s)
  <2>1. source[e][s] # "none" /\ writer[e][s] # "none"
    BY <1>1, <1>11 DEF SinkErrs
  <2>2. \A f \in Ends, t \in Streams : writer'[f][t] = "none" <=> writer[f][t] = "none"
    BY <1>3, <1>11, <2>1 DEF SinkErrs
  <2>3. Steady
    BY <1>2, <1>4, <1>11, <2>1, <2>2 DEF SinkErrs
  <2>4. QED
    BY <1>11, <2>1, <2>3, NamedInPush DEF SinkErrs
<1>12. CASE Abort(e, s) \/ Reset(e, s)
  <2>1. source[e][s] # "none"
    BY <1>12 DEF Abort, Reset
  <2>2. PICK signal \in {"aborted", "cut"} : writer' = Signalled(e, {s}, signal)
    BY <1>12 DEF Abort, Reset
  <2>3. \A f \in Ends, t \in Streams : writer'[f][t] = "none" <=> writer[f][t] = "none"
    <3>1. WritersSignalled(e, {s}, signal)
      BY <2>2, SignalledDoes DEF Signals
    <3>2. QED
      BY <3>1 DEF WritersSignalled, Signals
  <2>4. Steady
    BY <1>2, <1>4, <1>12, <2>1, <2>3 DEF Abort, Reset
  <2>5. QED
    BY <1>12, <2>4, NamedInQuiet DEF Abort, Reset, muxer
<1>13. QED
  BY <1>5, <1>6, <1>7, <1>8, <1>9, <1>10, <1>11, <1>12 DEF UseStream

\* What a message for a known stream does to it.
LEMMA ReceiveIsSteady ==
    ASSUME TypeOK, Named, NEW e \in Ends,
           ReceiveData(e) \/ ReceiveClose(e) \/ ReceiveReset(e)
    PROVE  /\ Steady /\ wire[e] # <<>> /\ First(e).type # "create"
           /\ wire' = Handled(e) /\ alive' = alive
<1>1. /\ wire[e] # <<>> /\ First(e).type \in {"data", "close", "reset"}
      /\ wire' = Handled(e) /\ alive' = alive /\ First(e).id \in Known(e)
  BY DEF ReceiveData, ReceiveClose, ReceiveReset, Arrives
<1> DEFINE t == First(e).id
<1>2. t \in Streams /\ source[e][t] # "none" /\ {t} \in SUBSET Streams /\ {} \in SUBSET Streams
  BY <1>1, KnownAreMade
<1>3. CASE ReceiveData(e)
  BY <1>1, <1>3 DEF ReceiveData, stream, Steady
<1>4. CASE ReceiveClose(e)
  <2>1. /\ End(e, {t}, {}) /\ \A s \in {t} \cup {} : source[e][s] # "none"
        /\ \A f \in Ends, s \in Streams : writer'[f][s] = "none" <=> writer[f][s] = "none"
    BY <1>2, <1>4 DEF ReceiveClose
  <2>2. Steady
    BY <1>2, <2>1, EndIsSteady
  <2>3. QED
    BY <1>1, <2>2
<1>5. CASE ReceiveReset(e)
  <2>1. writer' = Signalled(e, {t}, "reset")
    BY <1>5 DEF ReceiveReset
  <2>2. \A f \in Ends, s \in Streams : writer'[f][s] = "none" <=> writer[f][s] = "none"
    <3>1. WritersSignalled(e, {t}, "reset")
      BY <1>2, <2>1, SignalledDoes DEF Signals
    <3>2. QED
      BY <3>1 DEF WritersSignalled
  <2>3. End(e, {t}, {t}) /\ \A s \in {t} \cup {t} : source[e][s] # "none"
    BY <1>2, <1>5 DEF ReceiveReset
  <2>4. Steady
    BY <1>2, <2>2, <2>3, EndIsSteady
  <2>5. QED
    BY <1>1, <2>4
<1>6. QED
  BY <1>3, <1>4, <1>5

LEMMA StepNamed == TypeOK /\ Named /\ [Next]_vars => Named'
<1> SUFFICES ASSUME TypeOK, Named, [Next]_vars PROVE Named'
  OBVIOUS
<1>1. ASSUME NEW e \in Ends, Receive(e) PROVE Named'
  <2>1. CASE ReceiveCreate(e)
    BY <2>1, NamedInReceiveCreate
  <2>2. CASE ReceiveData(e) \/ ReceiveClose(e) \/ ReceiveReset(e)
    BY <2>2, ReceiveIsSteady, NamedInHandle
  <2>3. CASE ReceiveUnknown(e) \/ ReceiveEnd(e)
    BY <2>3, NamedInDie DEF ReceiveUnknown, ReceiveEnd
  <2>4. QED
    BY <1>1, <2>1, <2>2, <2>3 DEF Receive
<1>2. ASSUME NEW e \in Ends, Close(e) \/ Closed(e) PROVE Named'
  BY <1>2, NamedInQuiet DEF Close, Closed, muxer, stream, Steady
<1>3. CASE Proceeds
  BY <1>1, <1>2, <1>3, NamedInUse DEF Proceeds
<1>4. CASE \E e \in Ends : Fails(e)
  BY <1>2, <1>4, NamedInUse, NamedInDie DEF Fails, Disconnect
<1>5. CASE UNCHANGED vars
  BY <1>5, NamedInQuiet DEF vars, muxer, stream, Steady
<1>6. QED
  BY <1>3, <1>4, <1>5 DEF Next

\* No message names a stream that its reader has never had, and no stream is
\* created twice.
THEOREM UnknownAreOld == Spec => []UnknownHaveEnded
<1>1. TypeOK /\ Named => UnknownHaveEnded
  <2> SUFFICES ASSUME TypeOK, Named, NEW e \in Ends, wire[e] # <<>>, First(e).type # "end"
               PROVE  IF First(e).type = "create" THEN source[e][First(e).id] = "none"
                      ELSE source[e][First(e).id] # "none"
    BY DEF UnknownHaveEnded
  <2> DEFINE s == First(e).id
  <2>1. /\ s \in Streams /\ 1 \in DOMAIN wire[e] /\ First(e) = wire[e][1]
        /\ First(e) = Message(First(e).type, s)
    BY FirstTypes
  <2>2. NamedAt(e, s)
    BY <2>1 DEF Named
  <2>3. CASE First(e).type = "create"
    BY <2>1, <2>2, <2>3 DEF NamedAt, Halves, Unsaid, Announced, InOrder
  <2>4. CASE First(e).type # "create"
    <3>1. /\ wire[e][1] # Message("create", s)
          /\ ~ \E j \in 1 .. 1 - 1 : wire[e][j] = Message("create", s)
      BY <2>1, <2>4 DEF Message
    <3>2. Of(wire[e][1], s)
      BY <2>1 DEF Of
    <3>3. QED
      BY <2>1, <2>2, <2>4, <3>1, <3>2 DEF NamedAt, Halves, Unsaid, Announced, InOrder
  <2>5. QED
    BY <2>3, <2>4
<1>2. QED
  BY <1>1, InitTypes, InitNamed, StepTypes, StepNamed, PTL DEF Spec

-----------------------------------------------------------------------------
(* Readers are told.                                                          *)

Resets(e, s) == \E i \in DOMAIN wire[e] : wire[e][i] = Message("reset", s)
Closes(e, s) == \E i \in DOMAIN wire[e] : wire[e][i] = Message("close", s)

\* Aborted and reset streams have ended, also where the reset comes from, and a
\* writer that is done has told the reader or is about to.
ToldAt(e, s) ==
    /\ writer[e][s] = "aborted" => source[e][s] = "ended"
    /\ writer[e][s] = "reset" => source[Other(e)][s] = "ended"
    /\ Resets(Other(e), s) => source[e][s] = "ended"
    /\ (writer[e][s] = "done" /\ alive[e] /\ alive[Other(e)]) =>
          source[Other(e)][s] = "ended" \/ Closes(Other(e), s) \/ Resets(Other(e), s)

Told == \A e \in Ends, s \in Streams : ToldAt(e, s)

\* A step that keeps this so for a stream of an end.
KeepsTold(e, s) ==
    /\ writer'[e][s] = "aborted" => writer[e][s] = "aborted" \/ source'[e][s] = "ended"
    /\ writer'[e][s] = "reset" => writer[e][s] = "reset" \/ source'[Other(e)][s] = "ended"
    /\ Resets(Other(e), s)' => Resets(Other(e), s) \/ source'[e][s] = "ended"
    /\ (alive'[e] /\ alive'[Other(e)]) =>
          /\ alive[e] /\ alive[Other(e)]
          /\ writer'[e][s] = "done" =>
                \/ writer[e][s] = "done"
                \/ source'[Other(e)][s] = "ended" \/ Closes(Other(e), s)' \/ Resets(Other(e), s)'
          /\ (Closes(Other(e), s) \/ Resets(Other(e), s)) =>
                source'[Other(e)][s] = "ended" \/ Closes(Other(e), s)' \/ Resets(Other(e), s)'

Lasting == \A e \in Ends, s \in Streams : source[e][s] = "ended" => source'[e][s] = "ended"

LEMMA ToldIsKept ==
    ASSUME Told, Lasting, \A e \in Ends, s \in Streams : KeepsTold(e, s)
    PROVE  Told'
<1> SUFFICES ASSUME NEW e \in Ends, NEW s \in Streams PROVE ToldAt(e, s)'
  BY DEF Told
<1>1. ToldAt(e, s) /\ KeepsTold(e, s) /\ Other(e) \in Ends
  BY OtherEnd DEF Told
<1>2. QED
  BY <1>1 DEF ToldAt, KeepsTold, Lasting

LEMMA InitTold == Init => Told
<1> SUFFICES ASSUME Init, NEW e \in Ends, NEW s \in Streams PROVE ToldAt(e, s)
  BY DEF Told
<1>1. Other(e) \in Ends
  BY OtherEnd
<1>2. writer[e][s] = "none" /\ wire[Other(e)] = <<>>
  BY <1>1 DEF Init, None
<1>3. QED
  BY <1>2 DEF ToldAt, Resets

LEMMA MessagesDiffer ==
    ASSUME NEW s \in Streams, NEW t \in Streams, NEW a \in {"create", "data", "close", "reset"},
           NEW b \in {"create", "data", "close", "reset"}, Message(a, s) = Message(b, t)
    PROVE  a = b /\ s = t
<1>1. Message(a, s).type = a /\ Message(b, t).type = b /\ Message(a, s).id = s /\ Message(b, t).id = t
  BY DEF Message
<1>2. QED
  BY <1>1

\* What a push makes of the wires.
Tells(f, t, type) ==
    \A e \in Ends, s \in Streams :
        /\ Resets(e, s)' => Resets(e, s) \/ (e = Other(f) /\ type = "reset" /\ s = t)
        /\ Resets(e, s) => Resets(e, s)'
        /\ Closes(e, s) => Closes(e, s)'
        /\ (alive[f] /\ alive[Other(f)] /\ e = Other(f) /\ s = t) =>
              /\ type = "reset" => Resets(e, s)'
              /\ type = "close" => Closes(e, s)'

LEMMA PushTells ==
    ASSUME TypeOK, NEW f \in Ends, NEW t \in Streams,
           NEW type \in {"create", "data", "close", "reset"},
           wire' = Pushed(f, <<Message(type, t)>>)
    PROVE  Tells(f, t, type)
<1> DEFINE m == Message(type, t)
           g == Other(f)
<1>1. m \in Messages
  BY DEF Messages, Message
<1>2. g \in Ends /\ g # f /\ \A e \in Ends : e = f \/ e = g
  BY OtherEnd
<1>3. /\ wire'[f] = wire[f]
      /\ \/ alive[f] /\ alive[g] /\ wire'[g] = Append(wire[g], m)
         \/ ~ (alive[f] /\ alive[g]) /\ wire' = wire
  <2>1. wire' = Pushed(f, <<m>>)
    OBVIOUS
  <2> HIDE DEF m
  <2>2. QED
    BY <1>1, <2>1, PushedDoes
<1>4. \A s \in Streams : m = Message("reset", s) => type = "reset" /\ s = t
  BY MessagesDiffer
<1> SUFFICES ASSUME NEW e \in Ends, NEW s \in Streams
             PROVE  /\ Resets(e, s)' => Resets(e, s) \/ (e = g /\ type = "reset" /\ s = t)
                    /\ Resets(e, s) => Resets(e, s)'
                    /\ Closes(e, s) => Closes(e, s)'
                    /\ (alive[f] /\ alive[g] /\ e = g /\ s = t) =>
                          /\ type = "reset" => Resets(e, s)'
                          /\ type = "close" => Closes(e, s)'
  BY DEF Tells
<1> DEFINE r == Message("reset", s)
           c == Message("close", s)
<1>5. (s = t /\ type = "reset" => m = r) /\ (s = t /\ type = "close" => m = c)
  OBVIOUS
<1>6. m = r => type = "reset" /\ s = t
  BY <1>4
<1> HIDE DEF m, g, r, c
<1>7. CASE wire'[e] = wire[e] /\ ~ (alive[f] /\ alive[g] /\ e = g)
  BY <1>7 DEF Resets, Closes
<1>8. CASE alive[f] /\ alive[g] /\ e = g /\ wire'[g] = Append(wire[g], m)
  <2>1. /\ \A i \in DOMAIN wire[g] : i \in DOMAIN wire'[g] /\ wire'[g][i] = wire[g][i]
        /\ \A i \in DOMAIN wire'[g] : i \in DOMAIN wire[g] \/ wire'[g][i] = m
        /\ \E i \in DOMAIN wire'[g] : wire'[g][i] = m
    <3>1. wire[g] \in Seq(Messages) /\ Len(wire[g]) \in Nat /\ DOMAIN wire[g] = 1 .. Len(wire[g])
      BY <1>2 DEF TypeOK
    <3>2. /\ DOMAIN wire'[g] = 1 .. Len(wire[g]) + 1
          /\ \A i \in 1 .. Len(wire[g]) : wire'[g][i] = wire[g][i]
          /\ wire'[g][Len(wire[g]) + 1] = m
      BY <1>1, <1>8, <3>1
    <3>3. Len(wire[g]) + 1 \in DOMAIN wire'[g] /\ \A i \in DOMAIN wire[g] : i \in DOMAIN wire'[g]
      BY <3>1, <3>2
    <3>4. \A i \in DOMAIN wire'[g] : i \in DOMAIN wire[g] \/ i = Len(wire[g]) + 1
      BY <3>1, <3>2
    <3>5. QED
      BY <3>1, <3>2, <3>3, <3>4
  <2>2. (Resets(g, s) => Resets(g, s)') /\ (Closes(g, s) => Closes(g, s)')
    BY <2>1 DEF Resets, Closes
  <2>3. Resets(g, s)' => Resets(g, s) \/ m = r
    BY <2>1 DEF Resets, r
  <2>4. (m = r => Resets(g, s)') /\ (m = c => Closes(g, s)')
    BY <2>1 DEF Resets, Closes, r, c
  <2>5. QED
    BY <1>5, <1>6, <1>8, <2>2, <2>3, <2>4
<1>9. QED
  BY <1>2, <1>3, <1>7, <1>8

\* And before and after a message is handled.
LEMMA HandleTells ==
    ASSUME TypeOK, NEW f \in Ends, wire[f] # <<>>, wire' = Handled(f)
    PROVE  \A e \in Ends, s \in Streams :
              /\ Resets(e, s)' => Resets(e, s)
              /\ Resets(e, s) => Resets(e, s)' \/ (e = f /\ First(f) = Message("reset", s))
              /\ Closes(e, s) => Closes(e, s)' \/ (e = f /\ First(f) = Message("close", s))
<1>1. /\ \A e \in Ends \ {f} : wire'[e] = wire[e]
      /\ \A i \in DOMAIN wire'[f] : i + 1 \in DOMAIN wire[f] /\ wire'[f][i] = wire[f][i + 1]
      /\ \A i \in DOMAIN wire[f] :
            \/ i = 1
            \/ i - 1 \in DOMAIN wire'[f] /\ wire'[f][i - 1] = wire[f][i]
  <2>1. /\ wire[f] \in Seq(Messages) /\ wire'[f] \in Seq(Messages)
        /\ DOMAIN wire'[f] = 1 .. Len(wire[f]) - 1 /\ DOMAIN wire[f] = 1 .. Len(wire[f])
        /\ Len(wire[f]) \in Nat /\ Len(wire[f]) >= 1
        /\ \A i \in 1 .. Len(wire[f]) - 1 : wire'[f][i] = wire[f][i + 1]
        /\ \A e \in Ends \ {f} : wire'[e] = wire[e]
    BY HandledDoes DEF TypeOK
  <2>2. ASSUME NEW i \in DOMAIN wire'[f]
        PROVE  i + 1 \in DOMAIN wire[f] /\ wire'[f][i] = wire[f][i + 1]
    BY <2>1
  <2>3. ASSUME NEW i \in DOMAIN wire[f], i # 1
        PROVE  i - 1 \in DOMAIN wire'[f] /\ wire'[f][i - 1] = wire[f][i]
    <3>1. i - 1 \in 1 .. Len(wire[f]) - 1 /\ (i - 1) + 1 = i
      BY <2>1, <2>3
    <3>2. QED
      BY <2>1, <3>1
  <2>4. QED
    BY <2>1, <2>2, <2>3
<1>2. First(f) = wire[f][1]
  BY FirstTypes
<1>3. QED
  BY <1>1, <1>2 DEF Resets, Closes

LEMMA DieTells ==
    ASSUME TypeOK, NEW f \in Ends, Die(f)
    PROVE  \A e \in Ends, s \in Streams : Resets(e, s)' => Resets(e, s)
<1> SUFFICES ASSUME NEW e \in Ends, NEW s \in Streams, Resets(e, s)' PROVE Resets(e, s)
  OBVIOUS
<1>1. PICK i \in DOMAIN wire'[e] : wire'[e][i] = Message("reset", s)
  BY DEF Resets
<1>2. Message("reset", s) # [type |-> "end"]
  <2>1. Message("reset", s).type = "reset"
    BY DEF Message
  <2>2. QED
    BY <2>1
<1>3. e = Other(f)
  <2>1. wire'[f] = <<>>
    BY DieDoes
  <2>2. QED
    BY <1>1, <2>1, OtherEnd
<1>4. i \in DOMAIN wire[e] /\ \A j \in 1 .. i : wire'[e][j] = wire[e][j]
  BY <1>1, <1>2, <1>3, DieDoes
<1>5. i \in 1 .. i
  BY <1>4, wire[e] \in Seq(Messages) DEF TypeOK
<1>6. QED
  BY <1>1, <1>4, <1>5 DEF Resets

LEMMA ToldInQuiet ==
    ASSUME Told, Lasting, wire' = wire, alive' = alive,
           \A e \in Ends, s \in Streams :
              \/ writer'[e][s] = writer[e][s]
              \/ writer'[e][s] = "aborted" /\ source'[e][s] = "ended"
              \/ writer'[e][s] = "cut"
    PROVE  Told'
<1>1. ASSUME NEW e \in Ends, NEW s \in Streams PROVE KeepsTold(e, s)
  BY OtherEnd DEF KeepsTold, Resets, Closes
<1>2. QED
  BY <1>1, ToldIsKept

LEMMA ToldInNewStream ==
    ASSUME TypeOK, Told, NEW f \in Ends, NEW t \in Streams, NewStream(f, t)
    PROVE  Told'
<1>1. \A e \in Ends, s \in Streams :
         /\ source'[e][s] = IF e = f /\ s = t THEN "open" ELSE source[e][s]
         /\ writer'[e][s] = IF e = f /\ s = t THEN "running" ELSE writer[e][s]
  BY CreateDoes DEF NewStream
<1>2. \A e \in Ends, s \in Streams :
         /\ Resets(e, s)' => Resets(e, s)
         /\ Resets(e, s) => Resets(e, s)'
         /\ Closes(e, s) => Closes(e, s)'
  <2>1. Tells(f, t, "create")
    BY PushTells DEF NewStream
  <2>2. QED
    BY <2>1 DEF Tells
<1>3. Lasting /\ alive' = alive
  BY <1>1 DEF NewStream, Lasting
<1>4. ASSUME NEW e \in Ends, NEW s \in Streams PROVE KeepsTold(e, s)
  BY <1>1, <1>2, <1>3, OtherEnd DEF KeepsTold
<1>5. QED
  BY <1>3, <1>4, ToldIsKept

LEMMA ToldInWrite ==
    ASSUME TypeOK, Told, NEW f \in Ends, NEW t \in Streams, Write(f, t)
    PROVE  Told'
<1>1. UNCHANGED <<source, writer, alive>>
  BY DEF Write
<1>2. \A e \in Ends, s \in Streams :
         /\ Resets(e, s)' => Resets(e, s)
         /\ Resets(e, s) => Resets(e, s)'
         /\ Closes(e, s) => Closes(e, s)'
  <2>1. Tells(f, t, "data")
    BY PushTells DEF Write
  <2>2. QED
    BY <2>1 DEF Tells
<1>3. ASSUME NEW e \in Ends, NEW s \in Streams PROVE KeepsTold(e, s)
  BY <1>1, <1>2, OtherEnd DEF KeepsTold
<1>4. Lasting
  BY <1>1 DEF Lasting
<1>5. QED
  BY <1>3, <1>4, ToldIsKept

\* The writer ends, by itself or because it was aborted or reset.
LEMMA ToldInDone ==
    ASSUME TypeOK, Told, NEW f \in Ends, NEW t \in Streams,
           SinkEnds(f, t) \/ SinkErrs(f, t) \/ Notice(f, t)
    PROVE  Told'
<1>1. /\ alive' = alive
      /\ \A e \in Ends, s \in Streams :
            \/ writer'[e][s] = writer[e][s]
            \/ e = f /\ s = t /\ writer'[e][s] = "silent" /\ writer[e][s] = "cut"
            \/ e = f /\ s = t /\ writer'[e][s] = "done" /\ writer[e][s] # "cut"
  <2>1. CASE SinkEnds(f, t) \/ SinkErrs(f, t)
    BY <2>1, DoneDoes DEF SinkEnds, SinkErrs
  <2>2. CASE Notice(f, t)
    BY <2>2, NoticeDoes DEF Notice, Noticed
  <2>3. QED
    BY <2>1, <2>2
<1>2. /\ Lasting
      /\ SinkErrs(f, t) => source'[f][t] = "ended"
  <2>1. CASE SinkErrs(f, t)
    <3>1. {t} \in SUBSET Streams /\ End(f, {t}, {t})
      BY <2>1 DEF SinkErrs
    <3>2. HalvesEnd(f, {t}, {t})
      BY <3>1, EndDoes
    <3>3. QED
      BY <3>2 DEF HalvesEnd, Lasting
  <2>2. CASE SinkEnds(f, t) /\ ~ SinkErrs(f, t)
    <3>1. {} \in SUBSET Streams /\ {t} \in SUBSET Streams /\ End(f, {}, {t})
      BY <2>2 DEF SinkEnds
    <3>2. HalvesEnd(f, {}, {t})
      BY <3>1, EndDoes
    <3>3. QED
      BY <2>2, <3>2 DEF HalvesEnd, Lasting
  <2>3. CASE Notice(f, t) /\ ~ SinkErrs(f, t)
    BY <2>3 DEF Notice, Lasting
  <2>4. QED
    BY <2>1, <2>2, <2>3
<1>3. ToldAt(f, t)
  BY DEF Told
<1>4. CASE SinkEnds(f, t)
  <2>1. wire' = Pushed(f, <<Message("close", t)>>)
    BY <1>4 DEF SinkEnds
  <2>2. \A e \in Ends, s \in Streams :
           /\ Resets(e, s)' => Resets(e, s)
           /\ Resets(e, s) => Resets(e, s)'
           /\ Closes(e, s) => Closes(e, s)'
           /\ (alive[f] /\ alive[Other(f)] /\ e = Other(f) /\ s = t) => Closes(e, s)'
    <3>1. Tells(f, t, "close")
      BY <2>1, PushTells
    <3>2. QED
      BY <3>1 DEF Tells
  <2>3. ASSUME NEW e \in Ends, NEW s \in Streams PROVE KeepsTold(e, s)
    BY <1>1, <2>2, OtherEnd DEF KeepsTold
  <2>4. QED
    BY <1>2, <2>3, ToldIsKept
<1>5. CASE SinkErrs(f, t) \/ (Notice(f, t) /\ writer[f][t] = "aborted")
  <2>1. wire' = Pushed(f, <<Message("reset", t)>>)
    BY <1>5 DEF SinkErrs, Notice
  <2>2. source'[f][t] = "ended"
    BY <1>2, <1>3, <1>5 DEF ToldAt, Lasting
  <2>3. \A e \in Ends, s \in Streams :
           /\ Resets(e, s)' => Resets(e, s) \/ (e = Other(f) /\ s = t)
           /\ Resets(e, s) => Resets(e, s)'
           /\ Closes(e, s) => Closes(e, s)'
           /\ (alive[f] /\ alive[Other(f)] /\ e = Other(f) /\ s = t) => Resets(e, s)'
    <3>1. Tells(f, t, "reset")
      BY <2>1, PushTells
    <3>2. QED
      BY <3>1 DEF Tells
  <2>4. ASSUME NEW e \in Ends, NEW s \in Streams PROVE KeepsTold(e, s)
    <3>1. Other(e) \in Ends /\ (Other(e) = Other(f) => e = f)
      BY OtherEnd
    <3>2. QED
      BY <1>1, <2>2, <2>3, <3>1 DEF KeepsTold
  <2>5. QED
    BY <1>2, <2>4, ToldIsKept
<1>6. CASE Notice(f, t) /\ writer[f][t] # "aborted"
  <2>1. wire' = wire /\ writer[f][t] \in {"reset", "cut"}
    BY <1>6 DEF Notice, Signals
  <2>2. writer[f][t] = "reset" => source'[Other(f)][t] = "ended"
    BY <1>2, <1>3, <2>1, OtherEnd DEF ToldAt, Lasting
  <2>3. ASSUME NEW e \in Ends, NEW s \in Streams PROVE KeepsTold(e, s)
    BY <1>1, <2>1, <2>2, OtherEnd DEF KeepsTold, Resets, Closes
  <2>4. QED
    BY <1>2, <2>3, ToldIsKept
<1>7. QED
  BY <1>4, <1>5, <1>6

LEMMA ToldInReceiveCreate ==
    ASSUME TypeOK, Named, Told, NEW f \in Ends, ReceiveCreate(f)
    PROVE  Told'
<1> DEFINE t == First(f).id
<1>1. t \in Streams /\ source[f][t] = "none" /\ wire[f] # <<>> /\ First(f) = Message("create", t)
  BY NamedInReceiveCreate, FirstTypes DEF ReceiveCreate, Arrives
<1>2. \A e \in Ends, s \in Streams :
         /\ source'[e][s] = IF e = f /\ s = t THEN "open" ELSE source[e][s]
         /\ writer'[e][s] = IF e = f /\ s = t THEN "running" ELSE writer[e][s]
  BY <1>1, CreateDoes DEF ReceiveCreate
<1>3. Lasting /\ alive' = alive
  BY <1>1, <1>2 DEF ReceiveCreate, Lasting
<1>4. \A s \in Streams : First(f) # Message("reset", s) /\ First(f) # Message("close", s)
  BY <1>1, MessagesDiffer
<1>5. \A e \in Ends, s \in Streams :
         /\ Resets(e, s)' => Resets(e, s)
         /\ Resets(e, s) => Resets(e, s)'
         /\ Closes(e, s) => Closes(e, s)'
  BY <1>1, <1>4, HandleTells DEF ReceiveCreate
<1> HIDE DEF t
<1>6. ASSUME NEW e \in Ends, NEW s \in Streams PROVE KeepsTold(e, s)
  BY <1>2, <1>3, <1>5, OtherEnd DEF KeepsTold
<1>7. QED
  BY <1>3, <1>6, ToldIsKept

\* Whoever handles the message that ends a stream has its source ended.
LEMMA ToldInHandle ==
    ASSUME TypeOK, Named, Told, NEW f \in Ends,
           ReceiveData(f) \/ ReceiveClose(f) \/ ReceiveReset(f)
    PROVE  Told'
<1> DEFINE t == First(f).id
<1>1. /\ Lasting /\ wire[f] # <<>> /\ First(f).type # "end" /\ wire' = Handled(f) /\ alive' = alive
  BY ReceiveIsSteady DEF ReceiveData, ReceiveClose, ReceiveReset, Arrives, Steady, Lasting
<1>2. t \in Streams /\ First(f) = Message(First(f).type, t) /\ {t} \in SUBSET Streams /\ First(f) = wire[f][1]
      /\ 1 \in DOMAIN wire[f]
  BY <1>1, FirstTypes
<1>3. \A e \in Ends, s \in Streams :
         /\ Resets(e, s)' => Resets(e, s)
         /\ Resets(e, s) => Resets(e, s)' \/ (e = f /\ First(f) = Message("reset", s))
         /\ Closes(e, s) => Closes(e, s)' \/ (e = f /\ First(f) = Message("close", s))
  BY <1>1, HandleTells
<1>4. \A s \in Streams :
         /\ First(f) = Message("reset", s) => First(f).type = "reset" /\ s = t
         /\ First(f) = Message("close", s) => First(f).type = "close" /\ s = t
  BY DEF Message
<1>5. First(f).type \in {"close", "reset"} => source'[f][t] = "ended"
  <2>1. CASE ReceiveData(f)
    BY <2>1 DEF ReceiveData, Arrives
  <2>2. CASE ReceiveClose(f)
    <3>1. End(f, {t}, {}) /\ {} \in SUBSET Streams
      BY <2>2 DEF ReceiveClose
    <3>2. HalvesEnd(f, {t}, {})
      BY <1>2, <3>1, EndDoes
    <3>3. QED
      BY <1>2, <3>2 DEF HalvesEnd
  <2>3. CASE ReceiveReset(f)
    <3>1. End(f, {t}, {t})
      BY <2>3 DEF ReceiveReset
    <3>2. HalvesEnd(f, {t}, {t})
      BY <1>2, <3>1, EndDoes
    <3>3. QED
      BY <1>2, <3>2 DEF HalvesEnd
  <2>4. QED
    BY <2>1, <2>2, <2>3
<1>6. \A e \in Ends, s \in Streams :
         \/ writer'[e][s] = writer[e][s]
         \/ writer'[e][s] = "reset" /\ source'[Other(e)][s] = "ended"
  <2>1. CASE ReceiveData(f) \/ ReceiveClose(f)
    BY <2>1 DEF ReceiveData, ReceiveClose, stream
  <2>2. CASE ReceiveReset(f)
    <3>1. writer' = Signalled(f, {t}, "reset")
      BY <2>2 DEF ReceiveReset
    <3>2. WritersSignalled(f, {t}, "reset")
      BY <1>2, <3>1, SignalledDoes DEF Signals
    <3>3. Resets(f, t)
      BY <1>2, <2>2 DEF Resets, ReceiveReset, Arrives
    <3>4. source'[Other(f)][t] = "ended"
      <4>1. ToldAt(Other(f), t) /\ Other(Other(f)) = f /\ Other(f) \in Ends
        BY <1>2, OtherEnd DEF Told
      <4>2. QED
        BY <1>1, <1>2, <3>3, <4>1 DEF ToldAt, Lasting
    <3>5. QED
      BY <3>2, <3>4 DEF WritersSignalled
  <2>3. QED
    BY <2>1, <2>2
<1> HIDE DEF t
<1>7. ASSUME NEW e \in Ends, NEW s \in Streams PROVE KeepsTold(e, s)
  <2>1. Other(e) \in Ends
    BY OtherEnd
  <2>2. (Closes(Other(e), s) \/ Resets(Other(e), s)) =>
           source'[Other(e)][s] = "ended" \/ Closes(Other(e), s)' \/ Resets(Other(e), s)'
    BY <1>3, <1>4, <1>5, <2>1
  <2>3. QED
    BY <1>1, <1>3, <1>6, <2>1, <2>2 DEF KeepsTold
<1>8. QED
  BY <1>1, <1>7, ToldIsKept

LEMMA ToldInDie ==
    ASSUME TypeOK, Named, Told, NEW f \in Ends, Die(f)
    PROVE  Told'
<1>1. Lasting
  BY DieIsSteady DEF Steady, Lasting
<1>2. ~ alive'[f] /\ \A e \in Ends : e = f \/ Other(e) = f
  BY DieDoes, OtherEnd
<1>3. Known(f) \in SUBSET Streams /\ End(f, Known(f), Known(f))
      /\ writer' = Signalled(f, Known(f), "aborted")
  BY DEF Die, Known
<1>4. HalvesEnd(f, Known(f), Known(f)) /\ WritersSignalled(f, Known(f), "aborted")
  BY <1>3, EndDoes, SignalledDoes DEF Signals
<1>5. \A e \in Ends, s \in Streams :
         \/ writer'[e][s] = writer[e][s]
         \/ writer'[e][s] = "aborted" /\ source'[e][s] = "ended"
  BY <1>4 DEF HalvesEnd, WritersSignalled
<1>6. ASSUME NEW e \in Ends, NEW s \in Streams PROVE KeepsTold(e, s)
  BY <1>2, <1>5, DieTells, OtherEnd DEF KeepsTold
<1>7. QED
  BY <1>1, <1>6, ToldIsKept

LEMMA StepTold == TypeOK /\ Named /\ Told /\ [Next]_vars => Told'
<1> SUFFICES ASSUME TypeOK, Named, Told, [Next]_vars PROVE Told'
  OBVIOUS
<1>1. ASSUME UNCHANGED <<wire, alive, source, writer>> PROVE Told'
  <2>1. Lasting
    BY <1>1 DEF Lasting
  <2>2. QED
    BY <1>1, <2>1, ToldInQuiet
<1>2. ASSUME NEW e \in Ends, Receive(e) PROVE Told'
  BY <1>2, ToldInReceiveCreate, ToldInHandle, ToldInDie DEF Receive, ReceiveUnknown, ReceiveEnd
<1>3. ASSUME NEW e \in Ends, NEW s \in Streams, CloseStream(e, s) \/ Abort(e, s) \/ Reset(e, s)
      PROVE  Told'
  <2>1. {s} \in SUBSET Streams /\ {} \in SUBSET Streams /\ UNCHANGED <<wire, alive>>
    BY <1>3 DEF CloseStream, Abort, Reset, muxer
  <2>2. CASE CloseStream(e, s)
    <3>1. End(e, {s}, {}) /\ writer' = writer
      BY <2>2 DEF CloseStream
    <3>2. HalvesEnd(e, {s}, {})
      BY <2>1, <3>1, EndDoes
    <3>3. QED
      BY <2>1, <3>1, <3>2, ToldInQuiet DEF HalvesEnd, Lasting
  <2>3. CASE Abort(e, s) \/ Reset(e, s)
    <3>1. PICK signal \in {"aborted", "cut"} :
              End(e, {s}, {s}) /\ writer' = Signalled(e, {s}, signal)
      BY <2>3 DEF Abort, Reset
    <3>2. HalvesEnd(e, {s}, {s}) /\ WritersSignalled(e, {s}, signal)
      BY <2>1, <3>1, EndDoes, SignalledDoes DEF Signals
    <3>3. Lasting
      BY <3>2 DEF HalvesEnd, Lasting
    <3>4. \A f \in Ends, t \in Streams :
             \/ writer'[f][t] = writer[f][t]
             \/ writer'[f][t] = "aborted" /\ source'[f][t] = "ended"
             \/ writer'[f][t] = "cut"
      BY <3>2 DEF HalvesEnd, WritersSignalled
    <3>5. QED
      BY <2>1, <3>3, <3>4, ToldInQuiet
  <2>4. QED
    BY <1>3, <2>2, <2>3
<1>4. ASSUME NEW e \in Ends, NEW s \in Streams,
             \/ UseStream(e, s) \/ Notice(e, s) \/ SelectFails(e, s)
             \/ SinkErrs(e, s) \/ Abort(e, s) \/ Reset(e, s)
      PROVE  Told'
  <2>1. CASE Selected(e, s) \/ SelectFails(e, s)
    BY <1>1, <2>1 DEF Selected, SelectFails, muxer, stream
  <2>2. CASE NewStream(e, s) \/ Write(e, s)
    BY <2>2, ToldInNewStream, ToldInWrite
  <2>3. CASE SinkEnds(e, s) \/ SinkErrs(e, s) \/ Notice(e, s)
    BY <2>3, ToldInDone
  <2>4. QED
    BY <1>3, <1>4, <2>1, <2>2, <2>3 DEF UseStream
<1>5. ASSUME NEW e \in Ends, Close(e) \/ Closed(e) PROVE Told'
  BY <1>1, <1>5 DEF Close, Closed, muxer, stream
<1>6. CASE Proceeds
  BY <1>2, <1>4, <1>5, <1>6 DEF Proceeds
<1>7. CASE \E e \in Ends : Fails(e)
  BY <1>4, <1>5, <1>7, ToldInDie DEF Fails, Disconnect
<1>8. CASE UNCHANGED vars
  BY <1>1, <1>8 DEF vars, muxer, stream
<1>9. QED
  BY <1>6, <1>7, <1>8 DEF Next

\* A reader whose writer is done, with nothing more on the way, has ended.
THEOREM ReadersAreTold == Spec => []EndsReachOther
<1>1. Told => EndsReachOther
  <2> SUFFICES ASSUME Told, NEW e \in Ends, NEW s \in Streams, alive[e], alive[Other(e)],
                      writer[e][s] = "done",
                      \A i \in DOMAIN wire[Other(e)] : wire[Other(e)][i].id # s
               PROVE  source[Other(e)][s] = "ended"
    BY DEF EndsReachOther
  <2>1. ToldAt(e, s)
    BY DEF Told
  <2>2. Message("close", s).id = s /\ Message("reset", s).id = s
    BY DEF Message
  <2>3. ~ Closes(Other(e), s) /\ ~ Resets(Other(e), s)
    BY <2>2 DEF Closes, Resets
  <2>4. QED
    BY <2>1, <2>3 DEF ToldAt
<1>2. QED
  BY <1>1, InitTypes, InitNamed, InitTold, StepTypes, StepNamed, StepTold, PTL DEF Spec
=============================================================================
