-------------------------- MODULE MultistreamProofs --------------------------
(* Proofs about Multistream, for every list of protocols on either side.      *)
(* The two ends run in lockstep: InStep says, for each phase of the Dialer,   *)
(* what is under way in each direction.                                       *)
EXTENDS Multistream, SequenceTheorems, TLAPS

USE MultistreamAssumption

\* What was asked last is on its way to the listener.
Asked(q) == toListener = q /\ listener # "selected"

\* The answer to the protocol written last is on its way: the queue of the
\* dialer is a when it was accepted, ad when the application has written too,
\* and r when it was refused.
Replied(a, ad, r) ==
    /\ toListener = <<>>
    /\ IF wanted[next] \in supported
       THEN /\ listener = "selected" /\ handled = wanted[next]
            /\ \/ toDialer = a /\ "listener" \notin sent
               \/ toDialer = ad /\ "listener" \in sent
       ELSE listener # "selected" /\ toDialer = r

RepliedAlone == Replied(<<wanted[next]>>, <<wanted[next], Data>>, <<Na>>)
RepliedAfterEcho ==
    Replied(<<ProtocolId, wanted[next]>>, <<ProtocolId, wanted[next], Data>>,
            <<ProtocolId, Na>>)

InStep ==
    /\ dialer = "idle" => Asked(<<>>) /\ toDialer = <<>> /\ next = 0
    /\ dialer = "handshake" =>
        /\ next = 0
        /\ \/ Asked(<<ProtocolId>>) /\ toDialer = <<>>
           \/ Asked(<<>>) /\ toDialer = <<ProtocolId>>
    /\ dialer = "list" =>
        /\ next = 0
        /\ \/ Asked(<<Ls>>) /\ toDialer = <<>>
           \/ Asked(<<>>) /\ toDialer = <<[protocols |-> supported]>>
    /\ dialer = "first" /\ ~shaken =>
        \/ Asked(<<ProtocolId, wanted[next]>>) /\ toDialer = <<>>
        \/ Asked(<<wanted[next]>>) /\ toDialer = <<ProtocolId>>
        \/ RepliedAfterEcho
    /\ dialer \in {"confirm", "rest"} \/ (dialer = "first" /\ shaken) =>
        \/ Asked(<<wanted[next]>>) /\ toDialer = <<>>
        \/ RepliedAlone
    /\ dialer = "selected" =>
        /\ listener = "selected" /\ handled = wanted[next]
        /\ toListener = <<>> \/ (toListener = <<Data>> /\ "dialer" \in sent)
        /\ \/ toDialer = <<>> /\ "listener" \notin sent
           \/ toDialer = <<Data>> /\ "listener" \in sent
    /\ dialer = "refused" => Asked(<<>>)
    /\ dialer = "failed" =>
        \/ listener = "selected" /\ next > 0 /\ handled = wanted[next] /\ toListener = <<>>
        \/ \E q \in {<<>>, <<ProtocolId>>, <<Ls>>} : Asked(q)
        \/ next > 0 /\ (Asked(<<wanted[next]>>) \/ Asked(<<ProtocolId, wanted[next]>>))

\* The protocols written so far and answered are not supported, and the one
\* that was accepted is.
Progress ==
    /\ dialer \in Selecting \cup {"selected"} => next > 0
    /\ \A j \in 1 .. next - 1 : wanted[j] \notin supported
    /\ listener = "selected" => next > 0 /\ wanted[next] \in supported
    /\ dialer = "refused" => \A j \in DOMAIN wanted : wanted[j] \notin supported
    /\ dialer # "selected" => "dialer" \notin sent
    /\ listener # "selected" => "listener" \notin sent /\ handled = Pending

Inv == TypeOK /\ InStep /\ Progress

\* The lines that the two ends write.
LEMMA Written ==
    /\ {ProtocolId, Ls, Na, Data} \subseteq Lines
    /\ Protocols \subseteq Lines
    /\ \A S \in SUBSET Protocols : [protocols |-> S] \in Lines
  BY DEF Lines, Lists

\* A protocol of the dialer's list is a protocol, and so a line.
LEMMA WantedIsLine ==
    ASSUME TypeOK, NEW i \in 1 .. Len(wanted)
    PROVE  wanted[i] \in Protocols /\ wanted[i] \in Lines
  BY Written DEF TypeOK

\* Reading a line leaves lines.
LEMMA ReadLeavesLines ==
    ASSUME NEW q \in Seq(Lines), q # <<>>
    PROVE  Tail(q) \in Seq(Lines) /\ Head(q) \in Lines
  OBVIOUS

\* Writing lines leaves lines.
LEMMA WriteLeavesLines ==
    ASSUME NEW q \in Seq(Lines)
    PROVE  /\ \A e \in Lines : Append(q, e) \in Seq(Lines)
           /\ \A r \in Seq(Lines) : q \o r \in Seq(Lines)
  OBVIOUS

LEMMA TypeStep == TypeOK /\ [Next]_vars => TypeOK'
<1> SUFFICES ASSUME TypeOK, [Next]_vars PROVE TypeOK'
  OBVIOUS
<1> USE Written DEF TypeOK, DialerPhases, Waiting, Selecting
<1> DEFINE Quiet == UNCHANGED sent /\ UNCHANGED listenerVars /\ UNCHANGED <<wanted, supported>>
<1>w. wanted \in Seq(Protocols) /\ Len(wanted) \in Nat
  OBVIOUS
<1>1. CASE CallLs /\ Quiet
  <2>1. lists' \in 0 .. MaxLists
    BY <1>1 DEF CallLs
  <2>2. toListener' = Append(toListener, Ls) \/ toListener' = Append(toListener, ProtocolId)
    BY <1>1 DEF CallLs
  <2>3. toListener' \in Seq(Lines)
    BY ONLY <2>2, Written, toListener \in Seq(Lines), WriteLeavesLines
  <2>q. QED
    BY <1>1, <2>1, <2>3 DEF CallLs, listenerVars
<1>2. CASE CallSelect /\ Quiet
  <2>1. CASE wanted = <<>>
    BY <1>2, <2>1 DEF CallSelect, listenerVars
  <2>2. CASE wanted # <<>>
    <3>1. 1 \in 1 .. Len(wanted) /\ next' \in 0 .. Len(wanted)
      BY <1>2, <2>2, <1>w DEF CallSelect
    <3>2. <<wanted[1]>> \in Seq(Lines) /\ <<ProtocolId, wanted[1]>> \in Seq(Lines)
      BY <3>1, WantedIsLine
    <3>3. \/ toListener' = toListener \o <<wanted[1]>>
          \/ toListener' = toListener \o <<ProtocolId, wanted[1]>>
      BY <1>2, <2>2 DEF CallSelect
    <3>4. toListener' \in Seq(Lines)
      BY ONLY <3>2, <3>3, toListener \in Seq(Lines), WriteLeavesLines
    <3>q. QED
      BY <1>2, <2>2, <3>1, <3>4 DEF CallSelect, listenerVars
  <2>q. QED
    BY <2>1, <2>2
<1>3. CASE DialerFails /\ Quiet
  BY <1>3 DEF DialerFails, listenerVars
<1>4. CASE DialerSends /\ UNCHANGED listenerVars /\ UNCHANGED <<wanted, supported>>
  BY <1>4 DEF DialerSends, listenerVars, dialerVars
<1>5. ASSUME NEW line \in Lines, HandshakeReply(line) \/ ListReply(line), Quiet
      PROVE TypeOK'
  <2>1. toDialer' \in Seq(Lines)
    BY <1>5, ReadLeavesLines DEF HandshakeReply, ListReply, DialerReads
  <2>2. toListener' = toListener \/ toListener' = Append(toListener, Ls)
    BY <1>5 DEF HandshakeReply, ListReply
  <2>4. toListener' \in Seq(Lines)
    BY ONLY <2>2, Written, toListener \in Seq(Lines), WriteLeavesLines
  <2>3. dialer' \in DialerPhases /\ shaken' \in BOOLEAN /\ UNCHANGED <<next, lists>>
    BY <1>5 DEF HandshakeReply, ListReply
  <2>q. QED
    BY <1>5, <2>1, <2>3, <2>4 DEF listenerVars
<1>6. ASSUME NEW line \in Lines, FirstReply(line) \/ NextReply(line), Quiet
      PROVE TypeOK'
  <2>1. toDialer' \in Seq(Lines)
    BY <1>6, ReadLeavesLines DEF FirstReply, NextReply, DialerReads
  <2>2. UNCHANGED <<shaken, lists>>
    BY <1>6 DEF FirstReply, NextReply
  <2>3. \/ dialer' = "confirm" /\ UNCHANGED <<next, toListener>>
        \/ Answered(line)
    BY <1>6 DEF FirstReply, NextReply
  <2>4. CASE dialer' \in {"confirm", "selected", "refused"} /\ UNCHANGED <<next, toListener>>
    BY <1>6, <2>1, <2>2, <2>4 DEF listenerVars
  <2>5. CASE /\ next < Len(wanted) /\ dialer' = "rest" /\ next' = next + 1
             /\ toListener' = Append(toListener, wanted[next + 1])
    <3>1. next + 1 \in 1 .. Len(wanted) /\ next' \in 0 .. Len(wanted)
      BY <2>5, <1>w
    <3>2. toListener' \in Seq(Lines)
      BY <2>5, <3>1, WantedIsLine
    <3>q. QED
      BY <1>6, <2>1, <2>2, <2>5, <3>1, <3>2 DEF listenerVars
  <2>q. QED
    BY <2>3, <2>4, <2>5 DEF Answered
<1>7. ASSUME NEW line \in Lines, Handle(line),
             UNCHANGED sent, UNCHANGED dialerVars, UNCHANGED <<wanted, supported>>
      PROVE TypeOK'
  <2>1. toListener' \in Seq(Lines)
    BY <1>7, ReadLeavesLines DEF Handle
  <2>2. Reply(line) \in Lines
    BY <1>7 DEF Reply
  <2>q. QED
    BY <1>7, <2>1, <2>2 DEF Handle, dialerVars
<1>8. CASE ((ListenerFails /\ UNCHANGED sent) \/ ListenerSends)
           /\ UNCHANGED dialerVars /\ UNCHANGED <<wanted, supported>>
  <2>1. CASE ListenerFails /\ UNCHANGED sent
    BY <1>8, <2>1 DEF ListenerFails, dialerVars
  <2>2. CASE ListenerSends
    <3>1. Append(toDialer, Data) \in Seq(Lines)
      OBVIOUS
    <3>q. QED
      BY <1>8, <2>2, <3>1 DEF ListenerSends, dialerVars, listenerVars
  <2>q. QED
    BY <1>8, <2>1, <2>2
<1>9. CASE UNCHANGED vars
  BY <1>9 DEF vars
<1>q. QED
  BY <1>1, <1>2, <1>3, <1>4, <1>5, <1>6, <1>7, <1>8, <1>9
     DEF Next, DialerNext, DialerStep, ListenerNext, ListenerStep

\* The words of the negotiation are not taken for one another.
LEMMA WordsDiffer ==
    /\ \A p \in Protocols : p # ProtocolId /\ p # Ls /\ p # Na /\ p # Data
    /\ ProtocolId # Ls /\ ProtocolId # Na /\ Ls # Na
    /\ \A S \in SUBSET Protocols :
           LET l == [protocols |-> S]
           IN  l \in Lists /\ l \notin Protocols /\ l # ProtocolId /\ l # Ls /\ l # Na
  BY DEF Lists

\* Reading from and writing to the short queues of InStep.
LEMMA AppendToOne == ASSUME NEW e, NEW f PROVE Append(<<e>>, f) = <<e, f>>
<1>1. <<e>> \in Seq({e, f}) /\ <<e, f>> \in Seq({e, f}) /\ Append(<<e>>, f) \in Seq({e, f})
  OBVIOUS
<1>2. Len(<<e, f>>) = 2 /\ Len(Append(<<e>>, f)) = 2
  OBVIOUS
<1>3. \A i \in 1 .. 2 : Append(<<e>>, f)[i] = <<e, f>>[i]
  OBVIOUS
<1>q. QED
  BY <1>1, <1>2, <1>3, SeqEqual

LEMMA AppendToTwo == ASSUME NEW e, NEW f, NEW g PROVE Append(<<e, f>>, g) = <<e, f, g>>
<1> DEFINE S == {e, f, g}
<1>1. <<e, f>> \in Seq(S) /\ <<e, f, g>> \in Seq(S) /\ Append(<<e, f>>, g) \in Seq(S)
  OBVIOUS
<1>2. Len(<<e, f, g>>) = 3 /\ Len(Append(<<e, f>>, g)) = 3
  OBVIOUS
<1>3. \A i \in 1 .. 3 : Append(<<e, f>>, g)[i] = <<e, f, g>>[i]
  OBVIOUS
<1>q. QED
  BY <1>1, <1>2, <1>3, SeqEqual

LEMMA ShortQueues ==
    /\ \A e : /\ <<e>> # <<>> /\ Head(<<e>>) = e /\ Tail(<<e>>) = <<>>
             /\ Append(<<>>, e) = <<e>> /\ <<>> \o <<e>> = <<e>>
    /\ \A e, f : /\ <<e, f>> # <<>> /\ Head(<<e, f>>) = e /\ Tail(<<e, f>>) = <<f>>
                /\ <<>> \o <<e, f>> = <<e, f>>
    /\ \A e, f, g : /\ <<e, f, g>> # <<>> /\ Head(<<e, f, g>>) = e
                   /\ Tail(<<e, f, g>>) = <<f, g>>
<1>1. \A e : /\ <<e>> # <<>> /\ Head(<<e>>) = e /\ Tail(<<e>>) = <<>>
            /\ Append(<<>>, e) = <<e>> /\ <<>> \o <<e>> = <<e>>
  OBVIOUS
<1>2. \A e, f : /\ <<e, f>> # <<>> /\ Head(<<e, f>>) = e /\ Tail(<<e, f>>) = <<f>>
               /\ <<>> \o <<e, f>> = <<e, f>>
  OBVIOUS
<1>3. \A e, f, g : /\ <<e, f, g>> # <<>> /\ Head(<<e, f, g>>) = e
                  /\ Tail(<<e, f, g>>) = <<f, g>>
  OBVIOUS
<1>q. QED
  BY <1>1, <1>2, <1>3

LEMMA LockStep == Inv /\ [Next]_vars => InStep' /\ Progress'
<1> SUFFICES ASSUME Inv, [Next]_vars PROVE InStep' /\ Progress'
  OBVIOUS
<1> USE DEF Inv, TypeOK, DialerPhases, Waiting, Selecting, InStep, Progress, Asked, Replied, RepliedAlone, RepliedAfterEcho
<1> DEFINE Quiet == UNCHANGED sent /\ UNCHANGED listenerVars /\ UNCHANGED <<wanted, supported>>
<1>1. CASE CallLs /\ Quiet
  BY <1>1 DEF CallLs, listenerVars
<1>2. CASE CallSelect /\ Quiet
  <2>1. CASE wanted = <<>>
    BY <1>2, <2>1 DEF CallSelect, listenerVars
  <2>2. CASE wanted # <<>>
    <3>1. /\ toListener' = IF shaken THEN <<wanted[1]>> ELSE <<ProtocolId, wanted[1]>>
          /\ toDialer' = <<>> /\ dialer' = "first" /\ next' = 1 /\ shaken' = shaken
          /\ listener # "selected"
      BY <1>2, <2>2, ShortQueues DEF CallSelect
    <3>2. InStep'
      BY <1>2, <3>1 DEF listenerVars
    <3>3. Progress'
      BY <1>2, <3>1 DEF listenerVars
    <3>q. QED
      BY <3>2, <3>3
  <2>q. QED
    BY <2>1, <2>2
<1>3. CASE DialerFails /\ Quiet
  <2>1. /\ dialer \in Waiting /\ dialer' = "failed"
        /\ UNCHANGED <<next, shaken, toListener, toDialer, listener, handled, sent, wanted, supported>>
    BY <1>3 DEF DialerFails, listenerVars
  <2>2. \/ listener = "selected" /\ next > 0 /\ handled = wanted[next] /\ toListener = <<>>
        \/ \E q \in {<<>>, <<ProtocolId>>, <<Ls>>} : Asked(q)
        \/ next > 0 /\ (Asked(<<wanted[next]>>) \/ Asked(<<ProtocolId, wanted[next]>>))
    BY <2>1
  <2>3. InStep'
    BY ONLY <2>1, <2>2 DEF InStep, Asked
  <2>q. QED
    BY <2>1, <2>3
<1>4. CASE DialerSends /\ UNCHANGED listenerVars /\ UNCHANGED <<wanted, supported>>
  <2>1. /\ dialer = "selected" /\ toListener = <<>> /\ toListener' = <<Data>>
        /\ sent' = sent \cup {"dialer"}
    BY <1>4, ShortQueues DEF DialerSends
  <2>2. UNCHANGED <<dialer, next, shaken, listener, handled, toDialer, wanted, supported>>
    BY <1>4 DEF DialerSends, dialerVars, listenerVars
  <2>q. QED
    BY <2>1, <2>2
<1>5. ASSUME NEW line \in Lines, HandshakeReply(line), Quiet
      PROVE InStep' /\ Progress'
  <2>1. /\ Asked(<<>>) /\ toDialer = <<ProtocolId>> /\ next = 0
    BY <1>5, ShortQueues DEF HandshakeReply, DialerReads
  <2>2. line = ProtocolId /\ toDialer' = <<>>
    BY <1>5, <2>1, ShortQueues DEF HandshakeReply, DialerReads
  <2>3. toListener' = <<Ls>> /\ dialer' = "list" /\ next' = 0 /\ listener # "selected"
    BY <1>5, <2>1, <2>2, ShortQueues DEF HandshakeReply
  <2>q. QED
    BY <1>5, <2>2, <2>3 DEF listenerVars
<1>l. ASSUME NEW line \in Lines, ListReply(line), Quiet
      PROVE InStep' /\ Progress'
  <2>1. /\ Asked(<<>>) /\ toDialer = <<[protocols |-> supported]>> /\ next = 0
    BY <1>l, ShortQueues DEF ListReply, DialerReads
  <2>2. line = [protocols |-> supported] /\ toDialer' = <<>>
    BY <1>l, <2>1, ShortQueues DEF ListReply, DialerReads
  <2>3. dialer' = "idle" /\ toListener' = <<>> /\ next' = 0 /\ listener # "selected"
    BY <1>l, <2>1, <2>2, WordsDiffer DEF ListReply
  <2>q. QED
    BY <1>l, <2>2, <2>3 DEF listenerVars
<1>6. ASSUME NEW line \in Lines, Answered(line), RepliedAlone,
             dialer \in Selecting, line = Head(toDialer), toDialer' = Tail(toDialer),
             shaken' = shaken, Quiet
      PROVE InStep' /\ Progress'
  <2>0. next \in 1 .. Len(wanted) /\ wanted[next] \in Protocols
    BY <1>6, WantedIsLine
  <2>1. CASE wanted[next] \in supported
    <3>1. /\ line = wanted[next] /\ listener = "selected" /\ handled = wanted[next]
          /\ \/ toDialer' = <<>> /\ "listener" \notin sent
             \/ toDialer' = <<Data>> /\ "listener" \in sent
      <4>1. /\ listener = "selected" /\ handled = wanted[next]
            /\ \/ toDialer = <<wanted[next]>> /\ "listener" \notin sent
               \/ toDialer = <<wanted[next], Data>> /\ "listener" \in sent
        BY ONLY <1>6, <2>1 DEF Replied, RepliedAlone
      <4>2. CASE toDialer = <<wanted[next]>> /\ "listener" \notin sent
        BY ONLY <1>6, <4>1, <4>2, ShortQueues
      <4>3. CASE toDialer = <<wanted[next], Data>> /\ "listener" \in sent
        <5>1. line = wanted[next] /\ toDialer' = <<Data>>
          BY ONLY <1>6, <4>3, ShortQueues
        <5>q. QED
          BY ONLY <4>1, <4>3, <5>1
      <4>q. QED
        BY ONLY <4>1, <4>2, <4>3
    <3>2. dialer' = "selected" /\ toListener' = <<>> /\ next' = next
      BY <1>6, <2>1, <3>1 DEF Answered
    <3>q. QED
      BY <1>6, <2>0, <2>1, <3>1, <3>2 DEF listenerVars
  <2>2. CASE wanted[next] \notin supported
    <3>1. /\ line = Na /\ toDialer' = <<>> /\ listener # "selected" /\ line # wanted[next]
      BY <1>6, <2>0, <2>2, ShortQueues, WordsDiffer
    <3>2. CASE next < Len(wanted)
      <4>1. /\ dialer' = "rest" /\ next' = next + 1 /\ toListener' = <<wanted[next + 1]>>
        BY <1>6, <3>1, <3>2, ShortQueues DEF Answered
      <4>2. InStep'
        BY <1>6, <3>1, <4>1 DEF listenerVars
      <4>3. \A j \in 1 .. next' - 1 : wanted[j] \notin supported
        BY <2>0, <2>2, <4>1
      <4>q. QED
        BY <1>6, <2>0, <3>1, <4>1, <4>2, <4>3 DEF listenerVars
    <3>3. CASE ~(next < Len(wanted))
      <4>1. dialer' = "refused" /\ next' = next /\ toListener' = <<>>
        BY <1>6, <2>2, <3>1, <3>3 DEF Answered
      <4>2. \A j \in DOMAIN wanted : wanted[j] \notin supported
        BY <2>0, <2>2, <3>3, DOMAIN wanted = 1 .. Len(wanted)
      <4>q. QED
        BY <1>6, <2>0, <3>1, <4>1, <4>2 DEF listenerVars
    <3>q. QED
      BY <3>2, <3>3
  <2>q. QED
    BY <2>1, <2>2
<1>f. ASSUME NEW line \in Lines, FirstReply(line), Quiet
      PROVE InStep' /\ Progress'
  <2>0. /\ dialer = "first" /\ toDialer # <<>> /\ line = Head(toDialer)
        /\ toDialer' = Tail(toDialer) /\ shaken' = shaken /\ lists' = lists
    BY <1>f DEF FirstReply, DialerReads
  <2>1. CASE shaken
    <3>1. Answered(line) /\ RepliedAlone
      BY <1>f, <2>0, <2>1 DEF FirstReply
    <3>q. QED
      BY <1>6, <1>f, <2>0, <3>1
  <2>2. CASE ~shaken
    <3>1. line = ProtocolId
      BY <2>0, <2>2, ShortQueues
    <3>2. dialer' = "confirm" /\ next' = next /\ toListener' = toListener
      BY <1>f, <2>2, <3>1 DEF FirstReply
    <3>3. CASE Asked(<<wanted[next]>>) /\ toDialer = <<ProtocolId>>
      <4>1. toDialer' = <<>>
        BY <2>0, <3>3, ShortQueues
      <4>q. QED
        BY <1>f, <2>0, <3>2, <3>3, <4>1 DEF listenerVars
    <3>4. CASE RepliedAfterEcho
      <4>1. RepliedAlone'
        <5>1. /\ UNCHANGED <<wanted, supported, sent, listener, handled, next, toListener>>
              /\ toDialer' = Tail(toDialer)
          BY <1>f, <2>0, <3>2 DEF listenerVars
        <5>2. \A e : toDialer = <<ProtocolId, e>> => toDialer' = <<e>>
          BY ONLY <5>1, ShortQueues
        <5>3. \A e, f : toDialer = <<ProtocolId, e, f>> => toDialer' = <<e, f>>
          BY ONLY <5>1, ShortQueues
        <5>q. QED
          BY ONLY <5>1, <5>2, <5>3, <3>4 DEF Replied, RepliedAlone, RepliedAfterEcho
      <4>q. QED
        BY <1>f, <2>0, <3>2, <4>1 DEF listenerVars
    <3>q. QED
      BY <2>0, <2>2, <3>3, <3>4
  <2>q. QED
    BY <2>1, <2>2
<1>n. ASSUME NEW line \in Lines, NextReply(line), Quiet
      PROVE InStep' /\ Progress'
  <2>1. /\ dialer \in {"confirm", "rest"} /\ toDialer # <<>> /\ line = Head(toDialer)
        /\ toDialer' = Tail(toDialer) /\ shaken' = shaken /\ Answered(line)
    BY <1>n DEF NextReply, DialerReads
  <2>2. RepliedAlone
    BY <2>1
  <2>q. QED
    BY <1>6, <1>n, <2>1, <2>2
<1>7. ASSUME NEW line \in Lines, Handle(line),
             UNCHANGED sent, UNCHANGED dialerVars, UNCHANGED <<wanted, supported>>
      PROVE InStep' /\ Progress'
  <2>0. /\ listener = "reading" /\ toListener # <<>> /\ line = Head(toListener)
        /\ toListener' = Tail(toListener) /\ toDialer' = Append(toDialer, Reply(line))
        /\ UNCHANGED <<dialer, next, shaken, lists, sent, wanted, supported>>
        /\ IF line # ProtocolId /\ line \in supported
           THEN listener' = "selected" /\ handled' = line
           ELSE UNCHANGED <<listener, handled>>
    BY <1>7 DEF Handle, dialerVars
  <2>u. supported \in SUBSET Protocols
    OBVIOUS
  <2>r. /\ Reply(ProtocolId) = ProtocolId
        /\ Reply(Ls) = [protocols |-> supported]
        /\ \A p \in Protocols : Reply(p) = IF p \in supported THEN p ELSE Na
    BY <2>u, WordsDiffer DEF Reply
  <2>w. next > 0 => wanted[next] \in Protocols
    BY WantedIsLine
  <2>1. CASE dialer = "handshake"
    <3>1. toListener = <<ProtocolId>> /\ toDialer = <<>> /\ next = 0 /\ line = ProtocolId
      BY <2>0, <2>1, ShortQueues
    <3>2. toListener' = <<>> /\ toDialer' = <<ProtocolId>> /\ UNCHANGED <<listener, handled>>
      BY <2>0, <2>r, <3>1, ShortQueues
    <3>q. QED
      BY <2>0, <2>1, <3>1, <3>2
  <2>2. CASE dialer = "list"
    <3>1. toListener = <<Ls>> /\ toDialer = <<>> /\ next = 0 /\ line = Ls
      BY <2>0, <2>2, ShortQueues
    <3>2. /\ toListener' = <<>> /\ toDialer' = <<[protocols |-> supported]>>
          /\ UNCHANGED <<listener, handled>>
      BY <2>0, <2>r, <2>u, <3>1, ShortQueues, WordsDiffer
    <3>q. QED
      BY <2>0, <2>2, <3>1, <3>2
  <2>3. CASE dialer \in Selecting
    <3>0. next > 0 /\ wanted[next] \in Protocols /\ listener = "reading"
      BY <2>0, <2>w, <2>3
    <3>1. CASE dialer = "first" /\ ~shaken /\ toListener = <<ProtocolId, wanted[next]>> /\ toDialer = <<>>
      <4>1. line = ProtocolId /\ toListener' = <<wanted[next]>> /\ toDialer' = <<ProtocolId>>
        BY <2>0, <2>r, <3>1, ShortQueues
      <4>q. QED
        BY <2>0, <3>0, <3>1, <4>1
    <3>2. CASE dialer = "first" /\ ~shaken /\ toListener = <<wanted[next]>> /\ toDialer = <<ProtocolId>>
      <4>1. /\ line = wanted[next] /\ toListener' = <<>>
            /\ toDialer' = <<ProtocolId, Reply(line)>>
        BY ONLY <2>0, <3>2, ShortQueues, AppendToOne
      <4>2. RepliedAfterEcho'
        BY <2>0, <2>r, <3>0, <4>1, WordsDiffer
      <4>q. QED
        BY <2>0, <2>r, <3>0, <3>2, <4>1, <4>2, WordsDiffer
    <3>3. CASE ~(dialer = "first" /\ ~shaken) /\ toListener = <<wanted[next]>> /\ toDialer = <<>>
      <4>1. /\ line = wanted[next] /\ toListener' = <<>> /\ toDialer' = <<Reply(line)>>
        BY <2>0, <3>3, ShortQueues
      <4>2. RepliedAlone'
        BY <2>0, <2>r, <3>0, <4>1, WordsDiffer
      <4>q. QED
        BY <2>0, <2>3, <2>r, <3>0, <3>3, <4>1, <4>2, WordsDiffer
    <3>q. QED
      BY <2>0, <2>3, <3>1, <3>2, <3>3
  <2>4. CASE dialer = "failed"
    <3>1. CASE toListener = <<ProtocolId>> \/ toListener = <<Ls>>
      <4>1. toListener' = <<>> /\ (line = ProtocolId \/ line = Ls)
        BY ONLY <2>0, <3>1, ShortQueues
      <4>2. line = Ls => line \notin supported
        BY <2>u, WordsDiffer
      <4>3. UNCHANGED <<listener, handled>>
        BY ONLY <2>0, <4>1, <4>2
      <4>q. QED
        BY <2>0, <2>4, <4>1, <4>3
    <3>2. CASE next > 0 /\ toListener = <<wanted[next]>>
      <4>1. line = wanted[next] /\ line # ProtocolId /\ toListener' = <<>>
        BY <2>0, <2>w, <3>2, ShortQueues, WordsDiffer
      <4>q. QED
        BY <2>0, <2>4, <3>2, <4>1
    <3>3. CASE next > 0 /\ toListener = <<ProtocolId, wanted[next]>>
      <4>1. line = ProtocolId /\ toListener' = <<wanted[next]>>
        BY <2>0, <3>3, ShortQueues
      <4>q. QED
        BY <2>0, <2>4, <3>3, <4>1
    <3>q. QED
      <4>1. \/ listener = "selected"
            \/ \E q \in {<<>>, <<ProtocolId>>, <<Ls>>} : Asked(q)
            \/ next > 0 /\ (Asked(<<wanted[next]>>) \/ Asked(<<ProtocolId, wanted[next]>>))
        BY ONLY <2>4, InStep DEF InStep
      <4>2. listener # "selected" /\ toListener # <<>>
        BY <2>0
      <4>q. QED
        BY ONLY <3>1, <3>2, <3>3, <4>1, <4>2 DEF Asked
  <2>5. dialer \notin {"idle", "selected", "refused"}
    BY <2>0
  <2>q. QED
    BY <2>1, <2>2, <2>3, <2>4, <2>5
<1>8. CASE ListenerFails /\ UNCHANGED sent /\ UNCHANGED dialerVars
           /\ UNCHANGED <<wanted, supported>>
  BY <1>8 DEF ListenerFails, dialerVars
<1>s. CASE ListenerSends /\ UNCHANGED dialerVars /\ UNCHANGED <<wanted, supported>>
  <2>1. /\ listener = "selected" /\ "listener" \notin sent
        /\ sent' = sent \cup {"listener"} /\ toDialer' = Append(toDialer, Data)
        /\ UNCHANGED <<dialer, next, shaken, listener, handled, toListener, wanted, supported>>
    BY <1>s DEF ListenerSends, dialerVars, listenerVars
  <2>2. RepliedAlone => RepliedAlone'
    <3>1. \A e : toDialer = <<e>> => toDialer' = <<e, Data>>
      BY ONLY <2>1, AppendToOne
    <3>q. QED
      BY ONLY <2>1, <3>1 DEF Replied, RepliedAlone
  <2>3. RepliedAfterEcho => RepliedAfterEcho'
    <3>1. \A e, f : toDialer = <<e, f>> => toDialer' = <<e, f, Data>>
      BY ONLY <2>1, AppendToTwo
    <3>q. QED
      BY ONLY <2>1, <3>1 DEF Replied, RepliedAfterEcho
  <2>4. toDialer = <<>> => toDialer' = <<Data>>
    BY <2>1, ShortQueues
  <2>5. Progress'
    BY <2>1
  <2>6. InStep'
    BY ONLY <2>1, <2>2, <2>3, <2>4, Inv DEF Inv, InStep, Asked
  <2>q. QED
    BY <2>5, <2>6
<1>9. CASE UNCHANGED vars
  BY <1>9 DEF vars
<1>q. QED
  BY <1>1, <1>2, <1>3, <1>4, <1>5, <1>l, <1>f, <1>n, <1>7, <1>8, <1>s, <1>9
     DEF Next, DialerNext, DialerStep, ListenerNext, ListenerStep

LEMMA InvInit == Init => Inv
<1> SUFFICES ASSUME Init PROVE Inv
  OBVIOUS
<1>1. TypeOK
  <2>1. wanted \in Seq(Protocols) /\ Len(wanted) \in Nat
    BY DEF Init
  <2>2. 0 \in 0 .. Len(wanted) /\ 0 \in 0 .. MaxLists
    BY <2>1
  <2>3. next \in 0 .. Len(wanted) /\ lists \in 0 .. MaxLists
    BY <2>2 DEF Init
  <2>4. toListener \in Seq(Lines) /\ toDialer \in Seq(Lines)
    BY DEF Init
  <2>5. dialer \in DialerPhases /\ sent \in SUBSET {"dialer", "listener"}
    BY DEF Init, DialerPhases
  <2>q. QED
    BY <2>3, <2>4, <2>5 DEF Init, TypeOK
<1>2. InStep /\ Progress
  BY DEF Init, InStep, Progress, Asked, Selecting
<1>q. QED
  BY <1>1, <1>2 DEF Inv

LEMMA InvStep == Inv /\ [Next]_vars => Inv'
  BY TypeStep, LockStep DEF Inv

\* The two ends stay in step, for any protocols on either side.
THEOREM Correct == Spec => []Inv
  BY InvInit, InvStep, PTL DEF Spec

\* The variables keep their types.
THEOREM TypeCorrect == Spec => []TypeOK
<1>1. Inv => TypeOK
  BY DEF Inv
<1>q. QED
  BY <1>1, Correct, PTL

\* No line of the negotiation is left in a stream that is handed out, and no
\* chunk of an application is read as a line.
THEOREM Clean == Spec => []StreamsAreClean
<1>1. ASSUME Inv PROVE StreamsAreClean
  <2> USE <1>1 DEF Inv, InStep, Asked, Progress
  <2>1. dialer = "selected" => Negotiation(toDialer) = {}
    BY DEF Negotiation
  <2>2. ASSUME listener = "selected" PROVE Negotiation(toListener) = {}
    <3>1. toListener = <<>> \/ toListener = <<Data>>
      BY <2>2 DEF TypeOK, DialerPhases, Waiting, Selecting, Replied, RepliedAlone, RepliedAfterEcho
    <3>q. QED
      BY <3>1 DEF Negotiation
  <2>3. ASSUME dialer \in Waiting, toDialer # <<>> PROVE Head(toDialer) # Data
    <3>1. next > 0 => wanted[next] \in Protocols /\ wanted[next] # Data
      BY WantedIsLine, WordsDiffer DEF TypeOK
    <3>2. CASE dialer \in {"handshake", "list"}
      <4>1. toDialer = <<ProtocolId>> \/ toDialer = <<[protocols |-> supported]>>
        BY <2>3, <3>2
      <4>2. [protocols |-> supported] # Data
        BY DEF TypeOK
      <4>q. QED
        BY <4>1, <4>2, ShortQueues
    <3>3. CASE dialer \in Selecting
      <4>1. \/ toDialer = <<ProtocolId>> \/ toDialer = <<wanted[next]>> \/ toDialer = <<Na>>
            \/ toDialer = <<wanted[next], Data>>
            \/ toDialer = <<ProtocolId, wanted[next]>> \/ toDialer = <<ProtocolId, Na>>
            \/ toDialer = <<ProtocolId, wanted[next], Data>>
        BY <2>3, <3>3 DEF Selecting, Replied, RepliedAlone, RepliedAfterEcho
      <4>2. next > 0
        BY <3>3
      <4>q. QED
        BY <3>1, <4>1, <4>2, ShortQueues
    <3>q. QED
      BY <2>3, <3>2, <3>3 DEF Waiting
  <2>4. ASSUME listener = "reading", toListener # <<>> PROVE Head(toListener) # Data
    <3>1. next > 0 => wanted[next] \in Protocols /\ wanted[next] # Data
      BY WantedIsLine, WordsDiffer DEF TypeOK
    <3>2. \/ toListener = <<ProtocolId>> \/ toListener = <<Ls>>
          \/ next > 0 /\ toListener = <<wanted[next]>>
          \/ next > 0 /\ toListener = <<ProtocolId, wanted[next]>>
      BY <2>4 DEF TypeOK, DialerPhases, Waiting, Selecting, Replied, RepliedAlone, RepliedAfterEcho
    <3>q. QED
      BY <3>1, <3>2, ShortQueues
  <2>q. QED
    BY <2>1, <2>2, <2>3, <2>4 DEF StreamsAreClean
<1>q. QED
  BY <1>1, Correct, PTL

\* The calls of one Dialer do not take each other's answers.
THEOREM InOrder == Spec => []AnswersInOrder
<1>1. ASSUME Inv PROVE AnswersInOrder
  <2> USE <1>1 DEF Inv, InStep, Asked
  <2>1. dialer = "idle" => toDialer = <<>> /\ toListener = <<>>
    OBVIOUS
  <2>2. ASSUME toDialer # <<>>
        PROVE  /\ dialer = "handshake" => Head(toDialer) = ProtocolId
               /\ dialer = "list" => Head(toDialer) = [protocols |-> supported]
    BY <2>2, ShortQueues
  <2>3. ASSUME toDialer # <<>>, dialer = "first", ~shaken
        PROVE  Head(toDialer) = ProtocolId
    <3>1. \/ toDialer = <<ProtocolId>>
          \/ toDialer = <<ProtocolId, wanted[next]>> \/ toDialer = <<ProtocolId, Na>>
          \/ toDialer = <<ProtocolId, wanted[next], Data>>
      BY <2>3 DEF Replied, RepliedAfterEcho
    <3>q. QED
      BY <3>1, ShortQueues
  <2>4. ASSUME toDialer # <<>>, dialer \in {"confirm", "rest"} \/ (dialer = "first" /\ shaken)
        PROVE  Head(toDialer) \in {wanted[next], Na}
    <3>1. \/ toDialer = <<wanted[next]>> \/ toDialer = <<Na>>
          \/ toDialer = <<wanted[next], Data>>
      BY <2>4 DEF Replied, RepliedAlone
    <3>q. QED
      BY <3>1, ShortQueues
  <2>q. QED
    BY <2>1, <2>2, <2>3, <2>4 DEF AnswersInOrder
<1>q. QED
  BY <1>1, Correct, PTL

-----------------------------------------------------------------------------
(* The refinement of ProtocolChoice *)

LEMMA FirstSupported ==
    ASSUME TypeOK, NEW i \in 1 .. Len(wanted), wanted[i] \in supported,
           \A j \in 1 .. i - 1 : wanted[j] \notin supported
    PROVE  Abstract!Choice = wanted[i] /\ wanted[i] # Refused
<1>1. wanted \in Seq(Protocols) /\ DOMAIN wanted = 1 .. Len(wanted) /\ Len(wanted) \in Nat
  BY DEF TypeOK
<1>2. i \in Abstract!Common /\ \A j \in Abstract!Common : i <= j
  BY <1>1 DEF Abstract!Common
<1>3. \A k \in Abstract!Common : (\A j \in Abstract!Common : k <= j) => k = i
  BY <1>1, <1>2 DEF Abstract!Common
<1>4. (CHOOSE k \in Abstract!Common : \A j \in Abstract!Common : k <= j) = i
  BY <1>2, <1>3
<1>5. wanted[i] \in Protocols
  BY WantedIsLine
<1>q. QED
  BY <1>2, <1>4, <1>5 DEF Abstract!Choice

LEMMA NoneSupported ==
    ASSUME \A j \in DOMAIN wanted : wanted[j] \notin supported
    PROVE  Abstract!Choice = Refused
  BY DEF Abstract!Choice, Abstract!Common

\* What the ends hold agrees with the choice.
Agreement ==
    /\ listener = "selected" => handled = Abstract!Choice /\ Abstract!Choice # Refused
    /\ dialer = "selected" => /\ wanted[next] = Abstract!Choice
                              /\ listener = "selected"
    /\ dialer = "refused" => Abstract!Choice = Refused

LEMMA Choices == Inv => Agreement
<1> SUFFICES ASSUME Inv PROVE Agreement
  OBVIOUS
<1> USE DEF Inv, Agreement
<1>1. ASSUME listener = "selected" PROVE handled = wanted[next] /\ next \in 1 .. Len(wanted)
  <2>1. next > 0 /\ next \in 1 .. Len(wanted)
    BY <1>1 DEF Progress, TypeOK
  <2>2. handled = wanted[next]
    BY <1>1, <2>1 DEF InStep, Asked, Replied, RepliedAlone, RepliedAfterEcho, TypeOK,
                DialerPhases, Waiting, Selecting
  <2>q. QED
    BY <2>1, <2>2
<1>2. ASSUME listener = "selected"
      PROVE wanted[next] = Abstract!Choice /\ Abstract!Choice # Refused
  BY <1>1, <1>2, FirstSupported DEF Progress
<1>3. dialer = "selected" => listener = "selected"
  BY DEF InStep
<1>4. dialer = "refused" => Abstract!Choice = Refused
  BY NoneSupported DEF Progress
<1>q. QED
  BY <1>1, <1>2, <1>3, <1>4

LEMMA ChoiceFixed ==
    ASSUME UNCHANGED <<wanted, supported>> PROVE Abstract!Choice' = Abstract!Choice
  BY DEF Abstract!Choice, Abstract!Common

LEMMA RefineInit == Init => Abstract!Init
  BY DEF Init, Abstract!Init, Dialed, Handled

LEMMA RefineStep ==
    ASSUME Agreement, Agreement', [Next]_vars PROVE [Abstract!Next]_(Abstract!vars)
<1> DEFINE Same == UNCHANGED <<wanted, supported>>
<1>1. CASE UNCHANGED vars
  BY <1>1 DEF vars, Abstract!vars, Dialed, Handled
<1>2. CASE DialerNext /\ UNCHANGED listenerVars /\ Same
  <2>1. Handled' = Handled
    BY <1>2 DEF listenerVars, Handled
  <2>2. dialer = "selected" => dialer' = dialer /\ next' = next
    BY <1>2 DEF DialerNext, CallLs, CallSelect, DialerStep, HandshakeReply, ListReply,
                FirstReply, NextReply, DialerFails, DialerSends, dialerVars, Waiting, Selecting
  <2>3. dialer \in {"refused", "failed"} => dialer' = dialer
    BY <1>2 DEF DialerNext, CallLs, CallSelect, DialerStep, HandshakeReply, ListReply,
                FirstReply, NextReply, DialerFails, DialerSends, Waiting, Selecting
  <2>4. Abstract!Choice' = Abstract!Choice
    BY <1>2, ChoiceFixed
  <2>5. CASE dialer' = dialer \/ dialer' \notin {"selected", "refused", "failed"}
    <3>1. Dialed' = Dialed
      BY <1>2, <2>2, <2>3, <2>5 DEF Dialed
    <3>q. QED
      BY <1>2, <2>1, <3>1 DEF Abstract!vars
  <2>6. CASE dialer' # dialer /\ dialer' \in {"selected", "refused", "failed"}
    <3>1. Dialed = Pending
      BY <2>2, <2>3, <2>6 DEF Dialed
    <3>2. CASE dialer' = "selected"
      <4>1. Dialed' = Abstract!Choice /\ listener' = "selected" /\ handled' = Abstract!Choice
        BY <2>4, <3>2 DEF Dialed, Agreement
      <4>2. Handled = Abstract!Choice
        BY <1>2, <4>1 DEF Handled, listenerVars
      <4>q. QED
        BY <1>2, <2>1, <3>1, <4>1, <4>2 DEF Abstract!Next, Abstract!Agree
    <3>3. CASE dialer' = "refused"
      <4>1. Dialed' = Refused /\ Abstract!Choice = Refused
        BY <2>4, <3>3 DEF Dialed, Agreement
      <4>q. QED
        BY <1>2, <2>1, <3>1, <4>1 DEF Abstract!Next, Abstract!Refuse
    <3>4. CASE dialer' = "failed"
      <4>1. Dialed' = Failed
        BY <3>4 DEF Dialed
      <4>q. QED
        BY <1>2, <2>1, <3>1, <4>1 DEF Abstract!Next, Abstract!DialerFails
    <3>q. QED
      BY <2>6, <3>2, <3>3, <3>4
  <2>q. QED
    BY <2>5, <2>6
<1>3. CASE ListenerNext /\ UNCHANGED dialerVars /\ Same
  <2>1. Dialed' = Dialed
    BY <1>3 DEF dialerVars, Dialed
  <2>2. Abstract!Choice' = Abstract!Choice
    BY <1>3, ChoiceFixed
  <2>3. CASE listener' = listener
    <3>1. handled' = handled
      BY <1>3, <2>3 DEF ListenerNext, ListenerStep, Handle, ListenerFails, ListenerSends, listenerVars
    <3>2. Handled' = Handled
      BY <2>3, <3>1 DEF Handled
    <3>q. QED
      BY <1>3, <2>1, <3>2 DEF Abstract!vars
  <2>4. CASE listener' # listener /\ listener' = "selected"
    <3>1. Handled = Pending
      BY <1>3, <2>4 DEF ListenerNext, ListenerStep, Handle, ListenerFails, ListenerSends, listenerVars, Handled
    <3>2. Handled' = Abstract!Choice /\ Abstract!Choice # Refused
      BY <2>2, <2>4 DEF Handled, Agreement
    <3>q. QED
      BY <1>3, <2>1, <3>1, <3>2 DEF Abstract!Next, Abstract!Accept
  <2>5. CASE listener' # listener /\ listener' = "failed"
    <3>1. Handled = Pending /\ Handled' = Failed
      BY <1>3, <2>5 DEF ListenerNext, ListenerStep, Handle, ListenerFails, ListenerSends, listenerVars, Handled
    <3>q. QED
      BY <1>3, <2>1, <3>1 DEF Abstract!Next, Abstract!ListenerFails
  <2>q. QED
    BY <1>3, <2>3, <2>4, <2>5 DEF ListenerNext, ListenerStep, Handle, ListenerFails, ListenerSends, listenerVars
<1>q. QED
  BY <1>1, <1>2, <1>3 DEF Next

\* Both ends end up with the dialer's first choice among the listener's
\* protocols, or the dialer knows that there is none.
THEOREM Refinement == Spec => ImplementsChoice
<1>1. Agreement /\ Agreement' /\ [Next]_vars => [Abstract!Next]_(Abstract!vars)
  BY RefineStep
<1>q. QED
  BY <1>1, RefineInit, Correct, Choices, PTL DEF Spec, ImplementsChoice, Abstract!Spec
=============================================================================
