----------------------------- MODULE Multistream -----------------------------
(* The negotiation of libp2p-multistream-select: a Dialer (select, ls) and a *)
(* Listener (handle) at the two ends of a stream. Each end writes length-    *)
(* prefixed lines and suspends while it reads the next one. Reading bytes of *)
(* a line one at a time (multistream.ts) is one step here.                   *)
EXTENDS Naturals, Sequences

CONSTANTS
    Protocols,      \* names of protocols
    Requests,       \* the lists of protocols a dialer may be asked for
    ProtocolId,     \* PROTOCOL_ID, '/multistream/1.0.0'
    Ls, Na,         \* the lines 'ls' and 'na'
    Data,           \* a chunk that either application writes afterwards
    Pending, Refused, Failed,   \* outcomes, see ProtocolChoice
    MaxLists        \* bound: calls of ls()

Lists == [protocols : SUBSET Protocols]
Lines == Protocols \cup {ProtocolId, Ls, Na, Data} \cup Lists

\* No line is mistaken for another: the words of the negotiation name no
\* protocol, and the null values are no lines.
ASSUME MultistreamAssumption ==
    /\ Requests \subseteq Seq(Protocols)
    /\ MaxLists \in Nat
    /\ {ProtocolId, Ls, Na, Data, Pending, Refused, Failed} \cap Protocols = {}
    /\ ProtocolId # Ls /\ ProtocolId # Na /\ ProtocolId # Data
    /\ Ls # Na /\ Ls # Data /\ Na # Data
    /\ Pending # Refused /\ Pending # Failed /\ Refused # Failed
    /\ \A S \in SUBSET Protocols :
           [protocols |-> S] \notin Protocols \cup {ProtocolId, Ls, Na, Data}

VARIABLES
    wanted,         \* the argument of select()
    supported,      \* the argument of handle()
    dialer,         \* where the Dialer's running call is suspended
    next,           \* the protocol of wanted that was written last
    shaken,         \* Dialer.shaken: ls() has exchanged PROTOCOL_ID
    lists,          \* ls() calls begun
    listener,       \* "reading", or how handle() ended
    handled,        \* the protocol that handle() returned
    toListener, toDialer,       \* lines written and not yet read
    sent            \* the ends whose application has written

vars == <<wanted, supported, dialer, next, shaken, lists, listener,
          handled, toListener, toDialer, sent>>

dialerVars == <<dialer, next, shaken, lists>>
listenerVars == <<listener, handled>>

\* Phases of the Dialer: in a read of _handshake, of ls, and of select for the
\* first protocol, for its answer after PROTOCOL_ID, and for a later protocol.
Selecting == {"first", "confirm", "rest"}
Waiting == {"handshake", "list"} \cup Selecting
DialerPhases == {"idle", "selected", "refused", "failed"} \cup Waiting

TypeOK ==
    /\ wanted \in Requests /\ supported \in SUBSET Protocols
    /\ dialer \in DialerPhases /\ next \in 0 .. Len(wanted)
    /\ shaken \in BOOLEAN /\ lists \in 0 .. MaxLists
    /\ listener \in {"reading", "selected", "failed"}
    /\ handled \in Protocols \cup {Pending}
    /\ toListener \in Seq(Lines) /\ toDialer \in Seq(Lines)
    /\ sent \in SUBSET {"dialer", "listener"}

Init ==
    /\ wanted \in Requests /\ supported \in SUBSET Protocols
    /\ dialer = "idle" /\ next = 0 /\ shaken = FALSE
    /\ lists = 0
    /\ listener = "reading" /\ handled = Pending
    /\ toListener = <<>> /\ toDialer = <<>>
    /\ sent = {}

-----------------------------------------------------------------------------
(* The Dialer *)

\* ls(): the handshake unless an earlier call had it, else the request.
CallLs ==
    /\ dialer = "idle" /\ lists < MaxLists
    /\ lists' = lists + 1
    /\ IF shaken
       THEN dialer' = "list" /\ toListener' = Append(toListener, Ls)
       ELSE dialer' = "handshake" /\ toListener' = Append(toListener, ProtocolId)
    /\ UNCHANGED <<next, shaken, toDialer>>

DialerReads(line) ==
    /\ toDialer # <<>>
    /\ line = Head(toDialer)
    /\ toDialer' = Tail(toDialer)

\* Faulty variant: the handshake's answer is left for the list to read.
HandshakeUnread(line) ==
    /\ dialer = "handshake"
    /\ toDialer # <<>> /\ line = Head(toDialer)
    /\ shaken' = TRUE /\ dialer' = "list"
    /\ toListener' = Append(toListener, Ls)
    /\ UNCHANGED <<next, lists, toDialer>>

\* _handshake is a select() of PROTOCOL_ID; ls() goes on when it is echoed.
HandshakeReply(line) ==
    /\ dialer = "handshake"
    /\ DialerReads(line)
    /\ IF line = ProtocolId
       THEN /\ shaken' = TRUE /\ dialer' = "list"
            /\ toListener' = Append(toListener, Ls)
       ELSE dialer' = "refused" /\ UNCHANGED <<shaken, toListener>>
    /\ UNCHANGED <<next, lists>>

\* ls() returns the list, a single line that holds a line per protocol.
ListReply(line) ==
    /\ dialer = "list"
    /\ DialerReads(line)
    /\ dialer' = IF line \in Lists THEN "idle" ELSE "failed"
    /\ UNCHANGED <<next, shaken, lists, toListener>>

\* select(): PROTOCOL_ID and the first protocol in one write, or the protocol
\* alone after a handshake; no protocol at all is an error.
CallSelect ==
    /\ dialer = "idle"
    /\ IF wanted = <<>>
       THEN dialer' = "failed" /\ UNCHANGED <<next, toListener>>
       ELSE /\ dialer' = "first" /\ next' = 1
            /\ toListener' = toListener \o
                   (IF shaken THEN <<wanted[1]>> ELSE <<ProtocolId, wanted[1]>>)
    /\ UNCHANGED <<shaken, lists, toDialer>>

\* Faulty variant: whatever is answered to the last protocol is an agreement.
LastAgrees(line) ==
    IF line = wanted[next] \/ next = Len(wanted)
    THEN dialer' = "selected" /\ UNCHANGED <<next, toListener>>
    ELSE /\ dialer' = "rest" /\ next' = next + 1
         /\ toListener' = Append(toListener, wanted[next + 1])

\* An answer to the protocol that was written last: an echo is an agreement,
\* anything else a refusal, upon which the next protocol is tried.
Answered(line) ==
    IF line = wanted[next] THEN dialer' = "selected" /\ UNCHANGED <<next, toListener>>
    ELSE IF next < Len(wanted)
    THEN /\ dialer' = "rest" /\ next' = next + 1
         /\ toListener' = Append(toListener, wanted[next + 1])
    ELSE dialer' = "refused" /\ UNCHANGED <<next, toListener>>

\* Faulty variant: the echo of PROTOCOL_ID is taken for a refusal.
EchoIsRefusal(line) ==
    /\ dialer = "first"
    /\ DialerReads(line)
    /\ Answered(line)
    /\ UNCHANGED <<shaken, lists>>

FirstReply(line) ==
    /\ dialer = "first"
    /\ DialerReads(line)
    /\ IF line = ProtocolId /\ ~shaken
       THEN dialer' = "confirm" /\ UNCHANGED <<next, toListener>>
       ELSE Answered(line)
    /\ UNCHANGED <<shaken, lists>>

NextReply(line) ==
    /\ dialer \in {"confirm", "rest"}
    /\ DialerReads(line)
    /\ Answered(line)
    /\ UNCHANGED <<shaken, lists>>

\* A read rejects: the stream ended ('no buffer returned'), a line had no
\* newline, or the caller's signal aborted.
DialerFails ==
    /\ dialer \in Waiting
    /\ dialer' = "failed"
    /\ UNCHANGED <<next, shaken, lists, toListener, toDialer>>

DialerSends ==
    /\ dialer = "selected" /\ "dialer" \notin sent
    /\ sent' = sent \cup {"dialer"}
    /\ toListener' = Append(toListener, Data)
    /\ UNCHANGED <<dialerVars, toDialer>>

\* What the Dialer does with a line it has read.
DialerStep ==
    \E line \in Lines :
        HandshakeReply(line) \/ ListReply(line) \/ FirstReply(line) \/ NextReply(line)

DialerNext ==
    \/ (CallLs \/ CallSelect \/ DialerStep \/ DialerFails) /\ UNCHANGED sent
    \/ DialerSends

-----------------------------------------------------------------------------
(* The Listener *)

Reply(line) ==
    IF line = ProtocolId \/ line \in supported THEN line
    ELSE IF line = Ls THEN [protocols |-> supported]
    ELSE Na

\* Faulty variant: an unknown protocol is ignored instead of refused.
HandleSilently(line) ==
    /\ listener = "reading"
    /\ toListener # <<>>
    /\ line = Head(toListener)
    /\ toListener' = Tail(toListener)
    /\ toDialer' = IF Reply(line) = Na THEN toDialer ELSE Append(toDialer, Reply(line))
    /\ IF line # ProtocolId /\ line \in supported
       THEN listener' = "selected" /\ handled' = line
       ELSE UNCHANGED <<listener, handled>>

\* Faulty variant: the echo of PROTOCOL_ID does not go back to the loop.
EchoEnds(line) ==
    /\ listener = "reading"
    /\ toListener # <<>>
    /\ line = Head(toListener)
    /\ toListener' = Tail(toListener)
    /\ toDialer' = Append(toDialer, Reply(line))
    /\ IF Reply(line) = line
       THEN listener' = "selected" /\ handled' = line
       ELSE UNCHANGED <<listener, handled>>

\* One turn of the loop of handle(), which a supported protocol ends.
Handle(line) ==
    /\ listener = "reading"
    /\ toListener # <<>>
    /\ line = Head(toListener)
    /\ toListener' = Tail(toListener)
    /\ toDialer' = Append(toDialer, Reply(line))
    /\ IF line # ProtocolId /\ line \in supported
       THEN listener' = "selected" /\ handled' = line
       ELSE UNCHANGED <<listener, handled>>

ListenerFails ==
    /\ listener = "reading"
    /\ listener' = "failed"
    /\ UNCHANGED <<handled, toListener, toDialer>>

ListenerSends ==
    /\ listener = "selected" /\ "listener" \notin sent
    /\ sent' = sent \cup {"listener"}
    /\ toDialer' = Append(toDialer, Data)
    /\ UNCHANGED <<listenerVars, toListener>>

ListenerStep == \E line \in Lines : Handle(line)

ListenerNext ==
    \/ (ListenerStep \/ ListenerFails) /\ UNCHANGED sent
    \/ ListenerSends

-----------------------------------------------------------------------------
Next ==
    /\ \/ DialerNext /\ UNCHANGED listenerVars
       \/ ListenerNext /\ UNCHANGED dialerVars
    /\ UNCHANGED <<wanted, supported>>

Spec == Init /\ [][Next]_vars

\* Lines that were written arrive, and an end that reads goes on with them. No
\* fairness for the callers' decisions to list, to select or to write, nor for
\* failures.
Fairness ==
    /\ WF_vars(DialerStep /\ UNCHANGED <<listenerVars, wanted, supported, sent>>)
    /\ WF_vars(ListenerStep /\ UNCHANGED <<dialerVars, wanted, supported, sent>>)

FairSpec == Spec /\ Fairness

-----------------------------------------------------------------------------
(* Properties *)

Negotiation(q) == {i \in DOMAIN q : q[i] # Data}

\* The streams that select() and handle() hand out carry what the other
\* application writes and nothing else: no line of the negotiation is left in
\* them, and no read of the negotiation takes a chunk of an application.
StreamsAreClean ==
    /\ dialer = "selected" => Negotiation(toDialer) = {}
    /\ listener = "selected" => Negotiation(toListener) = {}
    /\ dialer \in Waiting /\ toDialer # <<>> => Head(toDialer) # Data
    /\ listener = "reading" /\ toListener # <<>> => Head(toListener) # Data

\* Calls of ls() and select() on one Dialer do not take each other's answers:
\* the line an end waits for answers what it wrote last, and between two calls
\* nothing is under way.
AnswersInOrder ==
    /\ dialer = "idle" => toDialer = <<>> /\ toListener = <<>>
    /\ toDialer # <<>> =>
        /\ dialer = "handshake" => Head(toDialer) = ProtocolId
        /\ dialer = "list" => Head(toDialer) = [protocols |-> supported]
        /\ dialer = "first" /\ ~shaken => Head(toDialer) = ProtocolId
        /\ dialer \in {"confirm", "rest"} \/ (dialer = "first" /\ shaken) =>
               Head(toDialer) \in {wanted[next], Na}

\* A selection ends, with a protocol or without one, unless the listener has
\* failed: then no answer comes, and only a signal ends the read.
SelectionEnds ==
    dialer \in Selecting ~> dialer \notin Selecting \/ listener = "failed"

-----------------------------------------------------------------------------
(* The negotiation implements the choice *)

Dialed ==
    CASE dialer = "selected" -> wanted[next]
      [] dialer = "refused" -> Refused
      [] dialer = "failed" -> Failed
      [] OTHER -> Pending
Handled ==
    CASE listener = "selected" -> handled
      [] listener = "failed" -> Failed
      [] OTHER -> Pending

Abstract == INSTANCE ProtocolChoice WITH dialed <- Dialed, handled <- Handled

\* Both ends get the dialer's first choice among the protocols of the
\* listener, or the dialer learns that there is none; never two protocols.
ImplementsChoice == Abstract!Spec
=============================================================================
