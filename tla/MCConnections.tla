--------------------------- MODULE MCConnections ---------------------------
(* Small instances of Connections for TLC. *)
EXTENDS Connections, TLC

CONSTANTS a, b, s1, s2

TwoEnds == {a, b}
TwoStreams == {s1, s2}

EachOpens == s1 :> a @@ s2 :> b

Bound(streams, writes, atA, atB) ==
    [streams |-> streams, writes |-> writes, faults |-> a :> atA @@ b :> atB]

\* Of two streams each end opens one: the two ends are alike, and so one fault, or
\* one chunk, at one of them stands for one at the other. With one stream, a chunk
\* and two faults at each end.
WithFaults ==
    {Bound({s1, s2}, 0, 1, 0), Bound({s1, s2}, 1, 0, 0), Bound({s1}, 1, 2, 2)}
NoFaults == {Bound({s1, s2}, 1, 0, 0)}
=============================================================================
