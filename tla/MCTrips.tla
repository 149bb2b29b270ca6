------------------------------ MODULE MCTrips ------------------------------
(* A small instance of Trips for TLC. *)
EXTENDS Trips

CONSTANTS rsa1, rsa2, ed1, secp1, secp2

RSA == {rsa1, rsa2}
Ed25519 == {ed1}
Secp256k1 == {secp1, secp2}
TwoSeqNumbers == {0, 1}
ListsOf(S) == {<<>>} \cup {<<a>> : a \in S} \cup {<<a, b>> : a, b \in S}
FewAddressLists == ListsOf({1, 2})
TwoDomains == {"libp2p-peer-record", "another"}

SomeEntries ==
    LET lists == ListsOf([multiaddr : {1, 2}, isCertified : {0, 1, Null}])
        a == [multiaddr |-> 1, isCertified |-> 0]
    IN  [addresses : lists, protocols : {<<2, 1, 2>>}, metadata : {3 :> <<>>},
         pubKey : {<<1>>}, idKey : {Null}, peerRecordEnvelope : {<<>>}]
        \cup
        [addresses : {<<>>, <<a>>},
         protocols : {<<>>, <<1>>, <<2, 1>>, <<2, 1, 2>>},
         metadata : {<<>>, 3 :> <<>>, (3 :> <<1>>) @@ (1 :> <<>>)},
         pubKey : {Null, <<>>, <<1>>}, idKey : {Null, <<1>>}, peerRecordEnvelope : {Null, <<>>}]

-----------------------------------------------------------------------------
(* Every message with each field absent, empty or not, and lists of up to two *)
(* elements.                                                                  *)

RECURSIVE Full(_)
Full(type) ==
    LET Some(f) == IF IsNested(f) THEN Full(f.kind)
                   ELSE IF f.kind \in {"bytes", "string"} THEN <<1>> ELSE 1
        Content(f) == IF f.label = "repeated" THEN <<Some(f)>> ELSE Some(f)
    IN  [n \in Fields(type) |-> Content(Schema[type][n])]

Values(f) ==
    CASE IsNested(f) -> <<Create(f.kind), Full(f.kind)>>
      [] f.kind \in {"bytes", "string"} -> <<<<>>, <<1>>>>
      [] f.kind = "enum" -> <<0, 1, 3>>
      [] OTHER -> <<0, 1>>

\* What the property of a field may hold, in a set so that none is possible.
Contents(f) ==
    IF f.label = "repeated" THEN {{}, {Tail(Values(f))}, {Values(f)}}
                                 \cup (IF f.kind = "bytes" THEN {{Reverse(Values(f))}} ELSE {})
    ELSE {{v} : v \in Range(Values(f))} \cup (IF f.label = "required" THEN {} ELSE {{}})

RECURSIVE MessagesWith(_, _)
MessagesWith(type, names) ==
    IF names = {} THEN {<<>>}
    ELSE LET n == CHOOSE x \in names : TRUE
         IN  {rest @@ [x \in {n : v \in c} |-> CHOOSE v \in c : TRUE] :
                 rest \in MessagesWith(type, names \ {n}), c \in Contents(Schema[type][n])}

\* A message of pubsub has its signature and its key together.
AllSamples ==
    [[type \in Types |-> MessagesWith(type, Fields(type))] EXCEPT !["Message"] =
        {m \in @ : "signature" \in DOMAIN m <=> "key" \in DOMAIN m}]

AllOthers ==
    [f \in UNION {Range(Schema[type]) : type \in Types} |-> Range(Values(f))]
=============================================================================
