------------------------------ MODULE Protobuf ------------------------------
(* encode, decode, fromObject and toObject as protobufjs generates them, one  *)
(* codec for all messages of WireMessages. A message is the function of its   *)
(* own properties that are not null: the code takes null ones for absent.     *)
(* Bytes and strings are sequences, other scalars numbers, and false is 0; a  *)
(* wire is the sequence of its tagged values.                                 *)
(* A codec calls that of nested messages. The calls are unrolled: the deepest *)
(* messages, control.prune.peers of an RPC, are at the fourth level.          *)
EXTENDS WireMessages, Lists, SequencesExt

CONSTANTS
    Null,           \* null, and undefined
    ProtocolError   \* decode() has thrown

Zero(f) == IF f.kind \in {"bytes", "string"} THEN <<>> ELSE 0

\* What reading a property finds when the message does not own it: the value
\* of the prototype.
Default(f) ==
    CASE f.label = "repeated" -> <<>>
      [] f.label = "optional" -> Null
      [] OTHER -> Zero(f)

Get(type, m, n) == IF n \in DOMAIN m THEN m[n] ELSE Default(Schema[type][n])
IsSet(m, n) == n \in DOMAIN m

\* The constructor gives the instance its own empty lists.
Create(type) == [n \in Lists(type) |-> <<>>]

\* What a codec makes of the values of a field, Nested of a nested message.
Each(f, values, Nested(_, _)) ==
    [i \in DOMAIN values |-> IF IsNested(f) THEN Nested(f.kind, values[i]) ELSE values[i]]

\* The values that are written: of own properties, the members of lists, and
\* of required fields whether set or not.
Written(type, m, n) ==
    CASE Schema[type][n].label = "repeated" -> Get(type, m, n)
      [] Schema[type][n].label = "required" -> <<Get(type, m, n)>>
      [] OTHER -> IF IsSet(m, n) THEN <<m[n]>> ELSE <<>>

Joined(lists) == lists[1] \o lists[2] \o lists[3] \o lists[4] \o lists[5] \o lists[6]

\* The wire of the values of each field, in the order of their tags, which are
\* at most six.
Wire(type, values) ==
    Joined([tag \in 1 .. 6 |->
              LET fields == {n \in Fields(type) : Schema[type][n].tag = tag}
                  written == values[CHOOSE n \in fields : TRUE]
              IN  IF fields = {} THEN <<>> ELSE [i \in DOMAIN written |-> <<tag, written[i]>>]])

EncodeWith(type, m, Nested(_, _)) ==
    Wire(type, [n \in Fields(type) |-> Each(Schema[type][n], Written(type, m, n), Nested)])

Encode1(type, m) == EncodeWith(type, m, LAMBDA t, v : v)
Encode2(type, m) == EncodeWith(type, m, Encode1)
Encode3(type, m) == EncodeWith(type, m, Encode2)
Encode(type, m) == EncodeWith(type, m, Encode3)

\* The values of a field on a wire, in their order.
ValuesOf(f, wire) ==
    LET tagged == Only(wire, {w \in Range(wire) : w[1] = f.tag})
    IN  [i \in DOMAIN tagged |-> tagged[i][2]]

\* Faulty variant: a scalar that is set already keeps its value.
FirstOne(values) == Head(values)

\* Of a field that is no list the last value on the wire counts.
LastOne(values) == Last(values)

\* The fields that a wire has values for, and whether it lacks a required one.
\* (Only PeerIdProto has one, and no message nests it.)
Present(type, wire) == {n \in Fields(type) : ValuesOf(Schema[type][n], wire) # <<>>}
Incomplete(type, wire) ==
    \E n \in Fields(type) : Schema[type][n].label = "required" /\ n \notin Present(type, wire)

\* Lists grow.
Gathered(f, values) == IF f.label = "repeated" THEN values ELSE LastOne(values)

\* Tags that are not known are skipped.
DecodeWith(type, wire, Nested(_, _)) ==
    LET Content(f) == Gathered(f, Each(f, ValuesOf(f, wire), Nested))
    IN  IF Incomplete(type, wire) THEN ProtocolError
        ELSE [n \in Present(type, wire) \cup Lists(type) |-> Content(Schema[type][n])]

Decode1(type, wire) == DecodeWith(type, wire, LAMBDA t, v : v)
Decode2(type, wire) == DecodeWith(type, wire, Decode1)
Decode3(type, wire) == DecodeWith(type, wire, Decode2)
Decode(type, wire) == DecodeWith(type, wire, Decode3)

-----------------------------------------------------------------------------
(* Plain objects. Of the options of toObject(), arrays and defaults add       *)
(* properties that the message does not own, oneofs adds the name of each     *)
(* optional field that is set, and text, the choice of toJSON(), writes bytes *)
(* in base64, longs in decimal and enums by name; a text is here the value    *)
(* that fromObject() parses from it. Bytes as plain arrays read like buffers. *)
(* Left out are the json option and longs as numbers, which round above 2^53. *)

OneofName(n) == "_" \o n

\* The name of a oneof is not that of a field.
ASSUME OneofAssumption == \A type \in Types : \A m, n \in Fields(type) : OneofName(m) # n

Options == [arrays : BOOLEAN, defaults : BOOLEAN, oneofs : BOOLEAN, text : BOOLEAN]

\* A value of an object or a message, and that of the other made from it.
Converted(f, v, Nested(_, _)) ==
    CASE f.label = "repeated" -> Each(f, v, Nested)
      [] f.label # "repeated" /\ IsNested(f) -> Nested(f.kind, v)
      [] OTHER -> v

ToObjectWith(type, m, o, Nested(_, _)) ==
    LET set == {n \in Fields(type) : IsSet(m, n) /\ (n \in Lists(type) => m[n] # <<>>)}
        defaults == {n \in Fields(type) : IF n \in Lists(type) THEN o.arrays \/ o.defaults
                                          ELSE o.defaults /\ Schema[type][n].label # "optional"}
        oneofs == {n \in set : o.oneofs /\ Schema[type][n].label = "optional"}
    IN  [n \in set \cup defaults \cup {OneofName(f) : f \in oneofs} |->
            CASE n \in set -> Converted(Schema[type][n], m[n], Nested)
              [] n \in defaults \ set -> Default(Schema[type][n])
              [] OTHER -> CHOOSE f \in oneofs : OneofName(f) = n]

ToObject1(type, m, o) == ToObjectWith(type, m, o, LAMBDA t, v : v)
ToObject2(type, m, o) == ToObjectWith(type, m, o, LAMBDA t, v : ToObject1(t, v, o))
ToObject3(type, m, o) == ToObjectWith(type, m, o, LAMBDA t, v : ToObject2(t, v, o))
ToObject(type, m, o) == ToObjectWith(type, m, o, LAMBDA t, v : ToObject3(t, v, o))

\* The values of each of the enums; an enum is never a list.
EnumValues == 0 .. 2

\* Own properties, but no empty bytes unless they are text, and no enum of a value
\* that this version does not know, which has no name either.
\* (Values of other types, which throw a TypeError, are left out.)
Taken(type, d, text) ==
    {n \in Fields(type) :
        /\ IsSet(d, n)
        /\ (Schema[type][n].kind = "bytes" /\ n \notin Lists(type)) => text \/ d[n] # <<>>
        /\ Schema[type][n].kind = "enum" => d[n] \in EnumValues}

\* Faulty variant: the members that are taken move up.
Packed(f, values, text) ==
    IF f.kind = "bytes" /\ f.label = "repeated" /\ ~ text
    THEN SelectSeq(values, LAMBDA v : v # <<>>) ELSE values

\* Of a list of bytes that are not text the empty members are not assigned: a
\* later member leaves a hole there, without one the new list ends before them.
Assigned(f, values, text) ==
    IF f.kind = "bytes" /\ f.label = "repeated" /\ ~ text
    THEN LET full == {i \in DOMAIN values : values[i] # <<>>}
         IN  [i \in {i \in DOMAIN values : \E j \in full : i <= j} |->
                 IF i \in full THEN values[i] ELSE Null]
    ELSE values

FromObjectWith(type, d, text, Nested(_, _)) ==
    [n \in Taken(type, d, text) \cup Lists(type) |->
        IF n \in Taken(type, d, text)
        THEN Converted(Schema[type][n], Assigned(Schema[type][n], d[n], text), Nested) ELSE <<>>]

FromObject1(type, d, text) == FromObjectWith(type, d, text, LAMBDA t, v : v)
FromObject2(type, d, text) == FromObjectWith(type, d, text, LAMBDA t, v : FromObject1(t, v, text))
FromObject3(type, d, text) == FromObjectWith(type, d, text, LAMBDA t, v : FromObject2(t, v, text))
FromObject(type, d, text) == FromObjectWith(type, d, text, LAMBDA t, v : FromObject3(t, v, text))
=============================================================================
