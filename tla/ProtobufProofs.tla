--------------------------- MODULE ProtobufProofs ---------------------------
(* What the codec of Protobuf does. *)
EXTENDS Protobuf, ListsProofs

-----------------------------------------------------------------------------
(* The declarations of WireMessages.                                          *)

\* The types by how deep their messages nest others.
Level1 == {"Address", "Metadata", "AddressInfo", "Envelope", "PeerIdProto", "SubOpts", "Message",
           "ControlIHave", "ControlIWant", "ControlGraft", "PeerInfo", "AuthOpts", "EncOpts"}
Level2 == Level1 \cup {"Peer", "PeerRecord", "ControlPrune", "TopicDescriptor"}
Level3 == Level2 \cup {"ControlMessage"}
Level4 == Level3 \cup {"RPC"}

LEMMA TypesAre == Types = Level4
  BY DEF Types, Schema, Level1, Level2, Level3, Level4

Declared(type) ==
    \A n \in DOMAIN Schema[type] :
        LET f == Schema[type][n]
        IN  /\ f.tag \in 1 .. 6
            /\ \A m \in DOMAIN Schema[type] : Schema[type][m].tag = f.tag => m = n
            /\ f.label \in {"repeated", "optional", "plain", "required"}
            /\ f.kind \in Level4 => f.label \in {"repeated", "optional"}
            /\ type \in Level1 => f.kind \notin Level4
            /\ type \in Level2 /\ f.kind \in Level4 => f.kind \in Level1
            /\ type \in Level3 /\ f.kind \in Level4 => f.kind \in Level2
            /\ f.kind \in Level4 => f.kind \in Level3
            /\ f.kind = "enum" => f.label = "optional"

LEMMA AllDeclared ==
    ASSUME NEW type \in Types
    PROVE  Declared(type)
  <1>1. type \in Level4
    BY TypesAre
  <1>2. CASE type = "Peer"
    BY <1>1, <1>2 DEF Declared, Level1, Level2, Level3, Level4, Schema, PeerFields, Field,
       Repeated, Optional, Plain, Required
  <1>3. CASE type = "Address"
    BY <1>1, <1>3 DEF Declared, Level1, Level2, Level3, Level4, Schema, AddressFields, Field,
       Repeated, Optional, Plain, Required
  <1>4. CASE type = "Metadata"
    BY <1>1, <1>4 DEF Declared, Level1, Level2, Level3, Level4, Schema, MetadataFields, Field,
       Repeated, Optional, Plain, Required
  <1>5. CASE type = "PeerRecord"
    BY <1>1, <1>5 DEF Declared, Level1, Level2, Level3, Level4, Schema, PeerRecordFields, Field,
       Repeated, Optional, Plain, Required
  <1>6. CASE type = "AddressInfo"
    BY <1>1, <1>6 DEF Declared, Level1, Level2, Level3, Level4, Schema, AddressInfoFields, Field,
       Repeated, Optional, Plain, Required
  <1>7. CASE type = "Envelope"
    BY <1>1, <1>7 DEF Declared, Level1, Level2, Level3, Level4, Schema, EnvelopeFields, Field,
       Repeated, Optional, Plain, Required
  <1>8. CASE type = "PeerIdProto"
    BY <1>1, <1>8 DEF Declared, Level1, Level2, Level3, Level4, Schema, PeerIdProtoFields, Field,
       Repeated, Optional, Plain, Required
  <1>9. CASE type = "RPC"
    BY <1>1, <1>9 DEF Declared, Level1, Level2, Level3, Level4, Schema, RPCFields, Field, Repeated,
       Optional, Plain, Required
  <1>10. CASE type = "SubOpts"
    BY <1>1, <1>10 DEF Declared, Level1, Level2, Level3, Level4, Schema, SubOptsFields, Field,
       Repeated, Optional, Plain, Required
  <1>11. CASE type = "Message"
    BY <1>1, <1>11 DEF Declared, Level1, Level2, Level3, Level4, Schema, MessageFields, Field,
       Repeated, Optional, Plain, Required
  <1>12. CASE type = "ControlMessage"
    BY <1>1, <1>12 DEF Declared, Level1, Level2, Level3, Level4, Schema, ControlMessageFields,
       Field, Repeated, Optional, Plain, Required
  <1>13. CASE type = "ControlIHave"
    BY <1>1, <1>13 DEF Declared, Level1, Level2, Level3, Level4, Schema, ControlIHaveFields, Field,
       Repeated, Optional, Plain, Required
  <1>14. CASE type = "ControlIWant"
    BY <1>1, <1>14 DEF Declared, Level1, Level2, Level3, Level4, Schema, ControlIWantFields, Field,
       Repeated, Optional, Plain, Required
  <1>15. CASE type = "ControlGraft"
    BY <1>1, <1>15 DEF Declared, Level1, Level2, Level3, Level4, Schema, ControlGraftFields, Field,
       Repeated, Optional, Plain, Required
  <1>16. CASE type = "ControlPrune"
    BY <1>1, <1>16 DEF Declared, Level1, Level2, Level3, Level4, Schema, ControlPruneFields, Field,
       Repeated, Optional, Plain, Required
  <1>17. CASE type = "PeerInfo"
    BY <1>1, <1>17 DEF Declared, Level1, Level2, Level3, Level4, Schema, PeerInfoFields, Field,
       Repeated, Optional, Plain, Required
  <1>18. CASE type = "TopicDescriptor"
    BY <1>1, <1>18 DEF Declared, Level1, Level2, Level3, Level4, Schema, TopicDescriptorFields,
       Field, Repeated, Optional, Plain, Required
  <1>19. CASE type = "AuthOpts"
    BY <1>1, <1>19 DEF Declared, Level1, Level2, Level3, Level4, Schema, AuthOptsFields, Field,
       Repeated, Optional, Plain, Required
  <1>20. CASE type = "EncOpts"
    BY <1>1, <1>20 DEF Declared, Level1, Level2, Level3, Level4, Schema, EncOptsFields, Field,
       Repeated, Optional, Plain, Required
  <1>22. QED
    BY <1>1, <1>2, <1>3, <1>4, <1>5, <1>6, <1>7, <1>8, <1>9, <1>10, <1>11, <1>12, <1>13, <1>14,
       <1>15, <1>16, <1>17, <1>18, <1>19, <1>20 DEF Level1, Level2, Level3, Level4

-----------------------------------------------------------------------------
(* Wires.                                                                     *)

\* What a wire has of one tag.
Tagged(wire, tag) == Only(wire, {w \in Range(wire) : w[1] = tag})

Splits(s, t, tag) == Tagged(s \o t, tag) = Tagged(s, tag) \o Tagged(t, tag)

LEMMA TaggedConcat ==
    ASSUME NEW W, NEW s \in Seq(W), NEW t \in Seq(W), NEW tag
    PROVE  Splits(s, t, tag)
<1> DEFINE Of(list) == {w \in Range(list) : w[1] = tag}
<1>1. s \o t \in Seq(W) /\ Range(s \o t) = Range(s) \cup Range(t)
  BY ConcatDoes
<1>2. Only(s \o t, Of(s \o t)) = Only(s, Of(s \o t)) \o Only(t, Of(s \o t))
  BY OnlyConcat
<1>3. Only(s, Of(s \o t)) = Only(s, Of(s))
  <2>1. Range(s) \cap Of(s \o t) = Range(s) \cap Of(s)
    BY <1>1
  <2> HIDE DEF Of
  <2>2. QED
    BY <2>1, OnlySame
<1>4. Only(t, Of(s \o t)) = Only(t, Of(t))
  <2>1. Range(t) \cap Of(s \o t) = Range(t) \cap Of(t)
    BY <1>1
  <2> HIDE DEF Of
  <2>2. QED
    BY <2>1, OnlySame
<1>5. QED
  BY <1>2, <1>3, <1>4 DEF Tagged, Splits

\* The values of one field, with its tag.
LEMMA TaggedPart ==
    ASSUME NEW W, NEW part \in Seq(W), NEW k, \A w \in Range(part) : w[1] = k
    PROVE  /\ Tagged(part, k) = part
           /\ \A tag : tag # k => Tagged(part, tag) = <<>>
<1>1. Tagged(part, k) = part
  BY OnlyAll DEF Tagged
<1>2. ASSUME NEW tag, tag # k PROVE Tagged(part, tag) = <<>>
  <2>1. Range(part) \cap {w \in Range(part) : w[1] = tag} = {}
    BY <1>2
  <2>2. QED
    BY <2>1, OnlyNone DEF Tagged
<1>3. QED
  BY <1>1, <1>2

LEMMA EmptyConcat ==
    ASSUME NEW W, NEW s \in Seq(W)
    PROVE  s \o <<>> = s /\ <<>> \o s = s
  OBVIOUS

\* A wire that has the first parts, each under its tag, and nothing else.
HasParts(wire, p, count, W) ==
    /\ wire \in Seq(W)
    /\ \A k \in 1 .. 6 : Tagged(wire, k) = IF k <= count THEN p[k] ELSE <<>>
    /\ \A w \in Range(wire) : w[1] \in 1 .. 6

LEMMA OnePart ==
    ASSUME NEW W, NEW p, NEW j \in 1 .. 6, p[j] \in Seq(W), \A w \in Range(p[j]) : w[1] = j,
           NEW wire, HasParts(wire, p, j - 1, W)
    PROVE  HasParts(wire \o p[j], p, j, W)
<1>1. wire \in Seq(W) /\ \A w \in Range(wire) : w[1] \in 1 .. 6
  BY DEF HasParts
<1>2. wire \o p[j] \in Seq(W) /\ Range(wire \o p[j]) = Range(wire) \cup Range(p[j])
  BY <1>1, ConcatDoes
<1>3. ASSUME NEW k \in 1 .. 6 PROVE Tagged(wire \o p[j], k) = IF k <= j THEN p[k] ELSE <<>>
  <2>1. Tagged(wire \o p[j], k) = Tagged(wire, k) \o Tagged(p[j], k)
    <3>1. Splits(wire, p[j], k)
      BY <1>1, TaggedConcat
    <3>2. QED
      BY <3>1 DEF Splits
  <2>2. Tagged(wire, k) = IF k <= j - 1 THEN p[k] ELSE <<>>
    BY DEF HasParts
  <2>3. Tagged(p[j], k) = IF k = j THEN p[j] ELSE <<>>
    <3> DEFINE part == p[j]
    <3>1. part \in Seq(W) /\ \A w \in Range(part) : w[1] = j
      OBVIOUS
    <3> HIDE DEF part
    <3>2. Tagged(part, j) = part /\ \A tag : tag # j => Tagged(part, tag) = <<>>
      BY <3>1, TaggedPart
    <3>3. Tagged(part, k) = IF k = j THEN part ELSE <<>>
      BY <3>2
    <3>4. QED
      BY <3>3 DEF part
  <2>4. Tagged(wire, k) \in Seq(W)
    BY <1>1, OnlyDoes DEF Tagged
  <2>5. CASE k = j
    <3>1. Tagged(wire, k) = <<>> /\ Tagged(p[j], k) = p[j] /\ k <= j
      BY <2>2, <2>3, <2>5
    <3>2. QED
      BY <2>1, <2>5, <3>1, EmptyConcat
  <2>6. CASE k # j
    <3>1. Tagged(p[j], k) = <<>> /\ (k <= j - 1 <=> k <= j)
      BY <2>3, <2>6
    <3>2. Tagged(wire, k) \o <<>> = Tagged(wire, k)
      BY <2>4, EmptyConcat
    <3>3. QED
      BY <2>1, <2>2, <3>1, <3>2
  <2>7. QED
    BY <2>5, <2>6
<1>4. QED
  BY <1>1, <1>2, <1>3 DEF HasParts

\* Of six parts with the tags 1 to 6, a wire has under each tag that part.
LEMMA SixParts ==
    ASSUME NEW W, NEW p,
           \A k \in 1 .. 6 : p[k] \in Seq(W) /\ \A w \in Range(p[k]) : w[1] = k
    PROVE  HasParts(p[1] \o p[2] \o p[3] \o p[4] \o p[5] \o p[6], p, 6, W)
<1>1. HasParts(<<>>, p, 0, W)
  <2>1. <<>> \in Seq(W) /\ Range(<<>>) = {}
    BY DEF Range
  <2>2. \A k : Tagged(<<>>, k) = <<>>
    BY <2>1, OnlyNone DEF Tagged
  <2>3. QED
    BY <2>1, <2>2 DEF HasParts
<1>2. \A k \in 1 .. 6 : p[k] \in Seq(W) /\ \A w \in Range(p[k]) : w[1] = k
  OBVIOUS
<1>3. <<>> \o p[1] = p[1]
  BY <1>2, EmptyConcat
<1>4. ASSUME NEW j \in 1 .. 6, NEW wire, HasParts(wire, p, j - 1, W)
      PROVE  HasParts(wire \o p[j], p, j, W)
  BY <1>2, <1>4, OnePart
<1>5. HasParts(p[1], p, 1, W)
  <2>1. 1 \in 1 .. 6 /\ 1 - 1 = 0
    OBVIOUS
  <2>2. HasParts(<<>> \o p[1], p, 1, W)
    BY <1>1, <1>4, <2>1
  <2>3. QED
    BY <1>3, <2>2
<1>6. HasParts(p[1] \o p[2], p, 2, W)
  <2>1. 2 \in 1 .. 6 /\ 2 - 1 = 1
    OBVIOUS
  <2>2. QED
    BY <1>4, <1>5, <2>1
<1>7. HasParts(p[1] \o p[2] \o p[3], p, 3, W)
  <2>1. 3 \in 1 .. 6 /\ 3 - 1 = 2
    OBVIOUS
  <2>2. QED
    BY <1>4, <1>6, <2>1
<1>8. HasParts(p[1] \o p[2] \o p[3] \o p[4], p, 4, W)
  <2>1. 4 \in 1 .. 6 /\ 4 - 1 = 3
    OBVIOUS
  <2>2. QED
    BY <1>4, <1>7, <2>1
<1>9. HasParts(p[1] \o p[2] \o p[3] \o p[4] \o p[5], p, 5, W)
  <2>1. 5 \in 1 .. 6 /\ 5 - 1 = 4
    OBVIOUS
  <2>2. QED
    BY <1>4, <1>8, <2>1
<1>10. QED
  <2>1. 6 \in 1 .. 6 /\ 6 - 1 = 5
    OBVIOUS
  <2>2. QED
    BY <1>4, <1>9, <2>1

\* The part of a wire that is of one tag.
PartOf(type, values, tag) ==
    LET fields == {n \in Fields(type) : Schema[type][n].tag = tag}
        written == values[CHOOSE n \in fields : TRUE]
    IN  IF fields = {} THEN <<>> ELSE [i \in DOMAIN written |-> <<tag, written[i]>>]

WireElements(type, values) == (1 .. 6) \X UNION {Range(values[n]) : n \in Fields(type)}

LEMMA PartIs ==
    ASSUME NEW type \in Types, NEW values, NEW n \in Fields(type)
    PROVE  PartOf(type, values, Schema[type][n].tag)
              = [i \in DOMAIN values[n] |-> <<Schema[type][n].tag, values[n][i]>>]
<1> DEFINE tag == Schema[type][n].tag
           fields == {x \in Fields(type) : Schema[type][x].tag = tag}
<1>1. fields = {n}
  BY AllDeclared DEF Declared, Fields
<1>2. fields # {} /\ (CHOOSE x \in fields : TRUE) = n
  BY <1>1
<1> HIDE DEF fields
<1>3. QED
  BY <1>2 DEF PartOf, fields

LEMMA PartIsTagged ==
    ASSUME NEW type \in Types, NEW values, \A n \in Fields(type) : IsList(values[n]),
           NEW tag \in 1 .. 6
    PROVE  /\ PartOf(type, values, tag) \in Seq(WireElements(type, values))
           /\ \A w \in Range(PartOf(type, values, tag)) : w[1] = tag
<1>1. CASE \A n \in Fields(type) : Schema[type][n].tag # tag
  <2>1. PartOf(type, values, tag) = <<>>
    BY <1>1 DEF PartOf
  <2>2. QED
    BY <2>1 DEF Range
<1>2. ASSUME NEW n \in Fields(type), Schema[type][n].tag = tag
      PROVE  /\ PartOf(type, values, tag) \in Seq(WireElements(type, values))
             /\ \A w \in Range(PartOf(type, values, tag)) : w[1] = tag
  <2> DEFINE part == [i \in DOMAIN values[n] |-> <<tag, values[n][i]>>]
  <2>9. PartOf(type, values, Schema[type][n].tag)
           = [i \in DOMAIN values[n] |-> <<Schema[type][n].tag, values[n][i]>>]
    BY PartIs
  <2>1. PartOf(type, values, tag) = part
    BY <1>2, <2>9
  <2>2. IsList(values[n])
    OBVIOUS
  <2>3. IsList(part)
    BY <2>2, MappedList
  <2>4. \A w \in Range(part) : \E i \in DOMAIN values[n] : w = <<tag, values[n][i]>>
    BY DEF Range
  <2>5. \A i \in DOMAIN values[n] : values[n][i] \in UNION {Range(values[x]) : x \in Fields(type)}
    BY DEF Range
  <2>6. Range(part) \subseteq WireElements(type, values)
    BY <2>4, <2>5 DEF WireElements
  <2>7. part \in Seq(WireElements(type, values))
    BY <2>3, <2>6, ListOf
  <2>8. QED
    BY <2>1, <2>4, <2>7
<1>3. QED
  BY <1>1, <1>2

\* A wire has, under the tag of each field, the values of that field, and no
\* other tags.
LEMMA WireDoes ==
    ASSUME NEW type \in Types, NEW values, \A n \in Fields(type) : IsList(values[n])
    PROVE  /\ IsList(Wire(type, values))
           /\ \A n \in Fields(type) : ValuesOf(Schema[type][n], Wire(type, values)) = values[n]
           /\ \A w \in Range(Wire(type, values)) : w[1] \in 1 .. 6
<1> DEFINE p == [k \in 1 .. 6 |-> PartOf(type, values, k)]
           W == WireElements(type, values)
           wire == Wire(type, values)
<1>1. \A k \in 1 .. 6 : p[k] \in Seq(W) /\ \A w \in Range(p[k]) : w[1] = k
  BY PartIsTagged
<1>2. wire = p[1] \o p[2] \o p[3] \o p[4] \o p[5] \o p[6]
  <2>1. wire = Joined(p)
    BY Zenon DEF Wire, PartOf
  <2> HIDE DEF p, wire
  <2>2. QED
    BY Zenon, <2>1 DEF Joined
<1> HIDE DEF W, wire
<1>3. HasParts(wire, p, 6, W)
  <2> HIDE DEF p
  <2>1. QED
    BY <1>1, <1>2, SixParts
<1>4. ASSUME NEW n \in Fields(type) PROVE ValuesOf(Schema[type][n], wire) = values[n]
  <2> DEFINE tag == Schema[type][n].tag
             part == [i \in DOMAIN values[n] |-> <<tag, values[n][i]>>]
  <2>1. tag \in 1 .. 6
    BY AllDeclared DEF Declared, Fields
  <2>2. Tagged(wire, tag) = PartOf(type, values, tag)
    BY <1>3, <2>1 DEF HasParts
  <2>3. PartOf(type, values, tag) = part
    BY PartIs
  <2>4. Tagged(wire, tag) = part
    BY <2>2, <2>3
  <2>5. ValuesOf(Schema[type][n], wire) = [i \in DOMAIN part |-> part[i][2]]
    BY <2>4 DEF ValuesOf, Tagged
  <2>6. DOMAIN part = DOMAIN values[n] /\ \A i \in DOMAIN values[n] : part[i][2] = values[n][i]
    OBVIOUS
  <2>7. values[n] = [i \in DOMAIN values[n] |-> values[n][i]]
    BY ListParts
  <2>8. QED
    BY <2>5, <2>6, <2>7
<1>5. IsList(wire) /\ \A w \in Range(wire) : w[1] \in 1 .. 6
  BY <1>3, SeqIsList DEF HasParts
<1>6. QED
  BY <1>4, <1>5 DEF wire

-----------------------------------------------------------------------------
(* Messages and what is decoded of them, whatever becomes of the nested ones. *)

Needed(type) == {n \in Fields(type) : Schema[type][n].label = "required"}

\* A message owns some of its fields, and lists in those that are repeated.
HasShape(type, m) ==
    /\ DOMAIN m \subseteq Fields(type)
    /\ \A n \in DOMAIN m \cap Lists(type) : IsList(m[n])

LEMMA WrittenIs ==
    ASSUME NEW type \in Types, NEW m, HasShape(type, m), NEW n \in Fields(type)
    PROVE  /\ IsList(Written(type, m, n))
           /\ n \in Lists(type) => Written(type, m, n) = Get(type, m, n)
           /\ n \notin Lists(type) => Len(Written(type, m, n)) \in 0 .. 1
           /\ n \in Needed(type) => Len(Written(type, m, n)) = 1
           /\ n \notin Lists(type) \cup Needed(type) =>
                 /\ n \in DOMAIN m => Written(type, m, n) = <<m[n]>>
                 /\ n \notin DOMAIN m => Written(type, m, n) = <<>>
<1>1. CASE n \in Lists(type)
  <2>1. Schema[type][n].label = "repeated"
    BY <1>1 DEF Lists
  <2>2. Written(type, m, n) = Get(type, m, n) /\ n \notin Needed(type)
    BY <2>1 DEF Written, Needed
  <2>3. Get(type, m, n) = IF n \in DOMAIN m THEN m[n] ELSE <<>>
    BY <2>1 DEF Get, Default
  <2>4. IsList(<<>>)
    BY DEF IsList, Range
  <2>5. IsList(Get(type, m, n))
    BY <1>1, <2>3, <2>4 DEF HasShape
  <2>6. QED
    BY <1>1, <2>2, <2>5
<1>2. CASE n \in Needed(type)
  <2>1. Schema[type][n].label = "required"
    BY <1>2 DEF Needed
  <2>2. Written(type, m, n) = <<Get(type, m, n)>> /\ n \notin Lists(type)
    BY <2>1 DEF Written, Lists
  <2>3. \A x : IsList(<<x>>) /\ Len(<<x>>) = 1
    BY DEF IsList, Range
  <2>4. QED
    BY <1>2, <2>2, <2>3
<1>3. CASE n \notin Lists(type) \cup Needed(type)
  <2>1. Schema[type][n].label # "repeated" /\ Schema[type][n].label # "required"
    BY <1>3 DEF Needed, Lists
  <2>2. Written(type, m, n) = IF n \in DOMAIN m THEN <<m[n]>> ELSE <<>>
    BY <2>1 DEF Written, IsSet
  <2>3. \A x : IsList(<<x>>) /\ Len(<<x>>) = 1
    BY DEF IsList, Range
  <2>4. IsList(<<>>) /\ Len(<<>>) = 0
    BY DEF IsList, Range
  <2>5. QED
    BY <1>3, <2>2, <2>3, <2>4
<1>4. QED
  BY <1>1, <1>2, <1>3

\* What is decoded, d, owns what the message owned, the lists and the required
\* fields, and its values x are in the places of those that were written.
Image(type, m, d, x) ==
    /\ DOMAIN d = DOMAIN m \cup Lists(type) \cup Needed(type)
    /\ \A n \in Fields(type) :
          /\ IsList(x[n])
          /\ DOMAIN x[n] = DOMAIN Written(type, m, n)
          /\ Written(type, d, n) = x[n]
          /\ n \in DOMAIN d => d[n] = IF n \in Lists(type) THEN x[n] ELSE x[n][1]

LEMMA Decoded ==
    ASSUME NEW type \in Types, NEW m, HasShape(type, m),
           NEW e, \A n \in Fields(type) : /\ DOMAIN e[n] = DOMAIN Written(type, m, n)
                                          /\ e[n] = [i \in DOMAIN e[n] |-> e[n][i]],
           NEW x, \A n \in Fields(type) : /\ DOMAIN x[n] = DOMAIN e[n]
                                          /\ x[n] = [i \in DOMAIN x[n] |-> x[n][i]],
           NEW d, LET wire == Wire(type, e)
                  IN  d = IF Incomplete(type, wire) THEN ProtocolError
                          ELSE [n \in Present(type, wire) \cup Lists(type) |->
                                  IF Schema[type][n].label = "repeated" THEN x[n] ELSE Last(x[n])]
    PROVE  Image(type, m, d, x)
<1> DEFINE wire == Wire(type, e)
<1>1. ASSUME NEW n \in Fields(type)
      PROVE  IsList(e[n]) /\ IsList(x[n]) /\ Len(e[n]) = Len(Written(type, m, n)) /\ Len(x[n]) = Len(e[n])
  <2>1. IsList(e[n]) /\ Len(e[n]) = Len(Written(type, m, n))
    BY WrittenIs, MappedList
  <2>2. IsList(x[n]) /\ Len(x[n]) = Len(e[n])
    BY <2>1, MappedList
  <2>3. QED
    BY <2>1, <2>2
<1>2. \A n \in Fields(type) : ValuesOf(Schema[type][n], wire) = e[n]
  BY <1>1, WireDoes
<1>3. Present(type, wire) = {n \in Fields(type) : e[n] # <<>>}
  BY <1>2 DEF Present
<1>4. \A n \in Fields(type) : e[n] # <<>> <=> Len(Written(type, m, n)) # 0
  BY <1>1, ListParts
<1>5. ~ Incomplete(type, wire)
  BY <1>3, <1>4, WrittenIs DEF Incomplete, Needed
<1>6. d = [n \in Present(type, wire) \cup Lists(type) |->
              IF Schema[type][n].label = "repeated" THEN x[n] ELSE Last(x[n])]
  BY <1>5
<1> HIDE DEF wire
<1>7. DOMAIN d = DOMAIN m \cup Lists(type) \cup Needed(type)
  <2>1. DOMAIN d = {n \in Fields(type) : e[n] # <<>>} \cup Lists(type)
    BY <1>3, <1>6
  <2>2. ASSUME NEW n \in Fields(type), n \notin Lists(type)
        PROVE  e[n] # <<>> <=> n \in DOMAIN m \cup Needed(type)
    <3>1. Len(<<>>) = 0 /\ \A v : Len(<<v>>) = 1
      OBVIOUS
    <3>2. QED
      BY <1>4, <2>2, <3>1, WrittenIs
  <2>3. DOMAIN m \subseteq Fields(type) /\ Needed(type) \subseteq Fields(type) /\ Lists(type) \subseteq Fields(type)
    BY DEF HasShape, Needed, Lists
  <2>4. QED
    BY <2>1, <2>2, <2>3
<1>8. ASSUME NEW n \in Fields(type)
      PROVE  /\ n \in DOMAIN d => d[n] = IF n \in Lists(type) THEN x[n] ELSE x[n][1]
             /\ Written(type, d, n) = x[n]
  <2>1. n \in DOMAIN d => d[n] = IF n \in Lists(type) THEN x[n] ELSE Last(x[n])
    BY <1>6 DEF Lists
  <2>2. CASE n \in Lists(type)
    <3>1. n \in DOMAIN d
      BY <1>7, <2>2
    <3>2. Schema[type][n].label = "repeated"
      BY <2>2 DEF Lists
    <3>3. Written(type, d, n) = d[n]
      BY <3>1, <3>2 DEF Written, Get
    <3>4. QED
      BY <2>1, <2>2, <3>1, <3>3
  <2>3. CASE n \notin Lists(type)
    <3>1. Len(x[n]) \in 0 .. 1 /\ IsList(x[n])
      BY <1>1, <2>3, WrittenIs
    <3>2. n \in DOMAIN d <=> Len(x[n]) # 0
      <4>1. n \in DOMAIN d <=> e[n] # <<>>
        BY <1>3, <1>6, <2>3
      <4>2. QED
        BY <1>1, <1>4, <4>1
    <3>3. n \in DOMAIN d => Len(x[n]) = 1 /\ d[n] = x[n][1] /\ x[n] = <<d[n]>>
      <4> SUFFICES ASSUME n \in DOMAIN d
                   PROVE  Len(x[n]) = 1 /\ d[n] = x[n][1] /\ x[n] = <<d[n]>>
        OBVIOUS
      <4>1. Len(x[n]) = 1
        BY <3>1, <3>2
      <4>2. d[n] = x[n][1]
        BY <2>1, <2>3, <4>1 DEF Last
      <4>3. x[n] = [i \in 1 .. 1 |-> x[n][i]]
        BY <3>1, <4>1, ListParts
      <4>4. QED
        BY <4>1, <4>2, <4>3
    <3>4. n \notin DOMAIN d => x[n] = <<>> /\ n \notin Needed(type)
      BY <1>7, <3>1, <3>2, ListParts
    <3>5. Schema[type][n].label # "repeated"
      BY <2>3 DEF Lists
    <3>6. Written(type, d, n) = IF n \in DOMAIN d THEN <<d[n]>> ELSE <<>>
      BY <3>4, <3>5 DEF Written, Get, IsSet, Needed
    <3>7. QED
      BY <2>3, <3>3, <3>4, <3>6
  <2>4. QED
    BY <2>2, <2>3
<1>9. QED
  BY <1>1, <1>7, <1>8 DEF Image

-----------------------------------------------------------------------------
(* The codecs of the four levels: what is written of the nested messages, and *)
(* what is decoded of that. *)

\* Level 1.
Encoded1(type, m) ==
    [n \in Fields(type) |-> [i \in DOMAIN Written(type, m, n) |->
        LET v == Written(type, m, n)[i]
        IN  v]]
Back1(type, m) ==
    [n \in Fields(type) |-> [i \in DOMAIN Written(type, m, n) |->
        LET v == Written(type, m, n)[i]
        IN  v]]

LEMMA Encode1Is ==
    ASSUME NEW type, NEW m
    PROVE  Encode1(type, m) = Wire(type, Encoded1(type, m))
  BY DEF Encode1, EncodeWith, Each, Encoded1

LEMMA Decode1Is ==
    ASSUME NEW type \in Types, NEW m, HasShape(type, m)
    PROVE  Image(type, m, Decode1(type, Encode1(type, m)), Back1(type, m))
<1> DEFINE e == Encoded1(type, m)
           x == Back1(type, m)
           wire == Wire(type, e)
           d == Decode1(type, wire)
<1>1. \A n \in Fields(type) : /\ DOMAIN e[n] = DOMAIN Written(type, m, n)
                              /\ e[n] = [i \in DOMAIN e[n] |-> e[n][i]]
  BY DEF Encoded1
<1>2. \A n \in Fields(type) : /\ DOMAIN x[n] = DOMAIN e[n]
                              /\ x[n] = [i \in DOMAIN x[n] |-> x[n][i]]
  BY DEF Encoded1, Back1
<1>3. ASSUME NEW n \in Fields(type) PROVE ValuesOf(Schema[type][n], wire) = e[n]
  <2>1. \A k \in Fields(type) : IsList(e[k])
    BY <1>1, WrittenIs, MappedList
  <2>2. QED
    BY <2>1, WireDoes
<1>4. ASSUME NEW n \in Fields(type)
      PROVE  x[n] = [i \in DOMAIN e[n] |-> e[n][i]]
  BY DEF Encoded1, Back1
<1>5. d = IF Incomplete(type, wire) THEN ProtocolError
          ELSE [n \in Present(type, wire) \cup Lists(type) |->
                  IF Schema[type][n].label = "repeated" THEN x[n] ELSE Last(x[n])]
  <2> HIDE DEF e, x, wire
  <2>1. Present(type, wire) \cup Lists(type) \subseteq Fields(type)
    BY DEF Present, Lists
  <2> DEFINE y(n) == LET values == ValuesOf(Schema[type][n], wire)
                     IN  [i \in DOMAIN values |-> values[i]]
  <2>2. \A n \in Fields(type) : y(n) = x[n]
    BY <1>3, <1>4
  <2>3. d = IF Incomplete(type, wire) THEN ProtocolError
            ELSE [n \in Present(type, wire) \cup Lists(type) |->
                    IF Schema[type][n].label = "repeated" THEN y(n) ELSE Last(y(n))]
    BY DEF Decode1, DecodeWith, Gathered, Each, LastOne
  <2> HIDE DEF y, d
  <2>4. [n \in Present(type, wire) \cup Lists(type) |->
           IF Schema[type][n].label = "repeated" THEN y(n) ELSE Last(y(n))]
        = [n \in Present(type, wire) \cup Lists(type) |->
           IF Schema[type][n].label = "repeated" THEN x[n] ELSE Last(x[n])]
    BY <2>1, <2>2
  <2>5. QED
    BY <2>3, <2>4
<1> HIDE DEF e, x, d
<1>6. Image(type, m, d, x)
  BY <1>1, <1>2, <1>5, Decoded
<1>7. QED
  BY <1>6, Encode1Is DEF e, x, d

\* A decoded message is encoded as the one it is of.
LEMMA Again1 ==
    ASSUME NEW type \in Types, NEW m, HasShape(type, m)
    PROVE  Encode1(type, Decode1(type, Encode1(type, m))) = Encode1(type, m)
<1> DEFINE d == Decode1(type, Encode1(type, m))
           x == Back1(type, m)
<1>5. Image(type, m, d, x)
  BY Decode1Is
<1> HIDE DEF d, x
<1>1. \A n \in Fields(type) : Written(type, d, n) = x[n] /\ DOMAIN x[n] = DOMAIN Written(type, m, n)
  BY <1>5 DEF Image
<1>2. ASSUME NEW n \in Fields(type) PROVE Encoded1(type, d)[n] = Encoded1(type, m)[n]
  <2>1. Encoded1(type, d)[n] = [i \in DOMAIN x[n] |-> LET v == x[n][i] IN v]
    BY <1>1 DEF Encoded1
  <2>2. \A i \in DOMAIN Written(type, m, n) :
           x[n][i] = LET v == Written(type, m, n)[i] IN v
    BY DEF Back1, x
  <2>3. \A i \in DOMAIN Written(type, m, n) :
           (LET v == x[n][i] IN v) = (LET v == Written(type, m, n)[i] IN v)
    BY <2>2
  <2>4. Encoded1(type, d)[n] = [i \in DOMAIN Written(type, m, n) |->
                                   LET v == Written(type, m, n)[i] IN v]
    BY <1>1, <2>1, <2>3
  <2>5. QED
    BY <2>4 DEF Encoded1
<1>3. Encoded1(type, d) = Encoded1(type, m)
  <2>1. /\ Encoded1(type, d) = [n \in Fields(type) |-> Encoded1(type, d)[n]]
        /\ Encoded1(type, m) = [n \in Fields(type) |-> Encoded1(type, m)[n]]
    BY DEF Encoded1
  <2>2. QED
    BY <1>2, <2>1
<1>4. QED
  BY <1>3, Encode1Is DEF d

\* Level 2.
Encoded2(type, m) ==
    [n \in Fields(type) |-> [i \in DOMAIN Written(type, m, n) |->
        LET v == Written(type, m, n)[i]
        IN  IF IsNested(Schema[type][n]) THEN Encode1(Schema[type][n].kind, v) ELSE v]]
Back2(type, m) ==
    [n \in Fields(type) |-> [i \in DOMAIN Written(type, m, n) |->
        LET v == Written(type, m, n)[i]
        IN  IF IsNested(Schema[type][n])
            THEN Decode1(Schema[type][n].kind, Encode1(Schema[type][n].kind, v))
            ELSE v]]

LEMMA Encode2Is ==
    ASSUME NEW type, NEW m
    PROVE  Encode2(type, m) = Wire(type, Encoded2(type, m))
  BY DEF Encode2, EncodeWith, Each, Encoded2

LEMMA Decode2Is ==
    ASSUME NEW type \in Types, NEW m, HasShape(type, m)
    PROVE  Image(type, m, Decode2(type, Encode2(type, m)), Back2(type, m))
<1> DEFINE e == Encoded2(type, m)
           x == Back2(type, m)
           wire == Wire(type, e)
           d == Decode2(type, wire)
<1>1. \A n \in Fields(type) : /\ DOMAIN e[n] = DOMAIN Written(type, m, n)
                              /\ e[n] = [i \in DOMAIN e[n] |-> e[n][i]]
  BY DEF Encoded2
<1>2. \A n \in Fields(type) : /\ DOMAIN x[n] = DOMAIN e[n]
                              /\ x[n] = [i \in DOMAIN x[n] |-> x[n][i]]
  BY DEF Encoded2, Back2
<1>3. ASSUME NEW n \in Fields(type) PROVE ValuesOf(Schema[type][n], wire) = e[n]
  <2>1. \A k \in Fields(type) : IsList(e[k])
    BY <1>1, WrittenIs, MappedList
  <2>2. QED
    BY <2>1, WireDoes
<1>4. ASSUME NEW n \in Fields(type)
      PROVE  x[n] = [i \in DOMAIN e[n] |->
                        IF IsNested(Schema[type][n]) THEN Decode1(Schema[type][n].kind, e[n][i])
                        ELSE e[n][i]]
  BY DEF Encoded2, Back2
<1>5. d = IF Incomplete(type, wire) THEN ProtocolError
          ELSE [n \in Present(type, wire) \cup Lists(type) |->
                  IF Schema[type][n].label = "repeated" THEN x[n] ELSE Last(x[n])]
  <2> HIDE DEF e, x, wire
  <2>1. Present(type, wire) \cup Lists(type) \subseteq Fields(type)
    BY DEF Present, Lists
  <2> DEFINE y(n) == LET values == ValuesOf(Schema[type][n], wire)
                     IN  [i \in DOMAIN values |->
                             IF IsNested(Schema[type][n])
                             THEN Decode1(Schema[type][n].kind, values[i])
                             ELSE values[i]]
  <2>2. \A n \in Fields(type) : y(n) = x[n]
    BY <1>3, <1>4
  <2>3. d = IF Incomplete(type, wire) THEN ProtocolError
            ELSE [n \in Present(type, wire) \cup Lists(type) |->
                    IF Schema[type][n].label = "repeated" THEN y(n) ELSE Last(y(n))]
    BY DEF Decode2, DecodeWith, Gathered, Each, LastOne
  <2> HIDE DEF y, d
  <2>4. [n \in Present(type, wire) \cup Lists(type) |->
           IF Schema[type][n].label = "repeated" THEN y(n) ELSE Last(y(n))]
        = [n \in Present(type, wire) \cup Lists(type) |->
           IF Schema[type][n].label = "repeated" THEN x[n] ELSE Last(x[n])]
    BY <2>1, <2>2
  <2>5. QED
    BY <2>3, <2>4
<1> HIDE DEF e, x, d
<1>6. Image(type, m, d, x)
  BY <1>1, <1>2, <1>5, Decoded
<1>7. QED
  BY <1>6, Encode2Is DEF e, x, d

\* A decoded message is encoded as the one it is of.
LEMMA Again2 ==
    ASSUME NEW type \in Types, NEW m, HasShape(type, m),
           \A n \in Fields(type) : IsNested(Schema[type][n]) =>
              \A i \in DOMAIN Written(type, m, n) :
                 LET kind == Schema[type][n].kind
                     v == Written(type, m, n)[i]
                 IN  Encode1(kind, Decode1(kind, Encode1(kind, v))) = Encode1(kind, v)
    PROVE  Encode2(type, Decode2(type, Encode2(type, m))) = Encode2(type, m)
<1> DEFINE d == Decode2(type, Encode2(type, m))
           x == Back2(type, m)
<1>5. Image(type, m, d, x)
  BY Decode2Is
<1> HIDE DEF d, x
<1>1. \A n \in Fields(type) : Written(type, d, n) = x[n] /\ DOMAIN x[n] = DOMAIN Written(type, m, n)
  BY <1>5 DEF Image
<1>2. ASSUME NEW n \in Fields(type) PROVE Encoded2(type, d)[n] = Encoded2(type, m)[n]
  <2>1. Encoded2(type, d)[n] = [i \in DOMAIN x[n] |->
                                   LET v == x[n][i]
                                   IN  IF IsNested(Schema[type][n])
                                       THEN Encode1(Schema[type][n].kind, v)
                                       ELSE v]
    BY <1>1 DEF Encoded2
  <2>2. \A i \in DOMAIN Written(type, m, n) :
           x[n][i] = LET v == Written(type, m, n)[i] IN IF IsNested(Schema[type][n])
                                                        THEN Decode1(Schema[type][n].kind, Encode1(Schema[type][n].kind, v))
                                                        ELSE v
    BY DEF Back2, x
  <2>3. \A i \in DOMAIN Written(type, m, n) :
           (LET v == x[n][i]
            IN  IF IsNested(Schema[type][n]) THEN Encode1(Schema[type][n].kind, v) ELSE v)
             = (LET v == Written(type, m, n)[i] IN IF IsNested(Schema[type][n])
                                                   THEN Encode1(Schema[type][n].kind, v)
                                                   ELSE v)
    BY <2>2
  <2>4. Encoded2(type, d)[n] = [i \in DOMAIN Written(type, m, n) |->
                                   LET v == Written(type, m, n)[i] IN IF IsNested(Schema[type][n])
                                                                      THEN Encode1(Schema[type][n].kind, v)
                                                                      ELSE v]
    BY <1>1, <2>1, <2>3
  <2>5. QED
    BY <2>4 DEF Encoded2
<1>3. Encoded2(type, d) = Encoded2(type, m)
  <2>1. /\ Encoded2(type, d) = [n \in Fields(type) |-> Encoded2(type, d)[n]]
        /\ Encoded2(type, m) = [n \in Fields(type) |-> Encoded2(type, m)[n]]
    BY DEF Encoded2
  <2>2. QED
    BY <1>2, <2>1
<1>4. QED
  BY <1>3, Encode2Is DEF d

\* Level 3.
Encoded3(type, m) ==
    [n \in Fields(type) |-> [i \in DOMAIN Written(type, m, n) |->
        LET v == Written(type, m, n)[i]
        IN  IF IsNested(Schema[type][n]) THEN Encode2(Schema[type][n].kind, v) ELSE v]]
Back3(type, m) ==
    [n \in Fields(type) |-> [i \in DOMAIN Written(type, m, n) |->
        LET v == Written(type, m, n)[i]
        IN  IF IsNested(Schema[type][n])
            THEN Decode2(Schema[type][n].kind, Encode2(Schema[type][n].kind, v))
            ELSE v]]

LEMMA Encode3Is ==
    ASSUME NEW type, NEW m
    PROVE  Encode3(type, m) = Wire(type, Encoded3(type, m))
  BY DEF Encode3, EncodeWith, Each, Encoded3

LEMMA Decode3Is ==
    ASSUME NEW type \in Types, NEW m, HasShape(type, m)
    PROVE  Image(type, m, Decode3(type, Encode3(type, m)), Back3(type, m))
<1> DEFINE e == Encoded3(type, m)
           x == Back3(type, m)
           wire == Wire(type, e)
           d == Decode3(type, wire)
<1>1. \A n \in Fields(type) : /\ DOMAIN e[n] = DOMAIN Written(type, m, n)
                              /\ e[n] = [i \in DOMAIN e[n] |-> e[n][i]]
  BY DEF Encoded3
<1>2. \A n \in Fields(type) : /\ DOMAIN x[n] = DOMAIN e[n]
                              /\ x[n] = [i \in DOMAIN x[n] |-> x[n][i]]
  BY DEF Encoded3, Back3
<1>3. ASSUME NEW n \in Fields(type) PROVE ValuesOf(Schema[type][n], wire) = e[n]
  <2>1. \A k \in Fields(type) : IsList(e[k])
    BY <1>1, WrittenIs, MappedList
  <2>2. QED
    BY <2>1, WireDoes
<1>4. ASSUME NEW n \in Fields(type)
      PROVE  x[n] = [i \in DOMAIN e[n] |->
                        IF IsNested(Schema[type][n]) THEN Decode2(Schema[type][n].kind, e[n][i])
                        ELSE e[n][i]]
  BY DEF Encoded3, Back3
<1>5. d = IF Incomplete(type, wire) THEN ProtocolError
          ELSE [n \in Present(type, wire) \cup Lists(type) |->
                  IF Schema[type][n].label = "repeated" THEN x[n] ELSE Last(x[n])]
  <2> HIDE DEF e, x, wire
  <2>1. Present(type, wire) \cup Lists(type) \subseteq Fields(type)
    BY DEF Present, Lists
  <2> DEFINE y(n) == LET values == ValuesOf(Schema[type][n], wire)
                     IN  [i \in DOMAIN values |->
                             IF IsNested(Schema[type][n])
                             THEN Decode2(Schema[type][n].kind, values[i])
                             ELSE values[i]]
  <2>2. \A n \in Fields(type) : y(n) = x[n]
    BY <1>3, <1>4
  <2>3. d = IF Incomplete(type, wire) THEN ProtocolError
            ELSE [n \in Present(type, wire) \cup Lists(type) |->
                    IF Schema[type][n].label = "repeated" THEN y(n) ELSE Last(y(n))]
    BY DEF Decode3, DecodeWith, Gathered, Each, LastOne
  <2> HIDE DEF y, d
  <2>4. [n \in Present(type, wire) \cup Lists(type) |->
           IF Schema[type][n].label = "repeated" THEN y(n) ELSE Last(y(n))]
        = [n \in Present(type, wire) \cup Lists(type) |->
           IF Schema[type][n].label = "repeated" THEN x[n] ELSE Last(x[n])]
    BY <2>1, <2>2
  <2>5. QED
    BY <2>3, <2>4
<1> HIDE DEF e, x, d
<1>6. Image(type, m, d, x)
  BY <1>1, <1>2, <1>5, Decoded
<1>7. QED
  BY <1>6, Encode3Is DEF e, x, d

\* A decoded message is encoded as the one it is of.
LEMMA Again3 ==
    ASSUME NEW type \in Types, NEW m, HasShape(type, m),
           \A n \in Fields(type) : IsNested(Schema[type][n]) =>
              \A i \in DOMAIN Written(type, m, n) :
                 LET kind == Schema[type][n].kind
                     v == Written(type, m, n)[i]
                 IN  Encode2(kind, Decode2(kind, Encode2(kind, v))) = Encode2(kind, v)
    PROVE  Encode3(type, Decode3(type, Encode3(type, m))) = Encode3(type, m)
<1> DEFINE d == Decode3(type, Encode3(type, m))
           x == Back3(type, m)
<1>5. Image(type, m, d, x)
  BY Decode3Is
<1> HIDE DEF d, x
<1>1. \A n \in Fields(type) : Written(type, d, n) = x[n] /\ DOMAIN x[n] = DOMAIN Written(type, m, n)
  BY <1>5 DEF Image
<1>2. ASSUME NEW n \in Fields(type) PROVE Encoded3(type, d)[n] = Encoded3(type, m)[n]
  <2>1. Encoded3(type, d)[n] = [i \in DOMAIN x[n] |->
                                   LET v == x[n][i]
                                   IN  IF IsNested(Schema[type][n])
                                       THEN Encode2(Schema[type][n].kind, v)
                                       ELSE v]
    BY <1>1 DEF Encoded3
  <2>2. \A i \in DOMAIN Written(type, m, n) :
           x[n][i] = LET v == Written(type, m, n)[i] IN IF IsNested(Schema[type][n])
                                                        THEN Decode2(Schema[type][n].kind, Encode2(Schema[type][n].kind, v))
                                                        ELSE v
    BY DEF Back3, x
  <2>3. \A i \in DOMAIN Written(type, m, n) :
           (LET v == x[n][i]
            IN  IF IsNested(Schema[type][n]) THEN Encode2(Schema[type][n].kind, v) ELSE v)
             = (LET v == Written(type, m, n)[i] IN IF IsNested(Schema[type][n])
                                                   THEN Encode2(Schema[type][n].kind, v)
                                                   ELSE v)
    BY <2>2
  <2>4. Encoded3(type, d)[n] = [i \in DOMAIN Written(type, m, n) |->
                                   LET v == Written(type, m, n)[i] IN IF IsNested(Schema[type][n])
                                                                      THEN Encode2(Schema[type][n].kind, v)
                                                                      ELSE v]
    BY <1>1, <2>1, <2>3
  <2>5. QED
    BY <2>4 DEF Encoded3
<1>3. Encoded3(type, d) = Encoded3(type, m)
  <2>1. /\ Encoded3(type, d) = [n \in Fields(type) |-> Encoded3(type, d)[n]]
        /\ Encoded3(type, m) = [n \in Fields(type) |-> Encoded3(type, m)[n]]
    BY DEF Encoded3
  <2>2. QED
    BY <1>2, <2>1
<1>4. QED
  BY <1>3, Encode3Is DEF d

\* Level 4.
Encoded4(type, m) ==
    [n \in Fields(type) |-> [i \in DOMAIN Written(type, m, n) |->
        LET v == Written(type, m, n)[i]
        IN  IF IsNested(Schema[type][n]) THEN Encode3(Schema[type][n].kind, v) ELSE v]]
Back4(type, m) ==
    [n \in Fields(type) |-> [i \in DOMAIN Written(type, m, n) |->
        LET v == Written(type, m, n)[i]
        IN  IF IsNested(Schema[type][n])
            THEN Decode3(Schema[type][n].kind, Encode3(Schema[type][n].kind, v))
            ELSE v]]

LEMMA Encode4Is ==
    ASSUME NEW type, NEW m
    PROVE  Encode(type, m) = Wire(type, Encoded4(type, m))
  BY DEF Encode, EncodeWith, Each, Encoded4

LEMMA Decode4Is ==
    ASSUME NEW type \in Types, NEW m, HasShape(type, m)
    PROVE  Image(type, m, Decode(type, Encode(type, m)), Back4(type, m))
<1> DEFINE e == Encoded4(type, m)
           x == Back4(type, m)
           wire == Wire(type, e)
           d == Decode(type, wire)
<1>1. \A n \in Fields(type) : /\ DOMAIN e[n] = DOMAIN Written(type, m, n)
                              /\ e[n] = [i \in DOMAIN e[n] |-> e[n][i]]
  BY DEF Encoded4
<1>2. \A n \in Fields(type) : /\ DOMAIN x[n] = DOMAIN e[n]
                              /\ x[n] = [i \in DOMAIN x[n] |-> x[n][i]]
  BY DEF Encoded4, Back4
<1>3. ASSUME NEW n \in Fields(type) PROVE ValuesOf(Schema[type][n], wire) = e[n]
  <2>1. \A k \in Fields(type) : IsList(e[k])
    BY <1>1, WrittenIs, MappedList
  <2>2. QED
    BY <2>1, WireDoes
<1>4. ASSUME NEW n \in Fields(type)
      PROVE  x[n] = [i \in DOMAIN e[n] |->
                        IF IsNested(Schema[type][n]) THEN Decode3(Schema[type][n].kind, e[n][i])
                        ELSE e[n][i]]
  BY DEF Encoded4, Back4
<1>5. d = IF Incomplete(type, wire) THEN ProtocolError
          ELSE [n \in Present(type, wire) \cup Lists(type) |->
                  IF Schema[type][n].label = "repeated" THEN x[n] ELSE Last(x[n])]
  <2> HIDE DEF e, x, wire
  <2>1. Present(type, wire) \cup Lists(type) \subseteq Fields(type)
    BY DEF Present, Lists
  <2> DEFINE y(n) == LET values == ValuesOf(Schema[type][n], wire)
                     IN  [i \in DOMAIN values |->
                             IF IsNested(Schema[type][n])
                             THEN Decode3(Schema[type][n].kind, values[i])
                             ELSE values[i]]
  <2>2. \A n \in Fields(type) : y(n) = x[n]
    BY <1>3, <1>4
  <2>3. d = IF Incomplete(type, wire) THEN ProtocolError
            ELSE [n \in Present(type, wire) \cup Lists(type) |->
                    IF Schema[type][n].label = "repeated" THEN y(n) ELSE Last(y(n))]
    BY DEF Decode, DecodeWith, Gathered, Each, LastOne
  <2> HIDE DEF y, d
  <2>4. [n \in Present(type, wire) \cup Lists(type) |->
           IF Schema[type][n].label = "repeated" THEN y(n) ELSE Last(y(n))]
        = [n \in Present(type, wire) \cup Lists(type) |->
           IF Schema[type][n].label = "repeated" THEN x[n] ELSE Last(x[n])]
    BY <2>1, <2>2
  <2>5. QED
    BY <2>3, <2>4
<1> HIDE DEF e, x, d
<1>6. Image(type, m, d, x)
  BY <1>1, <1>2, <1>5, Decoded
<1>7. QED
  BY <1>6, Encode4Is DEF e, x, d

\* A decoded message is encoded as the one it is of.
LEMMA Again4 ==
    ASSUME NEW type \in Types, NEW m, HasShape(type, m),
           \A n \in Fields(type) : IsNested(Schema[type][n]) =>
              \A i \in DOMAIN Written(type, m, n) :
                 LET kind == Schema[type][n].kind
                     v == Written(type, m, n)[i]
                 IN  Encode3(kind, Decode3(kind, Encode3(kind, v))) = Encode3(kind, v)
    PROVE  Encode(type, Decode(type, Encode(type, m))) = Encode(type, m)
<1> DEFINE d == Decode(type, Encode(type, m))
           x == Back4(type, m)
<1>5. Image(type, m, d, x)
  BY Decode4Is
<1> HIDE DEF d, x
<1>1. \A n \in Fields(type) : Written(type, d, n) = x[n] /\ DOMAIN x[n] = DOMAIN Written(type, m, n)
  BY <1>5 DEF Image
<1>2. ASSUME NEW n \in Fields(type) PROVE Encoded4(type, d)[n] = Encoded4(type, m)[n]
  <2>1. Encoded4(type, d)[n] = [i \in DOMAIN x[n] |->
                                   LET v == x[n][i]
                                   IN  IF IsNested(Schema[type][n])
                                       THEN Encode3(Schema[type][n].kind, v)
                                       ELSE v]
    BY <1>1 DEF Encoded4
  <2>2. \A i \in DOMAIN Written(type, m, n) :
           x[n][i] = LET v == Written(type, m, n)[i] IN IF IsNested(Schema[type][n])
                                                        THEN Decode3(Schema[type][n].kind, Encode3(Schema[type][n].kind, v))
                                                        ELSE v
    BY DEF Back4, x
  <2>3. \A i \in DOMAIN Written(type, m, n) :
           (LET v == x[n][i]
            IN  IF IsNested(Schema[type][n]) THEN Encode3(Schema[type][n].kind, v) ELSE v)
             = (LET v == Written(type, m, n)[i] IN IF IsNested(Schema[type][n])
                                                   THEN Encode3(Schema[type][n].kind, v)
                                                   ELSE v)
    BY <2>2
  <2>4. Encoded4(type, d)[n] = [i \in DOMAIN Written(type, m, n) |->
                                   LET v == Written(type, m, n)[i] IN IF IsNested(Schema[type][n])
                                                                      THEN Encode3(Schema[type][n].kind, v)
                                                                      ELSE v]
    BY <1>1, <2>1, <2>3
  <2>5. QED
    BY <2>4 DEF Encoded4
<1>3. Encoded4(type, d) = Encoded4(type, m)
  <2>1. /\ Encoded4(type, d) = [n \in Fields(type) |-> Encoded4(type, d)[n]]
        /\ Encoded4(type, m) = [n \in Fields(type) |-> Encoded4(type, m)[n]]
    BY DEF Encoded4
  <2>2. QED
    BY <1>2, <2>1
<1>4. QED
  BY <1>3, Encode4Is DEF d

-----------------------------------------------------------------------------
(* Wires that are read alike.                                                 *)

\* A field has values on both wires or on none; the values of a list are the
\* same, and of other fields the last one is.
Alike(type, wire, other) ==
    \A n \in Fields(type) :
        LET a == ValuesOf(Schema[type][n], wire)
            b == ValuesOf(Schema[type][n], other)
        IN  /\ IsList(a) /\ IsList(b)
            /\ a = <<>> <=> b = <<>>
            /\ n \in Lists(type) => a = b
            /\ a # <<>> => Last(a) = Last(b)

LEMMA ValuesAreList ==
    ASSUME NEW f, NEW wire, IsList(wire)
    PROVE  IsList(ValuesOf(f, wire)) /\ Len(ValuesOf(f, wire)) = Len(Tagged(wire, f.tag))
<1> DEFINE tagged == Tagged(wire, f.tag)
           values == [i \in DOMAIN tagged |-> tagged[i][2]]
<1>1. IsList(tagged)
  BY OnlyDoes, SeqIsList DEF Tagged, IsList
<1>2. values = ValuesOf(f, wire)
  BY DEF ValuesOf, Tagged
<1> HIDE DEF tagged
<1>3. IsList(values) /\ Len(values) = Len(tagged)
  BY <1>1, MappedList
<1>4. QED
  BY <1>2, <1>3 DEF tagged

LEMMA DecodeAlike ==
    ASSUME NEW type \in Types, NEW wire, NEW other, Alike(type, wire, other)
    PROVE  Decode(type, wire) = Decode(type, other)
<1>1. Present(type, wire) = Present(type, other)
  BY DEF Alike, Present
<1>2. Incomplete(type, wire) <=> Incomplete(type, other)
  BY <1>1 DEF Incomplete
<1> DEFINE Values(n, w) == LET values == ValuesOf(Schema[type][n], w)
                           IN  [i \in DOMAIN values |->
                                  IF IsNested(Schema[type][n]) THEN Decode3(Schema[type][n].kind, values[i])
                                  ELSE values[i]]
           Content(n, w) == IF Schema[type][n].label = "repeated" THEN Values(n, w)
                            ELSE Last(Values(n, w))
<1>3. \A w : Decode(type, w) = IF Incomplete(type, w) THEN ProtocolError
                               ELSE [n \in Present(type, w) \cup Lists(type) |-> Content(n, w)]
  BY DEF Decode, DecodeWith, Gathered, Each, LastOne
<1>4. ASSUME NEW n \in Present(type, wire) \cup Lists(type) PROVE Content(n, wire) = Content(n, other)
  <2> DEFINE a == ValuesOf(Schema[type][n], wire)
             b == ValuesOf(Schema[type][n], other)
  <2>1. n \in Fields(type)
    BY DEF Present, Lists
  <2>2. /\ IsList(a) /\ IsList(b) /\ (a = <<>> <=> b = <<>>)
        /\ n \in Lists(type) => a = b
        /\ a # <<>> => Last(a) = Last(b)
    BY <2>1 DEF Alike
  <2>3. CASE n \in Lists(type)
    BY <2>2, <2>3 DEF Lists
  <2>4. CASE n \notin Lists(type)
    <3>1. a # <<>> /\ Schema[type][n].label # "repeated"
      BY <2>1, <2>4 DEF Present, Lists
    <3>2. ASSUME NEW v, IsList(v), v # <<>>,
                 NEW u, u = [i \in DOMAIN v |->
                               IF IsNested(Schema[type][n]) THEN Decode3(Schema[type][n].kind, v[i])
                               ELSE v[i]]
          PROVE  Last(u) = IF IsNested(Schema[type][n]) THEN Decode3(Schema[type][n].kind, Last(v))
                           ELSE Last(v)
      <4>1. DOMAIN u = DOMAIN v /\ u = [i \in DOMAIN u |-> u[i]]
        BY <3>2
      <4>2. Len(u) = Len(v) /\ Len(v) \in DOMAIN v
        BY <3>2, <4>1, MappedList, ListParts
      <4>3. QED
        BY <3>2, <4>2 DEF Last
    <3> HIDE DEF a, b
    <3>3. Last(Values(n, wire)) = Last(Values(n, other))
      BY <2>2, <3>1, <3>2 DEF a, b
    <3>4. QED
      BY <3>1, <3>3
  <2>5. QED
    BY <2>3, <2>4
<1> HIDE DEF Content
<1>5. QED
  BY <1>1, <1>2, <1>3, <1>4

\* Two wires that have the same of each tag of a field.
LEMMA SameTaggedAlike ==
    ASSUME NEW type \in Types, NEW wire, IsList(wire), NEW other, IsList(other),
           \A tag \in 1 .. 6 : Tagged(wire, tag) = Tagged(other, tag)
    PROVE  Alike(type, wire, other)
<1> SUFFICES ASSUME NEW n \in Fields(type)
             PROVE  LET a == ValuesOf(Schema[type][n], wire)
                        b == ValuesOf(Schema[type][n], other)
                    IN  IsList(a) /\ a = b
  BY DEF Alike
<1>1. Schema[type][n].tag \in 1 .. 6
  BY AllDeclared DEF Declared, Fields
<1>2. ValuesOf(Schema[type][n], wire) = ValuesOf(Schema[type][n], other)
  BY <1>1 DEF ValuesOf, Tagged
<1>3. QED
  BY <1>2, ValuesAreList

LEMMA TaggedOne ==
    ASSUME NEW w, NEW tag
    PROVE  Tagged(<<w>>, tag) = IF w[1] = tag THEN <<w>> ELSE <<>>
<1>1. <<w>> \in Seq({w}) /\ Range(<<w>>) = {w}
  BY DEF Range
<1>2. CASE w[1] = tag
  BY <1>1, <1>2, TaggedPart
<1>3. CASE w[1] # tag
  <2>1. \A v \in Range(<<w>>) : v[1] = w[1]
    BY <1>1
  <2> DEFINE k == w[1]
             list == <<w>>
  <2>2. list \in Seq({w}) /\ (\A v \in Range(list) : v[1] = k) /\ tag # k
    BY <1>1, <1>3, <2>1
  <2> HIDE DEF k, list
  <2>3. Tagged(list, tag) = <<>>
    BY <2>2, TaggedPart
  <2>4. QED
    BY <1>3, <2>3 DEF list
<1>4. QED
  BY <1>2, <1>3

\* A value of an unknown tag.
LEMMA InsertedAlike ==
    ASSUME NEW type \in Types, NEW wire, IsList(wire), NEW i \in 1 .. Len(wire) + 1,
           NEW w, w[1] \notin 1 .. 6
    PROVE  IsList(InsertAt(wire, i, w)) /\ Alike(type, InsertAt(wire, i, w), wire)
<1> DEFINE W == Range(wire) \cup {w}
           a == SubSeq(wire, 1, i - 1)
           b == SubSeq(wire, i, Len(wire))
<1>1. wire \in Seq(W)
  BY ListOf
<1>2. a \in Seq(W) /\ b \in Seq(W) /\ wire = a \o b
  BY <1>1, Cut
<1>3. InsertAt(wire, i, w) = a \o <<w>> \o b
  BY DEF InsertAt
<1>4. <<w>> \in Seq(W)
  OBVIOUS
<1> HIDE DEF a, b, W
<1>5. a \o <<w>> \in Seq(W)
  BY <1>2, <1>4, ConcatDoes
<1>6. (a \o <<w>>) \o b \in Seq(W)
  BY <1>2, <1>5, ConcatDoes
<1>7. ASSUME NEW tag \in 1 .. 6 PROVE Tagged((a \o <<w>>) \o b, tag) = Tagged(wire, tag)
  <2>1. Splits(a \o <<w>>, b, tag) /\ Splits(a, <<w>>, tag) /\ Splits(a, b, tag)
    BY <1>2, <1>4, <1>5, TaggedConcat
  <2>2. Tagged(<<w>>, tag) = <<>>
    BY TaggedOne
  <2>3. Tagged(a, tag) \o <<>> = Tagged(a, tag)
    BY <1>2, OnlyDoes, EmptyConcat DEF Tagged
  <2>4. QED
    BY <1>2, <2>1, <2>2, <2>3 DEF Splits
<1>8. IsList(InsertAt(wire, i, w))
  BY <1>3, <1>6, SeqIsList
<1>9. QED
  BY <1>3, <1>7, <1>8, SameTaggedAlike

\* A value before those of a field that is no list.
LEMMA PrependedAlike ==
    ASSUME NEW type \in Types, NEW wire, IsList(wire), NEW n \in Fields(type) \ Lists(type),
           ValuesOf(Schema[type][n], wire) # <<>>, NEW v
    PROVE  /\ IsList(<<<<Schema[type][n].tag, v>>>> \o wire)
           /\ Alike(type, <<<<Schema[type][n].tag, v>>>> \o wire, wire)
<1> DEFINE w == <<Schema[type][n].tag, v>>
           W == Range(wire) \cup {w}
           new == <<w>> \o wire
<1>1. wire \in Seq(W) /\ <<w>> \in Seq(W)
  BY ListOf
<1>2. w[1] = Schema[type][n].tag
  OBVIOUS
<1> HIDE DEF w, W
<1>3. new \in Seq(W)
  BY <1>1, ConcatDoes
<1>4. IsList(new)
  BY <1>3, SeqIsList
<1>5. \A tag : Tagged(new, tag) = Tagged(<<w>>, tag) \o Tagged(wire, tag)
  <2>1. \A tag : Splits(<<w>>, wire, tag)
    BY <1>1, TaggedConcat
  <2>2. QED
    BY <2>1 DEF Splits
<1> HIDE DEF new
<1>6. ASSUME NEW k \in Fields(type)
      PROVE  LET a == ValuesOf(Schema[type][k], new)
                 b == ValuesOf(Schema[type][k], wire)
             IN  IsList(a) /\ IsList(b) /\ IF k = n THEN a # <<>> /\ b # <<>> /\ Last(a) = Last(b)
                                           ELSE a = b
  <2> DEFINE tag == Schema[type][k].tag
             a == ValuesOf(Schema[type][k], new)
             b == ValuesOf(Schema[type][k], wire)
             t == Tagged(wire, tag)
  <2>1. IsList(a) /\ IsList(b) /\ Len(b) = Len(t)
    BY <1>4, ValuesAreList
  <2>2. t \in Seq(W)
    BY <1>1, OnlyDoes DEF Tagged
  <2>3. CASE k # n
    <3>1. tag # Schema[type][n].tag
      BY <2>3, AllDeclared DEF Declared, Fields
    <3>2. Tagged(new, tag) = t
      BY <1>2, <1>5, <2>2, <3>1, TaggedOne, EmptyConcat
    <3>3. a = b
      BY <3>2 DEF ValuesOf, Tagged
    <3>4. QED
      BY <2>1, <2>3, <3>3
  <2>4. CASE k = n
    <3>1. Tagged(new, tag) = <<w>> \o t
      BY <1>2, <1>5, <2>4, TaggedOne
    <3>2. b # <<>> /\ Len(t) \in Nat /\ Len(t) # 0
      BY <2>1, <2>2, <2>4, ListParts
    <3>3. /\ Len(<<w>> \o t) = 1 + Len(t)
          /\ (<<w>> \o t)[1 + Len(t)] = t[Len(t)]
          /\ Len(t) \in DOMAIN t /\ 1 + Len(t) \in DOMAIN (<<w>> \o t)
      <4>1. Len(<<w>>) = 1 /\ Len(t) \in 1 .. Len(t) /\ DOMAIN t = 1 .. Len(t)
        BY <2>2, <3>2
      <4>2. /\ <<w>> \o t \in Seq(W) /\ Len(<<w>> \o t) = Len(<<w>>) + Len(t)
            /\ \A i \in 1 .. Len(t) : (<<w>> \o t)[Len(<<w>>) + i] = t[i]
        BY <1>1, <2>2, ConcatDoes
      <4>3. DOMAIN (<<w>> \o t) = 1 .. 1 + Len(t)
        BY <4>1, <4>2
      <4>4. QED
        BY <3>2, <4>1, <4>2, <4>3
    <3>4. Len(a) = 1 + Len(t) /\ Len(b) = Len(t)
      BY <1>4, <2>1, <3>1, <3>3, ValuesAreList
    <3>5. b[Len(t)] = t[Len(t)][2]
      BY <3>3 DEF ValuesOf, Tagged
    <3>6. a[1 + Len(t)] = (<<w>> \o t)[1 + Len(t)][2]
      <4>1. a = [i \in DOMAIN Tagged(new, tag) |-> Tagged(new, tag)[i][2]]
        BY DEF ValuesOf, Tagged
      <4> HIDE DEF a, t
      <4>2. QED
        BY <3>1, <3>3, <4>1
    <3>7. a # <<>>
      BY <2>1, <3>2, <3>4, ListParts
    <3>8. QED
      BY <2>1, <2>4, <3>2, <3>3, <3>4, <3>5, <3>6, <3>7 DEF Last
  <2>5. QED
    BY <2>3, <2>4
<1>7. Alike(type, new, wire)
  BY <1>6 DEF Alike
<1>8. QED
  BY <1>4, <1>7 DEF new, w

\* Two neighbours of different tags change places.
LEMMA SwappedAlike ==
    ASSUME NEW type \in Types, NEW wire, IsList(wire), NEW i \in 1 .. Len(wire) - 1,
           wire[i][1] # wire[i + 1][1]
    PROVE  LET swapped == [wire EXCEPT ![i] = wire[i + 1], ![i + 1] = wire[i]]
           IN  IsList(swapped) /\ Alike(type, swapped, wire)
<1> DEFINE W == Range(wire)
           a == SubSeq(wire, 1, i - 1)
           b == SubSeq(wire, i + 2, Len(wire))
           x == wire[i]
           y == wire[i + 1]
           t == [wire EXCEPT ![i] = wire[i + 1], ![i + 1] = wire[i]]
<1>1. wire \in Seq(W)
  BY DEF IsList
<1>2. a \in Seq(W) /\ b \in Seq(W) /\ wire = a \o (<<x>> \o (<<y>> \o b))
  BY <1>1, CutOutTwo
<1>3. t \in Seq(W) /\ t = a \o (<<y>> \o (<<x>> \o b))
  BY <1>1, SwapTwo
<1>4. x \in W /\ y \in W /\ <<x>> \in Seq(W) /\ <<y>> \in Seq(W)
  <2>1. i \in 1 .. Len(wire) /\ i + 1 \in 1 .. Len(wire)
    BY <1>1
  <2>2. QED
    BY <1>1, <2>1
<1>5. x[1] # y[1]
  OBVIOUS
<1> HIDE DEF W, a, b, x, y, t
<1>6. ASSUME NEW u, NEW v, <<u>> \in Seq(W), <<v>> \in Seq(W), NEW tag
      PROVE  Tagged(a \o (<<u>> \o (<<v>> \o b)), tag)
                = Tagged(a, tag) \o (Tagged(<<u>>, tag) \o (Tagged(<<v>>, tag) \o Tagged(b, tag)))
  <2>1. <<v>> \o b \in Seq(W)
    BY <1>2, <1>6, ConcatDoes
  <2>2. <<u>> \o (<<v>> \o b) \in Seq(W)
    BY <1>6, <2>1, ConcatDoes
  <2>3. Splits(a, <<u>> \o (<<v>> \o b), tag)
    BY <1>2, <2>2, TaggedConcat
  <2>4. Splits(<<u>>, <<v>> \o b, tag)
    BY <1>6, <2>1, TaggedConcat
  <2>5. Splits(<<v>>, b, tag)
    BY <1>2, <1>6, TaggedConcat
  <2>6. QED
    BY <2>3, <2>4, <2>5 DEF Splits
<1>7. ASSUME NEW tag PROVE Tagged(t, tag) = Tagged(wire, tag)
  <2> DEFINE p == Tagged(<<x>>, tag)
             q == Tagged(<<y>>, tag)
             r == Tagged(b, tag)
  <2>1. /\ Tagged(wire, tag) = Tagged(a, tag) \o (p \o (q \o r))
        /\ Tagged(t, tag) = Tagged(a, tag) \o (q \o (p \o r))
    BY <1>2, <1>3, <1>4, <1>6
  <2>2. p = <<>> \/ q = <<>>
    BY <1>5, TaggedOne
  <2>3. p \in Seq(W) /\ q \in Seq(W) /\ r \in Seq(W)
    BY <1>2, <1>4, OnlyDoes DEF Tagged
  <2> HIDE DEF p, q, r
  <2>4. p \o r \in Seq(W) /\ q \o r \in Seq(W)
    BY <2>3, ConcatDoes
  <2>5. p \o (q \o r) = q \o (p \o r)
    BY <2>2, <2>3, <2>4, EmptyConcat
  <2>6. QED
    BY <2>1, <2>5
<1>8. IsList(t)
  BY <1>3, SeqIsList
<1>9. Alike(type, t, wire)
  BY <1>7, <1>8, SameTaggedAlike
<1>10. QED
  BY <1>8, <1>9 DEF t

-----------------------------------------------------------------------------
LEMMA Complete ==
    ASSUME NEW type \in Types, NEW m, HasShape(type, m)
    PROVE  ~ Incomplete(type, Encode(type, m))
<1> DEFINE e == Encoded4(type, m)
           wire == Wire(type, e)
<1>1. ASSUME NEW n \in Fields(type)
      PROVE  IsList(e[n]) /\ Len(e[n]) = Len(Written(type, m, n))
  <2> DEFINE v == e[n]
  <2>1. DOMAIN v = DOMAIN Written(type, m, n) /\ v = [i \in DOMAIN v |-> v[i]]
    BY DEF Encoded4
  <2>2. IsList(Written(type, m, n))
    BY WrittenIs
  <2> HIDE DEF v
  <2>3. IsList(v) /\ Len(v) = Len(Written(type, m, n))
    BY <2>1, <2>2, MappedList
  <2>4. QED
    BY <2>3 DEF v
<1> HIDE DEF e
<1>2. \A n \in Fields(type) : ValuesOf(Schema[type][n], wire) = e[n]
  BY <1>1, WireDoes
<1>3. ASSUME NEW n \in Fields(type), Schema[type][n].label = "required"
      PROVE  n \in Present(type, wire)
  <2>1. Len(e[n]) = 1
    BY <1>1, <1>3, WrittenIs DEF Needed
  <2>2. e[n] # <<>>
    <3>1. e[n] # <<>> <=> Len(e[n]) # 0
      BY <1>1, ListParts
    <3>2. QED
      BY <2>1, <3>1
  <2>3. QED
    BY <1>2, <2>2 DEF Present
<1>4. ~ Incomplete(type, wire)
  BY <1>3 DEF Incomplete
<1>5. QED
  BY <1>4, Encode4Is DEF e
=============================================================================
