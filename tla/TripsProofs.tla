---------------------------- MODULE TripsProofs ----------------------------
(* What Trips checks on samples, for all messages, entries, records and ids.  *)
EXTENDS Trips, ProtobufProofs

-----------------------------------------------------------------------------
(* Messages, whatever becomes of the nested ones.                             *)

LEMMA Labels ==
    ASSUME NEW type \in Types, NEW n \in Fields(type)
    PROVE  /\ Schema[type][n].label \in {"repeated", "optional", "plain", "required"}
           /\ n \in Lists(type) <=> Schema[type][n].label = "repeated"
           /\ n \in Needed(type) <=> Schema[type][n].label = "required"
           /\ IsNested(Schema[type][n]) => /\ Schema[type][n].label \in {"repeated", "optional"}
                                          /\ Schema[type][n].kind \notin {"bytes", "enum"}
           /\ Schema[type][n].kind = "enum" => Schema[type][n].label = "optional"
<1>1. "bytes" \notin Level4 /\ "enum" \notin Level4
  BY DEF Level1, Level2, Level3, Level4
<1>2. QED
  BY <1>1, AllDeclared, TypesAre DEF Declared, Fields, Lists, Needed, IsNested

LEMMA RangeOfWritten ==
    ASSUME NEW type \in Types, NEW m, HasShape(type, m),
           NEW n \in Fields(type), IsNested(Schema[type][n])
    PROVE  Range(Written(type, m, n))
              = IF n \notin DOMAIN m THEN {}
                ELSE IF Schema[type][n].label = "repeated" THEN Range(m[n]) ELSE {m[n]}
<1>1. CASE n \in Lists(type)
  <2>1. Written(type, m, n) = Get(type, m, n) /\ Schema[type][n].label = "repeated"
    BY <1>1, WrittenIs, Labels
  <2>2. Get(type, m, n) = IF n \in DOMAIN m THEN m[n] ELSE <<>>
    BY <2>1 DEF Get, Default
  <2>3. Range(<<>>) = {}
    BY DEF Range
  <2>4. QED
    BY <2>1, <2>2, <2>3
<1>2. CASE n \notin Lists(type)
  <2>1. Schema[type][n].label # "repeated" /\ n \notin Needed(type)
    BY <1>2, Labels
  <2>2. Written(type, m, n) = IF n \in DOMAIN m THEN <<m[n]>> ELSE <<>>
    BY <1>2, <2>1, WrittenIs
  <2>3. Range(<<>>) = {} /\ Range(<<m[n]>>) = {m[n]}
    BY DEF Range
  <2>4. QED
    BY <2>1, <2>2, <2>3
<1>3. QED
  BY <1>1, <1>2

\* What reading a field of a message and of its image finds.
LEMMA GetOfImage ==
    ASSUME NEW type \in Types, NEW m, HasShape(type, m), NEW d, NEW x, Image(type, m, d, x),
           NEW n \in Fields(type)
    PROVE  /\ n \in Lists(type) =>
                 /\ Get(type, m, n) = Written(type, m, n)
                 /\ Get(type, d, n) = x[n]
                 /\ Len(x[n]) = Len(Written(type, m, n))
           /\ n \notin Lists(type) =>
                 /\ n \notin Needed(type) => (IsSet(d, n) <=> IsSet(m, n))
                 /\ n \in DOMAIN m \cup Needed(type) =>
                       /\ 1 \in DOMAIN Written(type, m, n)
                       /\ Get(type, m, n) = Written(type, m, n)[1]
                       /\ Get(type, d, n) = x[n][1]
                 /\ n \notin DOMAIN m \cup Needed(type) => Get(type, d, n) = Get(type, m, n)
<1>1. /\ DOMAIN d = DOMAIN m \cup Lists(type) \cup Needed(type)
      /\ IsList(x[n]) /\ DOMAIN x[n] = DOMAIN Written(type, m, n)
      /\ n \in DOMAIN d => d[n] = IF n \in Lists(type) THEN x[n] ELSE x[n][1]
  BY DEF Image
<1>2. IsList(Written(type, m, n))
  BY WrittenIs
<1>3. CASE n \in Lists(type)
  <2>1. Get(type, m, n) = Written(type, m, n)
    BY <1>3, WrittenIs
  <2>2. Get(type, d, n) = x[n]
    BY <1>1, <1>3 DEF Get
  <2>3. Len(x[n]) = Len(Written(type, m, n))
    BY <1>1, <1>2, ListParts
  <2>4. QED
    BY <1>3, <2>1, <2>2, <2>3
<1>4. CASE n \notin Lists(type)
  <2>1. n \notin Needed(type) => (IsSet(d, n) <=> IsSet(m, n))
    BY <1>1, <1>4 DEF IsSet
  <2>2. ASSUME n \in DOMAIN m \cup Needed(type)
        PROVE  /\ 1 \in DOMAIN Written(type, m, n)
               /\ Get(type, m, n) = Written(type, m, n)[1]
               /\ Get(type, d, n) = x[n][1]
    <3>1. Written(type, m, n) = <<Get(type, m, n)>>
      BY <1>4, <2>2, Labels DEF Written, Get, IsSet
    <3>2. Get(type, d, n) = x[n][1]
      BY <1>1, <1>4, <2>2 DEF Get
    <3>3. QED
      BY <3>1, <3>2
  <2>3. n \notin DOMAIN m \cup Needed(type) => Get(type, d, n) = Get(type, m, n)
    BY <1>1, <1>4 DEF Get
  <2>4. QED
    BY <1>4, <2>1, <2>2, <2>3
<1>5. QED
  BY <1>3, <1>4

-----------------------------------------------------------------------------
(* Of each level: what is decoded of an encoded message is a message, encoded *)
(* as that one is, and reads as it.                                           *)

\* Level 1.
LEMMA Message1Is ==
    ASSUME NEW type \in Types, NEW m
    PROVE  IsMessage1(type, m) <=>
              /\ HasShape(type, m)
<1>1. IsMessage1(type, m) <=>
         /\ DOMAIN m \subseteq Fields(type)
         /\ \A n \in DOMAIN m :
               /\ Schema[type][n].label = "repeated" => m[n] \in Seq(Range(m[n]))
               /\ IsNested(Schema[type][n]) =>
                     \A v \in (IF Schema[type][n].label = "repeated" THEN Range(m[n]) ELSE {m[n]}) :
                        TRUE
  BY DEF IsMessage1, IsMessageWith
<1>2. HasShape(type, m) <=>
         /\ DOMAIN m \subseteq Fields(type)
         /\ \A n \in DOMAIN m : Schema[type][n].label = "repeated" => m[n] \in Seq(Range(m[n]))
  BY DEF HasShape, Lists, IsList
<1>4. QED
  BY <1>1, <1>2

LEMMA Message1Back ==
    ASSUME NEW type \in Level1, NEW m, IsMessage1(type, m)
    PROVE  LET d == Decode1(type, Encode1(type, m))
           IN  /\ IsMessage1(type, d)
               /\ Encode1(type, d) = Encode1(type, m)
               /\ ReadsAs1(type, m, d, "wire")
               /\ DOMAIN d = DOMAIN m \cup Lists(type) \cup Needed(type)
<1> DEFINE d == Decode1(type, Encode1(type, m))
           x == Back1(type, m)
<1>1. type \in Types /\ HasShape(type, m)
  BY TypesAre, Message1Is DEF Level1, Level2, Level3, Level4
<1>2. Image(type, m, d, x)
  BY <1>1, Decode1Is
<1>3. ASSUME NEW n \in Fields(type), NEW i \in DOMAIN Written(type, m, n)
      PROVE  LET v == Written(type, m, n)[i]
             IN  TRUE
  OBVIOUS
<1>4. Encode1(type, d) = Encode1(type, m)
  BY <1>1, Again1
<1> HIDE DEF d, x
<1>5. ASSUME NEW n \in Fields(type), NEW i \in DOMAIN x[n]
      PROVE  /\ i \in DOMAIN Written(type, m, n)
             /\ x[n][i] = Written(type, m, n)[i]
  <2>1. i \in DOMAIN Written(type, m, n)
    BY <1>2 DEF Image
  <2>2. x[n][i] = LET v == Written(type, m, n)[i] IN v
    BY <2>1 DEF x, Back1
  <2>3. QED
    BY <1>3, <2>1, <2>2
<1>6. HasShape(type, d)
  <2>1. DOMAIN d \subseteq Fields(type)
    BY <1>1, <1>2 DEF Image, HasShape, Lists, Needed
  <2>2. \A n \in DOMAIN d \cap Lists(type) : IsList(d[n])
    BY <1>2, <2>1 DEF Image
  <2>3. QED
    BY <2>1, <2>2 DEF HasShape
<1>7. IsMessage1(type, d)
  BY <1>1, <1>6, Message1Is
<1>8. ASSUME NEW n \in Fields(type)
      PROVE  LET f == Schema[type][n]
                 a == Get(type, m, n)
                 b == Get(type, d, n)
             IN  CASE f.label = "repeated" ->
                          Len(a) = Len(b) /\ \A i \in DOMAIN a : IF IsNested(f) THEN a[i] = b[i]
                                                                 ELSE a[i] = b[i]
                   [] f.label = "optional" /\ ~ (IsSet(m, n) /\ IsSet(d, n)) ->
                          /\ ~ IsSet(d, n)
                          /\ IsSet(m, n) => FALSE
                   [] OTHER -> IF IsNested(f) THEN a = b ELSE a = b
  <2> DEFINE f == Schema[type][n]
  <2>1. /\ f.label \in {"repeated", "optional", "plain", "required"}
        /\ n \in Lists(type) <=> f.label = "repeated"
        /\ n \in Needed(type) <=> f.label = "required"
        /\ IsNested(f) => f.label \in {"repeated", "optional"}
    BY <1>1, Labels
  <2>2. DOMAIN x[n] = DOMAIN Written(type, m, n)
    BY <1>2 DEF Image
  <2>3. CASE n \in Lists(type)
    <3>1. /\ Get(type, m, n) = Written(type, m, n) /\ Get(type, d, n) = x[n]
          /\ Len(x[n]) = Len(Written(type, m, n))
      BY <1>1, <1>2, <2>3, GetOfImage
    <3>2. QED
      BY <1>5, <2>1, <2>2, <2>3, <3>1
  <2>4. CASE n \notin Lists(type) /\ n \in DOMAIN m \cup Needed(type)
    <3>1. /\ n \notin Needed(type) => (IsSet(d, n) <=> IsSet(m, n))
          /\ 1 \in DOMAIN Written(type, m, n)
          /\ Get(type, m, n) = Written(type, m, n)[1]
          /\ Get(type, d, n) = x[n][1]
      BY <1>1, <1>2, <2>4, GetOfImage
    <3>2. f.label = "optional" => IsSet(m, n) /\ IsSet(d, n)
      BY <2>1, <2>4, <3>1 DEF IsSet
    <3>3. QED
      BY <1>5, <2>1, <2>2, <2>4, <3>1, <3>2
  <2>5. CASE n \notin Lists(type) /\ n \notin DOMAIN m \cup Needed(type)
    <3>1. (IsSet(d, n) <=> IsSet(m, n)) /\ ~ IsSet(m, n) /\ Get(type, d, n) = Get(type, m, n)
      BY <1>1, <1>2, <2>5, GetOfImage DEF IsSet
    <3>2. f.label = "optional" \/ ~ IsNested(f)
      BY <2>1, <2>5
    <3>3. QED
      BY <2>1, <2>5, <3>1, <3>2
  <2>6. QED
    BY <2>3, <2>4, <2>5
<1>9. ReadsAs1(type, m, d, "wire")
  BY <1>8 DEF ReadsAs1, ReadsAsWith, Losable
<1>10. DOMAIN d = DOMAIN m \cup Lists(type) \cup Needed(type)
  BY <1>2 DEF Image
<1>11. QED
  BY <1>4, <1>7, <1>9, <1>10 DEF d

\* Level 2.
LEMMA Message2Is ==
    ASSUME NEW type \in Types, NEW m
    PROVE  IsMessage2(type, m) <=>
              /\ HasShape(type, m)
              /\ \A n \in Fields(type) : IsNested(Schema[type][n]) =>
                    \A i \in DOMAIN Written(type, m, n) : IsMessage1(Schema[type][n].kind, Written(type, m, n)[i])
<1>1. IsMessage2(type, m) <=>
         /\ DOMAIN m \subseteq Fields(type)
         /\ \A n \in DOMAIN m :
               /\ Schema[type][n].label = "repeated" => m[n] \in Seq(Range(m[n]))
               /\ IsNested(Schema[type][n]) =>
                     \A v \in (IF Schema[type][n].label = "repeated" THEN Range(m[n]) ELSE {m[n]}) :
                        IsMessage1(Schema[type][n].kind, v)
  BY DEF IsMessage2, IsMessageWith
<1>2. HasShape(type, m) <=>
         /\ DOMAIN m \subseteq Fields(type)
         /\ \A n \in DOMAIN m : Schema[type][n].label = "repeated" => m[n] \in Seq(Range(m[n]))
  BY DEF HasShape, Lists, IsList
<1>3. ASSUME HasShape(type, m), NEW n \in Fields(type), IsNested(Schema[type][n])
      PROVE  (\A i \in DOMAIN Written(type, m, n) : IsMessage1(Schema[type][n].kind, Written(type, m, n)[i])) <=>
                (n \in DOMAIN m =>
                    \A v \in (IF Schema[type][n].label = "repeated" THEN Range(m[n]) ELSE {m[n]}) :
                       IsMessage1(Schema[type][n].kind, v))
  <2>1. (\A i \in DOMAIN Written(type, m, n) : IsMessage1(Schema[type][n].kind, Written(type, m, n)[i])) <=>
           (\A v \in Range(Written(type, m, n)) : IsMessage1(Schema[type][n].kind, v))
    BY DEF Range
  <2>2. QED
    BY <1>3, <2>1, RangeOfWritten
<1>4. QED
  BY <1>1, <1>2, <1>3

LEMMA Message2Back ==
    ASSUME NEW type \in Level2, NEW m, IsMessage2(type, m)
    PROVE  LET d == Decode2(type, Encode2(type, m))
           IN  /\ IsMessage2(type, d)
               /\ Encode2(type, d) = Encode2(type, m)
               /\ ReadsAs2(type, m, d, "wire")
               /\ DOMAIN d = DOMAIN m \cup Lists(type) \cup Needed(type)
<1> DEFINE d == Decode2(type, Encode2(type, m))
           x == Back2(type, m)
<1>1. type \in Types /\ HasShape(type, m)
  BY TypesAre, Message2Is DEF Level1, Level2, Level3, Level4
<1>2. Image(type, m, d, x)
  BY <1>1, Decode2Is
<1>3. ASSUME NEW n \in Fields(type), NEW i \in DOMAIN Written(type, m, n)
      PROVE  LET v == Written(type, m, n)[i]
             IN  IsNested(Schema[type][n]) =>
                    LET k == Schema[type][n].kind
                        w == Decode1(k, Encode1(k, v))
                    IN  IsMessage1(k, w) /\ Encode1(k, w) = Encode1(k, v) /\ ReadsAs1(k, v, w, "wire")
  <2> SUFFICES ASSUME IsNested(Schema[type][n])
               PROVE  LET k == Schema[type][n].kind
                          v == Written(type, m, n)[i]
                          w == Decode1(k, Encode1(k, v))
                      IN  IsMessage1(k, w) /\ Encode1(k, w) = Encode1(k, v) /\ ReadsAs1(k, v, w, "wire")
    OBVIOUS
  <2>1. Schema[type][n].kind \in Level1
    BY <1>1, AllDeclared, TypesAre DEF Declared, Fields, IsNested, Level4
  <2>2. IsMessage1(Schema[type][n].kind, Written(type, m, n)[i])
    BY <1>1, Message2Is
  <2>3. QED
    BY <2>1, <2>2, Message1Back
<1>4. Encode2(type, d) = Encode2(type, m)
  BY <1>1, <1>3, Again2
<1> HIDE DEF d, x
<1>5. ASSUME NEW n \in Fields(type), NEW i \in DOMAIN x[n]
      PROVE  /\ i \in DOMAIN Written(type, m, n)
             /\ IsNested(Schema[type][n]) => /\ IsMessage1(Schema[type][n].kind, x[n][i])
                                            /\ ReadsAs1(Schema[type][n].kind, Written(type, m, n)[i], x[n][i], "wire")
             /\ ~ IsNested(Schema[type][n]) => x[n][i] = Written(type, m, n)[i]
  <2>1. i \in DOMAIN Written(type, m, n)
    BY <1>2 DEF Image
  <2>2. x[n][i] = LET v == Written(type, m, n)[i] IN IF IsNested(Schema[type][n])
                                                     THEN Decode1(Schema[type][n].kind, Encode1(Schema[type][n].kind, v))
                                                     ELSE v
    BY <2>1 DEF x, Back2
  <2>3. QED
    BY <1>3, <2>1, <2>2
<1>6. HasShape(type, d)
  <2>1. DOMAIN d \subseteq Fields(type)
    BY <1>1, <1>2 DEF Image, HasShape, Lists, Needed
  <2>2. \A n \in DOMAIN d \cap Lists(type) : IsList(d[n])
    BY <1>2, <2>1 DEF Image
  <2>3. QED
    BY <2>1, <2>2 DEF HasShape
<1>7. IsMessage2(type, d)
  <2>1. \A n \in Fields(type) : Written(type, d, n) = x[n]
    BY <1>2 DEF Image
  <2>2. QED
    BY <1>1, <1>5, <1>6, <2>1, Message2Is
<1>8. ASSUME NEW n \in Fields(type)
      PROVE  LET f == Schema[type][n]
                 a == Get(type, m, n)
                 b == Get(type, d, n)
             IN  CASE f.label = "repeated" ->
                          Len(a) = Len(b) /\ \A i \in DOMAIN a : IF IsNested(f)
                                                                 THEN ReadsAs1(f.kind, a[i], b[i], "wire")
                                                                 ELSE a[i] = b[i]
                   [] f.label = "optional" /\ ~ (IsSet(m, n) /\ IsSet(d, n)) ->
                          /\ ~ IsSet(d, n)
                          /\ IsSet(m, n) => FALSE
                   [] OTHER -> IF IsNested(f) THEN ReadsAs1(f.kind, a, b, "wire") ELSE a = b
  <2> DEFINE f == Schema[type][n]
  <2>1. /\ f.label \in {"repeated", "optional", "plain", "required"}
        /\ n \in Lists(type) <=> f.label = "repeated"
        /\ n \in Needed(type) <=> f.label = "required"
        /\ IsNested(f) => f.label \in {"repeated", "optional"}
    BY <1>1, Labels
  <2>2. DOMAIN x[n] = DOMAIN Written(type, m, n)
    BY <1>2 DEF Image
  <2>3. CASE n \in Lists(type)
    <3>1. /\ Get(type, m, n) = Written(type, m, n) /\ Get(type, d, n) = x[n]
          /\ Len(x[n]) = Len(Written(type, m, n))
      BY <1>1, <1>2, <2>3, GetOfImage
    <3>2. QED
      BY <1>5, <2>1, <2>2, <2>3, <3>1
  <2>4. CASE n \notin Lists(type) /\ n \in DOMAIN m \cup Needed(type)
    <3>1. /\ n \notin Needed(type) => (IsSet(d, n) <=> IsSet(m, n))
          /\ 1 \in DOMAIN Written(type, m, n)
          /\ Get(type, m, n) = Written(type, m, n)[1]
          /\ Get(type, d, n) = x[n][1]
      BY <1>1, <1>2, <2>4, GetOfImage
    <3>2. f.label = "optional" => IsSet(m, n) /\ IsSet(d, n)
      BY <2>1, <2>4, <3>1 DEF IsSet
    <3>3. QED
      BY <1>5, <2>1, <2>2, <2>4, <3>1, <3>2
  <2>5. CASE n \notin Lists(type) /\ n \notin DOMAIN m \cup Needed(type)
    <3>1. (IsSet(d, n) <=> IsSet(m, n)) /\ ~ IsSet(m, n) /\ Get(type, d, n) = Get(type, m, n)
      BY <1>1, <1>2, <2>5, GetOfImage DEF IsSet
    <3>2. f.label = "optional" \/ ~ IsNested(f)
      BY <2>1, <2>5
    <3>3. QED
      BY <2>1, <2>5, <3>1, <3>2
  <2>6. QED
    BY <2>3, <2>4, <2>5
<1>9. ReadsAs2(type, m, d, "wire")
  BY <1>8 DEF ReadsAs2, ReadsAsWith, Losable
<1>10. DOMAIN d = DOMAIN m \cup Lists(type) \cup Needed(type)
  BY <1>2 DEF Image
<1>11. QED
  BY <1>4, <1>7, <1>9, <1>10 DEF d

\* Level 3.
LEMMA Message3Is ==
    ASSUME NEW type \in Types, NEW m
    PROVE  IsMessage3(type, m) <=>
              /\ HasShape(type, m)
              /\ \A n \in Fields(type) : IsNested(Schema[type][n]) =>
                    \A i \in DOMAIN Written(type, m, n) : IsMessage2(Schema[type][n].kind, Written(type, m, n)[i])
<1>1. IsMessage3(type, m) <=>
         /\ DOMAIN m \subseteq Fields(type)
         /\ \A n \in DOMAIN m :
               /\ Schema[type][n].label = "repeated" => m[n] \in Seq(Range(m[n]))
               /\ IsNested(Schema[type][n]) =>
                     \A v \in (IF Schema[type][n].label = "repeated" THEN Range(m[n]) ELSE {m[n]}) :
                        IsMessage2(Schema[type][n].kind, v)
  BY DEF IsMessage3, IsMessageWith
<1>2. HasShape(type, m) <=>
         /\ DOMAIN m \subseteq Fields(type)
         /\ \A n \in DOMAIN m : Schema[type][n].label = "repeated" => m[n] \in Seq(Range(m[n]))
  BY DEF HasShape, Lists, IsList
<1>3. ASSUME HasShape(type, m), NEW n \in Fields(type), IsNested(Schema[type][n])
      PROVE  (\A i \in DOMAIN Written(type, m, n) : IsMessage2(Schema[type][n].kind, Written(type, m, n)[i])) <=>
                (n \in DOMAIN m =>
                    \A v \in (IF Schema[type][n].label = "repeated" THEN Range(m[n]) ELSE {m[n]}) :
                       IsMessage2(Schema[type][n].kind, v))
  <2>1. (\A i \in DOMAIN Written(type, m, n) : IsMessage2(Schema[type][n].kind, Written(type, m, n)[i])) <=>
           (\A v \in Range(Written(type, m, n)) : IsMessage2(Schema[type][n].kind, v))
    BY DEF Range
  <2>2. QED
    BY <1>3, <2>1, RangeOfWritten
<1>4. QED
  BY <1>1, <1>2, <1>3

LEMMA Message3Back ==
    ASSUME NEW type \in Level3, NEW m, IsMessage3(type, m)
    PROVE  LET d == Decode3(type, Encode3(type, m))
           IN  /\ IsMessage3(type, d)
               /\ Encode3(type, d) = Encode3(type, m)
               /\ ReadsAs3(type, m, d, "wire")
               /\ DOMAIN d = DOMAIN m \cup Lists(type) \cup Needed(type)
<1> DEFINE d == Decode3(type, Encode3(type, m))
           x == Back3(type, m)
<1>1. type \in Types /\ HasShape(type, m)
  BY TypesAre, Message3Is DEF Level1, Level2, Level3, Level4
<1>2. Image(type, m, d, x)
  BY <1>1, Decode3Is
<1>3. ASSUME NEW n \in Fields(type), NEW i \in DOMAIN Written(type, m, n)
      PROVE  LET v == Written(type, m, n)[i]
             IN  IsNested(Schema[type][n]) =>
                    LET k == Schema[type][n].kind
                        w == Decode2(k, Encode2(k, v))
                    IN  IsMessage2(k, w) /\ Encode2(k, w) = Encode2(k, v) /\ ReadsAs2(k, v, w, "wire")
  <2> SUFFICES ASSUME IsNested(Schema[type][n])
               PROVE  LET k == Schema[type][n].kind
                          v == Written(type, m, n)[i]
                          w == Decode2(k, Encode2(k, v))
                      IN  IsMessage2(k, w) /\ Encode2(k, w) = Encode2(k, v) /\ ReadsAs2(k, v, w, "wire")
    OBVIOUS
  <2>1. Schema[type][n].kind \in Level2
    BY <1>1, AllDeclared, TypesAre DEF Declared, Fields, IsNested, Level4
  <2>2. IsMessage2(Schema[type][n].kind, Written(type, m, n)[i])
    BY <1>1, Message3Is
  <2>3. QED
    BY <2>1, <2>2, Message2Back
<1>4. Encode3(type, d) = Encode3(type, m)
  BY <1>1, <1>3, Again3
<1> HIDE DEF d, x
<1>5. ASSUME NEW n \in Fields(type), NEW i \in DOMAIN x[n]
      PROVE  /\ i \in DOMAIN Written(type, m, n)
             /\ IsNested(Schema[type][n]) => /\ IsMessage2(Schema[type][n].kind, x[n][i])
                                            /\ ReadsAs2(Schema[type][n].kind, Written(type, m, n)[i], x[n][i], "wire")
             /\ ~ IsNested(Schema[type][n]) => x[n][i] = Written(type, m, n)[i]
  <2>1. i \in DOMAIN Written(type, m, n)
    BY <1>2 DEF Image
  <2>2. x[n][i] = LET v == Written(type, m, n)[i] IN IF IsNested(Schema[type][n])
                                                     THEN Decode2(Schema[type][n].kind, Encode2(Schema[type][n].kind, v))
                                                     ELSE v
    BY <2>1 DEF x, Back3
  <2>3. QED
    BY <1>3, <2>1, <2>2
<1>6. HasShape(type, d)
  <2>1. DOMAIN d \subseteq Fields(type)
    BY <1>1, <1>2 DEF Image, HasShape, Lists, Needed
  <2>2. \A n \in DOMAIN d \cap Lists(type) : IsList(d[n])
    BY <1>2, <2>1 DEF Image
  <2>3. QED
    BY <2>1, <2>2 DEF HasShape
<1>7. IsMessage3(type, d)
  <2>1. \A n \in Fields(type) : Written(type, d, n) = x[n]
    BY <1>2 DEF Image
  <2>2. QED
    BY <1>1, <1>5, <1>6, <2>1, Message3Is
<1>8. ASSUME NEW n \in Fields(type)
      PROVE  LET f == Schema[type][n]
                 a == Get(type, m, n)
                 b == Get(type, d, n)
             IN  CASE f.label = "repeated" ->
                          Len(a) = Len(b) /\ \A i \in DOMAIN a : IF IsNested(f)
                                                                 THEN ReadsAs2(f.kind, a[i], b[i], "wire")
                                                                 ELSE a[i] = b[i]
                   [] f.label = "optional" /\ ~ (IsSet(m, n) /\ IsSet(d, n)) ->
                          /\ ~ IsSet(d, n)
                          /\ IsSet(m, n) => FALSE
                   [] OTHER -> IF IsNested(f) THEN ReadsAs2(f.kind, a, b, "wire") ELSE a = b
  <2> DEFINE f == Schema[type][n]
  <2>1. /\ f.label \in {"repeated", "optional", "plain", "required"}
        /\ n \in Lists(type) <=> f.label = "repeated"
        /\ n \in Needed(type) <=> f.label = "required"
        /\ IsNested(f) => f.label \in {"repeated", "optional"}
    BY <1>1, Labels
  <2>2. DOMAIN x[n] = DOMAIN Written(type, m, n)
    BY <1>2 DEF Image
  <2>3. CASE n \in Lists(type)
    <3>1. /\ Get(type, m, n) = Written(type, m, n) /\ Get(type, d, n) = x[n]
          /\ Len(x[n]) = Len(Written(type, m, n))
      BY <1>1, <1>2, <2>3, GetOfImage
    <3>2. QED
      BY <1>5, <2>1, <2>2, <2>3, <3>1
  <2>4. CASE n \notin Lists(type) /\ n \in DOMAIN m \cup Needed(type)
    <3>1. /\ n \notin Needed(type) => (IsSet(d, n) <=> IsSet(m, n))
          /\ 1 \in DOMAIN Written(type, m, n)
          /\ Get(type, m, n) = Written(type, m, n)[1]
          /\ Get(type, d, n) = x[n][1]
      BY <1>1, <1>2, <2>4, GetOfImage
    <3>2. f.label = "optional" => IsSet(m, n) /\ IsSet(d, n)
      BY <2>1, <2>4, <3>1 DEF IsSet
    <3>3. QED
      BY <1>5, <2>1, <2>2, <2>4, <3>1, <3>2
  <2>5. CASE n \notin Lists(type) /\ n \notin DOMAIN m \cup Needed(type)
    <3>1. (IsSet(d, n) <=> IsSet(m, n)) /\ ~ IsSet(m, n) /\ Get(type, d, n) = Get(type, m, n)
      BY <1>1, <1>2, <2>5, GetOfImage DEF IsSet
    <3>2. f.label = "optional" \/ ~ IsNested(f)
      BY <2>1, <2>5
    <3>3. QED
      BY <2>1, <2>5, <3>1, <3>2
  <2>6. QED
    BY <2>3, <2>4, <2>5
<1>9. ReadsAs3(type, m, d, "wire")
  BY <1>8 DEF ReadsAs3, ReadsAsWith, Losable
<1>10. DOMAIN d = DOMAIN m \cup Lists(type) \cup Needed(type)
  BY <1>2 DEF Image
<1>11. QED
  BY <1>4, <1>7, <1>9, <1>10 DEF d

\* Level 4.
LEMMA Message4Is ==
    ASSUME NEW type \in Types, NEW m
    PROVE  IsMessage(type, m) <=>
              /\ HasShape(type, m)
              /\ \A n \in Fields(type) : IsNested(Schema[type][n]) =>
                    \A i \in DOMAIN Written(type, m, n) : IsMessage3(Schema[type][n].kind, Written(type, m, n)[i])
<1>1. IsMessage(type, m) <=>
         /\ DOMAIN m \subseteq Fields(type)
         /\ \A n \in DOMAIN m :
               /\ Schema[type][n].label = "repeated" => m[n] \in Seq(Range(m[n]))
               /\ IsNested(Schema[type][n]) =>
                     \A v \in (IF Schema[type][n].label = "repeated" THEN Range(m[n]) ELSE {m[n]}) :
                        IsMessage3(Schema[type][n].kind, v)
  BY DEF IsMessage, IsMessageWith
<1>2. HasShape(type, m) <=>
         /\ DOMAIN m \subseteq Fields(type)
         /\ \A n \in DOMAIN m : Schema[type][n].label = "repeated" => m[n] \in Seq(Range(m[n]))
  BY DEF HasShape, Lists, IsList
<1>3. ASSUME HasShape(type, m), NEW n \in Fields(type), IsNested(Schema[type][n])
      PROVE  (\A i \in DOMAIN Written(type, m, n) : IsMessage3(Schema[type][n].kind, Written(type, m, n)[i])) <=>
                (n \in DOMAIN m =>
                    \A v \in (IF Schema[type][n].label = "repeated" THEN Range(m[n]) ELSE {m[n]}) :
                       IsMessage3(Schema[type][n].kind, v))
  <2>1. (\A i \in DOMAIN Written(type, m, n) : IsMessage3(Schema[type][n].kind, Written(type, m, n)[i])) <=>
           (\A v \in Range(Written(type, m, n)) : IsMessage3(Schema[type][n].kind, v))
    BY DEF Range
  <2>2. QED
    BY <1>3, <2>1, RangeOfWritten
<1>4. QED
  BY <1>1, <1>2, <1>3

LEMMA Message4Back ==
    ASSUME NEW type \in Level4, NEW m, IsMessage(type, m)
    PROVE  LET d == Decode(type, Encode(type, m))
           IN  /\ IsMessage(type, d)
               /\ Encode(type, d) = Encode(type, m)
               /\ ReadsAs(type, m, d, "wire")
               /\ DOMAIN d = DOMAIN m \cup Lists(type) \cup Needed(type)
<1> DEFINE d == Decode(type, Encode(type, m))
           x == Back4(type, m)
<1>1. type \in Types /\ HasShape(type, m)
  BY TypesAre, Message4Is DEF Level1, Level2, Level3, Level4
<1>2. Image(type, m, d, x)
  BY <1>1, Decode4Is
<1>3. ASSUME NEW n \in Fields(type), NEW i \in DOMAIN Written(type, m, n)
      PROVE  LET v == Written(type, m, n)[i]
             IN  IsNested(Schema[type][n]) =>
                    LET k == Schema[type][n].kind
                        w == Decode3(k, Encode3(k, v))
                    IN  IsMessage3(k, w) /\ Encode3(k, w) = Encode3(k, v) /\ ReadsAs3(k, v, w, "wire")
  <2> SUFFICES ASSUME IsNested(Schema[type][n])
               PROVE  LET k == Schema[type][n].kind
                          v == Written(type, m, n)[i]
                          w == Decode3(k, Encode3(k, v))
                      IN  IsMessage3(k, w) /\ Encode3(k, w) = Encode3(k, v) /\ ReadsAs3(k, v, w, "wire")
    OBVIOUS
  <2>1. Schema[type][n].kind \in Level3
    BY <1>1, AllDeclared, TypesAre DEF Declared, Fields, IsNested, Level4
  <2>2. IsMessage3(Schema[type][n].kind, Written(type, m, n)[i])
    BY <1>1, Message4Is
  <2>3. QED
    BY <2>1, <2>2, Message3Back
<1>4. Encode(type, d) = Encode(type, m)
  BY <1>1, <1>3, Again4
<1> HIDE DEF d, x
<1>5. ASSUME NEW n \in Fields(type), NEW i \in DOMAIN x[n]
      PROVE  /\ i \in DOMAIN Written(type, m, n)
             /\ IsNested(Schema[type][n]) => /\ IsMessage3(Schema[type][n].kind, x[n][i])
                                            /\ ReadsAs3(Schema[type][n].kind, Written(type, m, n)[i], x[n][i], "wire")
             /\ ~ IsNested(Schema[type][n]) => x[n][i] = Written(type, m, n)[i]
  <2>1. i \in DOMAIN Written(type, m, n)
    BY <1>2 DEF Image
  <2>2. x[n][i] = LET v == Written(type, m, n)[i] IN IF IsNested(Schema[type][n])
                                                     THEN Decode3(Schema[type][n].kind, Encode3(Schema[type][n].kind, v))
                                                     ELSE v
    BY <2>1 DEF x, Back4
  <2>3. QED
    BY <1>3, <2>1, <2>2
<1>6. HasShape(type, d)
  <2>1. DOMAIN d \subseteq Fields(type)
    BY <1>1, <1>2 DEF Image, HasShape, Lists, Needed
  <2>2. \A n \in DOMAIN d \cap Lists(type) : IsList(d[n])
    BY <1>2, <2>1 DEF Image
  <2>3. QED
    BY <2>1, <2>2 DEF HasShape
<1>7. IsMessage(type, d)
  <2>1. \A n \in Fields(type) : Written(type, d, n) = x[n]
    BY <1>2 DEF Image
  <2>2. QED
    BY <1>1, <1>5, <1>6, <2>1, Message4Is
<1>8. ASSUME NEW n \in Fields(type)
      PROVE  LET f == Schema[type][n]
                 a == Get(type, m, n)
                 b == Get(type, d, n)
             IN  CASE f.label = "repeated" ->
                          Len(a) = Len(b) /\ \A i \in DOMAIN a : IF IsNested(f)
                                                                 THEN ReadsAs3(f.kind, a[i], b[i], "wire")
                                                                 ELSE a[i] = b[i]
                   [] f.label = "optional" /\ ~ (IsSet(m, n) /\ IsSet(d, n)) ->
                          /\ ~ IsSet(d, n)
                          /\ IsSet(m, n) => FALSE
                   [] OTHER -> IF IsNested(f) THEN ReadsAs3(f.kind, a, b, "wire") ELSE a = b
  <2> DEFINE f == Schema[type][n]
  <2>1. /\ f.label \in {"repeated", "optional", "plain", "required"}
        /\ n \in Lists(type) <=> f.label = "repeated"
        /\ n \in Needed(type) <=> f.label = "required"
        /\ IsNested(f) => f.label \in {"repeated", "optional"}
    BY <1>1, Labels
  <2>2. DOMAIN x[n] = DOMAIN Written(type, m, n)
    BY <1>2 DEF Image
  <2>3. CASE n \in Lists(type)
    <3>1. /\ Get(type, m, n) = Written(type, m, n) /\ Get(type, d, n) = x[n]
          /\ Len(x[n]) = Len(Written(type, m, n))
      BY <1>1, <1>2, <2>3, GetOfImage
    <3>2. QED
      BY <1>5, <2>1, <2>2, <2>3, <3>1
  <2>4. CASE n \notin Lists(type) /\ n \in DOMAIN m \cup Needed(type)
    <3>1. /\ n \notin Needed(type) => (IsSet(d, n) <=> IsSet(m, n))
          /\ 1 \in DOMAIN Written(type, m, n)
          /\ Get(type, m, n) = Written(type, m, n)[1]
          /\ Get(type, d, n) = x[n][1]
      BY <1>1, <1>2, <2>4, GetOfImage
    <3>2. f.label = "optional" => IsSet(m, n) /\ IsSet(d, n)
      BY <2>1, <2>4, <3>1 DEF IsSet
    <3>3. QED
      BY <1>5, <2>1, <2>2, <2>4, <3>1, <3>2
  <2>5. CASE n \notin Lists(type) /\ n \notin DOMAIN m \cup Needed(type)
    <3>1. (IsSet(d, n) <=> IsSet(m, n)) /\ ~ IsSet(m, n) /\ Get(type, d, n) = Get(type, m, n)
      BY <1>1, <1>2, <2>5, GetOfImage DEF IsSet
    <3>2. f.label = "optional" \/ ~ IsNested(f)
      BY <2>1, <2>5
    <3>3. QED
      BY <2>1, <2>5, <3>1, <3>2
  <2>6. QED
    BY <2>3, <2>4, <2>5
<1>9. ReadsAs(type, m, d, "wire")
  BY <1>8 DEF ReadsAs, ReadsAsWith, Losable
<1>10. DOMAIN d = DOMAIN m \cup Lists(type) \cup Needed(type)
  BY <1>2 DEF Image
<1>11. QED
  BY <1>4, <1>7, <1>9, <1>10 DEF d

-----------------------------------------------------------------------------
(* Plain objects, whatever becomes of the nested messages.                    *)

SetIn(type, m) == {n \in Fields(type) : IsSet(m, n) /\ (n \in Lists(type) => m[n] # <<>>)}
DefaultsOf(type, o) == {n \in Fields(type) : IF n \in Lists(type) THEN o.arrays \/ o.defaults
                                             ELSE o.defaults /\ Schema[type][n].label # "optional"}
OneofsOf(type, m, o) == {n \in SetIn(type, m) : o.oneofs /\ Schema[type][n].label = "optional"}

\* obj is the object of m, with the contents y.
IsObject(obj, type, m, o, y) ==
    obj = [n \in SetIn(type, m) \cup DefaultsOf(type, o) \cup {OneofName(f) : f \in OneofsOf(type, m, o)} |->
              CASE n \in SetIn(type, m) -> y[n]
                [] n \in DefaultsOf(type, o) \ SetIn(type, m) -> Default(Schema[type][n])
                [] OTHER -> CHOOSE f \in OneofsOf(type, m, o) : OneofName(f) = n]

LEMMA FieldsOfObject ==
    ASSUME NEW type \in Types, NEW m, NEW o, NEW y, NEW obj, IsObject(obj, type, m, o, y),
           NEW n \in Fields(type)
    PROVE  /\ IsSet(obj, n) <=> n \in SetIn(type, m) \cup DefaultsOf(type, o)
           /\ n \in SetIn(type, m) => obj[n] = y[n]
           /\ n \in DefaultsOf(type, o) \ SetIn(type, m) => obj[n] = Default(Schema[type][n])
<1> DEFINE names == {OneofName(f) : f \in OneofsOf(type, m, o)}
           D == SetIn(type, m) \cup DefaultsOf(type, o) \cup names
           F(k) == CASE k \in SetIn(type, m) -> y[k]
                     [] k \in DefaultsOf(type, o) \ SetIn(type, m) -> Default(Schema[type][k])
                     [] OTHER -> CHOOSE f \in OneofsOf(type, m, o) : OneofName(f) = k
<1>1. obj = [k \in D |-> F(k)]
  BY DEF IsObject
<1>2. n \notin names
  BY OneofAssumption DEF OneofsOf, SetIn
<1>3. /\ n \in SetIn(type, m) => F(n) = y[n]
      /\ n \in DefaultsOf(type, o) \ SetIn(type, m) => F(n) = Default(Schema[type][n])
  OBVIOUS
<1>4. n \in D <=> n \in SetIn(type, m) \cup DefaultsOf(type, o)
  BY <1>2
<1> HIDE DEF F, D, names
<1>5. DOMAIN obj = D /\ (n \in D => obj[n] = F(n))
  BY <1>1
<1>6. QED
  BY <1>3, <1>4, <1>5 DEF IsSet

\* The contents y of the fields of a message or an object, from: of lists as
\* many as are assigned, and the same where no message is nested.
ContentsOf(y, from, type, text) ==
    \A n \in DOMAIN from \cap Fields(type) :
        IF n \in Lists(type)
        THEN LET list == Assigned(Schema[type][n], from[n], text)
             IN  /\ DOMAIN y[n] = DOMAIN list /\ y[n] = [i \in DOMAIN y[n] |-> y[n][i]]
                 /\ ~ IsNested(Schema[type][n]) => \A i \in DOMAIN list : y[n][i] = list[i]
        ELSE ~ IsNested(Schema[type][n]) => y[n] = from[n]

\* b is made of obj, with the contents z.
IsMade(b, type, obj, text, z) ==
    b = [n \in Taken(type, obj, text) \cup Lists(type) |->
            IF n \in Taken(type, obj, text) THEN z[n] ELSE <<>>]

\* A field whose empty members are not assigned, and a value that is not taken.
Holed(type, n, text) == n \in Lists(type) /\ Schema[type][n].kind = "bytes" /\ ~ text
Gone(f, v, text) ==
    (f.kind = "bytes" /\ v = <<>> /\ ~ text) \/ (f.kind = "enum" /\ v \notin EnumValues)

Way(text) == IF text THEN "text" ELSE "buffers"

\* The field n of m, and of the b that is made of it: only those are lost.
SurvivesAs(b, m, type, n, y, obj, z, text) ==
    /\ n \in Lists(type) =>
          /\ Holed(type, n, text) => Punched(Get(type, m, n), Get(type, b, n))
          /\ ~ Holed(type, n, text) => Len(Get(type, b, n)) = Len(Get(type, m, n))
          /\ DOMAIN Get(type, m, n) # {} =>
                /\ n \in DOMAIN m /\ n \in DOMAIN obj
                /\ Get(type, m, n) = m[n]
                /\ obj[n] = y[n] /\ Get(type, b, n) = z[n]
    /\ n \notin Lists(type) /\ n \in DOMAIN m =>
          IF Gone(Schema[type][n], m[n], text)
          THEN n \notin DOMAIN b
          ELSE n \in DOMAIN obj /\ n \in DOMAIN b /\ b[n] = z[n] /\ obj[n] = y[n]
    /\ n \notin Lists(type) /\ n \notin DOMAIN m =>
          /\ Schema[type][n].label = "optional" => n \notin DOMAIN b
          /\ Get(type, b, n) = Get(type, m, n)

LEMMA ThroughObject ==
    ASSUME NEW type \in Types, NEW m, HasShape(type, m), NEW o \in Options,
           NEW y, NEW obj, IsObject(obj, type, m, o, y), ContentsOf(y, m, type, TRUE),
           NEW z, NEW b, IsMade(b, type, obj, o.text, z), ContentsOf(z, obj, type, o.text),
           NEW n \in Fields(type)
    PROVE  SurvivesAs(b, m, type, n, y, obj, z, o.text)
<1> DEFINE taken == Taken(type, obj, o.text)
<1>1. /\ IsSet(obj, n) <=> n \in SetIn(type, m) \cup DefaultsOf(type, o)
      /\ n \in SetIn(type, m) => obj[n] = y[n]
      /\ n \in DefaultsOf(type, o) \ SetIn(type, m) => obj[n] = Default(Schema[type][n])
  BY FieldsOfObject
<1>2. n \in taken <=> /\ n \in DOMAIN obj
                      /\ (Schema[type][n].kind = "bytes" /\ n \notin Lists(type)) => o.text \/ obj[n] # <<>>
                      /\ Schema[type][n].kind = "enum" => obj[n] \in EnumValues
  BY DEF Taken, IsSet
<1>3. n \in DOMAIN b <=> n \in taken \cup Lists(type)
  BY DEF IsMade
<1>4. n \in DOMAIN b => b[n] = IF n \in taken THEN z[n] ELSE <<>>
  BY DEF IsMade
<1>5. /\ IsNested(Schema[type][n]) => Schema[type][n].kind \notin {"bytes", "enum"}
      /\ Schema[type][n].kind = "enum" => Schema[type][n].label = "optional" /\ n \notin Lists(type)
  BY Labels
<1>9. /\ ~ Holed(type, n, o.text) => \A v : Assigned(Schema[type][n], v, o.text) = v
      /\ \A v : Assigned(Schema[type][n], v, TRUE) = v
  BY Labels DEF Assigned, Holed
<1>6. CASE n \in Lists(type)
  <2>1. n \in SetIn(type, m) <=> n \in DOMAIN m /\ m[n] # <<>>
    BY <1>6 DEF SetIn, IsSet
  <2>2. Get(type, b, n) = IF n \in taken THEN z[n] ELSE <<>>
    BY <1>3, <1>4, <1>6 DEF Get
  <2>3. Default(Schema[type][n]) = <<>>
    BY <1>6, Labels DEF Default
  <2>4. n \in taken <=> n \in DOMAIN obj
    BY <1>2, <1>5, <1>6
  <2>5. CASE n \in SetIn(type, m)
    <3>1. n \in DOMAIN m /\ m[n] # <<>> /\ IsList(m[n]) /\ Get(type, m, n) = m[n]
      BY <1>6, <2>1, <2>5 DEF HasShape, Get
    <3>2. n \in DOMAIN obj /\ obj[n] = y[n] /\ Get(type, b, n) = z[n]
      BY <1>1, <2>2, <2>4, <2>5 DEF IsSet
    <3>3. /\ DOMAIN y[n] = DOMAIN m[n] /\ y[n] = [i \in DOMAIN y[n] |-> y[n][i]]
          /\ ~ IsNested(Schema[type][n]) => \A i \in DOMAIN m[n] : y[n][i] = m[n][i]
      <4>1. Assigned(Schema[type][n], m[n], TRUE) = m[n]
        BY <1>9
      <4>2. QED
        BY <1>6, <3>1, <4>1 DEF ContentsOf
    <3>4. IsList(y[n]) /\ Len(y[n]) = Len(m[n])
      BY <3>1, <3>3, MappedList
    <3>5. ASSUME ~ Holed(type, n, o.text) PROVE Len(z[n]) = Len(y[n])
      <4>1. DOMAIN z[n] = DOMAIN y[n] /\ z[n] = [i \in DOMAIN z[n] |-> z[n][i]]
        BY <1>6, <1>9, <3>2, <3>5 DEF ContentsOf
      <4>2. QED
        BY <3>4, <4>1, MappedList
    <3>6. ASSUME Holed(type, n, o.text) PROVE Punched(m[n], z[n])
      <4> DEFINE list == Assigned(Schema[type][n], y[n], o.text)
                 full == {i \in DOMAIN y[n] : y[n][i] # <<>>}
      <4>1. list = [i \in {i \in DOMAIN y[n] : \E k \in full : i <= k} |->
                       IF i \in full THEN y[n][i] ELSE Null]
        BY <3>6, Labels DEF Assigned, Holed
      <4>2. ~ IsNested(Schema[type][n])
        BY <1>5, <3>6 DEF Holed
      <4>3. DOMAIN z[n] = DOMAIN list /\ \A i \in DOMAIN list : z[n][i] = list[i]
        BY <1>6, <3>2, <4>2 DEF ContentsOf
      <4>4. \A i \in DOMAIN m[n] : y[n][i] = m[n][i]
        BY <3>3, <4>2
      <4>5. \A i \in full : i \in DOMAIN list /\ list[i] = y[n][i]
        <5>1. DOMAIN y[n] \subseteq Int
          BY <3>4, ListParts
        <5>2. \A i \in full : i <= i
          BY <5>1
        <5> HIDE DEF list
        <5>3. QED
          BY <4>1, <5>2
      <4>6. DOMAIN list \subseteq DOMAIN y[n] /\ \A i \in DOMAIN list \ full : list[i] = Null
        <5> HIDE DEF list
        <5>1. QED
          BY <4>1
      <4>7. \A i \in DOMAIN m[n] : i \in full <=> m[n][i] # <<>>
        BY <3>3, <4>4
      <4> HIDE DEF list, full
      <4>8. QED
        BY <3>3, <4>3, <4>4, <4>5, <4>6, <4>7 DEF Punched
    <3>7. QED
      BY <1>6, <3>1, <3>2, <3>4, <3>5, <3>6 DEF SurvivesAs
  <2>6. CASE n \notin SetIn(type, m)
    <3>1. Get(type, m, n) = <<>>
      BY <2>1, <2>3, <2>6 DEF Get
    <3>2. n \in DOMAIN obj => obj[n] = <<>>
      BY <1>1, <2>3, <2>6 DEF IsSet
    <3>3. Assigned(Schema[type][n], <<>>, o.text) = <<>>
      <4>1. DOMAIN <<>> = {}
        OBVIOUS
      <4>2. QED
        BY <4>1 DEF Assigned
    <3>4. n \in DOMAIN obj => Len(z[n]) = 0 /\ DOMAIN z[n] = {}
      <4>1. IsList(<<>>) /\ Len(<<>>) = 0 /\ DOMAIN <<>> = {}
        BY DEF IsList, Range
      <4>2. QED
        BY <1>6, <3>2, <3>3, <4>1, MappedList DEF ContentsOf
    <3>5. Len(Get(type, b, n)) = 0 /\ DOMAIN Get(type, b, n) = {}
      BY <2>2, <2>4, <3>4
    <3>6. Punched(<<>>, Get(type, b, n))
      BY <3>5 DEF Punched
    <3>7. QED
      BY <1>6, <3>1, <3>5, <3>6 DEF SurvivesAs
  <2>7. QED
    BY <2>5, <2>6
<1>7. CASE n \notin Lists(type)
  <2>1. n \in SetIn(type, m) <=> n \in DOMAIN m
    BY <1>7 DEF SetIn, IsSet
  <2>2. n \in DOMAIN b <=> n \in taken
    BY <1>3, <1>7
  <2>3. CASE n \in DOMAIN m
    <3>1. n \in DOMAIN obj /\ obj[n] = y[n]
      BY <1>1, <2>1, <2>3 DEF IsSet
    <3>2. Schema[type][n].kind \in {"bytes", "enum"} => obj[n] = m[n]
      BY <1>5, <1>7, <2>3, <3>1 DEF ContentsOf
    <3>3. n \in taken <=> ~ Gone(Schema[type][n], m[n], o.text)
      BY <1>2, <1>7, <3>1, <3>2 DEF Gone
    <3>4. QED
      BY <1>4, <1>7, <2>2, <2>3, <3>1, <3>3 DEF SurvivesAs
  <2>4. CASE n \notin DOMAIN m
    <3>1. Get(type, m, n) = Default(Schema[type][n])
      BY <2>4 DEF Get
    <3>2. Schema[type][n].label = "optional" => n \notin DOMAIN obj
      BY <1>1, <1>7, <2>1, <2>4 DEF DefaultsOf, IsSet
    <3>3. n \in DOMAIN obj => obj[n] = Default(Schema[type][n]) /\ ~ IsNested(Schema[type][n])
      BY <1>1, <1>7, <2>1, <2>4, <3>2, Labels DEF IsSet
    <3>4. n \in DOMAIN b => b[n] = Default(Schema[type][n])
      BY <1>2, <1>4, <1>7, <2>2, <3>3 DEF ContentsOf
    <3>5. Get(type, b, n) = Default(Schema[type][n])
      BY <3>4 DEF Get
    <3>6. QED
      BY <1>2, <1>7, <2>2, <2>4, <3>1, <3>2, <3>5 DEF SurvivesAs
  <2>5. QED
    BY <2>3, <2>4
<1>8. QED
  BY <1>6, <1>7 DEF SurvivesAs

-----------------------------------------------------------------------------
(* Of each level: the message that is made of the object of a message reads   *)
(* as that one, but for empty buffers that are not written as text.           *)

\* Level 1.
LEMMA Object1Back ==
    ASSUME NEW type \in Level1, NEW m, IsMessage1(type, m), NEW o \in Options
    PROVE  ReadsAs1(type, m, FromObject1(type, ToObject1(type, m, o), o.text), Way(o.text))
<1> DEFINE obj == ToObject1(type, m, o)
           b == FromObject1(type, obj, o.text)
           Y(n) == CASE Schema[type][n].label = "repeated" ->
                          [i \in DOMAIN m[n] |-> m[n][i]]
                     [] Schema[type][n].label # "repeated" /\ IsNested(Schema[type][n]) ->
                          m[n]
                     [] OTHER -> m[n]
           A(n) == Assigned(Schema[type][n], obj[n], o.text)
           Z(n) == CASE Schema[type][n].label = "repeated" ->
                          [i \in DOMAIN A(n) |-> A(n)[i]]
                     [] Schema[type][n].label # "repeated" /\ IsNested(Schema[type][n]) ->
                          A(n)
                     [] OTHER -> A(n)
           y == [n \in DOMAIN m |-> Y(n)]
           z == [n \in DOMAIN obj |-> Z(n)]
<1>1. type \in Types /\ HasShape(type, m)
  BY TypesAre, Message1Is DEF Level1, Level2, Level3, Level4
<1>2. IsObject(obj, type, m, o, y)
  <2> DEFINE D == SetIn(type, m) \cup DefaultsOf(type, o) \cup {OneofName(f) : f \in OneofsOf(type, m, o)}
  <2>1. obj = [n \in D |-> CASE n \in SetIn(type, m) -> Y(n)
                             [] n \in DefaultsOf(type, o) \ SetIn(type, m) -> Default(Schema[type][n])
                             [] OTHER -> CHOOSE f \in OneofsOf(type, m, o) : OneofName(f) = n]
    BY DEF ToObject1, ToObjectWith, Converted, Each, SetIn, DefaultsOf, OneofsOf
  <2>2. \A n \in SetIn(type, m) : y[n] = Y(n)
    BY DEF SetIn, IsSet
  <2> HIDE DEF obj, Y, y
  <2>3. QED
    BY <2>1, <2>2 DEF IsObject
<1>3. IsMade(b, type, obj, o.text, z)
  <2>1. b = [n \in Taken(type, obj, o.text) \cup Lists(type) |->
               IF n \in Taken(type, obj, o.text) THEN Z(n) ELSE <<>>]
    BY DEF FromObject1, FromObjectWith, Converted, Each
  <2>2. \A n \in Taken(type, obj, o.text) : z[n] = Z(n)
    BY DEF Taken, IsSet
  <2> HIDE DEF b, z, Z
  <2>3. QED
    BY <2>1, <2>2 DEF IsMade
<1>4. ASSUME NEW n \in DOMAIN m
      PROVE  /\ n \in Lists(type) => y[n] = [i \in DOMAIN m[n] |-> m[n][i]]
             /\ n \notin Lists(type) => y[n] = m[n]
  BY <1>1, Labels DEF HasShape
<1>5. ASSUME NEW n \in DOMAIN obj, n \in Fields(type)
      PROVE  /\ n \in Lists(type) /\ ~ Holed(type, n, o.text) => z[n] = [i \in DOMAIN obj[n] |-> obj[n][i]]
             /\ Holed(type, n, o.text) => z[n] = [i \in DOMAIN A(n) |-> A(n)[i]]
             /\ n \notin Lists(type) => z[n] = obj[n]
  <2> HIDE DEF obj
  <2>1. ~ Holed(type, n, o.text) => A(n) = obj[n]
    BY <1>1, <1>5, Labels DEF Assigned, Holed
  <2>2. Holed(type, n, o.text) => n \in Lists(type) /\ ~ IsNested(Schema[type][n])
    BY <1>1, <1>5, Labels DEF Holed
  <2>3. n \notin Lists(type) => ~ Holed(type, n, o.text)
    BY DEF Holed
  <2> HIDE DEF A
  <2>4. QED
    BY <1>1, <1>5, <2>1, <2>2, <2>3, Labels
<1> HIDE DEF obj, b, Y, Z, A, y, z
<1>6. ASSUME NEW n \in Fields(type)
      PROVE  /\ n \in Lists(type) =>
                 /\ Holed(type, n, o.text) => Punched(Get(type, m, n), Get(type, b, n))
                 /\ ~ Holed(type, n, o.text) => Len(Get(type, b, n)) = Len(Get(type, m, n))
                 /\ DOMAIN Get(type, m, n) # {} =>
                       /\ n \in DOMAIN m /\ n \in DOMAIN obj
                       /\ Get(type, m, n) = m[n]
                       /\ obj[n] = y[n] /\ Get(type, b, n) = z[n]
             /\ n \notin Lists(type) /\ n \in DOMAIN m =>
                   IF Gone(Schema[type][n], m[n], o.text)
                   THEN n \notin DOMAIN b
                   ELSE n \in DOMAIN obj /\ n \in DOMAIN b /\ b[n] = z[n] /\ obj[n] = y[n]
             /\ n \notin Lists(type) /\ n \notin DOMAIN m =>
                   /\ Schema[type][n].label = "optional" => n \notin DOMAIN b
                   /\ Get(type, b, n) = Get(type, m, n)
  <2>1. ContentsOf(y, m, type, TRUE)
    BY <1>1, <1>4 DEF ContentsOf, Assigned
  <2>2. ContentsOf(z, obj, type, o.text)
    <3>1. ASSUME NEW k \in DOMAIN obj \cap Fields(type), ~ Holed(type, k, o.text)
          PROVE  Assigned(Schema[type][k], obj[k], o.text) = obj[k]
      BY <1>1, <3>1, Labels DEF Assigned, Holed
    <3>2. \A k : Holed(type, k, o.text) => k \in Lists(type)
      BY DEF Holed
    <3> SUFFICES ASSUME NEW k \in DOMAIN obj \cap Fields(type)
                 PROVE  IF k \in Lists(type)
                        THEN LET list == Assigned(Schema[type][k], obj[k], o.text)
                             IN  /\ DOMAIN z[k] = DOMAIN list /\ z[k] = [i \in DOMAIN z[k] |-> z[k][i]]
                                 /\ ~ IsNested(Schema[type][k]) =>
                                       \A i \in DOMAIN list : z[k][i] = list[i]
                        ELSE ~ IsNested(Schema[type][k]) => z[k] = obj[k]
      BY DEF ContentsOf
    <3>3. A(k) = Assigned(Schema[type][k], obj[k], o.text)
      BY DEF A
    <3>4. CASE Holed(type, k, o.text)
      <4>1. z[k] = [i \in DOMAIN A(k) |-> A(k)[i]] /\ k \in Lists(type)
        BY <1>5, <3>2, <3>4
      <4> HIDE DEF A
      <4>2. QED
        BY <3>3, <4>1
    <3>5. CASE ~ Holed(type, k, o.text) /\ k \in Lists(type)
      <4>1. /\ DOMAIN z[k] = DOMAIN obj[k] /\ z[k] = [i \in DOMAIN z[k] |-> z[k][i]]
            /\ ~ IsNested(Schema[type][k]) => \A i \in DOMAIN obj[k] : z[k][i] = obj[k][i]
        BY <1>5, <3>5
      <4>2. QED
        BY <3>1, <3>5, <4>1
    <3>7. CASE k \notin Lists(type)
      BY <1>5, <3>7
    <3>6. QED
      BY <3>4, <3>5, <3>7
  <2>3. SurvivesAs(b, m, type, n, y, obj, z, o.text)
    BY <1>1, <1>2, <1>3, <2>1, <2>2, ThroughObject
  <2>4. QED
    BY <2>3 DEF SurvivesAs
<1>7. ASSUME NEW n \in Fields(type)
      PROVE  LET f == Schema[type][n]
                 u == Get(type, m, n)
                 v == Get(type, b, n)
             IN  CASE f.label = "repeated" ->
                          IF f.kind = "bytes" /\ ~ o.text THEN Punched(u, v)
                          ELSE Len(u) = Len(v) /\ \A i \in DOMAIN u : IF IsNested(f) THEN u[i] = v[i]
                                                                 ELSE u[i] = v[i]
                   [] f.label = "optional" /\ ~ (IsSet(m, n) /\ IsSet(b, n)) ->
                          /\ ~ IsSet(b, n)
                          /\ IsSet(m, n) => Gone(f, u, o.text)
                   [] OTHER -> IF IsNested(f) THEN u = v ELSE u = v
  <2> DEFINE f == Schema[type][n]
  <2>1. /\ f.label \in {"repeated", "optional", "plain", "required"}
        /\ n \in Lists(type) <=> f.label = "repeated"
        /\ IsNested(f) => f.label \in {"repeated", "optional"} /\ f.kind \notin {"bytes", "enum"}
        /\ f.kind = "enum" => f.label = "optional"
    BY <1>1, Labels
  <2>3. CASE n \in Lists(type) /\ ~ Holed(type, n, o.text)
    <3>1. ASSUME NEW i \in DOMAIN Get(type, m, n)
          PROVE  LET u == Get(type, m, n)
                     v == Get(type, b, n)
                 IN  u[i] = v[i]
      <4>1. /\ n \in DOMAIN m /\ n \in DOMAIN obj /\ Get(type, m, n) = m[n]
            /\ obj[n] = y[n] /\ Get(type, b, n) = z[n]
        BY <1>6, <2>3
      <4>2. y[n] = [j \in DOMAIN m[n] |-> m[n][j]]
        BY <1>4, <2>3, <4>1
      <4>3. z[n] = [j \in DOMAIN obj[n] |-> obj[n][j]]
        BY <1>5, <2>3, <4>1
      <4>4. i \in DOMAIN m[n]
        BY <4>1
      <4>5. obj[n][i] = m[n][i] /\ i \in DOMAIN obj[n]
        BY <4>1, <4>2, <4>4
      <4>6. z[n][i] = obj[n][i]
        BY <4>3, <4>5
      <4>7. QED
        BY <4>1, <4>4, <4>5, <4>6
    <3>2. QED
      BY <1>6, <2>1, <2>3, <3>1 DEF Holed
  <2>7. CASE Holed(type, n, o.text)
    BY <1>6, <2>1, <2>7 DEF Holed
  <2>4. CASE n \notin Lists(type) /\ n \in DOMAIN m
    <3>1. Get(type, m, n) = m[n] /\ IsSet(m, n)
      BY <2>4 DEF Get, IsSet
    <3>2. CASE Gone(f, m[n], o.text)
      <4>1. n \notin DOMAIN b /\ ~ IsNested(f)
        BY <1>6, <2>1, <2>4, <3>2 DEF Gone
      <4>2. f.label # "optional" => Get(type, b, n) = <<>>
        BY <2>1, <2>4, <3>2, <4>1 DEF Get, Default, Zero, Gone
      <4>3. QED
        BY <2>1, <2>4, <3>1, <3>2, <4>1, <4>2 DEF IsSet, Gone
    <3>3. CASE ~ Gone(f, m[n], o.text)
      <4>1. n \in DOMAIN obj /\ n \in DOMAIN b /\ b[n] = z[n] /\ obj[n] = y[n]
        BY <1>6, <2>4, <3>3
      <4>2. Get(type, b, n) = z[n] /\ IsSet(b, n)
        BY <4>1 DEF Get, IsSet
      <4>3. obj[n] = m[n] /\ z[n] = obj[n]
        BY <1>4, <1>5, <2>4, <4>1
      <4>4. QED
        BY <2>1, <2>4, <3>1, <4>2, <4>3
    <3>4. QED
      BY <3>2, <3>3
  <2>5. CASE n \notin Lists(type) /\ n \notin DOMAIN m
    <3>1. /\ f.label = "optional" => n \notin DOMAIN b
          /\ Get(type, b, n) = Get(type, m, n)
      BY <1>6, <2>5
    <3>2. QED
      BY <2>1, <2>5, <3>1 DEF IsSet
  <2>6. QED
    BY <2>3, <2>4, <2>5, <2>7
<1>8. QED
  BY <1>7 DEF Way, Losable, Gone, ReadsAs1, ReadsAsWith, b, obj

\* Level 2.
LEMMA Object2Back ==
    ASSUME NEW type \in Level2, NEW m, IsMessage2(type, m), NEW o \in Options
    PROVE  ReadsAs2(type, m, FromObject2(type, ToObject2(type, m, o), o.text), Way(o.text))
<1> DEFINE obj == ToObject2(type, m, o)
           b == FromObject2(type, obj, o.text)
           Y(n) == CASE Schema[type][n].label = "repeated" ->
                          [i \in DOMAIN m[n] |->
                              (IF IsNested(Schema[type][n])
                               THEN ToObject1(Schema[type][n].kind, m[n][i], o)
                               ELSE m[n][i])]
                     [] Schema[type][n].label # "repeated" /\ IsNested(Schema[type][n]) ->
                          ToObject1(Schema[type][n].kind, m[n], o)
                     [] OTHER -> m[n]
           A(n) == Assigned(Schema[type][n], obj[n], o.text)
           Z(n) == CASE Schema[type][n].label = "repeated" ->
                          [i \in DOMAIN A(n) |->
                              (IF IsNested(Schema[type][n])
                               THEN FromObject1(Schema[type][n].kind, A(n)[i], o.text)
                               ELSE A(n)[i])]
                     [] Schema[type][n].label # "repeated" /\ IsNested(Schema[type][n]) ->
                          FromObject1(Schema[type][n].kind, A(n), o.text)
                     [] OTHER -> A(n)
           y == [n \in DOMAIN m |-> Y(n)]
           z == [n \in DOMAIN obj |-> Z(n)]
<1>1. type \in Types /\ HasShape(type, m)
  BY TypesAre, Message2Is DEF Level1, Level2, Level3, Level4
<1>2. IsObject(obj, type, m, o, y)
  <2> DEFINE D == SetIn(type, m) \cup DefaultsOf(type, o) \cup {OneofName(f) : f \in OneofsOf(type, m, o)}
  <2>1. obj = [n \in D |-> CASE n \in SetIn(type, m) -> Y(n)
                             [] n \in DefaultsOf(type, o) \ SetIn(type, m) -> Default(Schema[type][n])
                             [] OTHER -> CHOOSE f \in OneofsOf(type, m, o) : OneofName(f) = n]
    BY DEF ToObject2, ToObjectWith, Converted, Each, SetIn, DefaultsOf, OneofsOf
  <2>2. \A n \in SetIn(type, m) : y[n] = Y(n)
    BY DEF SetIn, IsSet
  <2> HIDE DEF obj, Y, y
  <2>3. QED
    BY <2>1, <2>2 DEF IsObject
<1>3. IsMade(b, type, obj, o.text, z)
  <2>1. b = [n \in Taken(type, obj, o.text) \cup Lists(type) |->
               IF n \in Taken(type, obj, o.text) THEN Z(n) ELSE <<>>]
    BY DEF FromObject2, FromObjectWith, Converted, Each
  <2>2. \A n \in Taken(type, obj, o.text) : z[n] = Z(n)
    BY DEF Taken, IsSet
  <2> HIDE DEF b, z, Z
  <2>3. QED
    BY <2>1, <2>2 DEF IsMade
<1>4. ASSUME NEW n \in DOMAIN m
      PROVE  /\ n \in Lists(type) => y[n] = [i \in DOMAIN m[n] |->
                                                (IF IsNested(Schema[type][n])
                                                 THEN ToObject1(Schema[type][n].kind, m[n][i], o)
                                                 ELSE m[n][i])]
             /\ n \notin Lists(type) => y[n] = (IF IsNested(Schema[type][n])
                                                THEN ToObject1(Schema[type][n].kind, m[n], o)
                                                ELSE m[n])
  BY <1>1, Labels DEF HasShape
<1>5. ASSUME NEW n \in DOMAIN obj, n \in Fields(type)
      PROVE  /\ n \in Lists(type) /\ ~ Holed(type, n, o.text) => z[n] = [i \in DOMAIN obj[n] |->
                                                (IF IsNested(Schema[type][n])
                                                 THEN FromObject1(Schema[type][n].kind, obj[n][i], o.text)
                                                 ELSE obj[n][i])]
             /\ Holed(type, n, o.text) => z[n] = [i \in DOMAIN A(n) |-> A(n)[i]]
             /\ n \notin Lists(type) => z[n] = (IF IsNested(Schema[type][n])
                                                THEN FromObject1(Schema[type][n].kind, obj[n], o.text)
                                                ELSE obj[n])
  <2> HIDE DEF obj
  <2>1. ~ Holed(type, n, o.text) => A(n) = obj[n]
    BY <1>1, <1>5, Labels DEF Assigned, Holed
  <2>2. Holed(type, n, o.text) => n \in Lists(type) /\ ~ IsNested(Schema[type][n])
    BY <1>1, <1>5, Labels DEF Holed
  <2>3. n \notin Lists(type) => ~ Holed(type, n, o.text)
    BY DEF Holed
  <2> HIDE DEF A
  <2>4. QED
    BY <1>1, <1>5, <2>1, <2>2, <2>3, Labels
<1> HIDE DEF obj, b, Y, Z, A, y, z
<1>6. ASSUME NEW n \in Fields(type)
      PROVE  /\ n \in Lists(type) =>
                 /\ Holed(type, n, o.text) => Punched(Get(type, m, n), Get(type, b, n))
                 /\ ~ Holed(type, n, o.text) => Len(Get(type, b, n)) = Len(Get(type, m, n))
                 /\ DOMAIN Get(type, m, n) # {} =>
                       /\ n \in DOMAIN m /\ n \in DOMAIN obj
                       /\ Get(type, m, n) = m[n]
                       /\ obj[n] = y[n] /\ Get(type, b, n) = z[n]
             /\ n \notin Lists(type) /\ n \in DOMAIN m =>
                   IF Gone(Schema[type][n], m[n], o.text)
                   THEN n \notin DOMAIN b
                   ELSE n \in DOMAIN obj /\ n \in DOMAIN b /\ b[n] = z[n] /\ obj[n] = y[n]
             /\ n \notin Lists(type) /\ n \notin DOMAIN m =>
                   /\ Schema[type][n].label = "optional" => n \notin DOMAIN b
                   /\ Get(type, b, n) = Get(type, m, n)
  <2>1. ContentsOf(y, m, type, TRUE)
    BY <1>1, <1>4 DEF ContentsOf, Assigned
  <2>2. ContentsOf(z, obj, type, o.text)
    <3>1. ASSUME NEW k \in DOMAIN obj \cap Fields(type), ~ Holed(type, k, o.text)
          PROVE  Assigned(Schema[type][k], obj[k], o.text) = obj[k]
      BY <1>1, <3>1, Labels DEF Assigned, Holed
    <3>2. \A k : Holed(type, k, o.text) => k \in Lists(type)
      BY DEF Holed
    <3> SUFFICES ASSUME NEW k \in DOMAIN obj \cap Fields(type)
                 PROVE  IF k \in Lists(type)
                        THEN LET list == Assigned(Schema[type][k], obj[k], o.text)
                             IN  /\ DOMAIN z[k] = DOMAIN list /\ z[k] = [i \in DOMAIN z[k] |-> z[k][i]]
                                 /\ ~ IsNested(Schema[type][k]) =>
                                       \A i \in DOMAIN list : z[k][i] = list[i]
                        ELSE ~ IsNested(Schema[type][k]) => z[k] = obj[k]
      BY DEF ContentsOf
    <3>3. A(k) = Assigned(Schema[type][k], obj[k], o.text)
      BY DEF A
    <3>4. CASE Holed(type, k, o.text)
      <4>1. z[k] = [i \in DOMAIN A(k) |-> A(k)[i]] /\ k \in Lists(type)
        BY <1>5, <3>2, <3>4
      <4> HIDE DEF A
      <4>2. QED
        BY <3>3, <4>1
    <3>5. CASE ~ Holed(type, k, o.text) /\ k \in Lists(type)
      <4>1. /\ DOMAIN z[k] = DOMAIN obj[k] /\ z[k] = [i \in DOMAIN z[k] |-> z[k][i]]
            /\ ~ IsNested(Schema[type][k]) => \A i \in DOMAIN obj[k] : z[k][i] = obj[k][i]
        BY <1>5, <3>5
      <4>2. QED
        BY <3>1, <3>5, <4>1
    <3>7. CASE k \notin Lists(type)
      BY <1>5, <3>7
    <3>6. QED
      BY <3>4, <3>5, <3>7
  <2>3. SurvivesAs(b, m, type, n, y, obj, z, o.text)
    BY <1>1, <1>2, <1>3, <2>1, <2>2, ThroughObject
  <2>4. QED
    BY <2>3 DEF SurvivesAs
<1>7. ASSUME NEW n \in Fields(type)
      PROVE  LET f == Schema[type][n]
                 u == Get(type, m, n)
                 v == Get(type, b, n)
             IN  CASE f.label = "repeated" ->
                          IF f.kind = "bytes" /\ ~ o.text THEN Punched(u, v)
                          ELSE Len(u) = Len(v) /\ \A i \in DOMAIN u : IF IsNested(f)
                                                                 THEN ReadsAs1(f.kind, u[i], v[i], Way(o.text))
                                                                 ELSE u[i] = v[i]
                   [] f.label = "optional" /\ ~ (IsSet(m, n) /\ IsSet(b, n)) ->
                          /\ ~ IsSet(b, n)
                          /\ IsSet(m, n) => Gone(f, u, o.text)
                   [] OTHER -> IF IsNested(f) THEN ReadsAs1(f.kind, u, v, Way(o.text)) ELSE u = v
  <2> DEFINE f == Schema[type][n]
  <2>1. /\ f.label \in {"repeated", "optional", "plain", "required"}
        /\ n \in Lists(type) <=> f.label = "repeated"
        /\ IsNested(f) => f.label \in {"repeated", "optional"} /\ f.kind \notin {"bytes", "enum"}
        /\ f.kind = "enum" => f.label = "optional"
    BY <1>1, Labels
  <2>2. ASSUME n \in DOMAIN m, IsNested(f),
               NEW v \in (IF f.label = "repeated" THEN Range(m[n]) ELSE {m[n]})
        PROVE  ReadsAs1(f.kind, v, FromObject1(f.kind, ToObject1(f.kind, v, o), o.text), Way(o.text))
    <3>1. f.kind \in Level1
      BY <1>1, <2>2, AllDeclared, TypesAre DEF Declared, Fields, IsNested, Level4
    <3>2. v \in Range(Written(type, m, n))
      BY <1>1, <2>2, RangeOfWritten
    <3>3. IsMessage1(f.kind, v)
      BY <1>1, <2>2, <3>2, Message2Is DEF Range
    <3>4. QED
      BY <3>1, <3>3, Object1Back
  <2>3. CASE n \in Lists(type) /\ ~ Holed(type, n, o.text)
    <3>1. ASSUME NEW i \in DOMAIN Get(type, m, n)
          PROVE  LET u == Get(type, m, n)
                     v == Get(type, b, n)
                 IN  IF IsNested(f) THEN ReadsAs1(f.kind, u[i], v[i], Way(o.text)) ELSE u[i] = v[i]
      <4>1. /\ n \in DOMAIN m /\ n \in DOMAIN obj /\ Get(type, m, n) = m[n]
            /\ obj[n] = y[n] /\ Get(type, b, n) = z[n]
        BY <1>6, <2>3
      <4>2. y[n] = [j \in DOMAIN m[n] |->
                       (IF IsNested(Schema[type][n])
                        THEN ToObject1(Schema[type][n].kind, m[n][j], o)
                        ELSE m[n][j])]
        BY <1>4, <2>3, <4>1
      <4>3. z[n] = [j \in DOMAIN obj[n] |->
                       (IF IsNested(Schema[type][n])
                        THEN FromObject1(Schema[type][n].kind, obj[n][j], o.text)
                        ELSE obj[n][j])]
        BY <1>5, <2>3, <4>1
      <4>4. i \in DOMAIN m[n]
        BY <4>1
      <4>5. obj[n][i] = (IF IsNested(Schema[type][n])
                         THEN ToObject1(Schema[type][n].kind, m[n][i], o)
                         ELSE m[n][i]) /\ i \in DOMAIN obj[n]
        BY <4>1, <4>2, <4>4
      <4>6. z[n][i] = (IF IsNested(Schema[type][n])
                       THEN FromObject1(Schema[type][n].kind, obj[n][i], o.text)
                       ELSE obj[n][i])
        BY <4>3, <4>5
      <4>7. QED
        BY <2>1, <2>2, <2>3, <4>1, <4>4, <4>5, <4>6 DEF Range
    <3>2. QED
      BY <1>6, <2>1, <2>3, <3>1 DEF Holed
  <2>7. CASE Holed(type, n, o.text)
    BY <1>6, <2>1, <2>7 DEF Holed
  <2>4. CASE n \notin Lists(type) /\ n \in DOMAIN m
    <3>1. Get(type, m, n) = m[n] /\ IsSet(m, n)
      BY <2>4 DEF Get, IsSet
    <3>2. CASE Gone(f, m[n], o.text)
      <4>1. n \notin DOMAIN b /\ ~ IsNested(f)
        BY <1>6, <2>1, <2>4, <3>2 DEF Gone
      <4>2. f.label # "optional" => Get(type, b, n) = <<>>
        BY <2>1, <2>4, <3>2, <4>1 DEF Get, Default, Zero, Gone
      <4>3. QED
        BY <2>1, <2>4, <3>1, <3>2, <4>1, <4>2 DEF IsSet, Gone
    <3>3. CASE ~ Gone(f, m[n], o.text)
      <4>1. n \in DOMAIN obj /\ n \in DOMAIN b /\ b[n] = z[n] /\ obj[n] = y[n]
        BY <1>6, <2>4, <3>3
      <4>2. Get(type, b, n) = z[n] /\ IsSet(b, n)
        BY <4>1 DEF Get, IsSet
      <4>3. /\ obj[n] = (IF IsNested(Schema[type][n])
                         THEN ToObject1(Schema[type][n].kind, m[n], o)
                         ELSE m[n])
            /\ z[n] = (IF IsNested(Schema[type][n])
                       THEN FromObject1(Schema[type][n].kind, obj[n], o.text)
                       ELSE obj[n])
        BY <1>4, <1>5, <2>4, <4>1
      <4>4. QED
        BY <2>1, <2>2, <2>4, <3>1, <4>2, <4>3
    <3>4. QED
      BY <3>2, <3>3
  <2>5. CASE n \notin Lists(type) /\ n \notin DOMAIN m
    <3>1. /\ f.label = "optional" => n \notin DOMAIN b
          /\ Get(type, b, n) = Get(type, m, n)
      BY <1>6, <2>5
    <3>2. QED
      BY <2>1, <2>5, <3>1 DEF IsSet
  <2>6. QED
    BY <2>3, <2>4, <2>5, <2>7
<1>8. QED
  BY <1>7 DEF Way, Losable, Gone, ReadsAs2, ReadsAsWith, b, obj

\* Level 3.
LEMMA Object3Back ==
    ASSUME NEW type \in Level3, NEW m, IsMessage3(type, m), NEW o \in Options
    PROVE  ReadsAs3(type, m, FromObject3(type, ToObject3(type, m, o), o.text), Way(o.text))
<1> DEFINE obj == ToObject3(type, m, o)
           b == FromObject3(type, obj, o.text)
           Y(n) == CASE Schema[type][n].label = "repeated" ->
                          [i \in DOMAIN m[n] |->
                              (IF IsNested(Schema[type][n])
                               THEN ToObject2(Schema[type][n].kind, m[n][i], o)
                               ELSE m[n][i])]
                     [] Schema[type][n].label # "repeated" /\ IsNested(Schema[type][n]) ->
                          ToObject2(Schema[type][n].kind, m[n], o)
                     [] OTHER -> m[n]
           A(n) == Assigned(Schema[type][n], obj[n], o.text)
           Z(n) == CASE Schema[type][n].label = "repeated" ->
                          [i \in DOMAIN A(n) |->
                              (IF IsNested(Schema[type][n])
                               THEN FromObject2(Schema[type][n].kind, A(n)[i], o.text)
                               ELSE A(n)[i])]
                     [] Schema[type][n].label # "repeated" /\ IsNested(Schema[type][n]) ->
                          FromObject2(Schema[type][n].kind, A(n), o.text)
                     [] OTHER -> A(n)
           y == [n \in DOMAIN m |-> Y(n)]
           z == [n \in DOMAIN obj |-> Z(n)]
<1>1. type \in Types /\ HasShape(type, m)
  BY TypesAre, Message3Is DEF Level1, Level2, Level3, Level4
<1>2. IsObject(obj, type, m, o, y)
  <2> DEFINE D == SetIn(type, m) \cup DefaultsOf(type, o) \cup {OneofName(f) : f \in OneofsOf(type, m, o)}
  <2>1. obj = [n \in D |-> CASE n \in SetIn(type, m) -> Y(n)
                             [] n \in DefaultsOf(type, o) \ SetIn(type, m) -> Default(Schema[type][n])
                             [] OTHER -> CHOOSE f \in OneofsOf(type, m, o) : OneofName(f) = n]
    BY DEF ToObject3, ToObjectWith, Converted, Each, SetIn, DefaultsOf, OneofsOf
  <2>2. \A n \in SetIn(type, m) : y[n] = Y(n)
    BY DEF SetIn, IsSet
  <2> HIDE DEF obj, Y, y
  <2>3. QED
    BY <2>1, <2>2 DEF IsObject
<1>3. IsMade(b, type, obj, o.text, z)
  <2>1. b = [n \in Taken(type, obj, o.text) \cup Lists(type) |->
               IF n \in Taken(type, obj, o.text) THEN Z(n) ELSE <<>>]
    BY DEF FromObject3, FromObjectWith, Converted, Each
  <2>2. \A n \in Taken(type, obj, o.text) : z[n] = Z(n)
    BY DEF Taken, IsSet
  <2> HIDE DEF b, z, Z
  <2>3. QED
    BY <2>1, <2>2 DEF IsMade
<1>4. ASSUME NEW n \in DOMAIN m
      PROVE  /\ n \in Lists(type) => y[n] = [i \in DOMAIN m[n] |->
                                                (IF IsNested(Schema[type][n])
                                                 THEN ToObject2(Schema[type][n].kind, m[n][i], o)
                                                 ELSE m[n][i])]
             /\ n \notin Lists(type) => y[n] = (IF IsNested(Schema[type][n])
                                                THEN ToObject2(Schema[type][n].kind, m[n], o)
                                                ELSE m[n])
  BY <1>1, Labels DEF HasShape
<1>5. ASSUME NEW n \in DOMAIN obj, n \in Fields(type)
      PROVE  /\ n \in Lists(type) /\ ~ Holed(type, n, o.text) => z[n] = [i \in DOMAIN obj[n] |->
                                                (IF IsNested(Schema[type][n])
                                                 THEN FromObject2(Schema[type][n].kind, obj[n][i], o.text)
                                                 ELSE obj[n][i])]
             /\ Holed(type, n, o.text) => z[n] = [i \in DOMAIN A(n) |-> A(n)[i]]
             /\ n \notin Lists(type) => z[n] = (IF IsNested(Schema[type][n])
                                                THEN FromObject2(Schema[type][n].kind, obj[n], o.text)
                                                ELSE obj[n])
  <2> HIDE DEF obj
  <2>1. ~ Holed(type, n, o.text) => A(n) = obj[n]
    BY <1>1, <1>5, Labels DEF Assigned, Holed
  <2>2. Holed(type, n, o.text) => n \in Lists(type) /\ ~ IsNested(Schema[type][n])
    BY <1>1, <1>5, Labels DEF Holed
  <2>3. n \notin Lists(type) => ~ Holed(type, n, o.text)
    BY DEF Holed
  <2> HIDE DEF A
  <2>4. QED
    BY <1>1, <1>5, <2>1, <2>2, <2>3, Labels
<1> HIDE DEF obj, b, Y, Z, A, y, z
<1>6. ASSUME NEW n \in Fields(type)
      PROVE  /\ n \in Lists(type) =>
                 /\ Holed(type, n, o.text) => Punched(Get(type, m, n), Get(type, b, n))
                 /\ ~ Holed(type, n, o.text) => Len(Get(type, b, n)) = Len(Get(type, m, n))
                 /\ DOMAIN Get(type, m, n) # {} =>
                       /\ n \in DOMAIN m /\ n \in DOMAIN obj
                       /\ Get(type, m, n) = m[n]
                       /\ obj[n] = y[n] /\ Get(type, b, n) = z[n]
             /\ n \notin Lists(type) /\ n \in DOMAIN m =>
                   IF Gone(Schema[type][n], m[n], o.text)
                   THEN n \notin DOMAIN b
                   ELSE n \in DOMAIN obj /\ n \in DOMAIN b /\ b[n] = z[n] /\ obj[n] = y[n]
             /\ n \notin Lists(type) /\ n \notin DOMAIN m =>
                   /\ Schema[type][n].label = "optional" => n \notin DOMAIN b
                   /\ Get(type, b, n) = Get(type, m, n)
  <2>1. ContentsOf(y, m, type, TRUE)
    BY <1>1, <1>4 DEF ContentsOf, Assigned
  <2>2. ContentsOf(z, obj, type, o.text)
    <3>1. ASSUME NEW k \in DOMAIN obj \cap Fields(type), ~ Holed(type, k, o.text)
          PROVE  Assigned(Schema[type][k], obj[k], o.text) = obj[k]
      BY <1>1, <3>1, Labels DEF Assigned, Holed
    <3>2. \A k : Holed(type, k, o.text) => k \in Lists(type)
      BY DEF Holed
    <3> SUFFICES ASSUME NEW k \in DOMAIN obj \cap Fields(type)
                 PROVE  IF k \in Lists(type)
                        THEN LET list == Assigned(Schema[type][k], obj[k], o.text)
                             IN  /\ DOMAIN z[k] = DOMAIN list /\ z[k] = [i \in DOMAIN z[k] |-> z[k][i]]
                                 /\ ~ IsNested(Schema[type][k]) =>
                                       \A i \in DOMAIN list : z[k][i] = list[i]
                        ELSE ~ IsNested(Schema[type][k]) => z[k] = obj[k]
      BY DEF ContentsOf
    <3>3. A(k) = Assigned(Schema[type][k], obj[k], o.text)
      BY DEF A
    <3>4. CASE Holed(type, k, o.text)
      <4>1. z[k] = [i \in DOMAIN A(k) |-> A(k)[i]] /\ k \in Lists(type)
        BY <1>5, <3>2, <3>4
      <4> HIDE DEF A
      <4>2. QED
        BY <3>3, <4>1
    <3>5. CASE ~ Holed(type, k, o.text) /\ k \in Lists(type)
      <4>1. /\ DOMAIN z[k] = DOMAIN obj[k] /\ z[k] = [i \in DOMAIN z[k] |-> z[k][i]]
            /\ ~ IsNested(Schema[type][k]) => \A i \in DOMAIN obj[k] : z[k][i] = obj[k][i]
        BY <1>5, <3>5
      <4>2. QED
        BY <3>1, <3>5, <4>1
    <3>7. CASE k \notin Lists(type)
      BY <1>5, <3>7
    <3>6. QED
      BY <3>4, <3>5, <3>7
  <2>3. SurvivesAs(b, m, type, n, y, obj, z, o.text)
    BY <1>1, <1>2, <1>3, <2>1, <2>2, ThroughObject
  <2>4. QED
    BY <2>3 DEF SurvivesAs
<1>7. ASSUME NEW n \in Fields(type)
      PROVE  LET f == Schema[type][n]
                 u == Get(type, m, n)
                 v == Get(type, b, n)
             IN  CASE f.label = "repeated" ->
                          IF f.kind = "bytes" /\ ~ o.text THEN Punched(u, v)
                          ELSE Len(u) = Len(v) /\ \A i \in DOMAIN u : IF IsNested(f)
                                                                 THEN ReadsAs2(f.kind, u[i], v[i], Way(o.text))
                                                                 ELSE u[i] = v[i]
                   [] f.label = "optional" /\ ~ (IsSet(m, n) /\ IsSet(b, n)) ->
                          /\ ~ IsSet(b, n)
                          /\ IsSet(m, n) => Gone(f, u, o.text)
                   [] OTHER -> IF IsNested(f) THEN ReadsAs2(f.kind, u, v, Way(o.text)) ELSE u = v
  <2> DEFINE f == Schema[type][n]
  <2>1. /\ f.label \in {"repeated", "optional", "plain", "required"}
        /\ n \in Lists(type) <=> f.label = "repeated"
        /\ IsNested(f) => f.label \in {"repeated", "optional"} /\ f.kind \notin {"bytes", "enum"}
        /\ f.kind = "enum" => f.label = "optional"
    BY <1>1, Labels
  <2>2. ASSUME n \in DOMAIN m, IsNested(f),
               NEW v \in (IF f.label = "repeated" THEN Range(m[n]) ELSE {m[n]})
        PROVE  ReadsAs2(f.kind, v, FromObject2(f.kind, ToObject2(f.kind, v, o), o.text), Way(o.text))
    <3>1. f.kind \in Level2
      BY <1>1, <2>2, AllDeclared, TypesAre DEF Declared, Fields, IsNested, Level4
    <3>2. v \in Range(Written(type, m, n))
      BY <1>1, <2>2, RangeOfWritten
    <3>3. IsMessage2(f.kind, v)
      BY <1>1, <2>2, <3>2, Message3Is DEF Range
    <3>4. QED
      BY <3>1, <3>3, Object2Back
  <2>3. CASE n \in Lists(type) /\ ~ Holed(type, n, o.text)
    <3>1. ASSUME NEW i \in DOMAIN Get(type, m, n)
          PROVE  LET u == Get(type, m, n)
                     v == Get(type, b, n)
                 IN  IF IsNested(f) THEN ReadsAs2(f.kind, u[i], v[i], Way(o.text)) ELSE u[i] = v[i]
      <4>1. /\ n \in DOMAIN m /\ n \in DOMAIN obj /\ Get(type, m, n) = m[n]
            /\ obj[n] = y[n] /\ Get(type, b, n) = z[n]
        BY <1>6, <2>3
      <4>2. y[n] = [j \in DOMAIN m[n] |->
                       (IF IsNested(Schema[type][n])
                        THEN ToObject2(Schema[type][n].kind, m[n][j], o)
                        ELSE m[n][j])]
        BY <1>4, <2>3, <4>1
      <4>3. z[n] = [j \in DOMAIN obj[n] |->
                       (IF IsNested(Schema[type][n])
                        THEN FromObject2(Schema[type][n].kind, obj[n][j], o.text)
                        ELSE obj[n][j])]
        BY <1>5, <2>3, <4>1
      <4>4. i \in DOMAIN m[n]
        BY <4>1
      <4>5. obj[n][i] = (IF IsNested(Schema[type][n])
                         THEN ToObject2(Schema[type][n].kind, m[n][i], o)
                         ELSE m[n][i]) /\ i \in DOMAIN obj[n]
        BY <4>1, <4>2, <4>4
      <4>6. z[n][i] = (IF IsNested(Schema[type][n])
                       THEN FromObject2(Schema[type][n].kind, obj[n][i], o.text)
                       ELSE obj[n][i])
        BY <4>3, <4>5
      <4>7. QED
        BY <2>1, <2>2, <2>3, <4>1, <4>4, <4>5, <4>6 DEF Range
    <3>2. QED
      BY <1>6, <2>1, <2>3, <3>1 DEF Holed
  <2>7. CASE Holed(type, n, o.text)
    BY <1>6, <2>1, <2>7 DEF Holed
  <2>4. CASE n \notin Lists(type) /\ n \in DOMAIN m
    <3>1. Get(type, m, n) = m[n] /\ IsSet(m, n)
      BY <2>4 DEF Get, IsSet
    <3>2. CASE Gone(f, m[n], o.text)
      <4>1. n \notin DOMAIN b /\ ~ IsNested(f)
        BY <1>6, <2>1, <2>4, <3>2 DEF Gone
      <4>2. f.label # "optional" => Get(type, b, n) = <<>>
        BY <2>1, <2>4, <3>2, <4>1 DEF Get, Default, Zero, Gone
      <4>3. QED
        BY <2>1, <2>4, <3>1, <3>2, <4>1, <4>2 DEF IsSet, Gone
    <3>3. CASE ~ Gone(f, m[n], o.text)
      <4>1. n \in DOMAIN obj /\ n \in DOMAIN b /\ b[n] = z[n] /\ obj[n] = y[n]
        BY <1>6, <2>4, <3>3
      <4>2. Get(type, b, n) = z[n] /\ IsSet(b, n)
        BY <4>1 DEF Get, IsSet
      <4>3. /\ obj[n] = (IF IsNested(Schema[type][n])
                         THEN ToObject2(Schema[type][n].kind, m[n], o)
                         ELSE m[n])
            /\ z[n] = (IF IsNested(Schema[type][n])
                       THEN FromObject2(Schema[type][n].kind, obj[n], o.text)
                       ELSE obj[n])
        BY <1>4, <1>5, <2>4, <4>1
      <4>4. QED
        BY <2>1, <2>2, <2>4, <3>1, <4>2, <4>3
    <3>4. QED
      BY <3>2, <3>3
  <2>5. CASE n \notin Lists(type) /\ n \notin DOMAIN m
    <3>1. /\ f.label = "optional" => n \notin DOMAIN b
          /\ Get(type, b, n) = Get(type, m, n)
      BY <1>6, <2>5
    <3>2. QED
      BY <2>1, <2>5, <3>1 DEF IsSet
  <2>6. QED
    BY <2>3, <2>4, <2>5, <2>7
<1>8. QED
  BY <1>7 DEF Way, Losable, Gone, ReadsAs3, ReadsAsWith, b, obj

\* Level 4.
LEMMA Object4Back ==
    ASSUME NEW type \in Level4, NEW m, IsMessage(type, m), NEW o \in Options
    PROVE  ReadsAs(type, m, FromObject(type, ToObject(type, m, o), o.text), Way(o.text))
<1> DEFINE obj == ToObject(type, m, o)
           b == FromObject(type, obj, o.text)
           Y(n) == CASE Schema[type][n].label = "repeated" ->
                          [i \in DOMAIN m[n] |->
                              (IF IsNested(Schema[type][n])
                               THEN ToObject3(Schema[type][n].kind, m[n][i], o)
                               ELSE m[n][i])]
                     [] Schema[type][n].label # "repeated" /\ IsNested(Schema[type][n]) ->
                          ToObject3(Schema[type][n].kind, m[n], o)
                     [] OTHER -> m[n]
           A(n) == Assigned(Schema[type][n], obj[n], o.text)
           Z(n) == CASE Schema[type][n].label = "repeated" ->
                          [i \in DOMAIN A(n) |->
                              (IF IsNested(Schema[type][n])
                               THEN FromObject3(Schema[type][n].kind, A(n)[i], o.text)
                               ELSE A(n)[i])]
                     [] Schema[type][n].label # "repeated" /\ IsNested(Schema[type][n]) ->
                          FromObject3(Schema[type][n].kind, A(n), o.text)
                     [] OTHER -> A(n)
           y == [n \in DOMAIN m |-> Y(n)]
           z == [n \in DOMAIN obj |-> Z(n)]
<1>1. type \in Types /\ HasShape(type, m)
  BY TypesAre, Message4Is DEF Level1, Level2, Level3, Level4
<1>2. IsObject(obj, type, m, o, y)
  <2> DEFINE D == SetIn(type, m) \cup DefaultsOf(type, o) \cup {OneofName(f) : f \in OneofsOf(type, m, o)}
  <2>1. obj = [n \in D |-> CASE n \in SetIn(type, m) -> Y(n)
                             [] n \in DefaultsOf(type, o) \ SetIn(type, m) -> Default(Schema[type][n])
                             [] OTHER -> CHOOSE f \in OneofsOf(type, m, o) : OneofName(f) = n]
    BY DEF ToObject, ToObjectWith, Converted, Each, SetIn, DefaultsOf, OneofsOf
  <2>2. \A n \in SetIn(type, m) : y[n] = Y(n)
    BY DEF SetIn, IsSet
  <2> HIDE DEF obj, Y, y
  <2>3. QED
    BY <2>1, <2>2 DEF IsObject
<1>3. IsMade(b, type, obj, o.text, z)
  <2>1. b = [n \in Taken(type, obj, o.text) \cup Lists(type) |->
               IF n \in Taken(type, obj, o.text) THEN Z(n) ELSE <<>>]
    BY DEF FromObject, FromObjectWith, Converted, Each
  <2>2. \A n \in Taken(type, obj, o.text) : z[n] = Z(n)
    BY DEF Taken, IsSet
  <2> HIDE DEF b, z, Z
  <2>3. QED
    BY <2>1, <2>2 DEF IsMade
<1>4. ASSUME NEW n \in DOMAIN m
      PROVE  /\ n \in Lists(type) => y[n] = [i \in DOMAIN m[n] |->
                                                (IF IsNested(Schema[type][n])
                                                 THEN ToObject3(Schema[type][n].kind, m[n][i], o)
                                                 ELSE m[n][i])]
             /\ n \notin Lists(type) => y[n] = (IF IsNested(Schema[type][n])
                                                THEN ToObject3(Schema[type][n].kind, m[n], o)
                                                ELSE m[n])
  BY <1>1, Labels DEF HasShape
<1>5. ASSUME NEW n \in DOMAIN obj, n \in Fields(type)
      PROVE  /\ n \in Lists(type) /\ ~ Holed(type, n, o.text) => z[n] = [i \in DOMAIN obj[n] |->
                                                (IF IsNested(Schema[type][n])
                                                 THEN FromObject3(Schema[type][n].kind, obj[n][i], o.text)
                                                 ELSE obj[n][i])]
             /\ Holed(type, n, o.text) => z[n] = [i \in DOMAIN A(n) |-> A(n)[i]]
             /\ n \notin Lists(type) => z[n] = (IF IsNested(Schema[type][n])
                                                THEN FromObject3(Schema[type][n].kind, obj[n], o.text)
                                                ELSE obj[n])
  <2> HIDE DEF obj
  <2>1. ~ Holed(type, n, o.text) => A(n) = obj[n]
    BY <1>1, <1>5, Labels DEF Assigned, Holed
  <2>2. Holed(type, n, o.text) => n \in Lists(type) /\ ~ IsNested(Schema[type][n])
    BY <1>1, <1>5, Labels DEF Holed
  <2>3. n \notin Lists(type) => ~ Holed(type, n, o.text)
    BY DEF Holed
  <2> HIDE DEF A
  <2>4. QED
    BY <1>1, <1>5, <2>1, <2>2, <2>3, Labels
<1> HIDE DEF obj, b, Y, Z, A, y, z
<1>6. ASSUME NEW n \in Fields(type)
      PROVE  /\ n \in Lists(type) =>
                 /\ Holed(type, n, o.text) => Punched(Get(type, m, n), Get(type, b, n))
                 /\ ~ Holed(type, n, o.text) => Len(Get(type, b, n)) = Len(Get(type, m, n))
                 /\ DOMAIN Get(type, m, n) # {} =>
                       /\ n \in DOMAIN m /\ n \in DOMAIN obj
                       /\ Get(type, m, n) = m[n]
                       /\ obj[n] = y[n] /\ Get(type, b, n) = z[n]
             /\ n \notin Lists(type) /\ n \in DOMAIN m =>
                   IF Gone(Schema[type][n], m[n], o.text)
                   THEN n \notin DOMAIN b
                   ELSE n \in DOMAIN obj /\ n \in DOMAIN b /\ b[n] = z[n] /\ obj[n] = y[n]
             /\ n \notin Lists(type) /\ n \notin DOMAIN m =>
                   /\ Schema[type][n].label = "optional" => n \notin DOMAIN b
                   /\ Get(type, b, n) = Get(type, m, n)
  <2>1. ContentsOf(y, m, type, TRUE)
    BY <1>1, <1>4 DEF ContentsOf, Assigned
  <2>2. ContentsOf(z, obj, type, o.text)
    <3>1. ASSUME NEW k \in DOMAIN obj \cap Fields(type), ~ Holed(type, k, o.text)
          PROVE  Assigned(Schema[type][k], obj[k], o.text) = obj[k]
      BY <1>1, <3>1, Labels DEF Assigned, Holed
    <3>2. \A k : Holed(type, k, o.text) => k \in Lists(type)
      BY DEF Holed
    <3> SUFFICES ASSUME NEW k \in DOMAIN obj \cap Fields(type)
                 PROVE  IF k \in Lists(type)
                        THEN LET list == Assigned(Schema[type][k], obj[k], o.text)
                             IN  /\ DOMAIN z[k] = DOMAIN list /\ z[k] = [i \in DOMAIN z[k] |-> z[k][i]]
                                 /\ ~ IsNested(Schema[type][k]) =>
                                       \A i \in DOMAIN list : z[k][i] = list[i]
                        ELSE ~ IsNested(Schema[type][k]) => z[k] = obj[k]
      BY DEF ContentsOf
    <3>3. A(k) = Assigned(Schema[type][k], obj[k], o.text)
      BY DEF A
    <3>4. CASE Holed(type, k, o.text)
      <4>1. z[k] = [i \in DOMAIN A(k) |-> A(k)[i]] /\ k \in Lists(type)
        BY <1>5, <3>2, <3>4
      <4> HIDE DEF A
      <4>2. QED
        BY <3>3, <4>1
    <3>5. CASE ~ Holed(type, k, o.text) /\ k \in Lists(type)
      <4>1. /\ DOMAIN z[k] = DOMAIN obj[k] /\ z[k] = [i \in DOMAIN z[k] |-> z[k][i]]
            /\ ~ IsNested(Schema[type][k]) => \A i \in DOMAIN obj[k] : z[k][i] = obj[k][i]
        BY <1>5, <3>5
      <4>2. QED
        BY <3>1, <3>5, <4>1
    <3>7. CASE k \notin Lists(type)
      BY <1>5, <3>7
    <3>6. QED
      BY <3>4, <3>5, <3>7
  <2>3. SurvivesAs(b, m, type, n, y, obj, z, o.text)
    BY <1>1, <1>2, <1>3, <2>1, <2>2, ThroughObject
  <2>4. QED
    BY <2>3 DEF SurvivesAs
<1>7. ASSUME NEW n \in Fields(type)
      PROVE  LET f == Schema[type][n]
                 u == Get(type, m, n)
                 v == Get(type, b, n)
             IN  CASE f.label = "repeated" ->
                          IF f.kind = "bytes" /\ ~ o.text THEN Punched(u, v)
                          ELSE Len(u) = Len(v) /\ \A i \in DOMAIN u : IF IsNested(f)
                                                                 THEN ReadsAs3(f.kind, u[i], v[i], Way(o.text))
                                                                 ELSE u[i] = v[i]
                   [] f.label = "optional" /\ ~ (IsSet(m, n) /\ IsSet(b, n)) ->
                          /\ ~ IsSet(b, n)
                          /\ IsSet(m, n) => Gone(f, u, o.text)
                   [] OTHER -> IF IsNested(f) THEN ReadsAs3(f.kind, u, v, Way(o.text)) ELSE u = v
  <2> DEFINE f == Schema[type][n]
  <2>1. /\ f.label \in {"repeated", "optional", "plain", "required"}
        /\ n \in Lists(type) <=> f.label = "repeated"
        /\ IsNested(f) => f.label \in {"repeated", "optional"} /\ f.kind \notin {"bytes", "enum"}
        /\ f.kind = "enum" => f.label = "optional"
    BY <1>1, Labels
  <2>2. ASSUME n \in DOMAIN m, IsNested(f),
               NEW v \in (IF f.label = "repeated" THEN Range(m[n]) ELSE {m[n]})
        PROVE  ReadsAs3(f.kind, v, FromObject3(f.kind, ToObject3(f.kind, v, o), o.text), Way(o.text))
    <3>1. f.kind \in Level3
      BY <1>1, <2>2, AllDeclared, TypesAre DEF Declared, Fields, IsNested, Level4
    <3>2. v \in Range(Written(type, m, n))
      BY <1>1, <2>2, RangeOfWritten
    <3>3. IsMessage3(f.kind, v)
      BY <1>1, <2>2, <3>2, Message4Is DEF Range
    <3>4. QED
      BY <3>1, <3>3, Object3Back
  <2>3. CASE n \in Lists(type) /\ ~ Holed(type, n, o.text)
    <3>1. ASSUME NEW i \in DOMAIN Get(type, m, n)
          PROVE  LET u == Get(type, m, n)
                     v == Get(type, b, n)
                 IN  IF IsNested(f) THEN ReadsAs3(f.kind, u[i], v[i], Way(o.text)) ELSE u[i] = v[i]
      <4>1. /\ n \in DOMAIN m /\ n \in DOMAIN obj /\ Get(type, m, n) = m[n]
            /\ obj[n] = y[n] /\ Get(type, b, n) = z[n]
        BY <1>6, <2>3
      <4>2. y[n] = [j \in DOMAIN m[n] |->
                       (IF IsNested(Schema[type][n])
                        THEN ToObject3(Schema[type][n].kind, m[n][j], o)
                        ELSE m[n][j])]
        BY <1>4, <2>3, <4>1
      <4>3. z[n] = [j \in DOMAIN obj[n] |->
                       (IF IsNested(Schema[type][n])
                        THEN FromObject3(Schema[type][n].kind, obj[n][j], o.text)
                        ELSE obj[n][j])]
        BY <1>5, <2>3, <4>1
      <4>4. i \in DOMAIN m[n]
        BY <4>1
      <4>5. obj[n][i] = (IF IsNested(Schema[type][n])
                         THEN ToObject3(Schema[type][n].kind, m[n][i], o)
                         ELSE m[n][i]) /\ i \in DOMAIN obj[n]
        BY <4>1, <4>2, <4>4
      <4>6. z[n][i] = (IF IsNested(Schema[type][n])
                       THEN FromObject3(Schema[type][n].kind, obj[n][i], o.text)
                       ELSE obj[n][i])
        BY <4>3, <4>5
      <4>7. QED
        BY <2>1, <2>2, <2>3, <4>1, <4>4, <4>5, <4>6 DEF Range
    <3>2. QED
      BY <1>6, <2>1, <2>3, <3>1 DEF Holed
  <2>7. CASE Holed(type, n, o.text)
    BY <1>6, <2>1, <2>7 DEF Holed
  <2>4. CASE n \notin Lists(type) /\ n \in DOMAIN m
    <3>1. Get(type, m, n) = m[n] /\ IsSet(m, n)
      BY <2>4 DEF Get, IsSet
    <3>2. CASE Gone(f, m[n], o.text)
      <4>1. n \notin DOMAIN b /\ ~ IsNested(f)
        BY <1>6, <2>1, <2>4, <3>2 DEF Gone
      <4>2. f.label # "optional" => Get(type, b, n) = <<>>
        BY <2>1, <2>4, <3>2, <4>1 DEF Get, Default, Zero, Gone
      <4>3. QED
        BY <2>1, <2>4, <3>1, <3>2, <4>1, <4>2 DEF IsSet, Gone
    <3>3. CASE ~ Gone(f, m[n], o.text)
      <4>1. n \in DOMAIN obj /\ n \in DOMAIN b /\ b[n] = z[n] /\ obj[n] = y[n]
        BY <1>6, <2>4, <3>3
      <4>2. Get(type, b, n) = z[n] /\ IsSet(b, n)
        BY <4>1 DEF Get, IsSet
      <4>3. /\ obj[n] = (IF IsNested(Schema[type][n])
                         THEN ToObject3(Schema[type][n].kind, m[n], o)
                         ELSE m[n])
            /\ z[n] = (IF IsNested(Schema[type][n])
                       THEN FromObject3(Schema[type][n].kind, obj[n], o.text)
                       ELSE obj[n])
        BY <1>4, <1>5, <2>4, <4>1
      <4>4. QED
        BY <2>1, <2>2, <2>4, <3>1, <4>2, <4>3
    <3>4. QED
      BY <3>2, <3>3
  <2>5. CASE n \notin Lists(type) /\ n \notin DOMAIN m
    <3>1. /\ f.label = "optional" => n \notin DOMAIN b
          /\ Get(type, b, n) = Get(type, m, n)
      BY <1>6, <2>5
    <3>2. QED
      BY <2>1, <2>5, <3>1 DEF IsSet
  <2>6. QED
    BY <2>3, <2>4, <2>5, <2>7
<1>8. QED
  BY <1>7 DEF Way, Losable, Gone, ReadsAs, ReadsAsWith, b, obj

-----------------------------------------------------------------------------
(* Messages on their way.                                                     *)

\* What became of a message that was read.
OutIs ==
    \/ out.form = "wire" /\ out.value = Encode(kind, got)
    \/ /\ out.form = "object"
       /\ out.options \in Options /\ out.value = ToObject(kind, got, out.options)
    \/ /\ out.form = "message"
       /\ out.options \in Options
       /\ out.value = FromObject(kind, ToObject(kind, got, out.options), out.options.text)

\* What another implementation does to a wire does not change what is decoded.
MessageInv ==
    /\ liberties \in Nat
    /\ kind = Nothing => got = Nothing /\ liberties = 0
    /\ kind \in Types =>
          /\ IsMessage(kind, thing)
          /\ IsList(wire)
          /\ Decode(kind, wire) = Decode(kind, Encode(kind, thing))
          /\ liberties = 0 => wire = Encode(kind, thing)
          /\ got # Nothing => got = Decode(kind, wire)
    /\ out # Nothing => kind \in Types /\ got # Nothing /\ OutIs

LEMMA MessageInit == Init => MessageInv
  BY KindsAssumption DEF Init, MessageInv

LEMMA WireIsList ==
    ASSUME NEW type \in Types, NEW m, IsMessage(type, m)
    PROVE  IsList(Encode(type, m))
<1>1. HasShape(type, m)
  BY Message4Is
<1>2. ASSUME NEW n \in Fields(type) PROVE IsList(Encoded4(type, m)[n])
  <2>1. IsList(Written(type, m, n))
    BY <1>1, WrittenIs
  <2> DEFINE e == Encoded4(type, m)[n]
  <2>2. DOMAIN e = DOMAIN Written(type, m, n) /\ e = [i \in DOMAIN e |-> e[i]]
    BY DEF Encoded4
  <2> HIDE DEF e
  <2>3. IsList(e)
    BY <2>1, <2>2, MappedList
  <2>4. QED
    BY <2>3 DEF e
<1>3. IsList(Wire(type, Encoded4(type, m)))
  BY <1>2, WireDoes
<1>4. QED
  BY <1>3, Encode4Is

LEMMA MessageStep ==
    ASSUME MessageInv, [Next]_vars
    PROVE  MessageInv'
<1>1. CASE UNCHANGED vars
  BY <1>1 DEF MessageInv, OutIs, vars
<1>2. ASSUME NEW type \in Types, kind = Nothing, WriteMessage(type) PROVE MessageInv'
  <2>1. PICK m \in Samples[type] : Send(type, m, Encode(type, m))
    BY <1>2 DEF WriteMessage
  <2>2. IsMessage(type, m)
    BY SamplesAssumption
  <2>3. IsList(Encode(type, m))
    BY <2>2, WireIsList
  <2>4. type # Nothing
    BY KindsAssumption
  <2>5. kind' = type /\ thing' = m /\ wire' = Encode(type, m) /\ got' = got /\ out' = out /\ liberties' = liberties
    BY <2>1 DEF Send
  <2>6. got = Nothing /\ liberties = 0 /\ out = Nothing
    BY <1>2, KindsAssumption DEF MessageInv
  <2>7. QED
    BY <2>2, <2>3, <2>4, <2>5, <2>6 DEF MessageInv
<1>3. ASSUME kind = Nothing, WriteEntry \/ WriteSealed \/ WriteId PROVE MessageInv'
  <2>1. PICK k \in AppKinds : \E value, bytes : Send(k, value, bytes)
    BY <1>3 DEF WriteEntry, WriteSealed, WriteId, AppKinds
  <2>2. kind' = k /\ got' = got /\ out' = out /\ liberties' = liberties
    BY <2>1 DEF Send
  <2>3. k # Nothing /\ k \notin Types
    BY KindsAssumption, TypesAre DEF AppKinds, Level1, Level2, Level3, Level4
  <2>4. got = Nothing /\ liberties = 0 /\ out = Nothing
    BY <1>3, KindsAssumption DEF MessageInv
  <2>5. QED
    BY <2>2, <2>3, <2>4 DEF MessageInv
<1>4. ASSUME kind \in Types, got = Nothing,
             NEW bytes, Rewrite(bytes), IsList(bytes), Alike(kind, bytes, wire)
      PROVE  MessageInv'
  <2>1. Decode(kind, bytes) = Decode(kind, wire)
    BY <1>4, DecodeAlike
  <2>2. /\ wire' = bytes /\ liberties' = liberties + 1
        /\ kind' = kind /\ thing' = thing /\ got' = got /\ out' = out
    BY <1>4 DEF Rewrite
  <2>3. liberties' \in Nat /\ liberties' # 0 /\ kind # Nothing /\ out = Nothing
    BY <1>4, <2>2, KindsAssumption DEF MessageInv
  <2>4. QED
    BY <1>4, <2>1, <2>2, <2>3 DEF MessageInv
<1>5. CASE MayRewrite /\ AddUnknown
  <2>1. kind \in Types /\ got = Nothing /\ IsList(wire)
    BY <1>5 DEF MayRewrite, MessageInv
  <2>2. PICK i \in 1 .. Len(wire) + 1 : Rewrite(InsertAt(wire, i, <<UnknownTag, 1>>))
    BY <1>5 DEF AddUnknown
  <2>3. <<UnknownTag, 1>>[1] \notin 1 .. 6
    BY DEF UnknownTag
  <2> DEFINE w == <<UnknownTag, 1>>
  <2>4. w[1] \notin 1 .. 6 /\ Rewrite(InsertAt(wire, i, w))
    BY <2>2, <2>3
  <2> HIDE DEF w
  <2>5. IsList(InsertAt(wire, i, w)) /\ Alike(kind, InsertAt(wire, i, w), wire)
    BY <2>1, <2>4, InsertedAlike
  <2>6. QED
    BY <1>4, <2>1, <2>4, <2>5
<1>6. CASE MayRewrite /\ Supersede
  <2>1. kind \in Types /\ got = Nothing /\ IsList(wire)
    BY <1>6 DEF MayRewrite, MessageInv
  <2>2. PICK n \in Fields(kind) \ Lists(kind) :
           /\ ValuesOf(Schema[kind][n], wire) # <<>>
           /\ \E v : Rewrite(<<<<Schema[kind][n].tag, v>>>> \o wire)
    BY <1>6 DEF Supersede
  <2>3. PICK v : Rewrite(<<<<Schema[kind][n].tag, v>>>> \o wire)
    BY <2>2
  <2>4. /\ IsList(<<<<Schema[kind][n].tag, v>>>> \o wire)
        /\ Alike(kind, <<<<Schema[kind][n].tag, v>>>> \o wire, wire)
    BY <2>1, <2>2, PrependedAlike
  <2>5. QED
    BY <1>4, <2>1, <2>3, <2>4
<1>7. CASE MayRewrite /\ Reorder
  <2>1. kind \in Types /\ got = Nothing /\ IsList(wire)
    BY <1>7 DEF MayRewrite, MessageInv
  <2>2. PICK i \in 1 .. Len(wire) - 1 :
           /\ wire[i][1] # wire[i + 1][1]
           /\ Rewrite([wire EXCEPT ![i] = wire[i + 1], ![i + 1] = wire[i]])
    BY <1>7 DEF Reorder
  <2> DEFINE swapped == [wire EXCEPT ![i] = wire[i + 1], ![i + 1] = wire[i]]
  <2>3. IsList(swapped) /\ Alike(kind, swapped, wire)
    BY <2>1, <2>2, SwappedAlike
  <2> HIDE DEF swapped
  <2>4. Rewrite(swapped)
    BY <2>2 DEF swapped
  <2>5. QED
    BY <1>4, <2>1, <2>3, <2>4
<1>8. CASE ReadMessage
  BY <1>8 DEF MessageInv, ReadMessage, Receive
<1>9. ASSUME ReadEntry \/ (\E d \in Domains : ReadSealed(d)) \/ ReadId PROVE MessageInv'
  <2>1. /\ kind \in AppKinds /\ kind # Nothing
        /\ UNCHANGED <<kind, thing, wire, out, liberties>>
    BY <1>9 DEF ReadEntry, ReadSealed, ReadId, Receive, AppKinds
  <2>2. kind \notin Types
    BY <2>1, TypesAre DEF AppKinds, Level1, Level2, Level3, Level4
  <2>3. QED
    BY <2>1, <2>2 DEF MessageInv
<1>10. ASSUME got # Nothing, kind \in Types, NEW form, NEW value, NEW options, Become(form, value, options),
              \/ form = "wire" /\ value = Encode(kind, got)
              \/ form = "object" /\ options \in Options /\ value = ToObject(kind, got, options)
              \/ /\ form = "message" /\ options \in Options
                 /\ value = FromObject(kind, ToObject(kind, got, options), options.text)
       PROVE  MessageInv'
  <2>1. /\ out'.form = form /\ out'.value = value /\ out'.options = options
        /\ UNCHANGED <<kind, thing, wire, got, liberties>>
    BY <1>10 DEF Become
  <2>2. OutIs'
    BY <1>10, <2>1 DEF OutIs
  <2>3. QED
    BY <1>10, <2>1, <2>2 DEF MessageInv
<1>11. ASSUME got # Nothing, kind \in Types, Forward PROVE MessageInv'
  BY <1>10, <1>11 DEF Forward
<1>12. ASSUME got # Nothing, kind \in Types, MakeObject PROVE MessageInv'
  <2>1. PICK o \in Options : Become("object", ToObject(kind, got, o), o)
    BY <1>12 DEF MakeObject
  <2>2. QED
    BY <1>10, <1>12, <2>1
<1>13. ASSUME got # Nothing, kind \in Types, ReadObject PROVE MessageInv'
  <2>1. out # Nothing /\ out.form = "object"
    BY <1>13 DEF ReadObject
  <2>2. out.options \in Options /\ out.value = ToObject(kind, got, out.options)
    BY <2>1 DEF MessageInv, OutIs
  <2>3. Become("message", FromObject(kind, out.value, out.options.text), out.options)
    BY <1>13 DEF ReadObject
  <2>4. QED
    BY <1>10, <1>13, <2>2, <2>3
<1>14. QED
  BY <1>1, <1>2, <1>3, <1>5, <1>6, <1>7, <1>8, <1>9, <1>11, <1>12, <1>13 DEF Next

LEMMA MessageInvHolds == Spec => []MessageInv
<1>1. MessageInv /\ [Next]_vars => MessageInv'
  BY MessageStep
<1>2. QED
  BY <1>1, MessageInit, PTL DEF Spec

\* Whatever other implementations of protobuf change on the way, a message reads
\* as the one that was written, and is forwarded in the canonical bytes, for
\* messages of any type with lists of any length. (decode() and encode().)
THEOREM MessagesArriveAlways == Spec => []MessagesArrive
<1>1. ASSUME MessageInv PROVE MessagesArrive
  <2> SUFFICES ASSUME got # Nothing, kind \in Types
               PROVE  /\ ReadsAs(kind, thing, got, "wire")
                      /\ Became("wire") =>
                            /\ Decode(kind, out.value) = got
                            /\ liberties = 0 => out.value = wire
    BY DEF MessagesArrive, Arrived
  <2>1. /\ IsMessage(kind, thing) /\ got = Decode(kind, Encode(kind, thing))
        /\ liberties = 0 => wire = Encode(kind, thing)
    BY <1>1 DEF MessageInv
  <2>2. ReadsAs(kind, thing, got, "wire") /\ Encode(kind, got) = Encode(kind, thing)
    BY <2>1, Message4Back, TypesAre
  <2>3. Became("wire") => out.value = Encode(kind, got)
    BY <1>1 DEF MessageInv, OutIs, Became
  <2>4. QED
    BY <2>1, <2>2, <2>3
<1>2. QED
  BY <1>1, MessageInvHolds, PTL

\* The message made of the object of a message reads as that one, for every
\* message and all options; only empty buffers that are not text become unset.
\* (fromObject() and toObject().)
THEOREM ObjectsAgreeAlways == Spec => []ObjectsAgree
<1>1. ASSUME MessageInv PROVE ObjectsAgree
  <2> SUFFICES ASSUME out # Nothing, out.form = "message"
               PROVE  ReadsAs(kind, got, out.value, IF out.options.text THEN "text" ELSE "buffers")
    BY DEF ObjectsAgree, Became
  <2>1. /\ kind \in Types /\ out.options \in Options
        /\ out.value = FromObject(kind, ToObject(kind, got, out.options), out.options.text)
    BY <1>1 DEF MessageInv, OutIs
  <2>2. IsMessage(kind, thing) /\ got = Decode(kind, Encode(kind, thing))
    BY <1>1 DEF MessageInv
  <2>3. IsMessage(kind, got)
    BY <2>1, <2>2, Message4Back, TypesAre
  <2>4. QED
    BY <2>1, <2>3, Object4Back, TypesAre DEF Way
<1>2. QED
  BY <1>1, MessageInvHolds, PTL

-----------------------------------------------------------------------------
(* Peer ids.                                                                  *)

\* The id of a key, with the keys that it holds.
IdOf(k, publicKey, privateKey) ==
    IF k \in Ed25519Keys THEN Id("Ed25519", Identity(k), k, privateKey)
    ELSE IF k \in Secp256k1Keys THEN Id("secp256k1", Identity(k), k, privateKey)
    ELSE Id("RSA", Sha256(k), publicKey, privateKey)

LEMMA SampleIdsAre ==
    ASSUME NEW id \in SampleIds
    PROVE  \E k \in Keys : \E publicKey, privateKey \in {k, Null} :
              /\ privateKey = k => publicKey = k
              /\ id = IdOf(k, publicKey, privateKey)
<1>1. ASSUME NEW k \in Keys, NEW privateKey
      PROVE  PeerIdFromKeys(k, privateKey) = IdOf(k, k, privateKey)
  BY KeysAreDistinct DEF PeerIdFromKeys, PublicKeyLength, Ed25519Length, Secp256k1Length, RSALength,
     IdOf, Ed25519PeerId, Secp256k1PeerId, RSAPeerId, Identity, Id, Keys
<1>2. ASSUME NEW k \in Keys
      PROVE  PeerIdFromBytes(ToBytes(IdOf(k, k, Null))) = IdOf(k, Null, Null)
  BY KeysAreDistinct DEF PeerIdFromBytes, ToBytes, Bytes, IdOfLength, PublicKeyLength,
     Ed25519Length,
     Secp256k1Length, RSALength, IdOf, Ed25519PeerId, Secp256k1PeerId, RSAPeerId, Identity, Sha256, Id, Keys
<1>3. CASE \E k \in Keys : id = CreateFromPrivKey(k)
  BY <1>1, <1>3 DEF CreateFromPrivKey
<1>4. CASE \E k \in Keys : id = CreateFromPubKey(k)
  BY <1>1, <1>4 DEF CreateFromPubKey
<1>5. CASE \E k \in Keys : id = PeerIdFromBytes(ToBytes(CreateFromPubKey(k)))
  BY <1>1, <1>2, <1>5, NullAssumption DEF CreateFromPubKey
<1>6. QED
  BY <1>3, <1>4, <1>5 DEF SampleIds

\* A field of a flat message is read as it was written.
LEMMA FlatFields ==
    ASSUME NEW type \in Types, NEW m, IsMessage(type, m),
           NEW n \in Fields(type), ~ IsNested(Schema[type][n])
    PROVE  /\ n \notin Lists(type) => Get(type, Decode(type, Encode(type, m)), n) = Get(type, m, n)
           /\ n \in Lists(type) =>
                 LET a == Get(type, m, n)
                     b == Get(type, Decode(type, Encode(type, m)), n)
                 IN  Len(a) = Len(b) /\ \A i \in DOMAIN a : a[i] = b[i]
<1> DEFINE d == Decode(type, Encode(type, m))
<1>1. ReadsAs(type, m, d, "wire")
  BY Message4Back, TypesAre
<1> HIDE DEF d
<1>2. LET f == Schema[type][n]
          a == Get(type, m, n)
          b == Get(type, d, n)
      IN  CASE f.label = "repeated" -> Len(a) = Len(b) /\ \A i \in DOMAIN a : a[i] = b[i]
            [] f.label = "optional" /\ ~ (IsSet(m, n) /\ IsSet(d, n)) ->
                   ~ IsSet(d, n) /\ (IsSet(m, n) => FALSE)
            [] OTHER -> a = b
  BY <1>1 DEF ReadsAs, ReadsAsWith, Losable
<1>3. CASE n \in Lists(type)
  BY <1>2, <1>3, Labels DEF d
<1>4. CASE n \notin Lists(type)
  <2>1. ~ IsSet(d, n) /\ ~ IsSet(m, n) => Get(type, d, n) = Get(type, m, n)
    BY DEF IsSet, Get
  <2>2. QED
    BY <1>2, <1>4, <2>1, Labels DEF d
<1>5. QED
  BY <1>3, <1>4

LEMMA PeerIdProtoIs ==
    /\ "PeerIdProto" \in Types
    /\ Fields("PeerIdProto") = {"id", "pubKey", "privKey"}
    /\ Lists("PeerIdProto") = {}
    /\ \A n \in {"id", "pubKey", "privKey"} :
          ~ IsNested(Schema["PeerIdProto"][n]) /\ Schema["PeerIdProto"][n].kind = "bytes"
    /\ Schema["PeerIdProto"]["pubKey"].label = "plain"
    /\ Schema["PeerIdProto"]["privKey"].label = "plain"
<1>1. Schema["PeerIdProto"] = [id |-> Field(1, "bytes", "required"), pubKey |-> Field(2, "bytes", "plain"),
                               privKey |-> Field(3, "bytes", "plain")]
  BY DEF Schema, PeerIdProtoFields, Required, Plain
<1>2. "bytes" \notin Types /\ "PeerIdProto" \in Types
  BY TypesAre DEF Level1, Level2, Level3, Level4
<1>3. QED
  BY <1>1, <1>2 DEF Fields, Lists, IsNested, Field

\* A stored id is read from its private key, and refused without one.
LEMMA ExportedIds ==
    ASSUME NEW id, NEW exclude \in BOOLEAN,
           id.privateKey \in Keys \cup {Null}
    PROVE  CreateFromProtobuf(ExportToProtobuf(id, exclude))
              = IF exclude \/ id.privateKey = Null THEN Invalid
                ELSE CreateFromPrivKey(id.privateKey)
<1> DEFINE type == "PeerIdProto"
           privKey == IF exclude THEN Null ELSE Buffer(id.privateKey)
           m == Without([id |-> <<ToBytes(id)>>, pubKey |-> Buffer(id.publicKey), privKey |-> privKey],
                        {"pubKey", "privKey"})
           bytes == Encode(type, m)
           d == Decode(type, bytes)
<1>1. ExportToProtobuf(id, exclude) = bytes
  BY DEF ExportToProtobuf
<1>2. /\ DOMAIN m \subseteq {"id", "pubKey", "privKey"}
      /\ "privKey" \in DOMAIN m <=> privKey # Null
      /\ "privKey" \in DOMAIN m => m["privKey"] = privKey
  BY DEF Without
<1> HIDE DEF m
<1>3. IsMessage(type, m)
  BY <1>2, PeerIdProtoIs DEF IsMessage, IsMessageWith, Lists
<1>4. ~ Incomplete(type, bytes)
  BY <1>3, Message4Is, Complete, PeerIdProtoIs
<1>5. Get(type, d, "privKey") = Get(type, m, "privKey")
  BY <1>3, FlatFields, PeerIdProtoIs
<1>6. Get(type, m, "privKey") = IF privKey = Null THEN <<>> ELSE privKey
  BY <1>2, PeerIdProtoIs DEF Get, Default, Zero
<1> HIDE DEF bytes
<1>7. CreateFromProtobuf(bytes) = CreateFromParts(Get(type, d, "id")[1], Get(type, d, "privKey"),
                                                 Get(type, d, "pubKey"))
  BY <1>4 DEF CreateFromProtobuf
<1> HIDE DEF d
<1>8. CASE exclude \/ id.privateKey = Null
  <2>1. Get(type, d, "privKey") = <<>> /\ <<>> # Null
    BY <1>5, <1>6, <1>8, NullAssumption DEF Buffer
  <2>2. QED
    BY <1>1, <1>7, <1>8, <2>1 DEF CreateFromParts
<1>9. CASE ~ (exclude \/ id.privateKey = Null)
  <2>1. privKey = <<id.privateKey>> /\ privKey # Null /\ privKey # <<>> /\ privKey[1] = id.privateKey
    BY <1>9, NullAssumption DEF Buffer
  <2>2. Get(type, d, "privKey") = privKey
    BY <1>5, <1>6, <2>1
  <2> HIDE DEF privKey
  <2>3. QED
    BY <1>1, <1>7, <1>9, <2>1, <2>2 DEF CreateFromParts
<1>10. QED
  BY <1>8, <1>9

-----------------------------------------------------------------------------
(* Entries, sealed records and ids on their way: nobody changes their bytes.  *)

IdRead(form, bytes) ==
    CASE form = "bytes" -> PeerIdFromBytes(bytes)
      [] form \in {"string", "text", "cidText"} -> PeerIdFromString(bytes)
      [] form = "cid" -> PeerIdFromCID(bytes)
      [] form = "json" -> CreateFromJSON(bytes)
      [] form \in {"protobuf", "publicProtobuf"} -> CreateFromProtobuf(bytes)
      [] form = "copy" -> PeerIdFromPeerId(bytes)

SealedRead(bytes, domain) ==
    LET opened == OpenAndCertify(bytes, domain)
    IN  IF opened.opens
        THEN [domain |-> domain, opens |-> TRUE, envelope |-> opened.envelope,
              record |-> RecordFromProtobuf(opened.envelope.payload)]
        ELSE [domain |-> domain, opens |-> FALSE]

ValueInv ==
    /\ kind = "entry" =>
          /\ thing \in Entries
          /\ wire = SaveEntry(thing)
          /\ got # Nothing => got = LoadEntry(wire, thing.idKey)
    /\ kind = "sealed" =>
          /\ thing.record \in SampleRecords /\ thing.id \in SampleIds /\ CanSeal(thing.id)
          /\ wire = MarshalEnvelope(Seal(thing.record, thing.domain, Codec, thing.id))
          /\ got # Nothing => \E domain : got = SealedRead(wire, domain)
    /\ kind = "id" =>
          /\ thing.id \in SampleIds /\ thing.form \in Forms
          /\ wire = WrittenId(thing.id, thing.form)
          /\ got # Nothing => got = IdRead(thing.form, wire)

LEMMA ValueInit == Init => ValueInv
  BY KindsAssumption DEF Init, ValueInv, AppKinds

LEMMA ValueStep ==
    ASSUME MessageInv, ValueInv, [Next]_vars
    PROVE  ValueInv'
<1>1. CASE UNCHANGED vars
  BY <1>1 DEF ValueInv, vars
<1>2. kind = Nothing => got = Nothing
  BY DEF MessageInv
<1>3. \A k \in Types : k \notin AppKinds
  BY TypesAre DEF AppKinds, Level1, Level2, Level3, Level4
<1>4. ASSUME NEW type \in Types, WriteMessage(type) PROVE ValueInv'
  <2>1. kind' = type
    BY <1>4 DEF WriteMessage, Send
  <2>2. QED
    BY <1>3, <2>1 DEF ValueInv, AppKinds
<1>5. ASSUME kind = Nothing, WriteEntry PROVE ValueInv'
  BY <1>2, <1>5 DEF ValueInv, WriteEntry, Send
<1>6. ASSUME kind = Nothing, WriteSealed PROVE ValueInv'
  <2>1. PICK r \in SampleRecords, d \in Domains, id \in SampleIds :
           /\ CanSeal(id)
           /\ Send("sealed", [record |-> r, domain |-> d, id |-> id], MarshalEnvelope(Seal(r, d, Codec, id)))
    BY <1>6 DEF WriteSealed
  <2>2. /\ kind' = "sealed" /\ got' = got
        /\ thing'.record = r /\ thing'.domain = d /\ thing'.id = id
        /\ wire' = MarshalEnvelope(Seal(r, d, Codec, id))
    BY <2>1 DEF Send
  <2>3. QED
    BY <1>2, <1>6, <2>1, <2>2 DEF ValueInv
<1>7. ASSUME kind = Nothing, WriteId PROVE ValueInv'
  <2>1. PICK id \in SampleIds, form \in Forms : Send("id", [id |-> id, form |-> form], WrittenId(id, form))
    BY <1>7 DEF WriteId
  <2>2. /\ kind' = "id" /\ got' = got /\ thing'.id = id /\ thing'.form = form
        /\ wire' = WrittenId(id, form)
    BY <2>1 DEF Send
  <2>3. QED
    BY <1>2, <1>7, <2>1, <2>2 DEF ValueInv
<1>8. ASSUME kind \in Types, kind' = kind PROVE ValueInv'
  BY <1>3, <1>8 DEF ValueInv, AppKinds
<1>9. CASE MayRewrite /\ (AddUnknown \/ Supersede \/ Reorder)
  BY <1>8, <1>9 DEF MayRewrite, AddUnknown, Supersede, Reorder, Rewrite
<1>10. CASE ReadMessage
  BY <1>8, <1>10 DEF ReadMessage, Receive
<1>11. CASE ReadEntry
  BY <1>11 DEF ValueInv, ReadEntry, Receive
<1>12. ASSUME NEW d \in Domains, ReadSealed(d) PROVE ValueInv'
  <2>1. kind = "sealed" /\ got' = SealedRead(wire, d) /\ UNCHANGED <<kind, thing, wire>>
    BY <1>12 DEF ReadSealed, Receive, SealedRead
  <2>2. QED
    BY <2>1 DEF ValueInv
<1>13. CASE ReadId
  <2>1. kind = "id" /\ got' = IdRead(thing.form, wire) /\ UNCHANGED <<kind, thing, wire>>
    BY <1>13 DEF ReadId, Receive, IdRead
  <2>2. QED
    BY <2>1 DEF ValueInv
<1>14. CASE kind \in Types /\ (Forward \/ MakeObject \/ ReadObject)
  BY <1>8, <1>14 DEF Forward, MakeObject, ReadObject, Become
<1>15. QED
  BY <1>1, <1>4, <1>5, <1>6, <1>7, <1>9, <1>10, <1>11, <1>12, <1>13, <1>14 DEF Next

LEMMA ValueInvHolds == Spec => []ValueInv
<1>1. MessageInv /\ ValueInv /\ [Next]_vars => ValueInv'
  BY ValueStep
<1>2. QED
  BY <1>1, ValueInit, MessageInvHolds, PTL DEF Spec

\* What the reader of a form makes of the id of a key.
IdIsKept(id, form, read) ==
    LET embedded == id.multihash.code = "identity"
        stored == form \in {"json", "protobuf", "copy"}
        refused == \/ form \in {"cid", "cidText"} /\ embedded
                   \/ form \in {"protobuf", "publicProtobuf"} /\
                         (form = "publicProtobuf" \/ id.privateKey = Null)
    IN  IF refused THEN read = Invalid
        ELSE /\ read.type = id.type
             /\ read.multihash = id.multihash
             /\ (embedded \/ stored) => read.publicKey = id.publicKey
             /\ stored => read.privateKey = id.privateKey

LEMMA FormsAreRead ==
    ASSUME NEW id \in SampleIds, NEW form \in Forms
    PROVE  IdIsKept(id, form, IdRead(form, WrittenId(id, form)))
<1>1. PICK k \in Keys : \E publicKey, privateKey \in {k, Null} :
         (privateKey = k => publicKey = k) /\ id = IdOf(k, publicKey, privateKey)
  BY SampleIdsAre
<1>2. PICK publicKey \in {k, Null}, privateKey \in {k, Null} :
         (privateKey = k => publicKey = k) /\ id = IdOf(k, publicKey, privateKey)
  BY <1>1
<1>3. k # Null /\ <<k>> # Null /\ <<>> # Null /\ <<k>> # <<>>
  BY NullAssumption
<1>4. id.privateKey \in {k, Null} /\ id.privateKey = privateKey
  BY <1>2 DEF IdOf, Id
<1>5. /\ ToBytes(id) = Bytes(id.multihash) /\ Bytes(id.multihash).form = "multihash"
      /\ Bytes(id.multihash).multihash = id.multihash
      /\ ToCID(id).form = "cid" /\ ToCID(id).version = 1 /\ ToCID(id).codec = "libp2p-key"
      /\ ToCID(id).multihash = id.multihash
  BY DEF ToBytes, Bytes, ToCID, CID
<1>6. CASE k \in Ed25519Keys
  <2>1. id = Id("Ed25519", Identity(k), k, privateKey) /\ PublicKeyLength(k) = Ed25519Length
    BY <1>2, <1>6, KeysAreDistinct DEF IdOf, PublicKeyLength
  <2> USE DEF Ed25519Length, Secp256k1Length, RSALength
  <2>2. id.multihash = Identity(k)
    BY <2>1 DEF Id
  <2>3. PeerIdFromBytes(ToBytes(id)) = Ed25519PeerId(id.multihash, Null)
    BY <1>5, <2>1, <2>2 DEF PeerIdFromBytes, IdOfLength, Identity
  <2>4. PeerIdFromCID(ToCID(id)) = Invalid
    BY <1>5, <2>1, <2>2 DEF PeerIdFromCID, IdOfLength, BytesLength, Identity
  <2>5. PeerIdFromString(IdToString(id)) = Ed25519PeerId(id.multihash, Null)
    BY <1>5, <2>1, <2>2 DEF PeerIdFromString, IdToString, Identity
  <2>6. /\ PeerIdFromString(InBase("base32", ToBytes(id))) = PeerIdFromBytes(ToBytes(id))
        /\ PeerIdFromString(InBase("base36", ToCID(id))) = PeerIdFromCID(ToCID(id))
    BY <1>5 DEF PeerIdFromString, InBase, PeerIdFromBytes
  <2>7. \A priv : PeerIdFromKeys(k, priv) = Id(id.type, Identity(k), k, priv)
    BY <2>1 DEF PeerIdFromKeys, Ed25519PeerId, Identity, Id
  <2>8. CreateFromJSON(ToJSON(id)) = IF privateKey # Null THEN PeerIdFromKeys(k, k)
                                     ELSE IF id.publicKey # Null THEN PeerIdFromKeys(k, Null)
                                     ELSE PeerIdFromBytes(ToBytes(id))
    BY <1>2, <1>3, <1>4, <2>1 DEF CreateFromJSON, ToJSON, CreateFromParts, Buffer,
       CreateFromPrivKey,
       CreateFromPubKey, Id
  <2>9. \A exclude \in BOOLEAN :
           CreateFromProtobuf(ExportToProtobuf(id, exclude))
              = IF exclude \/ privateKey = Null THEN Invalid ELSE PeerIdFromKeys(k, k)
    BY <1>4, ExportedIds DEF CreateFromPrivKey
  <2>10. PeerIdFromPeerId(id) = id
    BY <2>1 DEF PeerIdFromPeerId, Ed25519PeerId, Identity, Id
  <2>11. QED
    <3> DEFINE read == IdRead(form, WrittenId(id, form))
    <3>1. CASE form \in {"bytes", "string", "text"}
      <4>1. read = Ed25519PeerId(id.multihash, Null)
        BY <2>3, <2>5, <2>6, <3>1 DEF IdRead, WrittenId
      <4>2. QED
        BY <2>1, <3>1, <4>1 DEF IdIsKept, Ed25519PeerId, Id, Identity
    <3>2. CASE form \in {"cid", "cidText"}
      <4>1. read = PeerIdFromCID(ToCID(id))
        BY <2>6, <3>2 DEF IdRead, WrittenId
      <4>2. QED
        BY <2>1, <2>4, <3>2, <4>1 DEF IdIsKept, Ed25519PeerId, Id, Identity
    <3>3. CASE form = "json"
      <4>1. read = CreateFromJSON(ToJSON(id))
        BY <3>3 DEF IdRead, WrittenId
      <4>2. QED
        BY <1>2, <1>3, <2>1, <2>3, <2>7, <2>8, <3>3, <4>1 DEF IdIsKept, Ed25519PeerId, Id, Identity
    <3>4. CASE form \in {"protobuf", "publicProtobuf"}
      <4>1. read = IF form = "publicProtobuf" \/ privateKey = Null THEN Invalid
                   ELSE PeerIdFromKeys(k, k)
        BY <2>9, <3>4 DEF IdRead, WrittenId
      <4>2. QED
        BY <1>2, <1>3, <1>4, <2>1, <2>7, <3>4, <4>1 DEF IdIsKept, Id, Identity
    <3>5. CASE form = "copy"
      <4>1. read = id
        BY <2>10, <3>5 DEF IdRead, WrittenId
      <4>2. QED
        BY <3>5, <4>1 DEF IdIsKept
    <3>6. QED
      BY <3>1, <3>2, <3>3, <3>4, <3>5 DEF Forms
<1>7. CASE k \in Secp256k1Keys
  <2>1. id = Id("secp256k1", Identity(k), k, privateKey) /\ PublicKeyLength(k) = Secp256k1Length
    BY <1>2, <1>7, KeysAreDistinct DEF IdOf, PublicKeyLength
  <2> USE DEF Ed25519Length, Secp256k1Length, RSALength
  <2>2. id.multihash = Identity(k)
    BY <2>1 DEF Id
  <2>3. PeerIdFromBytes(ToBytes(id)) = Secp256k1PeerId(id.multihash, Null)
    BY <1>5, <2>1, <2>2 DEF PeerIdFromBytes, IdOfLength, Identity
  <2>4. PeerIdFromCID(ToCID(id)) = Invalid
    BY <1>5, <2>1, <2>2 DEF PeerIdFromCID, IdOfLength, BytesLength, Identity
  <2>5. PeerIdFromString(IdToString(id)) = Secp256k1PeerId(id.multihash, Null)
    BY <1>5, <2>1, <2>2 DEF PeerIdFromString, IdToString, Identity
  <2>6. /\ PeerIdFromString(InBase("base32", ToBytes(id))) = PeerIdFromBytes(ToBytes(id))
        /\ PeerIdFromString(InBase("base36", ToCID(id))) = PeerIdFromCID(ToCID(id))
    BY <1>5 DEF PeerIdFromString, InBase, PeerIdFromBytes
  <2>7. \A priv : PeerIdFromKeys(k, priv) = Id(id.type, Identity(k), k, priv)
    BY <2>1 DEF PeerIdFromKeys, Secp256k1PeerId, Identity, Id
  <2>8. CreateFromJSON(ToJSON(id)) = IF privateKey # Null THEN PeerIdFromKeys(k, k)
                                     ELSE IF id.publicKey # Null THEN PeerIdFromKeys(k, Null)
                                     ELSE PeerIdFromBytes(ToBytes(id))
    BY <1>2, <1>3, <1>4, <2>1 DEF CreateFromJSON, ToJSON, CreateFromParts, Buffer,
       CreateFromPrivKey,
       CreateFromPubKey, Id
  <2>9. \A exclude \in BOOLEAN :
           CreateFromProtobuf(ExportToProtobuf(id, exclude))
              = IF exclude \/ privateKey = Null THEN Invalid ELSE PeerIdFromKeys(k, k)
    BY <1>4, ExportedIds DEF CreateFromPrivKey
  <2>10. PeerIdFromPeerId(id) = id
    BY <2>1 DEF PeerIdFromPeerId, Secp256k1PeerId, Identity, Id
  <2>11. QED
    <3> DEFINE read == IdRead(form, WrittenId(id, form))
    <3>1. CASE form \in {"bytes", "string", "text"}
      <4>1. read = Secp256k1PeerId(id.multihash, Null)
        BY <2>3, <2>5, <2>6, <3>1 DEF IdRead, WrittenId
      <4>2. QED
        BY <2>1, <3>1, <4>1 DEF IdIsKept, Secp256k1PeerId, Id, Identity
    <3>2. CASE form \in {"cid", "cidText"}
      <4>1. read = PeerIdFromCID(ToCID(id))
        BY <2>6, <3>2 DEF IdRead, WrittenId
      <4>2. QED
        BY <2>1, <2>4, <3>2, <4>1 DEF IdIsKept, Secp256k1PeerId, Id, Identity
    <3>3. CASE form = "json"
      <4>1. read = CreateFromJSON(ToJSON(id))
        BY <3>3 DEF IdRead, WrittenId
      <4>2. QED
        BY <1>2, <1>3, <2>1, <2>3, <2>7, <2>8, <3>3, <4>1 DEF IdIsKept, Secp256k1PeerId, Id,
           Identity
    <3>4. CASE form \in {"protobuf", "publicProtobuf"}
      <4>1. read = IF form = "publicProtobuf" \/ privateKey = Null THEN Invalid
                   ELSE PeerIdFromKeys(k, k)
        BY <2>9, <3>4 DEF IdRead, WrittenId
      <4>2. QED
        BY <1>2, <1>3, <1>4, <2>1, <2>7, <3>4, <4>1 DEF IdIsKept, Id, Identity
    <3>5. CASE form = "copy"
      <4>1. read = id
        BY <2>10, <3>5 DEF IdRead, WrittenId
      <4>2. QED
        BY <3>5, <4>1 DEF IdIsKept
    <3>6. QED
      BY <3>1, <3>2, <3>3, <3>4, <3>5 DEF Forms
<1>8. CASE k \in RSAKeys
  <2>1. id = Id("RSA", Sha256(k), publicKey, privateKey) /\ PublicKeyLength(k) = RSALength
    BY <1>2, <1>8, KeysAreDistinct DEF IdOf, PublicKeyLength
  <2> USE DEF Ed25519Length, Secp256k1Length, RSALength
  <2>2. id.multihash = Sha256(k)
    BY <2>1 DEF Id
  <2>3. PeerIdFromBytes(ToBytes(id)) = RSAPeerId(id.multihash, Null, Null)
    BY <1>5, <2>1, <2>2 DEF PeerIdFromBytes, IdOfLength, Sha256
  <2>4. PeerIdFromCID(ToCID(id)) = RSAPeerId(id.multihash, Null, Null)
    BY <1>5, <2>1, <2>2 DEF PeerIdFromCID, IdOfLength, BytesLength, Sha256
  <2>5. PeerIdFromString(IdToString(id)) = RSAPeerId(id.multihash, Null, Null)
    BY <1>5, <2>1, <2>2 DEF PeerIdFromString, IdToString, Sha256
  <2>6. /\ PeerIdFromString(InBase("base32", ToBytes(id))) = PeerIdFromBytes(ToBytes(id))
        /\ PeerIdFromString(InBase("base36", ToCID(id))) = PeerIdFromCID(ToCID(id))
    BY <1>5 DEF PeerIdFromString, InBase, PeerIdFromBytes
  <2>7. \A priv : PeerIdFromKeys(k, priv) = Id(id.type, Sha256(k), k, priv)
    BY <2>1 DEF PeerIdFromKeys, RSAPeerId, Sha256, Id
  <2>8. CreateFromJSON(ToJSON(id)) = IF privateKey # Null THEN PeerIdFromKeys(k, k)
                                     ELSE IF id.publicKey # Null THEN PeerIdFromKeys(k, Null)
                                     ELSE PeerIdFromBytes(ToBytes(id))
    BY <1>2, <1>3, <1>4, <2>1 DEF CreateFromJSON, ToJSON, CreateFromParts, Buffer,
       CreateFromPrivKey,
       CreateFromPubKey, Id
  <2>9. \A exclude \in BOOLEAN :
           CreateFromProtobuf(ExportToProtobuf(id, exclude))
              = IF exclude \/ privateKey = Null THEN Invalid ELSE PeerIdFromKeys(k, k)
    BY <1>4, ExportedIds DEF CreateFromPrivKey
  <2>10. PeerIdFromPeerId(id) = id
    BY <2>1 DEF PeerIdFromPeerId, RSAPeerId, Sha256, Id
  <2>11. QED
    <3> DEFINE read == IdRead(form, WrittenId(id, form))
    <3>1. CASE form \in {"bytes", "string", "text"}
      <4>1. read = RSAPeerId(id.multihash, Null, Null)
        BY <2>3, <2>5, <2>6, <3>1 DEF IdRead, WrittenId
      <4>2. QED
        BY <2>1, <3>1, <4>1 DEF IdIsKept, RSAPeerId, Id, Sha256
    <3>2. CASE form \in {"cid", "cidText"}
      <4>1. read = PeerIdFromCID(ToCID(id))
        BY <2>6, <3>2 DEF IdRead, WrittenId
      <4>2. QED
        BY <2>1, <2>4, <3>2, <4>1 DEF IdIsKept, RSAPeerId, Id, Sha256
    <3>3. CASE form = "json"
      <4>1. read = CreateFromJSON(ToJSON(id))
        BY <3>3 DEF IdRead, WrittenId
      <4>2. QED
        BY <1>2, <1>3, <2>1, <2>3, <2>7, <2>8, <3>3, <4>1 DEF IdIsKept, RSAPeerId, Id, Sha256
    <3>4. CASE form \in {"protobuf", "publicProtobuf"}
      <4>1. read = IF form = "publicProtobuf" \/ privateKey = Null THEN Invalid
                   ELSE PeerIdFromKeys(k, k)
        BY <2>9, <3>4 DEF IdRead, WrittenId
      <4>2. QED
        BY <1>2, <1>3, <1>4, <2>1, <2>7, <3>4, <4>1 DEF IdIsKept, Id, Sha256
    <3>5. CASE form = "copy"
      <4>1. read = id
        BY <2>10, <3>5 DEF IdRead, WrittenId
      <4>2. QED
        BY <3>5, <4>1 DEF IdIsKept
    <3>6. QED
      BY <3>1, <3>2, <3>3, <3>4, <3>5 DEF Forms
<1>9. QED
  BY <1>6, <1>7, <1>8 DEF Keys

\* Every reader reads an id of a key as itself from the form it is of, or refuses
\* it, for any keys of the three types. (peer-id and peer-id-factory.)
THEOREM IdsAreKeptAlways == Spec => []IdsAreKept
<1>1. ASSUME ValueInv PROVE IdsAreKept
  <2> SUFFICES ASSUME got # Nothing, kind = "id"
               PROVE  IdIsKept(thing.id, thing.form, got)
    BY DEF IdsAreKept, Arrived, IdIsKept
  <2>1. /\ thing.id \in SampleIds /\ thing.form \in Forms
        /\ got = IdRead(thing.form, WrittenId(thing.id, thing.form))
    BY <1>1 DEF ValueInv
  <2>2. QED
    BY <2>1, FormsAreRead
<1>2. QED
  BY <1>1, ValueInvHolds, PTL

-----------------------------------------------------------------------------
(* Sealed records.                                                            *)

\* A field that a message owns and that is neither a list nor a message.
LEMMA OwnField ==
    ASSUME NEW type \in Types, NEW m, IsMessage(type, m),
           NEW n \in DOMAIN m, ~ IsNested(Schema[type][n]), n \notin Lists(type)
    PROVE  LET d == Decode(type, Encode(type, m)) IN n \in DOMAIN d /\ d[n] = m[n]
<1> DEFINE d == Decode(type, Encode(type, m))
<1>1. n \in Fields(type)
  BY Message4Is DEF HasShape
<1>2. n \in DOMAIN d
  BY Message4Back, TypesAre
<1>3. Get(type, d, n) = Get(type, m, n)
  BY <1>1, FlatFields
<1> HIDE DEF d
<1>4. n \in DOMAIN d /\ d[n] = m[n]
  BY <1>2, <1>3 DEF Get
<1>5. QED
  BY <1>4 DEF d

\* The same of a nested message.
LEMMA OwnField3 ==
    ASSUME NEW type \in Level3, NEW m, IsMessage3(type, m),
           NEW n \in DOMAIN m, ~ IsNested(Schema[type][n]), n \notin Lists(type)
    PROVE  LET d == Decode3(type, Encode3(type, m)) IN n \in DOMAIN d /\ d[n] = m[n]
<1> DEFINE d == Decode3(type, Encode3(type, m))
<1>1. type \in Types /\ n \in Fields(type)
  BY Message3Is, TypesAre DEF HasShape, Level4
<1>2. n \in DOMAIN d /\ ReadsAs3(type, m, d, "wire")
  BY Message3Back
<1> HIDE DEF d
<1>3. LET f == Schema[type][n]
          a == Get(type, m, n)
          b == Get(type, d, n)
      IN  CASE f.label = "repeated" -> Len(a) = Len(b) /\ \A i \in DOMAIN a : a[i] = b[i]
            [] f.label = "optional" /\ ~ (IsSet(m, n) /\ IsSet(d, n)) ->
                   ~ IsSet(d, n) /\ (IsSet(m, n) => FALSE)
            [] OTHER -> a = b
  BY <1>1, <1>2 DEF ReadsAs3, ReadsAsWith, Losable
<1>4. Get(type, d, n) = Get(type, m, n)
  BY <1>1, <1>2, <1>3, Labels DEF IsSet
<1>5. n \in DOMAIN d /\ d[n] = m[n]
  BY <1>2, <1>4 DEF Get
<1>6. QED
  BY <1>5 DEF d

\* A list that a message owns: nested messages are decoded one by one.
LEMMA OwnList ==
    ASSUME NEW type \in Types, NEW m, IsMessage(type, m), NEW n \in DOMAIN m \cap Lists(type)
    PROVE  LET d == Decode(type, Encode(type, m))
               inner == Schema[type][n].kind
           IN  /\ n \in DOMAIN d
               /\ d[n] = [i \in DOMAIN m[n] |->
                            IF IsNested(Schema[type][n]) THEN Decode3(inner, Encode3(inner, m[n][i]))
                            ELSE m[n][i]]
<1> DEFINE d == Decode(type, Encode(type, m))
           x == Back4(type, m)
<1>1. HasShape(type, m) /\ n \in Fields(type)
  BY Message4Is DEF HasShape
<1>2. Image(type, m, d, x)
  BY <1>1, Decode4Is
<1>3. Written(type, m, n) = m[n]
  BY <1>1, WrittenIs DEF Get
<1>4. x[n] = [i \in DOMAIN m[n] |->
                IF IsNested(Schema[type][n])
                THEN Decode3(Schema[type][n].kind, Encode3(Schema[type][n].kind, m[n][i]))
                ELSE m[n][i]]
  BY <1>1, <1>3 DEF Back4
<1> HIDE DEF d, x
<1>5. n \in DOMAIN d /\ d[n] = x[n]
  BY <1>1, <1>2 DEF Image
<1>6. QED
  BY <1>4, <1>5 DEF d

LEMMA EnvelopeIs ==
    /\ "Envelope" \in Types
    /\ Fields("Envelope") = {"publicKey", "payloadType", "payload", "signature"}
    /\ Lists("Envelope") = {}
    /\ \A n \in Fields("Envelope") : ~ IsNested(Schema["Envelope"][n])
<1>1. Schema["Envelope"] = [publicKey |-> Field(1, "bytes", "plain"), payloadType |-> Field(2, "bytes", "plain"),
                            payload |-> Field(3, "bytes", "plain"), signature |-> Field(5, "bytes", "plain")]
  BY DEF Schema, EnvelopeFields, Plain
<1>2. "bytes" \notin Types /\ "Envelope" \in Types
  BY TypesAre DEF Level1, Level2, Level3, Level4
<1>3. QED
  BY <1>1, <1>2 DEF Fields, Lists, IsNested, Field

LEMMA PeerRecordIs ==
    /\ "PeerRecord" \in Types /\ "AddressInfo" \in Types /\ "AddressInfo" \in Level3
    /\ Fields("PeerRecord") = {"peerId", "seq", "addresses"}
    /\ Lists("PeerRecord") = {"addresses"}
    /\ \A n \in Fields("PeerRecord") : IsNested(Schema["PeerRecord"][n]) <=> n = "addresses"
    /\ Schema["PeerRecord"]["addresses"].kind = "AddressInfo"
    /\ Fields("AddressInfo") = {"multiaddr"}
    /\ Lists("AddressInfo") = {}
    /\ ~ IsNested(Schema["AddressInfo"]["multiaddr"])
<1>1. /\ Schema["PeerRecord"] = [peerId |-> Field(1, "bytes", "plain"), seq |-> Field(2, "uint64", "plain"),
                                 addresses |-> Field(3, "AddressInfo", "repeated")]
      /\ Schema["AddressInfo"] = [multiaddr |-> Field(1, "bytes", "plain")]
  BY DEF Schema, PeerRecordFields, AddressInfoFields, Plain, Repeated
<1>2. /\ "bytes" \notin Types /\ "uint64" \notin Types /\ "PeerRecord" \in Types /\ "AddressInfo" \in Types
      /\ "AddressInfo" \in Level3
  BY TypesAre DEF Level1, Level2, Level3, Level4
<1>3. QED
  BY <1>1, <1>2 DEF Fields, Lists, IsNested, Field

LEMMA RecordBack ==
    ASSUME NEW r \in SampleRecords
    PROVE  SameRecord(RecordFromProtobuf(MarshalRecord(r)), r)
<1> DEFINE addresses == [i \in DOMAIN r.multiaddrs |-> [multiaddr |-> <<r.multiaddrs[i]>>]]
           m == [peerId |-> <<ToBytes(r.peerId)>>, seq |-> r.seqNumber, addresses |-> addresses]
           d == Decode("PeerRecord", Encode("PeerRecord", m))
<1>1. r.peerId \in SampleIds /\ r.multiaddrs \in Seq(Nat)
  BY EntriesAssumption DEF SampleRecords
<1>2. IsList(addresses) /\ DOMAIN addresses = DOMAIN r.multiaddrs
  <2>1. IsList(r.multiaddrs)
    BY <1>1, SeqIsList
  <2>2. QED
    BY <2>1, MappedList
<1>3. ASSUME NEW a \in Range(addresses) PROVE IsMessage3("AddressInfo", a)
  <2>1. PICK i \in DOMAIN r.multiaddrs : a = [multiaddr |-> <<r.multiaddrs[i]>>]
    BY <1>3 DEF Range
  <2>2. DOMAIN a = {"multiaddr"}
    BY <2>1
  <2>3. HasShape("AddressInfo", a)
    BY <2>2, PeerRecordIs DEF HasShape
  <2>4. QED
    BY <2>3, PeerRecordIs, Message3Is
<1>4. IsMessage("PeerRecord", m)
  <2>1. DOMAIN m = {"peerId", "seq", "addresses"} /\ m["addresses"] = addresses
    OBVIOUS
  <2> HIDE DEF m, addresses
  <2>2. HasShape("PeerRecord", m)
    BY <1>2, <2>1, PeerRecordIs DEF HasShape
  <2>3. ASSUME NEW n \in Fields("PeerRecord"), IsNested(Schema["PeerRecord"][n]),
               NEW i \in DOMAIN Written("PeerRecord", m, n)
        PROVE  IsMessage3(Schema["PeerRecord"][n].kind, Written("PeerRecord", m, n)[i])
    <3>1. n = "addresses" /\ n \in Lists("PeerRecord")
      BY <2>3, PeerRecordIs
    <3>2. Written("PeerRecord", m, n) = addresses
      BY <2>1, <2>2, <3>1, PeerRecordIs, WrittenIs DEF Get
    <3>3. QED
      BY <1>3, <2>3, <3>1, <3>2, PeerRecordIs DEF Range
  <2>4. QED
    BY <2>2, <2>3, PeerRecordIs, Message4Is
<1>5. /\ m["peerId"] = <<ToBytes(r.peerId)>> /\ m["seq"] = r.seqNumber /\ m["addresses"] = addresses
      /\ DOMAIN m = {"peerId", "seq", "addresses"}
  OBVIOUS
<1> HIDE DEF m
<1>6. d["peerId"] = <<ToBytes(r.peerId)>>
  BY <1>4, <1>5, OwnField, PeerRecordIs
<1>7. Get("PeerRecord", d, "seq") = r.seqNumber
  <2>1. "seq" \in DOMAIN d /\ d["seq"] = r.seqNumber
    BY <1>4, <1>5, OwnField, PeerRecordIs
  <2>2. QED
    BY <2>1 DEF Get
<1>8. d["addresses"] = [i \in DOMAIN addresses |->
                          Decode3("AddressInfo", Encode3("AddressInfo", addresses[i]))]
  <2>1. "addresses" \in DOMAIN m \cap Lists("PeerRecord") /\ "PeerRecord" \in Types
    BY <1>5, PeerRecordIs
  <2>2. d["addresses"] = [i \in DOMAIN m["addresses"] |->
                            IF IsNested(Schema["PeerRecord"]["addresses"])
                            THEN Decode3(Schema["PeerRecord"]["addresses"].kind,
                                         Encode3(Schema["PeerRecord"]["addresses"].kind, m["addresses"][i]))
                            ELSE m["addresses"][i]]
    BY <1>4, <2>1, OwnList
  <2>3. IsNested(Schema["PeerRecord"]["addresses"]) /\ Schema["PeerRecord"]["addresses"].kind = "AddressInfo"
    BY PeerRecordIs
  <2> HIDE DEF d, addresses
  <2>4. QED
    BY <1>5, <2>2, <2>3
<1>9. ASSUME NEW i \in DOMAIN addresses
      PROVE  d["addresses"][i].multiaddr = <<r.multiaddrs[i]>>
  <2> DEFINE a == addresses[i]
             b == Decode3("AddressInfo", Encode3("AddressInfo", a))
  <2>1. a = [multiaddr |-> <<r.multiaddrs[i]>>] /\ a \in Range(addresses)
    BY DEF Range
  <2>2. IsMessage3("AddressInfo", a) /\ "multiaddr" \in DOMAIN a /\ a["multiaddr"] = <<r.multiaddrs[i]>>
    BY <1>3, <2>1
  <2> HIDE DEF a
  <2>3. b["multiaddr"] = a["multiaddr"]
    BY <2>2, OwnField3, PeerRecordIs
  <2>4. d["addresses"][i] = b
    BY <1>8 DEF a
  <2>5. QED
    BY <2>2, <2>3, <2>4
<1>10. RecordFromProtobuf(MarshalRecord(r))
          = [peerId |-> PeerIdFromBytes(d["peerId"][1]),
             seqNumber |-> Get("PeerRecord", d, "seq"),
             multiaddrs |-> [i \in DOMAIN d["addresses"] |-> d["addresses"][i].multiaddr[1]]]
  BY DEF RecordFromProtobuf, RecordOf, MarshalRecord, m, d
<1> HIDE DEF d
<1>11. [i \in DOMAIN d["addresses"] |-> d["addresses"][i].multiaddr[1]] = r.multiaddrs
  <2>1. DOMAIN d["addresses"] = DOMAIN r.multiaddrs
    BY <1>2, <1>8
  <2>2. \A i \in DOMAIN r.multiaddrs : d["addresses"][i].multiaddr[1] = r.multiaddrs[i]
    BY <1>2, <1>9
  <2>3. r.multiaddrs = [i \in DOMAIN r.multiaddrs |-> r.multiaddrs[i]]
    BY <1>1
  <2>4. QED
    BY <2>1, <2>2, <2>3
<1>12. PeerIdFromBytes(ToBytes(r.peerId)).multihash = r.peerId.multihash
  <2>1. "bytes" \in Forms
    BY DEF Forms
  <2>2. IdIsKept(r.peerId, "bytes", PeerIdFromBytes(ToBytes(r.peerId)))
    BY <1>1, <2>1, FormsAreRead DEF IdRead, WrittenId
  <2>3. QED
    BY <2>2 DEF IdIsKept
<1>13. QED
  BY <1>6, <1>7, <1>10, <1>11, <1>12 DEF SameRecord

\* An envelope is read from its bytes as it was sealed, but for the private key.
LEMMA EnvelopeBack ==
    ASSUME NEW envelope, envelope.peerId.publicKey \in Keys
    PROVE  EnvelopeFromProtobuf(MarshalEnvelope(envelope))
              = [peerId |-> PeerIdFromKeys(envelope.peerId.publicKey, Null),
                 payloadType |-> envelope.payloadType, payload |-> envelope.payload,
                 signature |-> envelope.signature]
<1> DEFINE m == [publicKey |-> Buffer(envelope.peerId.publicKey),
                 payloadType |-> <<envelope.payloadType>>,
                 payload |-> envelope.payload,
                 signature |-> envelope.signature]
           d == Decode("Envelope", Encode("Envelope", m))
<1>1. /\ DOMAIN m = Fields("Envelope")
      /\ m["publicKey"] = <<envelope.peerId.publicKey>> /\ m["payloadType"] = <<envelope.payloadType>>
      /\ m["payload"] = envelope.payload /\ m["signature"] = envelope.signature
  BY EnvelopeIs, NullAssumption DEF Buffer
<1> HIDE DEF m
<1>2. IsMessage("Envelope", m)
  <2>1. HasShape("Envelope", m)
    BY <1>1, EnvelopeIs DEF HasShape
  <2>2. QED
    BY <2>1, EnvelopeIs, Message4Is
<1>3. \A n \in Fields("Envelope") : d[n] = m[n]
  BY <1>1, <1>2, EnvelopeIs, OwnField
<1>4. EnvelopeFromProtobuf(MarshalEnvelope(envelope))
         = [peerId |-> PeerIdFromKeys(d["publicKey"][1], Null), payloadType |-> d["payloadType"][1],
            payload |-> d["payload"], signature |-> d["signature"]]
  BY DEF EnvelopeFromProtobuf, EnvelopeOf, MarshalEnvelope, m, d
<1> HIDE DEF d
<1>5. QED
  BY <1>1, <1>3, <1>4, EnvelopeIs

LEMMA SealedOpens ==
    ASSUME NEW r \in SampleRecords, NEW domain, NEW id \in SampleIds, CanSeal(id), NEW reader
    PROVE  LET bytes == MarshalEnvelope(Seal(r, domain, Codec, id))
               read == SealedRead(bytes, reader)
           IN  /\ read.domain = reader
               /\ IF reader # domain THEN ~ read.opens
                  ELSE /\ read.opens
                       /\ read.envelope.peerId.multihash = id.multihash
                       /\ MarshalEnvelope(read.envelope) = bytes
                       /\ SameRecord(read.record, r)
<1> DEFINE sealed == Seal(r, domain, Codec, id)
           bytes == MarshalEnvelope(sealed)
           read == SealedRead(bytes, reader)
           envelope == EnvelopeFromProtobuf(bytes)
<1>1. PICK k \in Keys : /\ id.publicKey = k /\ id.privateKey = k
                        /\ PeerIdFromKeys(k, Null).publicKey = k
                        /\ PeerIdFromKeys(k, Null).multihash = id.multihash
  <2>1. PICK k \in Keys : \E publicKey, privateKey \in {k, Null} :
           (privateKey = k => publicKey = k) /\ id = IdOf(k, publicKey, privateKey)
    BY SampleIdsAre
  <2>2. PICK publicKey \in {k, Null}, privateKey \in {k, Null} :
           (privateKey = k => publicKey = k) /\ id = IdOf(k, publicKey, privateKey)
    BY <2>1
  <2>3. id.privateKey = k /\ publicKey = k
    BY <2>2 DEF CanSeal, IdOf, Id
  <2>4. id.publicKey = k
    BY <2>2, <2>3 DEF IdOf, Id
  <2>5. /\ PeerIdFromKeys(k, Null).publicKey = k
        /\ PeerIdFromKeys(k, Null).multihash = id.multihash
    BY <2>2, KeysAreDistinct DEF PeerIdFromKeys, PublicKeyLength, Ed25519Length, Secp256k1Length,
       RSALength,
       IdOf, Ed25519PeerId, Secp256k1PeerId, RSAPeerId, Identity, Id, Keys
  <2>6. QED
    BY <2>3, <2>4, <2>5
<1>2. /\ sealed.peerId = id /\ sealed.payloadType = Codec /\ sealed.payload = MarshalRecord(r)
      /\ sealed.signature = <<k, <<domain, Codec, MarshalRecord(r)>>>>
  BY <1>1 DEF Seal, FormatSignaturePayload
<1> HIDE DEF sealed
<1>3. envelope = [peerId |-> PeerIdFromKeys(k, Null), payloadType |-> Codec,
                  payload |-> MarshalRecord(r), signature |-> sealed.signature]
  BY <1>1, <1>2, EnvelopeBack
<1>4. Validate(envelope, reader) <=> reader = domain
  <2>1. Validate(envelope, reader) <=>
           <<k, <<domain, Codec, MarshalRecord(r)>>>> = <<k, <<reader, Codec, MarshalRecord(r)>>>>
    BY <1>1, <1>2, <1>3 DEF Validate, FormatSignaturePayload
  <2>2. QED
    BY <2>1
<1>5. MarshalEnvelope(envelope) = bytes
  BY <1>1, <1>2, <1>3 DEF MarshalEnvelope
<1> HIDE DEF bytes, envelope
<1>6. OpenAndCertify(bytes, reader) = IF reader = domain THEN [opens |-> TRUE, envelope |-> envelope]
                                      ELSE [opens |-> FALSE]
  BY <1>4 DEF OpenAndCertify, Opened, envelope
<1>7. CASE reader # domain
  <2>1. read = [domain |-> reader, opens |-> FALSE]
    BY <1>6, <1>7 DEF SealedRead
  <2>2. QED
    BY <1>7, <2>1 DEF bytes, sealed
<1>8. CASE reader = domain
  <2>1. read = [domain |-> reader, opens |-> TRUE, envelope |-> envelope,
                record |-> RecordFromProtobuf(envelope.payload)]
    BY <1>6, <1>8 DEF SealedRead
  <2>2. SameRecord(RecordFromProtobuf(envelope.payload), r)
    BY <1>3, RecordBack
  <2>3. envelope.peerId.multihash = id.multihash
    BY <1>1, <1>3
  <2> HIDE DEF read
  <2>4. /\ read.domain = reader /\ read.opens /\ read.envelope = envelope
        /\ read.record = RecordFromProtobuf(envelope.payload)
    BY <2>1
  <2>5. QED
    BY <1>5, <1>8, <2>2, <2>3, <2>4 DEF bytes, sealed, read
<1>9. QED
  BY <1>7, <1>8

\* A sealed record opens for its own domain only, as the record of the peer whose
\* key has signed it, whatever the record, the domain and the key are.
\* (RecordEnvelope.seal, openAndCertify.)
THEOREM SealsHoldAlways == Spec => []SealsHold
<1>1. ASSUME ValueInv PROVE SealsHold
  <2> SUFFICES ASSUME got # Nothing, kind = "sealed"
               PROVE  IF got.domain # thing.domain THEN ~ got.opens
                      ELSE /\ got.opens
                           /\ got.envelope.peerId.multihash = thing.id.multihash
                           /\ MarshalEnvelope(got.envelope) = wire
                           /\ SameRecord(got.record, thing.record)
    BY DEF SealsHold, Arrived
  <2>1. /\ thing.record \in SampleRecords /\ thing.id \in SampleIds /\ CanSeal(thing.id)
        /\ wire = MarshalEnvelope(Seal(thing.record, thing.domain, Codec, thing.id))
        /\ \E domain : got = SealedRead(wire, domain)
    BY <1>1 DEF ValueInv
  <2>2. PICK domain : got = SealedRead(wire, domain)
    BY <2>1
  <2>3. QED
    BY <2>1, <2>2, SealedOpens
<1>2. QED
  BY <1>1, ValueInvHolds, PTL

-----------------------------------------------------------------------------
(* Entries of the peer store.                                                 *)

LEMMA PeerIs ==
    /\ "Peer" \in Types /\ "Address" \in Types /\ "Metadata" \in Types
    /\ "Address" \in Level3 /\ "Metadata" \in Level3
    /\ Fields("Peer") = {"addresses", "protocols", "metadata", "pubKey", "peerRecordEnvelope"}
    /\ Lists("Peer") = {"addresses", "protocols", "metadata"}
    /\ \A n \in Fields("Peer") : IsNested(Schema["Peer"][n]) <=> n \in {"addresses", "metadata"}
    /\ Schema["Peer"]["addresses"].kind = "Address" /\ Schema["Peer"]["metadata"].kind = "Metadata"
    /\ Default(Schema["Peer"]["pubKey"]) = Null
    /\ Default(Schema["Peer"]["peerRecordEnvelope"]) = Null
    /\ Fields("Address") = {"multiaddr", "isCertified"} /\ Fields("Metadata") = {"key", "value"}
    /\ Lists("Address") = {} /\ Lists("Metadata") = {}
    /\ \A n \in Fields("Address") : ~ IsNested(Schema["Address"][n])
    /\ \A n \in Fields("Metadata") : ~ IsNested(Schema["Metadata"][n])
<1>1. /\ Schema["Peer"] = [addresses |-> Field(1, "Address", "repeated"),
                           protocols |-> Field(2, "string", "repeated"),
                           metadata |-> Field(3, "Metadata", "repeated"),
                           pubKey |-> Field(4, "bytes", "optional"),
                           peerRecordEnvelope |-> Field(5, "bytes", "optional")]
      /\ Schema["Address"] = [multiaddr |-> Field(1, "bytes", "plain"),
                              isCertified |-> Field(2, "bool", "optional")]
      /\ Schema["Metadata"] = [key |-> Field(1, "string", "plain"), value |-> Field(2, "bytes", "plain")]
  BY DEF Schema, PeerFields, AddressFields, MetadataFields, Plain, Repeated, Optional
<1>2. /\ "bytes" \notin Types /\ "string" \notin Types /\ "bool" \notin Types
      /\ "Peer" \in Types /\ "Address" \in Types /\ "Metadata" \in Types
      /\ "Address" \in Level3 /\ "Metadata" \in Level3
  BY TypesAre DEF Level1, Level2, Level3, Level4
<1>3. Default(Schema["Peer"]["pubKey"]) = Null /\ Default(Schema["Peer"]["peerRecordEnvelope"]) = Null
  BY <1>1 DEF Default, Field
<1>4. QED
  BY <1>1, <1>2, <1>3 DEF Fields, Lists, IsNested, Field

\* The address and the entry as messages, from what is sorted already.
AddressMessage(a) ==
    Without([multiaddr |-> <<a.multiaddr>>, isCertified |-> a.isCertified], {"isCertified"})

EntryMessage(addresses, protocols, keys, peer) ==
    Without([addresses |-> [i \in DOMAIN addresses |-> AddressMessage(addresses[i])],
             protocols |-> [i \in DOMAIN protocols |-> <<protocols[i]>>],
             metadata |-> [i \in DOMAIN keys |-> [key |-> <<keys[i]>>, value |-> peer.metadata[keys[i]]]],
             pubKey |-> peer.pubKey, peerRecordEnvelope |-> peer.peerRecordEnvelope],
            {"pubKey", "peerRecordEnvelope"})

LEMMA SavedIs ==
    ASSUME NEW peer
    PROVE  StoredEntry(peer) = Encode("Peer", EntryMessage(SortedAddresses(peer.addresses),
                                                         SortedProtocols(peer.protocols),
                                                         SortedKeys(DOMAIN peer.metadata), peer))
  BY DEF StoredEntry, EntryMessage, AddressMessage

LEMMA AddressBack ==
    ASSUME NEW a
    PROVE  LET d == Decode3("Address", Encode3("Address", AddressMessage(a)))
           IN  /\ IsMessage3("Address", AddressMessage(a))
               /\ d.multiaddr = <<a.multiaddr>>
               /\ IsSet(d, "isCertified") <=> a.isCertified # Null
               /\ a.isCertified # Null => d.isCertified = a.isCertified
<1> DEFINE m == AddressMessage(a)
           d == Decode3("Address", Encode3("Address", m))
<1>1. /\ DOMAIN m = {"multiaddr"} \cup (IF a.isCertified = Null THEN {} ELSE {"isCertified"})
      /\ m["multiaddr"] = <<a.multiaddr>>
      /\ a.isCertified # Null => m["isCertified"] = a.isCertified
  BY DEF AddressMessage, Without
<1> HIDE DEF m
<1>2. IsMessage3("Address", m)
  <2>1. HasShape("Address", m)
    BY <1>1, PeerIs DEF HasShape
  <2>2. QED
    BY <2>1, PeerIs, Message3Is
<1>3. "multiaddr" \in DOMAIN m /\ d["multiaddr"] = m["multiaddr"]
  BY <1>1, <1>2, OwnField3, PeerIs
<1>4. ASSUME a.isCertified # Null PROVE d["isCertified"] = a.isCertified
  <2>1. "isCertified" \in DOMAIN m
    BY <1>1, <1>4
  <2>2. d["isCertified"] = m["isCertified"]
    BY <1>2, <2>1, <1>1, OwnField3, PeerIs
  <2>3. QED
    BY <1>1, <1>4, <2>2
<1>5. DOMAIN d = DOMAIN m \cup Lists("Address") \cup Needed("Address")
  BY <1>2, Message3Back, PeerIs
<1>6. "isCertified" \notin Needed("Address") /\ "isCertified" \notin Lists("Address")
  <2>1. Schema["Address"]["isCertified"].label = "optional"
    BY DEF Schema, AddressFields, Optional, Field
  <2>2. QED
    BY <2>1, PeerIs DEF Needed
<1>7. IsSet(d, "isCertified") <=> a.isCertified # Null
  BY <1>1, <1>5, <1>6 DEF IsSet
<1>8. QED
  BY <1>1, <1>2, <1>3, <1>4, <1>7 DEF m

LEMMA MetadataBack ==
    ASSUME NEW k, NEW v
    PROVE  LET m == [key |-> <<k>>, value |-> v]
               d == Decode3("Metadata", Encode3("Metadata", m))
           IN  IsMessage3("Metadata", m) /\ d.key = <<k>> /\ d.value = v
<1> DEFINE m == [key |-> <<k>>, value |-> v]
           d == Decode3("Metadata", Encode3("Metadata", m))
<1>1. DOMAIN m = {"key", "value"} /\ m["key"] = <<k>> /\ m["value"] = v
  OBVIOUS
<1> HIDE DEF m
<1>2. IsMessage3("Metadata", m)
  <2>1. HasShape("Metadata", m)
    BY <1>1, PeerIs DEF HasShape
  <2>2. QED
    BY <2>1, PeerIs, Message3Is
<1>3. d["key"] = m["key"]
  BY <1>1, <1>2, OwnField3, PeerIs
<1>4. d["value"] = m["value"]
  BY <1>1, <1>2, OwnField3, PeerIs
<1>5. QED
  BY <1>1, <1>2, <1>3, <1>4 DEF m

LoadedAddress(a) ==
    [multiaddr |-> a.multiaddr, isCertified |-> IF a.isCertified = Null THEN 0 ELSE a.isCertified]

LEMMA EntryBack ==
    ASSUME NEW peer, NEW addresses, NEW protocols, NEW keys,
           IsList(addresses), IsList(protocols), IsList(keys)
    PROVE  LET d == Decode("Peer", Encode("Peer", EntryMessage(addresses, protocols, keys, peer)))
           IN  /\ d.addresses = [i \in DOMAIN addresses |->
                                   Decode3("Address", Encode3("Address", AddressMessage(addresses[i])))]
               /\ d.protocols = [i \in DOMAIN protocols |-> <<protocols[i]>>]
               /\ d.metadata = [i \in DOMAIN keys |->
                                  Decode3("Metadata", Encode3("Metadata",
                                      [key |-> <<keys[i]>>, value |-> peer.metadata[keys[i]]]))]
               /\ Get("Peer", d, "pubKey") = peer.pubKey
               /\ Get("Peer", d, "peerRecordEnvelope") = peer.peerRecordEnvelope
<1> DEFINE as == [i \in DOMAIN addresses |-> AddressMessage(addresses[i])]
           ps == [i \in DOMAIN protocols |-> <<protocols[i]>>]
           ms == [i \in DOMAIN keys |-> [key |-> <<keys[i]>>, value |-> peer.metadata[keys[i]]]]
           m == EntryMessage(addresses, protocols, keys, peer)
           d == Decode("Peer", Encode("Peer", m))
<1>1. /\ DOMAIN m = {"addresses", "protocols", "metadata"}
                       \cup (IF peer.pubKey = Null THEN {} ELSE {"pubKey"})
                       \cup (IF peer.peerRecordEnvelope = Null THEN {} ELSE {"peerRecordEnvelope"})
      /\ m["addresses"] = as /\ m["protocols"] = ps /\ m["metadata"] = ms
      /\ peer.pubKey # Null => m["pubKey"] = peer.pubKey
      /\ peer.peerRecordEnvelope # Null => m["peerRecordEnvelope"] = peer.peerRecordEnvelope
  BY DEF EntryMessage, Without
<1> HIDE DEF m
<1>2. IsList(as) /\ IsList(ps) /\ IsList(ms)
  <2>1. /\ DOMAIN as = DOMAIN addresses /\ as = [i \in DOMAIN as |-> as[i]]
        /\ DOMAIN ps = DOMAIN protocols /\ ps = [i \in DOMAIN ps |-> ps[i]]
        /\ DOMAIN ms = DOMAIN keys /\ ms = [i \in DOMAIN ms |-> ms[i]]
    OBVIOUS
  <2> HIDE DEF as, ps, ms
  <2>2. QED
    BY <2>1, MappedList
<1>3. IsMessage("Peer", m)
  <2>1. HasShape("Peer", m)
    <3> HIDE DEF as, ps, ms
    <3>1. QED
      BY <1>1, <1>2, PeerIs DEF HasShape
  <2>2. ASSUME NEW n \in Fields("Peer"), IsNested(Schema["Peer"][n]),
               NEW i \in DOMAIN Written("Peer", m, n)
        PROVE  IsMessage3(Schema["Peer"][n].kind, Written("Peer", m, n)[i])
    <3>1. n \in {"addresses", "metadata"} /\ n \in Lists("Peer") /\ n \in DOMAIN m
      BY <1>1, <2>2, PeerIs
    <3>2. Written("Peer", m, n) = m[n]
      BY <2>1, <3>1, PeerIs, WrittenIs DEF Get
    <3>3. CASE n = "addresses"
      <4>1. i \in DOMAIN addresses /\ Written("Peer", m, n)[i] = AddressMessage(addresses[i])
        BY <1>1, <2>2, <3>2, <3>3
      <4>2. IsMessage3("Address", AddressMessage(addresses[i]))
        BY AddressBack
      <4>3. QED
        BY <3>3, <4>1, <4>2, PeerIs
    <3>4. CASE n = "metadata"
      <4>1. Written("Peer", m, n)[i] = [key |-> <<keys[i]>>, value |-> peer.metadata[keys[i]]]
        BY <1>1, <2>2, <3>2, <3>4
      <4>2. IsMessage3("Metadata", [key |-> <<keys[i]>>, value |-> peer.metadata[keys[i]]])
        BY MetadataBack
      <4>3. QED
        BY <3>4, <4>1, <4>2, PeerIs
    <3>5. QED
      BY <3>1, <3>3, <3>4
  <2>3. QED
    BY <2>1, <2>2, PeerIs, Message4Is
<1>4. ASSUME NEW n \in {"addresses", "protocols", "metadata"}
      PROVE  d[n] = [i \in DOMAIN m[n] |->
                       IF IsNested(Schema["Peer"][n])
                       THEN Decode3(Schema["Peer"][n].kind, Encode3(Schema["Peer"][n].kind, m[n][i]))
                       ELSE m[n][i]]
  <2>1. n \in DOMAIN m \cap Lists("Peer") /\ "Peer" \in Types
    BY <1>1, PeerIs
  <2>2. QED
    BY <1>3, <2>1, OwnList
<1> HIDE DEF d
<1>5. d["addresses"] = [i \in DOMAIN addresses |->
                          Decode3("Address", Encode3("Address", AddressMessage(addresses[i])))]
  <2>1. IsNested(Schema["Peer"]["addresses"]) /\ Schema["Peer"]["addresses"].kind = "Address"
    BY PeerIs
  <2>2. d["addresses"] = [i \in DOMAIN as |-> Decode3("Address", Encode3("Address", as[i]))]
    <3> HIDE DEF as
    <3>1. QED
      BY <1>1, <1>4, <2>1
  <2>3. QED
    BY <2>2
<1>6. d["protocols"] = ps
  <2>1. ~ IsNested(Schema["Peer"]["protocols"])
    BY PeerIs
  <2>2. d["protocols"] = [i \in DOMAIN ps |-> ps[i]]
    <3> HIDE DEF ps
    <3>1. QED
      BY <1>1, <1>4, <2>1
  <2>3. QED
    BY <2>2
<1>7. d["metadata"] = [i \in DOMAIN keys |->
                         Decode3("Metadata", Encode3("Metadata",
                             [key |-> <<keys[i]>>, value |-> peer.metadata[keys[i]]]))]
  <2>1. IsNested(Schema["Peer"]["metadata"]) /\ Schema["Peer"]["metadata"].kind = "Metadata"
    BY PeerIs
  <2>2. d["metadata"] = [i \in DOMAIN ms |-> Decode3("Metadata", Encode3("Metadata", ms[i]))]
    <3> HIDE DEF ms
    <3>1. QED
      BY <1>1, <1>4, <2>1
  <2>3. QED
    BY <2>2
<1>8. ASSUME NEW n \in {"pubKey", "peerRecordEnvelope"} PROVE Get("Peer", d, n) = Get("Peer", m, n)
  <2>1. n \in Fields("Peer") /\ ~ IsNested(Schema["Peer"][n]) /\ n \notin Lists("Peer")
    BY PeerIs
  <2>2. QED
    BY <1>3, <2>1, FlatFields, PeerIs DEF d
<1>9. Get("Peer", m, "pubKey") = peer.pubKey
  BY <1>1, PeerIs DEF Get
<1>10. Get("Peer", m, "peerRecordEnvelope") = peer.peerRecordEnvelope
  BY <1>1, PeerIs DEF Get
<1>11. QED
  BY <1>5, <1>6, <1>7, <1>8, <1>9, <1>10 DEF d, m

LEMMA LoadedIs ==
    ASSUME NEW peer, NEW addresses, NEW protocols, NEW keys, NEW idKey,
           IsList(addresses), IsList(protocols), IsList(keys),
           \A i, j \in DOMAIN keys : keys[i] = keys[j] => i = j
    PROVE  EntryOf(Decode("Peer", Encode("Peer", EntryMessage(addresses, protocols, keys, peer))), idKey)
              = [addresses |-> [i \in DOMAIN addresses |-> LoadedAddress(addresses[i])],
                 protocols |-> protocols,
                 metadata |-> [k \in Range(keys) |-> peer.metadata[k]],
                 pubKey |-> peer.pubKey, idKey |-> idKey,
                 peerRecordEnvelope |-> peer.peerRecordEnvelope]
<1> DEFINE bytes == Encode("Peer", EntryMessage(addresses, protocols, keys, peer))
           d == Decode("Peer", bytes)
           LastOf(k) == CHOOSE i \in DOMAIN d.metadata :
                           /\ d.metadata[i].key = <<k>>
                           /\ \A j \in i + 1 .. Len(d.metadata) : d.metadata[j].key # <<k>>
           named == {d.metadata[i].key[1] : i \in DOMAIN d.metadata}
           Certified(a) == IF IsSet(a, "isCertified") THEN a.isCertified ELSE 0
<1>1. EntryOf(d, idKey)
        = [addresses |-> [i \in DOMAIN d.addresses |->
                            [multiaddr |-> d.addresses[i].multiaddr[1],
                             isCertified |-> Certified(d.addresses[i])]],
           protocols |-> [i \in DOMAIN d.protocols |-> d.protocols[i][1]],
           metadata |-> [k \in named |-> d.metadata[LastOf(k)].value],
           pubKey |-> Get("Peer", d, "pubKey"), idKey |-> idKey,
           peerRecordEnvelope |-> Get("Peer", d, "peerRecordEnvelope")]
  BY DEF EntryOf
<1>2. /\ d.addresses = [i \in DOMAIN addresses |->
                          Decode3("Address", Encode3("Address", AddressMessage(addresses[i])))]
      /\ d.protocols = [i \in DOMAIN protocols |-> <<protocols[i]>>]
      /\ d.metadata = [i \in DOMAIN keys |->
                         Decode3("Metadata", Encode3("Metadata",
                             [key |-> <<keys[i]>>, value |-> peer.metadata[keys[i]]]))]
      /\ Get("Peer", d, "pubKey") = peer.pubKey
      /\ Get("Peer", d, "peerRecordEnvelope") = peer.peerRecordEnvelope
  BY EntryBack
<1> HIDE DEF d, bytes
<1>3. [i \in DOMAIN d.addresses |->
         [multiaddr |-> d.addresses[i].multiaddr[1], isCertified |-> Certified(d.addresses[i])]]
        = [i \in DOMAIN addresses |-> LoadedAddress(addresses[i])]
  <2>1. DOMAIN d.addresses = DOMAIN addresses
    BY <1>2
  <2>2. ASSUME NEW i \in DOMAIN addresses
        PROVE  [multiaddr |-> d.addresses[i].multiaddr[1], isCertified |-> Certified(d.addresses[i])]
                  = LoadedAddress(addresses[i])
    <3> DEFINE a == addresses[i]
               b == Decode3("Address", Encode3("Address", AddressMessage(a)))
    <3>1. d.addresses[i] = b
      BY <1>2
    <3>2. /\ b.multiaddr = <<a.multiaddr>>
          /\ IsSet(b, "isCertified") <=> a.isCertified # Null
          /\ a.isCertified # Null => b.isCertified = a.isCertified
      BY AddressBack
    <3> HIDE DEF b
    <3>3. QED
      BY <3>1, <3>2 DEF LoadedAddress
  <2> HIDE DEF Certified
  <2>3. QED
    BY <2>1, <2>2
<1>4. [i \in DOMAIN d.protocols |-> d.protocols[i][1]] = protocols
  <2>1. protocols = [i \in DOMAIN protocols |-> protocols[i]]
    BY ListParts
  <2>2. QED
    BY <1>2, <2>1
<1>5. /\ DOMAIN d.metadata = DOMAIN keys
      /\ \A i \in DOMAIN keys : /\ d.metadata[i].key = <<keys[i]>>
                                /\ d.metadata[i].value = peer.metadata[keys[i]]
  <2>1. ASSUME NEW i \in DOMAIN keys
        PROVE  d.metadata[i].key = <<keys[i]>> /\ d.metadata[i].value = peer.metadata[keys[i]]
    <3>1. d.metadata[i] = Decode3("Metadata", Encode3("Metadata",
                              [key |-> <<keys[i]>>, value |-> peer.metadata[keys[i]]]))
      BY <1>2
    <3>2. QED
      BY <3>1, MetadataBack
  <2>2. QED
    BY <1>2, <2>1
<1>6. [k \in named |-> d.metadata[LastOf(k)].value] = [k \in Range(keys) |-> peer.metadata[k]]
  <2>1. named = Range(keys)
    BY <1>5 DEF Range
  <2>2. Len(d.metadata) = Len(keys) /\ DOMAIN keys = 1 .. Len(keys) /\ Len(keys) \in Nat
    <3>1. IsList(d.metadata) /\ Len(d.metadata) = Len(keys)
      <4>1. d.metadata = [i \in DOMAIN d.metadata |-> d.metadata[i]]
        BY <1>2
      <4>2. QED
        BY <1>5, <4>1, MappedList
    <3>2. QED
      BY <3>1, ListParts
  <2>3. ASSUME NEW k \in Range(keys) PROVE d.metadata[LastOf(k)].value = peer.metadata[k]
    <3> DEFINE IsLast(i) == /\ d.metadata[i].key = <<k>>
                            /\ \A j \in i + 1 .. Len(d.metadata) : d.metadata[j].key # <<k>>
    <3>1. PICK i \in DOMAIN keys : keys[i] = k
      BY DEF Range
    <3>2. d.metadata[i].key = <<k>>
      BY <1>5, <3>1
    <3>3. ASSUME NEW j \in i + 1 .. Len(d.metadata) PROVE d.metadata[j].key # <<k>>
      <4>1. j \in DOMAIN keys /\ j # i
        BY <2>2
      <4>2. d.metadata[j].key = <<keys[j]>> /\ keys[j] # k
        BY <1>5, <3>1, <4>1
      <4>3. QED
        BY <4>2
    <3>4. i \in DOMAIN d.metadata /\ IsLast(i)
      BY <1>5, <3>2, <3>3
    <3>5. LastOf(k) = CHOOSE x \in DOMAIN d.metadata : IsLast(x)
      OBVIOUS
    <3> HIDE DEF LastOf
    <3>6. LastOf(k) \in DOMAIN d.metadata /\ IsLast(LastOf(k))
      <4> HIDE DEF IsLast
      <4>1. QED
        BY <3>4, <3>5
    <3>7. LastOf(k) \in DOMAIN keys /\ keys[LastOf(k)] = k
      <4>1. <<keys[LastOf(k)]>> = <<k>>
        BY <1>5, <3>6
      <4>2. QED
        BY <1>5, <3>6, <4>1
    <3>8. QED
      BY <1>5, <3>7
  <2> HIDE DEF LastOf, named
  <2>4. QED
    BY <2>1, <2>3
<1>7. QED
  BY <1>1, <1>2, <1>3, <1>4, <1>6 DEF d, bytes

LEMMA LeastNumber ==
    ASSUME NEW S \in SUBSET Nat, NEW n \in S
    PROVE  \E m \in S : \A k \in S : m <= k
<1> SUFFICES ASSUME \A m \in S : \E k \in S : k < m PROVE FALSE
  OBVIOUS
<1> DEFINE T == {m \in Nat : \A k \in S : k > m}
<1>1. 0 \in T
  <2>1. 0 \notin S
    OBVIOUS
  <2>2. QED
    BY <2>1
<1>2. ASSUME NEW m \in Nat, m \in T PROVE m + 1 \in T
  <2>1. m + 1 \notin S
    <3> SUFFICES ASSUME m + 1 \in S PROVE FALSE
      OBVIOUS
    <3>1. PICK k \in S : k < m + 1
      OBVIOUS
    <3>2. k > m
      BY <1>2
    <3>3. QED
      BY <3>1, <3>2
  <2>2. \A k \in S : k > m /\ k # m + 1
    BY <1>2, <2>1
  <2>3. QED
    BY <2>2
<1> HIDE DEF T
<1>3. \A m \in Nat : m \in T
  BY <1>1, <1>2, Induction
<1>4. n \in T
  BY <1>3
<1>5. QED
  BY <1>4 DEF T

\* The first address of each multiaddr.
Firsts(list) ==
    {list[i] : i \in {i \in DOMAIN list : \A j \in 1 .. i - 1 : list[j].multiaddr # list[i].multiaddr}}

LEMMA FirstsExist ==
    ASSUME NEW list, IsList(list), NEW i \in DOMAIN list
    PROVE  \E a \in Firsts(list) : a.multiaddr = list[i].multiaddr
<1> DEFINE S == {j \in DOMAIN list : list[j].multiaddr = list[i].multiaddr}
<1>1. DOMAIN list = 1 .. Len(list) /\ Len(list) \in Nat
  BY ListParts
<1>2. S \in SUBSET Nat /\ i \in S
  BY <1>1
<1> HIDE DEF S
<1>3. PICK m \in S : \A k \in S : m <= k
  BY <1>2, LeastNumber
<1>4. m \in DOMAIN list /\ list[m].multiaddr = list[i].multiaddr /\ m \in Nat
  BY <1>2 DEF S
<1>5. ASSUME NEW j \in 1 .. m - 1 PROVE list[j].multiaddr # list[m].multiaddr
  <2>1. j \in DOMAIN list /\ j < m /\ j \in Nat
    BY <1>1, <1>4
  <2>2. j \notin S
    BY <1>3, <1>4, <2>1
  <2>3. QED
    BY <1>4, <2>1, <2>2 DEF S
<1>6. list[m] \in Firsts(list)
  BY <1>4, <1>5 DEF Firsts
<1>7. QED
  BY <1>4, <1>6

LEMMA AddressesAreOrdered ==
    ASSUME NEW list, IsList(list), \A i \in DOMAIN list : list[i].multiaddr \in Nat
    PROVE  IsOrderOn(Firsts(list), ByMultiaddr(Firsts(list)))
<1> DEFINE F == Firsts(list)
           I == {i \in DOMAIN list : \A j \in 1 .. i - 1 : list[j].multiaddr # list[i].multiaddr}
<1>1. DOMAIN list = 1 .. Len(list) /\ Len(list) \in Nat
  BY ListParts
<1>2. IsFiniteSet(F)
  <2>1. IsFiniteSet(1 .. Len(list)) /\ I \in SUBSET (1 .. Len(list))
    BY <1>1, FS_Interval
  <2> DEFINE f == [i \in I |-> list[i]]
             D == 1 .. Len(list)
  <2>2. f \in Surjection(I, F)
    BY DEF Surjection, Firsts
  <2> HIDE DEF I, F, f, D
  <2>3. IsFiniteSet(I)
    BY <2>1, FS_Subset DEF D
  <2>4. QED
    BY <2>2, <2>3, FS_Surjection
<1>3. \A x \in F : \E i \in DOMAIN list : x = list[i] /\ \A j \in 1 .. i - 1 : list[j].multiaddr # x.multiaddr
  BY DEF Firsts
<1>4. \A x \in F : x.multiaddr \in Nat
  BY <1>3
<1>5. ASSUME NEW x \in F, NEW y \in F, x # y PROVE x.multiaddr # y.multiaddr
  <2>1. PICK i \in DOMAIN list : x = list[i] /\ \A j \in 1 .. i - 1 : list[j].multiaddr # x.multiaddr
    BY <1>3
  <2>2. PICK k \in DOMAIN list : y = list[k] /\ \A j \in 1 .. k - 1 : list[j].multiaddr # y.multiaddr
    BY <1>3
  <2>3. i # k
    BY <1>5, <2>1, <2>2
  <2>4. i \in 1 .. k - 1 \/ k \in 1 .. i - 1
    BY <1>1, <2>3
  <2>5. QED
    BY <2>1, <2>2, <2>4
<1>6. \A x, y \in F : <<x, y>> \in ByMultiaddr(F) <=> x.multiaddr < y.multiaddr
  BY DEF ByMultiaddr
<1> HIDE DEF F
<1>7. IsOrderOn(F, ByMultiaddr(F))
  <2>1. \A x \in F : <<x, x>> \notin ByMultiaddr(F)
    BY <1>4, <1>6
  <2>2. \A x, y \in F : x # y => <<x, y>> \in ByMultiaddr(F) \/ <<y, x>> \in ByMultiaddr(F)
    BY <1>4, <1>5, <1>6
  <2>3. \A x, y, z \in F : <<x, y>> \in ByMultiaddr(F) /\ <<y, z>> \in ByMultiaddr(F)
                              => <<x, z>> \in ByMultiaddr(F)
    BY <1>4, <1>6
  <2>4. QED
    BY <1>2, <2>1, <2>2, <2>3 DEF IsOrderOn
<1>8. QED
  BY <1>7 DEF F

\* Sorted addresses are the first ones, by multiaddr, and stay as they are.
LEMMA SortedAddressesAre ==
    ASSUME NEW list, IsList(list), \A i \in DOMAIN list : list[i].multiaddr \in Nat
    PROVE  LET sorted == SortedAddresses(list)
           IN  /\ IsList(sorted)
               /\ Range(sorted) = Firsts(list)
               /\ \A i, j \in DOMAIN sorted : sorted[i].multiaddr = sorted[j].multiaddr => i = j
               /\ SortedAddresses(sorted) = sorted
<1> DEFINE F == Firsts(list)
           n == Cardinality(F)
           sorted == SortedAddresses(list)
<1>1. sorted = InOrder(F, ByMultiaddr(F))
  BY DEF SortedAddresses, Firsts
<1>2. IsOrderOn(F, ByMultiaddr(F))
  BY AddressesAreOrdered
<1> HIDE DEF F, sorted, n
<1>3. /\ n \in Nat /\ sorted \in [1 .. n -> F] /\ sorted \in Seq(F) /\ Len(sorted) = n
      /\ Ascends(sorted, n, ByMultiaddr(F))
      /\ \A x \in F : \E i \in 1 .. n : sorted[i] = x
  BY <1>1, <1>2, InOrderDoes DEF n
<1>4. IsList(sorted) /\ DOMAIN sorted = 1 .. n
  BY <1>3, SeqIsList
<1>5. Range(sorted) = F
  BY <1>3, <1>4 DEF Range
<1>6. \A x \in F : x.multiaddr \in Nat
  BY DEF F, Firsts
<1>7. \A i, j \in 1 .. n : i < j => sorted[i].multiaddr < sorted[j].multiaddr
  BY <1>3 DEF Ascends, ByMultiaddr
<1>8. ASSUME NEW i \in 1 .. n, NEW j \in 1 .. n, i # j PROVE sorted[i].multiaddr # sorted[j].multiaddr
  <2>1. sorted[i].multiaddr \in Nat /\ sorted[j].multiaddr \in Nat
    BY <1>3, <1>6
  <2>2. i < j \/ j < i
    BY <1>3, <1>8
  <2>3. QED
    BY <1>7, <2>1, <2>2
<1>9. Firsts(sorted) = F
  <2>1. ASSUME NEW i \in 1 .. n, NEW j \in 1 .. i - 1 PROVE sorted[j].multiaddr # sorted[i].multiaddr
    <3>1. j \in 1 .. n /\ j # i
      BY <1>3
    <3>2. QED
      BY <1>8, <3>1
  <2>2. {i \in DOMAIN sorted : \A j \in 1 .. i - 1 : sorted[j].multiaddr # sorted[i].multiaddr} = 1 .. n
    BY <1>4, <2>1
  <2>3. Firsts(sorted) = {sorted[i] : i \in DOMAIN sorted}
    BY <1>4, <2>2 DEF Firsts
  <2>4. QED
    BY <1>5, <2>3 DEF Range
<1>10. SortedAddresses(sorted) = InOrder(Firsts(sorted), ByMultiaddr(Firsts(sorted)))
  BY DEF SortedAddresses, Firsts
<1>11. SortedAddresses(sorted) = sorted
  BY <1>1, <1>9, <1>10
<1>12. \A i, j \in DOMAIN sorted : sorted[i].multiaddr = sorted[j].multiaddr => i = j
  BY <1>4, <1>8
<1>13. QED
  BY <1>4, <1>5, <1>11, <1>12 DEF F, sorted

\* Before which positions a position stands when a list is sorted.
Before(list) ==
    LET all == DOMAIN list
    IN  {p \in all \X all : \/ list[p[1]] < list[p[2]]
                            \/ list[p[1]] = list[p[2]] /\ p[1] < p[2]}

LEMMA PositionsAreOrdered ==
    ASSUME NEW list, IsList(list), \A i \in DOMAIN list : list[i] \in Nat
    PROVE  IsOrderOn(DOMAIN list, Before(list)) /\ Cardinality(DOMAIN list) = Len(list)
<1>1. DOMAIN list = 1 .. Len(list) /\ Len(list) \in Nat
  BY ListParts
<1>2. IsFiniteSet(DOMAIN list) /\ Cardinality(DOMAIN list) = Len(list)
  <2>1. 1 \in Int /\ Len(list) \in Int /\ (1 > Len(list) => Len(list) = 0) /\ (Len(list) - 1) + 1 = Len(list)
    BY <1>1
  <2>2. QED
    BY <1>1, <2>1, FS_Interval
<1>3. \A i, j \in DOMAIN list : <<i, j>> \in Before(list) <=>
         list[i] < list[j] \/ (list[i] = list[j] /\ i < j)
  <2> SUFFICES ASSUME NEW i \in DOMAIN list, NEW j \in DOMAIN list
               PROVE  <<i, j>> \in Before(list) <=> list[i] < list[j] \/ (list[i] = list[j] /\ i < j)
    OBVIOUS
  <2> DEFINE p == <<i, j>>
  <2>1. p \in (DOMAIN list) \X (DOMAIN list) /\ p[1] = i /\ p[2] = j
    OBVIOUS
  <2> HIDE DEF p
  <2>2. p \in Before(list) <=> list[p[1]] < list[p[2]] \/ (list[p[1]] = list[p[2]] /\ p[1] < p[2])
    BY <2>1 DEF Before
  <2>3. QED
    BY <2>1, <2>2 DEF p
<1>4. \A i \in DOMAIN list : i \in Nat /\ list[i] \in Nat
  BY <1>1
<1>5. \A i \in DOMAIN list : <<i, i>> \notin Before(list)
  BY <1>3, <1>4
<1>6. \A i, j \in DOMAIN list : i # j => <<i, j>> \in Before(list) \/ <<j, i>> \in Before(list)
  BY <1>3, <1>4
<1>7. \A i, j, k \in DOMAIN list :
         <<i, j>> \in Before(list) /\ <<j, k>> \in Before(list) => <<i, k>> \in Before(list)
  BY <1>3, <1>4
<1>8. QED
  BY <1>2, <1>5, <1>6, <1>7 DEF IsOrderOn

\* Sorting permutes the protocols, and leaves them as they are the second time.
LEMMA SortedProtocolsAre ==
    ASSUME NEW list, IsList(list), \A i \in DOMAIN list : list[i] \in Nat
    PROVE  LET sorted == SortedProtocols(list)
           IN  /\ IsList(sorted)
               /\ \E order \in [DOMAIN list -> DOMAIN list] :
                     /\ sorted = [i \in DOMAIN list |-> list[order[i]]]
                     /\ \A i, j \in DOMAIN list : order[i] = order[j] => i = j
                     /\ \A j \in DOMAIN list : \E i \in DOMAIN list : order[i] = j
               /\ \A i, j \in DOMAIN sorted : i < j => sorted[i] <= sorted[j]
<1> DEFINE sorted == SortedProtocols(list)
           D == DOMAIN list
           order == InOrder(D, Before(list))
<1>1. sorted = [i \in D |-> list[order[i]]]
  BY DEF SortedProtocols, Before
<1>2. IsOrderOn(D, Before(list)) /\ Cardinality(D) = Len(list) /\ D = 1 .. Len(list)
  BY PositionsAreOrdered, ListParts
<1> HIDE DEF sorted
<1>3. /\ order \in [D -> D]
      /\ Ascends(order, Len(list), Before(list))
      /\ \A i, j \in D : order[i] = order[j] => i = j
      /\ \A j \in D : \E i \in D : order[i] = j
  <2> DEFINE R == Before(list)
  <2>1. order = InOrder(D, R) /\ IsOrderOn(D, R)
    BY <1>2
  <2> HIDE DEF order, D, R
  <2>2. /\ order \in [1 .. Cardinality(D) -> D]
        /\ Ascends(order, Cardinality(D), R)
        /\ \A i, j \in 1 .. Cardinality(D) : order[i] = order[j] => i = j
        /\ \A j \in D : \E i \in 1 .. Cardinality(D) : order[i] = j
    BY <2>1, InOrderDoes
  <2>3. 1 .. Cardinality(D) = D
    BY <1>2
  <2>4. QED
    BY <1>2, <2>2, <2>3 DEF R
<1> HIDE DEF order
<1>4. IsList(sorted)
  <2>1. DOMAIN sorted = DOMAIN list /\ sorted = [i \in DOMAIN sorted |-> sorted[i]]
    BY <1>1
  <2>2. QED
    BY <2>1, MappedList
<1>5. ASSUME NEW i \in D, NEW j \in D, i < j PROVE sorted[i] <= sorted[j]
  <2>1. <<order[i], order[j]>> \in Before(list)
    BY <1>2, <1>3, <1>5 DEF Ascends
  <2>2. order[i] \in D /\ order[j] \in D
    BY <1>3
  <2>3. list[order[i]] < list[order[j]] \/ list[order[i]] = list[order[j]]
    BY <2>1, <2>2 DEF Before
  <2>4. list[order[i]] \in Nat /\ list[order[j]] \in Nat
    BY <2>2
  <2>5. QED
    BY <1>1, <2>3, <2>4
<1>6. DOMAIN sorted = D
  BY <1>1
<1>7. QED
  BY <1>1, <1>3, <1>4, <1>5, <1>6 DEF sorted, D

LEMMA SortedAgain ==
    ASSUME NEW list, IsList(list), \A i \in DOMAIN list : list[i] \in Nat,
           \A i, j \in DOMAIN list : i < j => list[i] <= list[j]
    PROVE  SortedProtocols(list) = list
<1> DEFINE n == Len(list)
           order == InOrder(DOMAIN list, Before(list))
<1>1. /\ IsOrderOn(DOMAIN list, Before(list)) /\ Cardinality(DOMAIN list) = n /\ DOMAIN list = 1 .. n
      /\ n \in Nat /\ list = [i \in DOMAIN list |-> list[i]]
  BY PositionsAreOrdered, ListParts
<1> HIDE DEF n, order
<1>2. order \in [1 .. n -> 1 .. n] /\ Ascends(order, n, Before(list))
  <2> DEFINE D == DOMAIN list
  <2>1. IsOrderOn(D, Before(list)) /\ order = InOrder(D, Before(list)) /\ Cardinality(D) = n /\ D = 1 .. n
    BY <1>1 DEF order
  <2> HIDE DEF D
  <2>2. order \in [1 .. Cardinality(D) -> D] /\ Ascends(order, Cardinality(D), Before(list))
    BY <2>1, InOrderDoes
  <2>3. QED
    BY <2>1, <2>2
<1>3. ASSUME NEW i \in 1 .. n, NEW j \in 1 .. n, i < j PROVE order[i] < order[j]
  <2> DEFINE a == order[i]
             b == order[j]
  <2>1. <<a, b>> \in Before(list) /\ a \in 1 .. n /\ b \in 1 .. n
    BY <1>2, <1>3 DEF Ascends
  <2> HIDE DEF a, b
  <2>2. list[a] < list[b] \/ (list[a] = list[b] /\ a < b)
    BY <2>1 DEF Before
  <2>3. list[a] \in Nat /\ list[b] \in Nat /\ a \in Nat /\ b \in Nat
    BY <1>1, <2>1
  <2>4. CASE b < a
    <3>1. list[b] <= list[a]
      BY <1>1, <2>1, <2>4
    <3>2. QED
      BY <2>2, <2>3, <2>4, <3>1
  <2>5. CASE a = b
    BY <2>2, <2>3, <2>5
  <2>6. QED
    BY <2>3, <2>4, <2>5 DEF a, b
<1>4. \A i \in 1 .. n : order[i] = i
  BY <1>1, <1>2, <1>3, AscentIsIdentity
<1>5. SortedProtocols(list) = [i \in DOMAIN list |-> list[order[i]]]
  BY DEF SortedProtocols, Before, order
<1>6. QED
  BY <1>1, <1>4, <1>5

LEMMA SortedKeysAre ==
    ASSUME NEW keys \in SUBSET Nat, IsFiniteSet(keys)
    PROVE  LET sorted == SortedKeys(keys)
           IN  /\ IsList(sorted)
               /\ Range(sorted) = keys
               /\ \A i, j \in DOMAIN sorted : sorted[i] = sorted[j] => i = j
<1> DEFINE R == {p \in keys \X keys : p[1] < p[2]}
           sorted == SortedKeys(keys)
           n == Cardinality(keys)
<1>1. IsOrderOn(keys, R)
  <2>1. \A x, y \in keys : <<x, y>> \in R <=> x < y
    OBVIOUS
  <2> HIDE DEF R
  <2>2. \A x \in keys : <<x, x>> \notin R
    BY <2>1
  <2>3. \A x, y \in keys : x # y => <<x, y>> \in R \/ <<y, x>> \in R
    BY <2>1
  <2>4. \A x, y, z \in keys : <<x, y>> \in R /\ <<y, z>> \in R => <<x, z>> \in R
    BY <2>1
  <2>5. QED
    BY <2>2, <2>3, <2>4 DEF IsOrderOn
<1>2. sorted = InOrder(keys, R)
  BY DEF SortedKeys
<1> HIDE DEF R, sorted, n
<1>3. /\ n \in Nat /\ sorted \in [1 .. n -> keys] /\ sorted \in Seq(keys)
      /\ \A i, j \in 1 .. n : sorted[i] = sorted[j] => i = j
      /\ \A x \in keys : \E i \in 1 .. n : sorted[i] = x
  BY <1>1, <1>2, InOrderDoes DEF n
<1>4. IsList(sorted) /\ DOMAIN sorted = 1 .. n
  BY <1>3, SeqIsList
<1>5. Range(sorted) = keys
  <2>1. \A i \in 1 .. n : sorted[i] \in keys
    BY <1>3
  <2>2. Range(sorted) = {sorted[i] : i \in 1 .. n}
    BY <1>4 DEF Range
  <2>3. \A x \in keys : \E i \in 1 .. n : sorted[i] = x
    BY <1>3
  <2>4. QED
    BY ONLY <2>1, <2>2, <2>3
<1>6. QED
  BY <1>3, <1>4, <1>5 DEF sorted

LEMMA EntryParts ==
    ASSUME NEW e \in Entries
    PROVE  /\ e.addresses \in Seq([multiaddr : Nat, isCertified : {0, 1, Null}]) /\ IsList(e.addresses)
           /\ \A i \in DOMAIN e.addresses :
                 /\ e.addresses[i] \in [multiaddr : Nat, isCertified : {0, 1, Null}]
                 /\ e.addresses[i].multiaddr \in Nat
           /\ e.protocols \in Seq(Nat) /\ IsList(e.protocols)
           /\ \A i \in DOMAIN e.protocols : e.protocols[i] \in Nat
<1> DEFINE A == e.addresses
           P == e.protocols
           E == [multiaddr : Nat, isCertified : {0, 1, Null}]
<1>1. A \in Seq(E) /\ P \in Seq(Nat)
  BY EntriesAssumption
<1>2. \A a \in E : a.multiaddr \in Nat
  OBVIOUS
<1> HIDE DEF A, P, E
<1>3. IsList(A) /\ IsList(P)
  BY <1>1, SeqIsList
<1>4. \A i \in DOMAIN A : A[i] \in E /\ A[i].multiaddr \in Nat
  BY <1>1, <1>2
<1>5. \A i \in DOMAIN P : P[i] \in Nat
  BY <1>1
<1>6. QED
  BY <1>1, <1>3, <1>4, <1>5 DEF A, P, E

\* An entry as it is loaded, from its sorted addresses and protocols.
LEMMA LoadedEntry ==
    ASSUME NEW e \in Entries, KeysAgree(e)
    PROVE  LET addresses == SortedAddresses(e.addresses)
               g == LoadEntry(SaveEntry(e), e.idKey)
           IN  /\ g.addresses = [i \in DOMAIN addresses |-> LoadedAddress(addresses[i])]
               /\ g.protocols = SortedProtocols(e.protocols)
               /\ g.metadata = e.metadata
               /\ g.pubKey = e.pubKey /\ g.idKey = e.idKey
               /\ g.peerRecordEnvelope = e.peerRecordEnvelope
               /\ IsList(addresses)
               /\ Range(addresses) = Firsts(e.addresses)
               /\ \A i, j \in DOMAIN addresses : addresses[i].multiaddr = addresses[j].multiaddr => i = j
               /\ SortedAddresses(addresses) = addresses
<1> DEFINE addresses == SortedAddresses(e.addresses)
           protocols == SortedProtocols(e.protocols)
           keys == SortedKeys(DOMAIN e.metadata)
           g == LoadEntry(SaveEntry(e), e.idKey)
<1>1. /\ e.addresses \in Seq([multiaddr : Nat, isCertified : {0, 1, Null}])
      /\ e.protocols \in Seq(Nat)
      /\ DOMAIN e.metadata \in SUBSET Nat /\ IsFiniteSet(DOMAIN e.metadata)
      /\ e.metadata = [k \in DOMAIN e.metadata |-> e.metadata[k]]
  BY EntriesAssumption
<1>2. /\ IsList(addresses)
      /\ Range(addresses) = Firsts(e.addresses)
      /\ \A i, j \in DOMAIN addresses : addresses[i].multiaddr = addresses[j].multiaddr => i = j
      /\ SortedAddresses(addresses) = addresses
  <2>1. IsList(e.addresses) /\ \A i \in DOMAIN e.addresses : e.addresses[i].multiaddr \in Nat
    BY EntryParts
  <2>2. QED
    BY <2>1, SortedAddressesAre
<1>3. IsList(protocols)
  <2>1. IsList(e.protocols) /\ \A i \in DOMAIN e.protocols : e.protocols[i] \in Nat
    BY <1>1, SeqIsList
  <2>2. QED
    BY <2>1, SortedProtocolsAre
<1>4. /\ IsList(keys) /\ Range(keys) = DOMAIN e.metadata
      /\ \A i, j \in DOMAIN keys : keys[i] = keys[j] => i = j
  <2> DEFINE K == DOMAIN e.metadata
  <2>1. K \in SUBSET Nat /\ IsFiniteSet(K) /\ keys = SortedKeys(K)
    BY <1>1
  <2> HIDE DEF K, keys
  <2>2. IsList(keys) /\ Range(keys) = K /\ \A i, j \in DOMAIN keys : keys[i] = keys[j] => i = j
    BY <2>1, SortedKeysAre
  <2>3. QED
    BY <2>2 DEF K
<1>5. /\ StoredEntry(e) = Encode("Peer", EntryMessage(addresses, protocols, keys, e))
      /\ g = EntryOf(Decode("Peer", StoredEntry(e)), e.idKey)
  BY SavedIs DEF SaveEntry, LoadEntry
<1> HIDE DEF addresses, protocols, keys
<1>6. g = [addresses |-> [i \in DOMAIN addresses |-> LoadedAddress(addresses[i])],
           protocols |-> protocols,
           metadata |-> [k \in Range(keys) |-> e.metadata[k]],
           pubKey |-> e.pubKey, idKey |-> e.idKey, peerRecordEnvelope |-> e.peerRecordEnvelope]
  BY <1>2, <1>3, <1>4, <1>5, LoadedIs
<1> HIDE DEF g
<1>7. [k \in Range(keys) |-> e.metadata[k]] = e.metadata
  BY <1>1, <1>4
<1>8. /\ g.addresses = [i \in DOMAIN addresses |-> LoadedAddress(addresses[i])]
      /\ g.protocols = protocols /\ g.metadata = e.metadata /\ g.pubKey = e.pubKey
      /\ g.idKey = e.idKey /\ g.peerRecordEnvelope = e.peerRecordEnvelope
  BY <1>6, <1>7
<1>9. QED
  BY <1>2, <1>8 DEF addresses, protocols, g

\* The multiaddrs, the flag of the first address of each, and no other address.
LEMMA AddressesKept ==
    ASSUME NEW e \in Entries, KeysAgree(e)
    PROVE  LET g == LoadEntry(SaveEntry(e), e.idKey)
           IN  /\ {a.multiaddr : a \in Range(g.addresses)} = {a.multiaddr : a \in Range(e.addresses)}
               /\ \A i, j \in DOMAIN g.addresses :
                     g.addresses[i].multiaddr = g.addresses[j].multiaddr => i = j
               /\ \A i \in DOMAIN e.addresses :
                     (\A j \in 1 .. i - 1 : e.addresses[j].multiaddr # e.addresses[i].multiaddr) =>
                         [e.addresses[i] EXCEPT !.isCertified = IF @ = Null THEN 0 ELSE @]
                             \in Range(g.addresses)
<1> DEFINE addresses == SortedAddresses(e.addresses)
           g == LoadEntry(SaveEntry(e), e.idKey)
<1>1. /\ g.addresses = [i \in DOMAIN addresses |-> LoadedAddress(addresses[i])]
      /\ Range(addresses) = Firsts(e.addresses)
      /\ \A i, j \in DOMAIN addresses : addresses[i].multiaddr = addresses[j].multiaddr => i = j
  BY LoadedEntry
<1> HIDE DEF addresses, g
<1>2. IsList(e.addresses)
  BY EntryParts
<1>3. \A a : LoadedAddress(a).multiaddr = a.multiaddr
  BY DEF LoadedAddress
<1>4. /\ DOMAIN g.addresses = DOMAIN addresses
      /\ \A i \in DOMAIN addresses : g.addresses[i] = LoadedAddress(addresses[i])
  BY <1>1
<1>5. Range(g.addresses) = {LoadedAddress(a) : a \in Firsts(e.addresses)}
  <2>1. Range(g.addresses) = {LoadedAddress(addresses[i]) : i \in DOMAIN addresses}
    BY <1>4 DEF Range
  <2>2. Firsts(e.addresses) = {addresses[i] : i \in DOMAIN addresses}
    BY <1>1 DEF Range
  <2>3. QED
    BY <2>1, <2>2
<1>6. Firsts(e.addresses) \subseteq Range(e.addresses)
  BY DEF Firsts, Range
<1>7. \A a \in Range(e.addresses) : \E b \in Firsts(e.addresses) : b.multiaddr = a.multiaddr
  BY <1>2, FirstsExist DEF Range
<1>8. {a.multiaddr : a \in Range(g.addresses)} = {a.multiaddr : a \in Range(e.addresses)}
  BY <1>3, <1>5, <1>6, <1>7
<1>9. \A i, j \in DOMAIN g.addresses : g.addresses[i].multiaddr = g.addresses[j].multiaddr => i = j
  BY <1>1, <1>3, <1>4
<1>10. ASSUME NEW i \in DOMAIN e.addresses,
              \A j \in 1 .. i - 1 : e.addresses[j].multiaddr # e.addresses[i].multiaddr
       PROVE  [e.addresses[i] EXCEPT !.isCertified = IF @ = Null THEN 0
                                                     ELSE @] \in Range(g.addresses)
  <2> DEFINE a == e.addresses[i]
  <2>1. a \in Firsts(e.addresses)
    BY <1>10 DEF Firsts
  <2>2. a \in [multiaddr : Nat, isCertified : {0, 1, Null}]
    BY EntryParts
  <2> HIDE DEF a
  <2>3. [a EXCEPT !.isCertified = IF @ = Null THEN 0 ELSE @] = LoadedAddress(a)
    BY <2>2 DEF LoadedAddress
  <2>4. LoadedAddress(a) \in Range(g.addresses)
    BY <1>5, <2>1
  <2>5. [a EXCEPT !.isCertified = IF @ = Null THEN 0 ELSE @] \in Range(g.addresses)
    BY <2>3, <2>4
  <2>6. QED
    BY <2>5 DEF a
<1>11. QED
  BY <1>8, <1>9, <1>10 DEF g

\* Each protocol, as often as it was saved.
LEMMA ProtocolsKept ==
    ASSUME NEW list \in Seq(Nat), NEW p
    PROVE  LET sorted == SortedProtocols(list)
           IN  Cardinality({i \in DOMAIN sorted : sorted[i] = p})
                  = Cardinality({i \in DOMAIN list : list[i] = p})
<1> DEFINE sorted == SortedProtocols(list)
           X == {i \in DOMAIN sorted : sorted[i] = p}
           Y == {i \in DOMAIN list : list[i] = p}
<1>1. PICK order \in [DOMAIN list -> DOMAIN list] :
         /\ sorted = [i \in DOMAIN list |-> list[order[i]]]
         /\ \A i, j \in DOMAIN list : order[i] = order[j] => i = j
         /\ \A j \in DOMAIN list : \E i \in DOMAIN list : order[i] = j
  <2>1. IsList(list) /\ \A i \in DOMAIN list : list[i] \in Nat
    BY SeqIsList
  <2>2. QED
    BY <2>1, SortedProtocolsAre
<1> HIDE DEF sorted
<1>2. /\ DOMAIN sorted = DOMAIN list
      /\ \A i \in DOMAIN list : order[i] \in DOMAIN list /\ sorted[i] = list[order[i]]
  BY <1>1
<1> DEFINE f == [i \in X |-> order[i]]
<1>3. f \in [X -> Y]
  BY <1>2
<1>4. \A i, j \in X : f[i] = f[j] => i = j
  BY <1>1, <1>2
<1>5. \A j \in Y : \E i \in X : f[i] = j
  <2> SUFFICES ASSUME NEW j \in Y PROVE \E i \in X : f[i] = j
    OBVIOUS
  <2>1. PICK i \in DOMAIN list : order[i] = j
    BY <1>1
  <2>2. i \in X
    BY <1>2, <2>1
  <2>3. QED
    BY <2>1, <2>2
<1>6. IsFiniteSet(X)
  <2> DEFINE D == 1 .. Len(list)
  <2>1. Len(list) \in Nat /\ X \in SUBSET D
    BY <1>2
  <2>2. IsFiniteSet(D)
    BY <2>1, FS_Interval
  <2> HIDE DEF X, D
  <2>3. QED
    BY <2>1, <2>2, FS_Subset
<1> HIDE DEF X, Y, f
<1>7. f \in Bijection(X, Y)
  BY <1>3, <1>4, <1>5 DEF Bijection, Injection, Surjection, IsInjective
<1>8. Cardinality(X) = Cardinality(Y)
  BY <1>6, <1>7, FS_Bijection DEF ExistsBijection
<1>9. QED
  BY <1>8 DEF X, Y, sorted

\* What is loaded is saved in the same bytes.
LEMMA SavedAgain ==
    ASSUME NEW e \in Entries, KeysAgree(e), \A a \in Range(e.addresses) : a.isCertified # Null
    PROVE  SaveEntry(LoadEntry(SaveEntry(e), e.idKey)) = SaveEntry(e)
<1> DEFINE addresses == SortedAddresses(e.addresses)
           protocols == SortedProtocols(e.protocols)
           g == LoadEntry(SaveEntry(e), e.idKey)
<1>1. /\ g.addresses = [i \in DOMAIN addresses |-> LoadedAddress(addresses[i])]
      /\ g.protocols = protocols /\ g.metadata = e.metadata /\ g.pubKey = e.pubKey
      /\ g.idKey = e.idKey /\ g.peerRecordEnvelope = e.peerRecordEnvelope
      /\ IsList(addresses) /\ Range(addresses) = Firsts(e.addresses)
      /\ SortedAddresses(addresses) = addresses
  BY LoadedEntry
<1>2. SortedProtocols(protocols) = protocols
  <2>1. IsList(e.protocols) /\ \A i \in DOMAIN e.protocols : e.protocols[i] \in Nat
    BY EntryParts
  <2>2. \E order \in [DOMAIN e.protocols -> DOMAIN e.protocols] :
           protocols = [i \in DOMAIN e.protocols |-> e.protocols[order[i]]]
    <3> DEFINE list == e.protocols
    <3>1. IsList(list) /\ \A i \in DOMAIN list : list[i] \in Nat
      BY <2>1
    <3> HIDE DEF list
    <3>2. \E order \in [DOMAIN list -> DOMAIN list] :
             SortedProtocols(list) = [i \in DOMAIN list |-> list[order[i]]]
      BY <3>1, SortedProtocolsAre
    <3>3. QED
      BY <3>2 DEF list
  <2>3. IsList(protocols) /\ \A i, j \in DOMAIN protocols : i < j => protocols[i] <= protocols[j]
    BY <2>1, SortedProtocolsAre
  <2> HIDE DEF protocols
  <2>4. \A i \in DOMAIN protocols : protocols[i] \in Nat
    BY <2>1, <2>2
  <2>5. QED
    BY <2>3, <2>4, SortedAgain
<1> HIDE DEF addresses, protocols, g
<1>3. g.addresses = addresses
  <2>1. ASSUME NEW i \in DOMAIN addresses PROVE LoadedAddress(addresses[i]) = addresses[i]
    <3> DEFINE a == addresses[i]
    <3>1. a \in Firsts(e.addresses)
      BY <1>1 DEF Range
    <3>2. a \in Range(e.addresses)
      BY <3>1 DEF Firsts, Range
    <3>3. a \in [multiaddr : Nat, isCertified : {0, 1, Null}]
      BY <3>2, EntryParts DEF Range
    <3>4. a.isCertified # Null
      BY <3>2
    <3> HIDE DEF a
    <3>5. LoadedAddress(a) = a
      BY <3>3, <3>4 DEF LoadedAddress
    <3>6. QED
      BY <3>5 DEF a
  <2>2. addresses = [i \in DOMAIN addresses |-> addresses[i]]
    BY <1>1, ListParts
  <2>3. QED
    BY <1>1, <2>1, <2>2
<1>4. StoredEntry(g) = Encode("Peer", EntryMessage(addresses, protocols, SortedKeys(DOMAIN e.metadata), g))
  BY <1>1, <1>2, <1>3, SavedIs
<1>5. StoredEntry(e) = Encode("Peer", EntryMessage(addresses, protocols, SortedKeys(DOMAIN e.metadata), e))
  BY SavedIs DEF addresses, protocols
<1>6. \A K : EntryMessage(addresses, protocols, K, g) = EntryMessage(addresses, protocols, K, e)
  BY <1>1 DEF EntryMessage
<1>7. SaveEntry(g) = SaveEntry(e)
  BY <1>1, <1>4, <1>5, <1>6 DEF SaveEntry, KeysAgree
<1>8. QED
  BY <1>7 DEF g

\* An entry with another key than the peer's id is refused. Every other is
\* loaded as it was saved: the first address of each multiaddr with
\* its flag, each protocol as often, and the rest unchanged; once every flag is
\* set, saving it again gives the same bytes. (PersistentStore.save, load.)
THEOREM EntriesKeptAlways == Spec => []EntriesKept
<1>1. ASSUME ValueInv PROVE EntriesKept
  <2>1. CASE got # Nothing /\ kind = "entry" /\ KeysAgree(thing)
    <3>1. thing \in Entries /\ wire = SaveEntry(thing) /\ got = LoadEntry(SaveEntry(thing), thing.idKey)
      BY <1>1, <2>1 DEF ValueInv
    <3>2. /\ got.protocols = SortedProtocols(thing.protocols) /\ got.metadata = thing.metadata
          /\ got.pubKey = thing.pubKey /\ got.peerRecordEnvelope = thing.peerRecordEnvelope
          /\ got.idKey = thing.idKey
      BY <2>1, <3>1, LoadedEntry
    <3>3. \A p : Cardinality({i \in DOMAIN got.protocols : got.protocols[i] = p})
                    = Cardinality({i \in DOMAIN thing.protocols : thing.protocols[i] = p})
      <4> DEFINE list == thing.protocols
      <4>1. list \in Seq(Nat) /\ got.protocols = SortedProtocols(list)
        BY <3>1, <3>2, EntryParts
      <4> HIDE DEF list
      <4>2. \A p : Cardinality({i \in DOMAIN SortedProtocols(list) : SortedProtocols(list)[i] = p})
                      = Cardinality({i \in DOMAIN list : list[i] = p})
        BY <4>1, ProtocolsKept
      <4>3. QED
        BY <4>1, <4>2 DEF list
    <3>4. /\ {a.multiaddr : a \in Range(got.addresses)} = {a.multiaddr : a \in Range(thing.addresses)}
          /\ \A i, j \in DOMAIN got.addresses :
                got.addresses[i].multiaddr = got.addresses[j].multiaddr => i = j
          /\ \A i \in DOMAIN thing.addresses :
                (\A j \in 1 .. i - 1 : thing.addresses[j].multiaddr # thing.addresses[i].multiaddr) =>
                    [thing.addresses[i] EXCEPT !.isCertified = IF @ = Null THEN 0 ELSE @]
                        \in Range(got.addresses)
      BY <2>1, <3>1, AddressesKept
    <3>5. (\A a \in Range(thing.addresses) : a.isCertified # Null) => SaveEntry(got) = wire
      BY <2>1, <3>1, SavedAgain
    <3>6. QED
      BY <2>1, <3>2, <3>3, <3>4, <3>5 DEF EntriesKept, KeysAgree
  <2>4. CASE got # Nothing /\ kind = "entry" /\ ~ KeysAgree(thing)
    <3>1. got = LoadEntry(SaveEntry(thing), thing.idKey)
      BY <1>1, <2>4 DEF ValueInv
    <3>2. got = Invalid
      BY <2>4, <3>1 DEF SaveEntry, LoadEntry
    <3>3. QED
      BY <2>4, <3>2 DEF EntriesKept, KeysAgree
  <2>2. CASE ~ (got # Nothing /\ kind = "entry")
    BY <2>2 DEF EntriesKept, Arrived
  <2>3. QED
    BY <2>1, <2>2, <2>4
<1>2. QED
  BY <1>1, ValueInvHolds, PTL
=============================================================================
