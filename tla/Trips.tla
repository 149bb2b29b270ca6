------------------------------- MODULE Trips -------------------------------
(* A value on its way: one node writes it, other implementations of protobuf  *)
(* may write the same value in another way, and a node reads it. The value is *)
(* a message of WireMessages, an entry of the peer store, a sealed peer       *)
(* record, or a peer id.                                                      *)
EXTENDS Records

CONSTANTS
    Samples,        \* messages that are written, of each type
    Others,         \* values that others write into a field, of each field
    Domains,        \* of sealed records
    Codec,          \* the payload type of peer records
    Entries,        \* of the peer store
    SeqNumbers, AddressLists,   \* of peer records
    MaxLiberties    \* bound: what other implementations change in one wire

ASSUME LibertiesAreFinite == MaxLiberties \in Nat

VARIABLES
    kind,       \* what is on its way: a message type, or a kind of value
    thing,      \* the value that was written
    wire,       \* what the writer wrote
    got,        \* what the reader made of it
    out,        \* what became of the message then: [form, value, options]
    liberties   \* taken so far

vars == <<kind, thing, wire, got, out, liberties>>

Nothing == Null
AppKinds == {"entry", "sealed", "id"}

ASSUME KindsAssumption == Nothing \notin Types \cup AppKinds

-----------------------------------------------------------------------------
(* What is written.                                                           *)

\* What a program may have put into a message: each own property holds a value of
\* its field, a list a sequence of them.
IsMessageWith(type, m, Nested(_, _)) ==
    /\ DOMAIN m \subseteq Fields(type)
    /\ \A n \in DOMAIN m :
          LET f == Schema[type][n]
              values == IF f.label = "repeated" THEN Range(m[n]) ELSE {m[n]}
          IN  /\ f.label = "repeated" => m[n] \in Seq(values)
              /\ IsNested(f) => \A v \in values : Nested(f.kind, v)

IsMessage1(type, m) == IsMessageWith(type, m, LAMBDA t, v : TRUE)
IsMessage2(type, m) == IsMessageWith(type, m, IsMessage1)
IsMessage3(type, m) == IsMessageWith(type, m, IsMessage2)
IsMessage(type, m) == IsMessageWith(type, m, IsMessage3)

ASSUME SamplesAssumption ==
    /\ \A type \in Types : \A m \in Samples[type] : IsMessage(type, m)
    /\ \A f \in UNION {Range(Schema[type]) : type \in Types} :
          IsNested(f) => \A v \in Others[f] : IsMessage(f.kind, v)

ASSUME EntriesAssumption ==
    /\ \A e \in Entries :
          /\ e.addresses \in Seq([multiaddr : Nat, isCertified : {0, 1, Null}])
          /\ e.protocols \in Seq(Nat)
          /\ DOMAIN e.metadata \subseteq Nat /\ IsFiniteSet(DOMAIN e.metadata)
          /\ e.metadata \in [DOMAIN e.metadata -> Range(e.metadata)]
    /\ SeqNumbers \subseteq Nat /\ AddressLists \subseteq Seq(Nat)

SampleIds ==
    {CreateFromPrivKey(k) : k \in Keys} \cup {CreateFromPubKey(k) : k \in Keys}
        \cup {PeerIdFromBytes(ToBytes(CreateFromPubKey(k))) : k \in Keys}

SampleRecords == [peerId : SampleIds, seqNumber : SeqNumbers, multiaddrs : AddressLists]

-----------------------------------------------------------------------------
Init ==
    /\ kind = Nothing
    /\ thing = Nothing
    /\ wire = Nothing
    /\ got = Nothing
    /\ out = Nothing
    /\ liberties = 0

Send(k, value, bytes) ==
    /\ kind' = k
    /\ thing' = value
    /\ wire' = bytes
    /\ UNCHANGED <<got, out, liberties>>

WriteMessage(type) == \E m \in Samples[type] : Send(type, m, Encode(type, m))

WriteEntry == \E p \in Entries : Send("entry", p, SaveEntry(p))

\* A record, its domain and its signer; the wire is the marshalled envelope.
WriteSealed ==
    \E r \in SampleRecords, d \in Domains, id \in SampleIds :
        /\ CanSeal(id)
        /\ Send("sealed", [record |-> r, domain |-> d, id |-> id],
                MarshalEnvelope(Seal(r, d, Codec, id)))

\* The forms of an id: without its private key in a protobuf message only if the
\* caller asks for that.
Forms == {"bytes", "string", "text", "cid", "cidText", "json", "protobuf", "publicProtobuf", "copy"}
WrittenId(id, form) ==
    CASE form = "bytes" -> ToBytes(id)
      [] form = "string" -> IdToString(id)
      [] form = "text" -> InBase("base32", ToBytes(id))
      [] form = "cid" -> ToCID(id)
      [] form = "cidText" -> InBase("base36", ToCID(id))
      [] form = "json" -> ToJSON(id)
      [] form = "protobuf" -> ExportToProtobuf(id, FALSE)
      [] form = "publicProtobuf" -> ExportToProtobuf(id, TRUE)
      [] form = "copy" -> id

WriteId ==
    \E id \in SampleIds, form \in Forms :
        Send("id", [id |-> id, form |-> form], WrittenId(id, form))

-----------------------------------------------------------------------------
(* Other implementations: protobuf lets them write a field more than once,    *)
(* fields in any order, and fields that this version does not know.           *)

UnknownTag == 99

MayRewrite == kind \in Types /\ got = Nothing /\ liberties < MaxLiberties

Rewrite(bytes) ==
    /\ wire' = bytes
    /\ liberties' = liberties + 1
    /\ UNCHANGED <<kind, thing, got, out>>

AddUnknown == \E i \in 1 .. Len(wire) + 1 : Rewrite(InsertAt(wire, i, <<UnknownTag, 1>>))

\* A value that a later one of the same field overrides.
Supersede ==
    \E n \in Fields(kind) \ Lists(kind) :
        LET f == Schema[kind][n] IN
        /\ ValuesOf(f, wire) # <<>>
        /\ \E v \in Others[f] :
              Rewrite(<<<<f.tag, IF IsNested(f) THEN Encode(f.kind, v) ELSE v>>>> \o wire)

Reorder ==
    \E i \in 1 .. Len(wire) - 1 :
        /\ wire[i][1] # wire[i + 1][1]
        /\ Rewrite([wire EXCEPT ![i] = wire[i + 1], ![i + 1] = wire[i]])

-----------------------------------------------------------------------------
Receive(value) ==
    /\ kind # Nothing
    /\ got = Nothing
    /\ got' = value
    /\ UNCHANGED <<kind, thing, wire, out, liberties>>

ReadMessage == kind \in Types /\ Receive(Decode(kind, wire))
ReadEntry == kind = "entry" /\ Receive(LoadEntry(wire, thing.idKey))

\* The reader expects one domain, and takes the record out of the envelope.
ReadSealed(domain) ==
    /\ kind = "sealed"
    /\ LET opened == OpenAndCertify(wire, domain)
       IN  Receive(IF opened.opens
                   THEN [domain |-> domain, opens |-> TRUE, envelope |-> opened.envelope,
                         record |-> RecordFromProtobuf(opened.envelope.payload)]
                   ELSE [domain |-> domain, opens |-> FALSE])

ReadId ==
    /\ kind = "id"
    /\ Receive(CASE thing.form = "bytes" -> PeerIdFromBytes(wire)
                 [] thing.form \in {"string", "text", "cidText"} -> PeerIdFromString(wire)
                 [] thing.form = "cid" -> PeerIdFromCID(wire)
                 [] thing.form = "json" -> CreateFromJSON(wire)
                 [] thing.form \in {"protobuf", "publicProtobuf"} -> CreateFromProtobuf(wire)
                 [] thing.form = "copy" -> PeerIdFromPeerId(wire))

\* A message is sent on, or made a plain object, and that a message again.
Become(form, value, options) ==
    /\ out' = [form |-> form, value |-> value, options |-> options]
    /\ UNCHANGED <<kind, thing, wire, got, liberties>>

Forward == out = Nothing /\ Become("wire", Encode(kind, got), Nothing)

MakeObject ==
    /\ out = Nothing
    /\ liberties = 0
    /\ \E o \in Options : Become("object", ToObject(kind, got, o), o)

ReadObject ==
    /\ out # Nothing
    /\ out.form = "object"
    /\ Become("message", FromObject(kind, out.value, out.options.text), out.options)

Next ==
    \/ kind = Nothing /\ \/ \E type \in Types : WriteMessage(type)
                         \/ WriteEntry
                         \/ WriteSealed
                         \/ WriteId
    \/ MayRewrite /\ (AddUnknown \/ Supersede \/ Reorder)
    \/ ReadMessage
    \/ ReadEntry
    \/ \E d \in Domains : ReadSealed(d)
    \/ ReadId
    \/ got # Nothing /\ kind \in Types /\ (Forward \/ MakeObject \/ ReadObject)

Spec == Init /\ [][Next]_vars

-----------------------------------------------------------------------------
\* What may be lost on the way through an object: an empty buffer that is not
\* text, and an enum of an unknown value. Nothing is on a wire.
Losable(f, v, way) ==
    \/ way = "buffers" /\ f.kind = "bytes" /\ v = <<>>
    \/ way # "wire" /\ f.kind = "enum" /\ v \notin EnumValues

\* A list that has lost its empty members: the others have kept their places.
Punched(x, y) ==
    /\ DOMAIN y \subseteq DOMAIN x
    /\ \A i \in DOMAIN x : IF x[i] = <<>> THEN i \in DOMAIN y => y[i] = Null
                          ELSE i \in DOMAIN y /\ y[i] = x[i]

\* Whether two messages read the same after that way, field by field, whatever
\* they own.
ReadsAsWith(type, a, b, way, Nested(_, _, _)) ==
    \A n \in Fields(type) :
        LET f == Schema[type][n]
            x == Get(type, a, n)
            y == Get(type, b, n)
            Same(v, w) == IF IsNested(f) THEN Nested(f.kind, v, w) ELSE v = w
        IN  CASE f.label = "repeated" ->
                     IF f.kind = "bytes" /\ way = "buffers" THEN Punched(x, y)
                     ELSE Len(x) = Len(y) /\ \A i \in DOMAIN x : Same(x[i], y[i])
              [] f.label = "optional" /\ ~ (IsSet(a, n) /\ IsSet(b, n)) ->
                     /\ ~ IsSet(b, n)
                     /\ IsSet(a, n) => Losable(f, x, way)
              [] OTHER -> Same(x, y)

ReadsAs1(type, a, b, way) == ReadsAsWith(type, a, b, way, LAMBDA t, v, w : v = w)
ReadsAs2(type, a, b, way) ==
    ReadsAsWith(type, a, b, way, LAMBDA t, v, w : ReadsAs1(t, v, w, way))
ReadsAs3(type, a, b, way) ==
    ReadsAsWith(type, a, b, way, LAMBDA t, v, w : ReadsAs2(t, v, w, way))
ReadsAs(type, a, b, way) ==
    ReadsAsWith(type, a, b, way, LAMBDA t, v, w : ReadsAs3(t, v, w, way))

Arrived == got # Nothing
Became(form) == out # Nothing /\ out.form = form

\* A message reads as the one that was written, whatever liberties were taken
\* on its way; it is forwarded as it was read; and the bytes of this code are
\* canonical: forwarding them does not change them, so that the signature over
\* an encoded message can be checked by encoding it again. (The generated
\* encode() and decode() of every message.)
MessagesArrive ==
    (Arrived /\ kind \in Types) =>
        /\ out = Nothing => ReadsAs(kind, thing, got, "wire")
        /\ Became("wire") =>
              /\ Decode(kind, out.value) = got
              /\ liberties = 0 => out.value = wire

\* A message survives the plain objects of toObject() and fromObject(), whichever
\* of arrays, defaults and oneofs are asked for. As text it keeps all but enums of
\* unknown values. Otherwise empty buffers are lost too: an optional one is unset,
\* and one in a list (of keys, or of hashes of keys) is a hole or is cut off; every
\* other member stays where it was.
ObjectsAgree ==
    Became("message") =>
        ReadsAs(kind, got, out.value, IF out.options.text THEN "text" ELSE "buffers")

\* An entry of the peer store with another key than the peer's id is not saved. Any
\* other is loaded as it was saved, with one address per multiaddr, the flag of the
\* first one (an unset one as false), and no order; and saving what was loaded leaves
\* the datastore as it is, once every flag is set. (PersistentStore.save, load.)
EntriesKept ==
    (Arrived /\ kind = "entry") =>
        IF thing.pubKey # Null /\ thing.idKey # Null /\ thing.pubKey # thing.idKey
        THEN got = Invalid
        ELSE /\ {a.multiaddr : a \in Range(got.addresses)} = {a.multiaddr : a \in Range(thing.addresses)}
             /\ \A i, j \in DOMAIN got.addresses :
                   got.addresses[i].multiaddr = got.addresses[j].multiaddr => i = j
             /\ \A i \in DOMAIN thing.addresses :
                   (\A j \in 1 .. i - 1 : thing.addresses[j].multiaddr # thing.addresses[i].multiaddr) =>
                       [thing.addresses[i] EXCEPT !.isCertified = IF @ = Null THEN 0 ELSE @]
                           \in Range(got.addresses)
             /\ \A p \in Range(thing.protocols) \cup Range(got.protocols) :
                   Cardinality({i \in DOMAIN got.protocols : got.protocols[i] = p})
                       = Cardinality({i \in DOMAIN thing.protocols : thing.protocols[i] = p})
             /\ got.metadata = thing.metadata
             /\ got.pubKey = thing.pubKey
             /\ got.peerRecordEnvelope = thing.peerRecordEnvelope
             /\ got.idKey = thing.idKey
             /\ (\A a \in Range(thing.addresses) : a.isCertified # Null) => SaveEntry(got) = wire

\* A sealed record opens for the domain it was sealed for, as the record of the
\* same peer, signed by the same key and sealed in the same bytes; for no other
\* domain does it open. (RecordEnvelope.seal, openAndCertify, PeerRecord.marshal.)
SealsHold ==
    (Arrived /\ kind = "sealed") =>
        IF got.domain # thing.domain THEN ~ got.opens
        ELSE /\ got.opens
             /\ got.envelope.peerId.multihash = thing.id.multihash
             /\ MarshalEnvelope(got.envelope) = wire
             /\ SameRecord(got.record, thing.record)

\* An id is read as itself from every form, of its own type, with the public key
\* that the form holds and the private key that a stored form holds. The CID of an
\* embedded key and a protobuf message without the private key are refused, never
\* read as another id. (The readers of peer-id and of its factory.)
IdsAreKept ==
    (Arrived /\ kind = "id") =>
        LET embedded == thing.id.multihash.code = "identity"
            stored == thing.form \in {"json", "protobuf", "copy"}
            refused == \/ thing.form \in {"cid", "cidText"} /\ embedded
                       \/ thing.form \in {"protobuf", "publicProtobuf"} /\
                             (thing.form = "publicProtobuf" \/ thing.id.privateKey = Null)
        IN  IF refused THEN got = Invalid
            ELSE /\ got.type = thing.id.type
                 /\ got.multihash = thing.id.multihash
                 /\ (embedded \/ stored) => got.publicKey = thing.id.publicKey
                 /\ stored => got.privateKey = thing.id.privateKey
=============================================================================
