---------------------------- MODULE WireMessages ----------------------------
(* The messages of the repository's protobuf definitions, as the classes that *)
(* protobufjs generated for them declare their fields. A field has a tag on   *)
(* the wire and a kind: that of a scalar, or the name of a nested message.    *)
EXTENDS Naturals

Field(tag, kind, label) == [tag |-> tag, kind |-> kind, label |-> label]

\* A list; the default is the empty one.
Repeated(tag, kind) == Field(tag, kind, "repeated")

\* proto3 'optional': unset reads null, and a virtual oneof names it if set.
Optional(tag, kind) == Field(tag, kind, "optional")

\* proto3 without a label: unset reads as the empty value of the kind.
Plain(tag, kind) == Field(tag, kind, "plain")

\* proto2 'required': always written, and decode() throws without it.
Required(tag, kind) == Field(tag, kind, "required")

-----------------------------------------------------------------------------
(* peer-store/src/pb/peer.js *)

PeerFields ==
    [ addresses |-> Repeated(1, "Address"), protocols |-> Repeated(2, "string"),
      metadata |-> Repeated(3, "Metadata"), pubKey |-> Optional(4, "bytes"),
      peerRecordEnvelope |-> Optional(5, "bytes") ]
AddressFields == [ multiaddr |-> Plain(1, "bytes"), isCertified |-> Optional(2, "bool") ]
MetadataFields == [ key |-> Plain(1, "string"), value |-> Plain(2, "bytes") ]

(* peer-record/src/peer-record/peer-record.js, peer-record/src/envelope/envelope.js *)

PeerRecordFields ==
    [ peerId |-> Plain(1, "bytes"), seq |-> Plain(2, "uint64"),
      addresses |-> Repeated(3, "AddressInfo") ]
AddressInfoFields == [ multiaddr |-> Plain(1, "bytes") ]
EnvelopeFields ==
    [ publicKey |-> Plain(1, "bytes"), payloadType |-> Plain(2, "bytes"),
      payload |-> Plain(3, "bytes"), signature |-> Plain(5, "bytes") ]

(* peer-id-factory/src/proto.js *)

PeerIdProtoFields ==
    [ id |-> Required(1, "bytes"), pubKey |-> Plain(2, "bytes"), privKey |-> Plain(3, "bytes") ]

(* pubsub/src/message/rpc.js *)

RPCFields ==
    [ subscriptions |-> Repeated(1, "SubOpts"), messages |-> Repeated(2, "Message"),
      control |-> Optional(3, "ControlMessage") ]
SubOptsFields == [ subscribe |-> Optional(1, "bool"), topic |-> Optional(2, "string") ]
MessageFields ==
    [ from |-> Optional(1, "bytes"), data |-> Optional(2, "bytes"),
      seqno |-> Optional(3, "bytes"), topic |-> Optional(4, "string"),
      signature |-> Optional(5, "bytes"), key |-> Optional(6, "bytes") ]
ControlMessageFields ==
    [ ihave |-> Repeated(1, "ControlIHave"), iwant |-> Repeated(2, "ControlIWant"),
      graft |-> Repeated(3, "ControlGraft"), prune |-> Repeated(4, "ControlPrune") ]
ControlIHaveFields ==
    [ topicID |-> Optional(1, "string"), messageIDs |-> Repeated(2, "string") ]
ControlIWantFields == [ messageIDs |-> Repeated(1, "string") ]
ControlGraftFields == [ topicID |-> Optional(1, "string") ]
ControlPruneFields ==
    [ topicID |-> Optional(1, "string"), peers |-> Repeated(2, "PeerInfo"),
      backoff |-> Optional(3, "uint64") ]
PeerInfoFields ==
    [ peerID |-> Optional(1, "bytes"), signedPeerRecord |-> Optional(2, "bytes") ]

(* pubsub/src/message/topic-descriptor.js *)

TopicDescriptorFields ==
    [ name |-> Optional(1, "string"), auth |-> Optional(2, "AuthOpts"),
      enc |-> Optional(3, "EncOpts") ]
AuthOptsFields == [ mode |-> Optional(1, "enum"), keys |-> Repeated(2, "bytes") ]
EncOptsFields == [ mode |-> Optional(1, "enum"), keyHashes |-> Repeated(2, "bytes") ]

-----------------------------------------------------------------------------
Schema ==
    [ Peer |-> PeerFields, Address |-> AddressFields, Metadata |-> MetadataFields,
      PeerRecord |-> PeerRecordFields, AddressInfo |-> AddressInfoFields,
      Envelope |-> EnvelopeFields, PeerIdProto |-> PeerIdProtoFields,
      RPC |-> RPCFields, SubOpts |-> SubOptsFields, Message |-> MessageFields,
      ControlMessage |-> ControlMessageFields, ControlIHave |-> ControlIHaveFields,
      ControlIWant |-> ControlIWantFields, ControlGraft |-> ControlGraftFields,
      ControlPrune |-> ControlPruneFields, PeerInfo |-> PeerInfoFields,
      TopicDescriptor |-> TopicDescriptorFields, AuthOpts |-> AuthOptsFields,
      EncOpts |-> EncOptsFields ]

Types == DOMAIN Schema
Fields(type) == DOMAIN Schema[type]
Lists(type) == {n \in Fields(type) : Schema[type][n].label = "repeated"}
IsNested(f) == f.kind \in Types
=============================================================================
