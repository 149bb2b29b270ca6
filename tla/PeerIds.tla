------------------------------ MODULE PeerIds ------------------------------
(* Peer ids (peer-id/src/index.ts, peer-id-factory/src/index.ts): the id of a *)
(* key, the forms it is written in, and what each reader makes of them. A     *)
(* key pair stands for each of its marshalled keys, a buffer with x in it is  *)
(* <<x>>.                                                                     *)
EXTENDS Protobuf

CONSTANTS
    RSAKeys, Ed25519Keys, Secp256k1Keys,   \* key pairs of the three types
    Invalid                                \* the reader has thrown

ASSUME KeysAreDistinct ==
    /\ RSAKeys \cap Ed25519Keys = {}
    /\ RSAKeys \cap Secp256k1Keys = {}
    /\ Ed25519Keys \cap Secp256k1Keys = {}

Keys == RSAKeys \cup Ed25519Keys \cup Secp256k1Keys

\* Null is no key, and no buffer with one or without.
ASSUME NullAssumption == Null \notin Keys \cup {<<k>> : k \in Keys} \cup {<<>>}

\* MARSHALLED_ED225519_PUBLIC_KEY_LENGTH, MARSHALLED_SECP258K1_PUBLIC_KEY_LENGTH
Ed25519Length == 36
Secp256k1Length == 37
RSALength == 162        \* of a key of 1024 bits; the others are longer

PublicKeyLength(k) ==
    CASE k \in Ed25519Keys -> Ed25519Length
      [] k \in Secp256k1Keys -> Secp256k1Length
      [] OTHER -> RSALength

\* A multihash: the code of the hash, the length of the digest, and what is
\* hashed. Its bytes begin with the code and the length, one byte each.
Identity(k) == [code |-> "identity", length |-> PublicKeyLength(k), of |-> k]
Sha256(k) == [code |-> "sha256", length |-> 32, of |-> k]
BytesLength(multihash) == multihash.length + 2

Id(type, multihash, publicKey, privateKey) ==
    [type |-> type, multihash |-> multihash, publicKey |-> publicKey, privateKey |-> privateKey]

\* The classes of the three types. The public key of the last two is the
\* digest of their multihash, whatever key it is.
RSAPeerId(multihash, publicKey, privateKey) == Id("RSA", multihash, publicKey, privateKey)
Ed25519PeerId(multihash, privateKey) == Id("Ed25519", multihash, multihash.of, privateKey)
Secp256k1PeerId(multihash, privateKey) == Id("secp256k1", multihash, multihash.of, privateKey)

PeerIdFromKeys(publicKey, privateKey) ==
    CASE PublicKeyLength(publicKey) = Ed25519Length ->
             Ed25519PeerId(Identity(publicKey), privateKey)
      [] PublicKeyLength(publicKey) = Secp256k1Length ->
             Secp256k1PeerId(Identity(publicKey), privateKey)
      [] OTHER -> RSAPeerId(Sha256(publicKey), publicKey, privateKey)

PeerIdFromPeerId(other) ==
    CASE other.type = "RSA" -> RSAPeerId(other.multihash, other.publicKey, other.privateKey)
      [] other.type = "Ed25519" -> Ed25519PeerId(other.multihash, other.privateKey)
      [] other.type = "secp256k1" -> Secp256k1PeerId(other.multihash, other.privateKey)

-----------------------------------------------------------------------------
(* Forms: the bytes of the multihash, a CID around it, text of either.        *)

Bytes(multihash) == [form |-> "multihash", multihash |-> multihash]
CID(version, codec, multihash) ==
    [form |-> "cid", version |-> version, codec |-> codec, multihash |-> multihash]

ToCID(id) == CID(1, "libp2p-key", id.multihash)
ToBytes(id) == Bytes(id.multihash)

\* The id of an embedded key: a length tells its type.
IdOfLength(multihash, length) ==
    CASE length = Ed25519Length -> Ed25519PeerId(multihash, Null)
      [] length = Secp256k1Length -> Secp256k1PeerId(multihash, Null)
      [] OTHER -> Invalid

\* Compares the length of the whole multihash with those of the keys.
PeerIdFromCID(cid) ==
    IF cid.version = 1 /\ cid.codec # "libp2p-key" THEN Invalid
    ELSE CASE cid.multihash.code = "sha256" -> RSAPeerId(cid.multihash, Null, Null)
           [] cid.multihash.code = "identity" ->
                  IdOfLength(cid.multihash, BytesLength(cid.multihash))
           [] OTHER -> Invalid

\* Bytes that are no multihash are tried as a CID.
PeerIdFromBytes(bytes) ==
    IF bytes.form = "cid" THEN PeerIdFromCID(bytes)
    ELSE CASE bytes.multihash.code = "identity" ->
                  IdOfLength(bytes.multihash, bytes.multihash.length)
           [] bytes.multihash.code = "sha256" ->
                  RSAPeerId(bytes.multihash, Null, Null)
           [] OTHER -> Invalid

\* base58btc without its prefix, of a multihash: "12D..." and "16U..." are those
\* of the two kinds of embedded keys, "Qm..." that of a sha256.
IdToString(id) == [base |-> "none", start |-> <<id.multihash.code, id.multihash.length>>,
                   bytes |-> ToBytes(id)]

\* Text of a CID or a multihash in any base, with the prefix of the base.
InBase(base, bytes) == [base |-> base, bytes |-> bytes]

\* Faulty variant: every embedded key is taken for an Ed25519 key.
PeerIdFromStart(str) ==
    IF str.base = "none"
    THEN IF str.start[1] = "identity"
         THEN Ed25519PeerId(str.bytes.multihash, Null)
         ELSE RSAPeerId(str.bytes.multihash, Null, Null)
    ELSE PeerIdFromBytes(str.bytes)

PeerIdFromString(str) ==
    IF str.base = "none"
    THEN CASE str.start = <<"identity", Ed25519Length>> ->
                  Ed25519PeerId(str.bytes.multihash, Null)
           [] str.start = <<"identity", Secp256k1Length>> ->
                  Secp256k1PeerId(str.bytes.multihash, Null)
           [] OTHER -> RSAPeerId(str.bytes.multihash, Null, Null)
    ELSE PeerIdFromBytes(str.bytes)

-----------------------------------------------------------------------------
(* The factory. unmarshalPrivateKey() and unmarshalPublicKey() of the crypto  *)
(* package throw for what is no marshalled key, the empty buffer included.    *)

CreateFromPubKey(key) == PeerIdFromKeys(key, Null)
CreateFromPrivKey(key) == PeerIdFromKeys(key, key)

CreateFromParts(bytes, privKey, pubKey) ==
    CASE privKey # Null -> IF privKey = <<>> THEN Invalid ELSE CreateFromPrivKey(privKey[1])
      [] privKey = Null /\ pubKey # Null ->
             IF pubKey = <<>> THEN Invalid ELSE CreateFromPubKey(pubKey[1])
      [] OTHER -> PeerIdFromBytes(bytes)

Buffer(x) == IF x = Null THEN Null ELSE <<x>>

\* The object that createFromJSON() takes, as peer ids are stored.
ToJSON(id) ==
    [id |-> ToBytes(id), privKey |-> Buffer(id.privateKey), pubKey |-> Buffer(id.publicKey)]
CreateFromJSON(obj) == CreateFromParts(obj.id, obj.privKey, obj.pubKey)

\* A message without those of its properties that are null.
Without(m, names) == [n \in DOMAIN m \ {x \in names : m[x] = Null} |-> m[n]]

ExportToProtobuf(id, excludePrivateKey) ==
    LET m == [id |-> <<ToBytes(id)>>,
              pubKey |-> Buffer(id.publicKey),
              privKey |-> IF excludePrivateKey THEN Null ELSE Buffer(id.privateKey)]
    IN  Encode("PeerIdProto", Without(m, {"pubKey", "privKey"}))

\* The keys that the message does not own are read from the prototype.
CreateFromProtobuf(wire) ==
    LET m == Decode("PeerIdProto", wire)
        Read(name) == Get("PeerIdProto", m, name)
    IN  IF Incomplete("PeerIdProto", wire) THEN Invalid
        ELSE CreateFromParts(Read("id")[1], Read("privKey"), Read("pubKey"))
=============================================================================
