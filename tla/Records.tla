------------------------------ MODULE Records ------------------------------
(* What the peer store and the peer records write: the entry of a peer in the *)
(* datastore, a peer record, and the envelope that a record is sealed in.     *)
EXTENDS PeerIds

-----------------------------------------------------------------------------
(* PersistentStore. Multiaddrs, protocols and keys of metadata are numbers in *)
(* the order of their text; a buffer with x in it is <<x>>. An entry has the  *)
(* public key that its peer's id holds, if any, as idKey.                     *)

ByMultiaddr(S) == {p \in S \X S : p[1].multiaddr < p[2].multiaddr}

\* Faulty variant: the last address of each multiaddr.
LastAddresses(addresses) ==
    LET last == {addresses[i] : i \in
                   {i \in DOMAIN addresses : \A j \in i + 1 .. Len(addresses) :
                       addresses[j].multiaddr # addresses[i].multiaddr}}
    IN  InOrder(last, ByMultiaddr(last))

\* The first address of each multiaddr, by multiaddr.
SortedAddresses(addresses) ==
    LET first == {addresses[i] : i \in
                    {i \in DOMAIN addresses : \A j \in 1 .. i - 1 :
                        addresses[j].multiaddr # addresses[i].multiaddr}}
    IN  InOrder(first, ByMultiaddr(first))

\* Equal protocols stay in their order.
SortedProtocols(protocols) ==
    LET all == DOMAIN protocols
        order == InOrder(all, {p \in all \X all :
                                 \/ protocols[p[1]] < protocols[p[2]]
                                 \/ protocols[p[1]] = protocols[p[2]] /\ p[1] < p[2]})
    IN  [i \in all |-> protocols[order[i]]]

SortedKeys(keys) == InOrder(keys, {p \in keys \X keys : p[1] < p[2]})

\* The key of an entry is that of the peer's id, where both are known: otherwise
\* saving throws.
KeysAgree(peer) == peer.pubKey = Null \/ peer.idKey = Null \/ peer.pubKey = peer.idKey

StoredEntry(peer) ==
    LET Stored(a) == Without([multiaddr |-> <<a.multiaddr>>, isCertified |-> a.isCertified],
                             {"isCertified"})
        addresses == SortedAddresses(peer.addresses)
        protocols == SortedProtocols(peer.protocols)
        keys == SortedKeys(DOMAIN peer.metadata)
        m == [addresses |-> [i \in DOMAIN addresses |-> Stored(addresses[i])],
              protocols |-> [i \in DOMAIN protocols |-> <<protocols[i]>>],
              metadata |-> [i \in DOMAIN keys |->
                              [key |-> <<keys[i]>>, value |-> peer.metadata[keys[i]]]],
              pubKey |-> peer.pubKey,
              peerRecordEnvelope |-> peer.peerRecordEnvelope]
    IN  Encode("Peer", Without(m, {"pubKey", "peerRecordEnvelope"}))

SaveEntry(peer) ==
    IF KeysAgree(peer) THEN [saved |-> TRUE, bytes |-> StoredEntry(peer)] ELSE [saved |-> FALSE]

EntryOf(m, idKey) ==
    LET Certified(a) == IF IsSet(a, "isCertified") THEN a.isCertified ELSE 0
        keys == {m.metadata[i].key[1] : i \in DOMAIN m.metadata}
        LastOf(k) == CHOOSE i \in DOMAIN m.metadata :
                        /\ m.metadata[i].key = <<k>>
                        /\ \A j \in i + 1 .. Len(m.metadata) : m.metadata[j].key # <<k>>
    IN  [addresses |-> [i \in DOMAIN m.addresses |->
                          [multiaddr |-> m.addresses[i].multiaddr[1],
                           isCertified |-> Certified(m.addresses[i])]],
         protocols |-> [i \in DOMAIN m.protocols |-> m.protocols[i][1]],
         metadata |-> [k \in keys |-> m.metadata[LastOf(k)].value],
         pubKey |-> Get("Peer", m, "pubKey"), idKey |-> idKey,
         peerRecordEnvelope |-> Get("Peer", m, "peerRecordEnvelope")]

\* There is nothing to load if nothing was saved.
LoadEntry(stored, idKey) ==
    IF stored.saved THEN EntryOf(Decode("Peer", stored.bytes), idKey) ELSE Invalid

-----------------------------------------------------------------------------
(* PeerRecord and RecordEnvelope. A signature is the key with what it signs.  *)

MarshalRecord(record) ==
    Encode("PeerRecord",
        [peerId |-> <<ToBytes(record.peerId)>>,
         seq |-> record.seqNumber,
         addresses |-> [i \in DOMAIN record.multiaddrs |-> [multiaddr |-> <<record.multiaddrs[i]>>]]])

\* Of the messages that MarshalRecord writes: those without an id are refused.
RecordOf(m) ==
    [peerId |-> PeerIdFromBytes(m.peerId[1]),
     seqNumber |-> Get("PeerRecord", m, "seq"),
     multiaddrs |-> [i \in DOMAIN m.addresses |-> m.addresses[i].multiaddr[1]]]

RecordFromProtobuf(wire) == RecordOf(Decode("PeerRecord", wire))

SameRecord(a, b) ==
    /\ a.peerId.multihash = b.peerId.multihash
    /\ a.seqNumber = b.seqNumber
    /\ a.multiaddrs = b.multiaddrs

\* Faulty variant: the domain is not signed.
FormatWithoutDomain(domain, payloadType, payload) == <<payloadType, payload>>

\* Every part with its length before it: different parts give different bytes.
FormatSignaturePayload(domain, payloadType, payload) == <<domain, payloadType, payload>>

\* An id without a private key cannot seal.
CanSeal(id) == id.privateKey # Null

Seal(record, domain, codec, id) ==
    LET payload == MarshalRecord(record)
    IN  [peerId |-> id, payloadType |-> codec, payload |-> payload,
         signature |-> <<id.privateKey, FormatSignaturePayload(domain, codec, payload)>>]

MarshalEnvelope(envelope) ==
    Encode("Envelope",
        [publicKey |-> Buffer(envelope.peerId.publicKey),
         payloadType |-> <<envelope.payloadType>>,
         payload |-> envelope.payload,
         signature |-> envelope.signature])

EnvelopeOf(m) ==
    [peerId |-> PeerIdFromKeys(m.publicKey[1], Null), payloadType |-> m.payloadType[1],
     payload |-> m.payload, signature |-> m.signature]

EnvelopeFromProtobuf(wire) == EnvelopeOf(Decode("Envelope", wire))

Validate(envelope, domain) ==
    envelope.signature =
        <<envelope.peerId.publicKey,
          FormatSignaturePayload(domain, envelope.payloadType, envelope.payload)>>

\* What opening an envelope gives: it throws if the signature is not valid.
Opened(envelope, domain) ==
    IF Validate(envelope, domain) THEN [opens |-> TRUE, envelope |-> envelope] ELSE [opens |-> FALSE]

OpenAndCertify(wire, domain) == Opened(EnvelopeFromProtobuf(wire), domain)
=============================================================================
