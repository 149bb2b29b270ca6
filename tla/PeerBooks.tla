------------------------------ MODULE PeerBooks ------------------------------
(***************************************************************************)
(* What each method of the peer store's books makes of one peer's entry.    *)
(* A method is an operator from the entry it loads (NoEntry when there is    *)
(* none) and its arguments to an outcome: the entry it saves and the events  *)
(* it dispatches afterwards.  "id" is the public key that the PeerId given   *)
(* by the caller carries, NoKey when it carries none.  Lists of addresses    *)
(* and protocols are sets: arguments have no duplicates.                     *)
(***************************************************************************)
EXTENDS Naturals, FiniteSets

CONSTANTS
    PeerIds, Addrs, Protos, MetaKeys, Values, PubKeys,
    OwnKey,     (* the public key that each peer id determines, or NoKey   *)
    MaxSeq,     (* bound on the sequence numbers of peer records           *)
    NoEntry, NoKey, NoRecord

ASSUME BooksAssumption ==
    /\ OwnKey \in [PeerIds -> PubKeys \cup {NoKey}]
    /\ NoKey \notin PubKeys
    /\ MaxSeq \in Nat
    /\ IsFiniteSet(Protos)

\* Signed peer records, and the envelope that holds them.
Records == [seq : 1..MaxSeq, addrs : SUBSET Addrs]

\* Functions from a part of D to R.
PartialFunctions(D, R) == UNION {[S -> R] : S \in SUBSET D}

\* What the datastore keeps for a peer; an address is mapped to isCertified.
Entries ==
    [addresses : PartialFunctions(Addrs, BOOLEAN),
     protocols : SUBSET Protos,
     metadata  : PartialFunctions(MetaKeys, Values),
     pubKey    : PubKeys \cup {NoKey},
     record    : Records \cup {NoRecord}]

EventNames ==
    {"change:multiaddrs", "change:protocols", "change:pubkey",
     "change:metadata", "peer"}

\* An outcome as some method can compute it.
OutcomeType == [entry : Entries \cup {NoEntry}, events : SUBSET EventNames]

ASSUME EntryAssumption == NoEntry \notin Entries /\ NoRecord \notin Records

\* isCertified of each address of S.
Addresses(S, certified) == [a \in S |-> certified]

EmptyEntry ==
    [addresses |-> Addresses({}, FALSE), protocols |-> {},
     metadata |-> [k \in {} |-> k], pubKey |-> NoKey, record |-> NoRecord]

\* patchOrCreate and mergeOrCreate start from an empty entry.
OrEmpty(e) == IF e = NoEntry THEN EmptyEntry ELSE e

-----------------------------------------------------------------------------
(* Saving.                                                                 *)

\* The method returns, or throws, with nothing saved.
Keep(e) == [entry |-> e, events |-> {}]

\* Store.save: it throws when the key to be stored is not the one in the id.
Save(e, new, events, id) ==
    IF id # NoKey /\ new.pubKey \notin {NoKey, id}
    THEN Keep(e)
    ELSE [entry |-> new, events |-> events]

\* The addresses that Store._merge makes of those stored and those given: a
\* stored one comes out certified exactly if it is given again, because
\* has() never answers null or undefined.
MergeAddresses(old, S) ==
    [a \in DOMAIN old \cup S |-> a \in DOMAIN old /\ a \in S]

\* The metadata of Store._merge.
MergeMetadata(old, new) ==
    [k \in DOMAIN old \cup DOMAIN new |->
        IF k \in DOMAIN new THEN new[k] ELSE old[k]]

\* Faulty variant: the protocols given replace those stored.
MergeReplacingProtocols(e, S, P, M) ==
    [OrEmpty(e) EXCEPT
        !.addresses = MergeAddresses(@, S),
        !.protocols = P,
        !.metadata = MergeMetadata(@, M)]

\* Store.mergeOrCreate with addresses S, protocols P and metadata M.
Merge(e, S, P, M) ==
    [OrEmpty(e) EXCEPT
        !.addresses = MergeAddresses(@, S),
        !.protocols = @ \cup P,
        !.metadata = MergeMetadata(@, M)]

-----------------------------------------------------------------------------
(* The address book.                                                       *)

\* consumePeerRecord, with a filter that lets the addresses of F pass.
ConsumePeerRecord(e, rec, F, id) ==
    IF \/ rec.addrs = {}
       \/ e # NoEntry /\ e.record # NoRecord /\ e.record.seq >= rec.seq
    THEN Keep(e)
    ELSE Save(e, [OrEmpty(e) EXCEPT !.addresses = Addresses(rec.addrs \cap F, TRUE),
                                    !.record = rec],
              {"change:multiaddrs"}, id)

\* set, with the addresses S that pass the filter.
AddressSet(e, S, id) ==
    IF S = {} \/ (e # NoEntry /\ DOMAIN e.addresses = S)
    THEN Keep(e)
    ELSE Save(e, [OrEmpty(e) EXCEPT !.addresses = Addresses(S, FALSE)],
              {"change:multiaddrs"} \cup IF e = NoEntry THEN {"peer"} ELSE {}, id)

\* add, with the addresses S that pass the filter.
AddressAdd(e, S, id) ==
    IF S = {} \/ (e # NoEntry /\ S \subseteq DOMAIN e.addresses)
    THEN Keep(e)
    ELSE Save(e, Merge(e, S, {}, [k \in {} |-> k]),
              {"change:multiaddrs"} \cup IF e # NoEntry THEN {"peer"} ELSE {}, id)

\* Faulty variants: the deletion is announced to no one, or under a name that
\* nobody listens to.
AddressDeleteSilently(e, id) ==
    Save(e, [OrEmpty(e) EXCEPT !.addresses = Addresses({}, FALSE)], {}, id)

AddressDeleteMisspelt(e, id) ==
    Save(e, [OrEmpty(e) EXCEPT !.addresses = Addresses({}, FALSE)],
         IF e # NoEntry THEN {"change:multiaadrs"} ELSE {}, id)

AddressDelete(e, id) ==
    Save(e, [OrEmpty(e) EXCEPT !.addresses = Addresses({}, FALSE)],
         IF e # NoEntry THEN {"change:multiaddrs"} ELSE {}, id)

-----------------------------------------------------------------------------
(* The protocol book.                                                      *)

\* set compares numbers of protocols only.
ProtoSet(e, P, id) ==
    IF e # NoEntry /\ Cardinality(P) = Cardinality(e.protocols)
    THEN Keep(e)
    ELSE Save(e, [OrEmpty(e) EXCEPT !.protocols = P], {"change:protocols"}, id)

ProtoAdd(e, P, id) ==
    IF e # NoEntry /\ P \subseteq e.protocols
    THEN Keep(e)
    ELSE Save(e, Merge(e, {}, P, [k \in {} |-> k]), {"change:protocols"}, id)

\* remove saves the given protocols themselves when there is no entry.
ProtoRemove(e, P, id) ==
    IF e # NoEntry /\ P \cap e.protocols = {}
    THEN Keep(e)
    ELSE Save(e, [OrEmpty(e) EXCEPT !.protocols = IF e = NoEntry THEN P ELSE @ \ P],
              {"change:protocols"}, id)

ProtoDelete(e, id) ==
    Save(e, [OrEmpty(e) EXCEPT !.protocols = {}],
         IF e # NoEntry THEN {"change:protocols"} ELSE {}, id)

-----------------------------------------------------------------------------
(* The key book.                                                           *)

KeySet(e, k, id) ==
    IF e # NoEntry /\ e.pubKey = k
    THEN Keep(e)
    ELSE Save(e, [OrEmpty(e) EXCEPT !.pubKey = k], {"change:pubkey"}, id)

KeyDelete(e, id) ==
    Save(e, [OrEmpty(e) EXCEPT !.pubKey = NoKey], {"change:pubkey"}, id)

-----------------------------------------------------------------------------
(* The metadata book, and delete of the whole peer.                        *)

MetadataSet(e, M, id) == Save(e, Merge(e, {}, {}, M), {"change:metadata"}, id)

MetadataSetValue(e, k, v, id) ==
    IF e # NoEntry /\ k \in DOMAIN e.metadata /\ e.metadata[k] = v
    THEN Keep(e)
    ELSE Save(e, Merge(e, {}, {}, [l \in {k} |-> v]), {"change:metadata"}, id)

\* delete and deleteValue: the keys of K go; nothing is created.
MetadataDelete(e, K, id) ==
    IF e = NoEntry
    THEN Keep(e)
    ELSE Save(e, [e EXCEPT !.metadata = [k \in DOMAIN @ \ K |-> @[k]]],
              {"change:metadata"}, id)

\* What delete (all keys) and deleteValue (one key) take away.
DeletedKeys == {MetaKeys} \cup {{k} : k \in MetaKeys}

StoreDelete == [entry |-> NoEntry, events |-> {}]

-----------------------------------------------------------------------------
\* Every outcome of a method called for peer p on entry e.
Outcomes(p, e) ==
    {StoreDelete} \cup
    UNION {
        {ConsumePeerRecord(e, rec, F, id) : rec \in Records, F \in SUBSET Addrs}
        \cup {AddressSet(e, S, id) : S \in SUBSET Addrs}
        \cup {AddressAdd(e, S, id) : S \in SUBSET Addrs}
        \cup {AddressDelete(e, id)}
        \cup {ProtoSet(e, P, id) : P \in SUBSET Protos}
        \cup {ProtoAdd(e, P, id) : P \in SUBSET Protos}
        \cup {ProtoRemove(e, P, id) : P \in SUBSET Protos}
        \cup {ProtoDelete(e, id)}
        \cup {KeySet(e, k, id) : k \in PubKeys}
        \cup {KeyDelete(e, id)}
        \cup {MetadataSet(e, M, id) : M \in PartialFunctions(MetaKeys, Values)}
        \cup {MetadataSetValue(e, k, v, id) : k \in MetaKeys, v \in Values}
        \cup {MetadataDelete(e, K, id) : K \in DeletedKeys}
      : id \in {NoKey, OwnKey[p]}}

-----------------------------------------------------------------------------
(* What a listener of the three events that carry a whole field knows.      *)

FieldEvents == {"change:multiaddrs", "change:protocols", "change:pubkey"}

\* The fields of an entry as the events carry them.
View(e) ==
    [multiaddrs |-> DOMAIN OrEmpty(e).addresses,
     protocols  |-> OrEmpty(e).protocols,
     pubKey     |-> OrEmpty(e).pubKey]

\* What a listener was last told of each field of a peer, and, as history, the
\* events that it has missed since: those lost with a method that threw after
\* it had saved, and all of them when the whole peer was deleted.
Knowledge ==
    [multiaddrs : SUBSET Addrs,
     protocols  : SUBSET Protos,
     pubKey     : PubKeys \cup {NoKey},
     missed     : SUBSET FieldEvents]

AtFirst == [multiaddrs |-> {}, protocols |-> {}, pubKey |-> NoKey, missed |-> {}]

\* The events of the outcome are dispatched; a deletion has none.
Hear(h, outcome) ==
    LET v == View(outcome.entry)
        events == outcome.events
    IN  [multiaddrs |-> IF "change:multiaddrs" \in events THEN v.multiaddrs ELSE h.multiaddrs,
         protocols  |-> IF "change:protocols" \in events THEN v.protocols ELSE h.protocols,
         pubKey     |-> IF "change:pubkey" \in events THEN v.pubKey ELSE h.pubKey,
         missed     |-> IF outcome.entry = NoEntry THEN FieldEvents ELSE h.missed \ events]

\* They are not.
Miss(h, outcome) == [h EXCEPT !.missed = @ \cup (outcome.events \cap FieldEvents)]

\* h has the fields of e, but for those whose events are excused.
UpToDate(h, e, excused) ==
    LET v == View(e)
    IN  /\ "change:multiaddrs" \in excused \/ h.multiaddrs = v.multiaddrs
        /\ "change:protocols" \in excused \/ h.protocols = v.protocols
        /\ "change:pubkey" \in excused \/ h.pubKey = v.pubKey
=============================================================================
