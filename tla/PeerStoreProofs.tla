--------------------------- MODULE PeerStoreProofs ---------------------------
(* Proofs about PeerStore and the books under it: what every method of the  *)
(* books keeps to, for every argument; the invariants of the store; and that  *)
(* it implements AtomicPeerStore.                                            *)
EXTENDS PeerStoreAtomic, TLAPS

-----------------------------------------------------------------------------
(* What every outcome of a method keeps to.                                *)

\* Each field that an outcome changes is announced by one of its events: who
\* knows the fields of e knows those of the new entry, but for the events.
Announced(e, out) == UpToDate(View(e), out.entry, out.events)

\* The signed record is kept or replaced by a newer one.
Advances(e, new) ==
    e # NoEntry /\ new # NoEntry /\ e.record # NoRecord /\ new.record # e.record
        => new.record # NoRecord /\ new.record.seq > e.record.seq

Sound(e, out) ==
    /\ out \in OutcomeType
    /\ out = StoreDelete \/ Announced(e, out)
    /\ Advances(e, out.entry)

MaybeEntries == Entries \cup {NoEntry}

\* A function from a part of a set is a partial function, and conversely.
LEMMA PartialIntro ==
    ASSUME NEW D, NEW R, NEW S \in SUBSET D, NEW f \in [S -> R]
    PROVE  f \in PartialFunctions(D, R)
BY DEF PartialFunctions

LEMMA PartialElim ==
    ASSUME NEW D, NEW R, NEW f \in PartialFunctions(D, R)
    PROVE  DOMAIN f \in SUBSET D /\ f \in [DOMAIN f -> R]
BY DEF PartialFunctions

\* The entry that a missing one stands for is an entry, and shows the same.
LEMMA OrEmptyTyped ==
    ASSUME NEW e \in MaybeEntries
    PROVE  OrEmpty(e) \in Entries /\ View(e) = View(OrEmpty(e))
<1>1. EmptyEntry \in Entries
  <2>1. Addresses({}, FALSE) \in PartialFunctions(Addrs, BOOLEAN)
    <3>1. Addresses({}, FALSE) \in [{} -> BOOLEAN]  BY DEF Addresses
    <3> QED  BY <3>1, PartialIntro
  <2>2. [k \in {} |-> k] \in PartialFunctions(MetaKeys, Values)
    <3>1. [k \in {} |-> k] \in [{} -> Values]  OBVIOUS
    <3> QED  BY <3>1, PartialIntro
  <2> QED  BY <2>1, <2>2 DEF EmptyEntry, Entries
<1>2. OrEmpty(e) \in Entries
  BY <1>1 DEF OrEmpty, MaybeEntries
<1>3. OrEmpty(OrEmpty(e)) = OrEmpty(e)
  BY <1>2, EntryAssumption DEF OrEmpty
<1> QED  BY <1>2, <1>3 DEF View

\* Nothing saved: the outcome is sound.
LEMMA KeepSound ==
    ASSUME NEW e \in MaybeEntries
    PROVE  Sound(e, Keep(e))
BY DEF Sound, Keep, OutcomeType, Announced, UpToDate, Advances, MaybeEntries

\* What save makes of a sound change is sound.
LEMMA SaveSound ==
    ASSUME NEW e \in MaybeEntries, NEW new \in Entries,
           NEW events \in SUBSET EventNames, NEW id,
           "change:multiaddrs" \in events
              \/ DOMAIN new.addresses = DOMAIN OrEmpty(e).addresses,
           "change:protocols" \in events \/ new.protocols = OrEmpty(e).protocols,
           "change:pubkey" \in events \/ new.pubKey = OrEmpty(e).pubKey,
           Advances(e, new)
    PROVE  Sound(e, Save(e, new, events, id))
<1>1. OrEmpty(new) = new
  BY EntryAssumption DEF OrEmpty
<1>2. Sound(e, [entry |-> new, events |-> events])
  BY <1>1 DEF Sound, OutcomeType, Announced, UpToDate, View
<1> QED  BY <1>2, KeepSound DEF Save

\* A change that leaves the record alone advances it.
LEMMA SameRecord ==
    ASSUME NEW e, NEW new, new.record = OrEmpty(e).record
    PROVE  Advances(e, new)
BY DEF Advances, OrEmpty

-----------------------------------------------------------------------------
(* Every method of the books is sound.                                     *)

\* Saving an entry in which one field was replaced.
LEMMA SetAddresses ==
    ASSUME NEW e \in MaybeEntries, NEW A \in PartialFunctions(Addrs, BOOLEAN),
           NEW events \in SUBSET EventNames, NEW id,
           "change:multiaddrs" \in events \/ A = OrEmpty(e).addresses
    PROVE  Sound(e, Save(e, [OrEmpty(e) EXCEPT !.addresses = A], events, id))
<1> DEFINE new == [OrEmpty(e) EXCEPT !.addresses = A]
<1>1. OrEmpty(e) \in Entries  BY OrEmptyTyped
<1>2. PICK o \in Entries : o = OrEmpty(e)  BY <1>1
<1>3. new = [o EXCEPT !.addresses = A]  BY <1>2
<1>4. new \in Entries  BY <1>3 DEF Entries
<1>5. /\ new.addresses = A /\ new.protocols = o.protocols
      /\ new.pubKey = o.pubKey /\ new.record = o.record
  BY <1>3 DEF Entries
<1>6. Advances(e, new)  BY <1>2, <1>5, SameRecord
<1> QED  BY <1>2, <1>4, <1>5, <1>6, SaveSound

LEMMA SetProtocols ==
    ASSUME NEW e \in MaybeEntries, NEW P \in SUBSET Protos,
           NEW events \in SUBSET EventNames, NEW id,
           "change:protocols" \in events \/ P = OrEmpty(e).protocols
    PROVE  Sound(e, Save(e, [OrEmpty(e) EXCEPT !.protocols = P], events, id))
<1> DEFINE new == [OrEmpty(e) EXCEPT !.protocols = P]
<1>1. OrEmpty(e) \in Entries  BY OrEmptyTyped
<1>2. PICK o \in Entries : o = OrEmpty(e)  BY <1>1
<1>3. new = [o EXCEPT !.protocols = P]  BY <1>2
<1>4. new \in Entries  BY <1>3 DEF Entries
<1>5. /\ new.protocols = P /\ new.addresses = o.addresses
      /\ new.pubKey = o.pubKey /\ new.record = o.record
  BY <1>3 DEF Entries
<1>6. Advances(e, new)  BY <1>2, <1>5, SameRecord
<1> QED  BY <1>2, <1>4, <1>5, <1>6, SaveSound

LEMMA SetPubKey ==
    ASSUME NEW e \in MaybeEntries, NEW k \in PubKeys \cup {NoKey}, NEW id
    PROVE  Sound(e, Save(e, [OrEmpty(e) EXCEPT !.pubKey = k], {"change:pubkey"}, id))
<1> DEFINE new == [OrEmpty(e) EXCEPT !.pubKey = k]
<1>1. OrEmpty(e) \in Entries  BY OrEmptyTyped
<1>2. PICK o \in Entries : o = OrEmpty(e)  BY <1>1
<1>3. new = [o EXCEPT !.pubKey = k]  BY <1>2
<1>4. new \in Entries  BY <1>3 DEF Entries
<1>5. /\ new.addresses = o.addresses /\ new.protocols = o.protocols
      /\ new.record = o.record
  BY <1>3 DEF Entries
<1>6. Advances(e, new)  BY <1>2, <1>5, SameRecord
<1>7. {"change:pubkey"} \in SUBSET EventNames  BY DEF EventNames
<1> QED  BY <1>2, <1>4, <1>5, <1>6, <1>7, SaveSound

\* Saving what mergeOrCreate makes.
LEMMA SaveMerge ==
    ASSUME NEW e \in MaybeEntries, NEW S \in SUBSET Addrs, NEW P \in SUBSET Protos,
           NEW M \in PartialFunctions(MetaKeys, Values),
           NEW events \in SUBSET EventNames, NEW id,
           "change:multiaddrs" \in events \/ S = {},
           "change:protocols" \in events \/ P = {}
    PROVE  Sound(e, Save(e, Merge(e, S, P, M), events, id))
<1> DEFINE new == Merge(e, S, P, M)
<1>1. OrEmpty(e) \in Entries  BY OrEmptyTyped
<1>2. PICK o \in Entries : o = OrEmpty(e)  BY <1>1
<1>3. o.addresses \in PartialFunctions(Addrs, BOOLEAN)
      /\ o.metadata \in PartialFunctions(MetaKeys, Values)
      /\ o.protocols \in SUBSET Protos
  BY DEF Entries
<1>4. PICK A : A = MergeAddresses(o.addresses, S)  OBVIOUS
<1>5. A \in PartialFunctions(Addrs, BOOLEAN) /\ DOMAIN A = DOMAIN o.addresses \cup S
  <2>1. DOMAIN o.addresses \cup S \in SUBSET Addrs  BY <1>3, PartialElim
  <2>2. A \in [DOMAIN o.addresses \cup S -> BOOLEAN]  BY <1>4 DEF MergeAddresses
  <2> QED  BY <2>1, <2>2, PartialIntro
<1>6. PICK N : N = MergeMetadata(o.metadata, M)  OBVIOUS
<1>7. N \in PartialFunctions(MetaKeys, Values)
  <2>1. /\ DOMAIN o.metadata \in SUBSET MetaKeys
        /\ o.metadata \in [DOMAIN o.metadata -> Values]
    BY <1>3, PartialElim
  <2>2. DOMAIN M \in SUBSET MetaKeys /\ M \in [DOMAIN M -> Values]
    BY PartialElim
  <2>3. N \in [DOMAIN o.metadata \cup DOMAIN M -> Values]
    BY <1>6, <2>1, <2>2 DEF MergeMetadata
  <2>4. DOMAIN o.metadata \cup DOMAIN M \in SUBSET MetaKeys
    BY <2>1, <2>2
  <2> QED  BY <2>3, <2>4, PartialIntro
<1>8. PICK Q : Q = o.protocols \cup P  OBVIOUS
<1>9. Q \in SUBSET Protos  BY <1>3, <1>8
<1>10. new = [o EXCEPT !.addresses = A, !.protocols = Q, !.metadata = N]
  BY <1>2, <1>4, <1>6, <1>8 DEF Merge
<1>11. new \in Entries  BY <1>5, <1>7, <1>9, <1>10 DEF Entries
<1>12. /\ new.addresses = A /\ new.protocols = Q
       /\ new.pubKey = o.pubKey /\ new.record = o.record
  BY <1>10 DEF Entries
<1>13. Advances(e, new)  BY <1>2, <1>12, SameRecord
<1>14. "change:multiaddrs" \in events \/ DOMAIN new.addresses = DOMAIN o.addresses
  BY <1>5, <1>12
<1>15. "change:protocols" \in events \/ new.protocols = o.protocols
  BY <1>8, <1>12
<1> QED  BY <1>2, <1>11, <1>12, <1>13, <1>14, <1>15, SaveSound

\* The map with no keys, which the books give for metadata they leave alone.
LEMMA NoMetadata == [k \in {} |-> k] \in PartialFunctions(MetaKeys, Values)
<1>1. [k \in {} |-> k] \in [{} -> Values]  OBVIOUS
<1> QED  BY <1>1, PartialIntro

\* Addresses(S, certified) is a field of addresses.
LEMMA AddressesTyped ==
    ASSUME NEW S \in SUBSET Addrs, NEW certified \in BOOLEAN
    PROVE  Addresses(S, certified) \in PartialFunctions(Addrs, BOOLEAN)
<1>1. Addresses(S, certified) \in [S -> BOOLEAN]  BY DEF Addresses
<1> QED  BY <1>1, PartialIntro

\* A consumed record replaces none as new as itself.
LEMMA ConsumeSound ==
    ASSUME NEW e \in MaybeEntries, NEW rec \in Records, NEW F \in SUBSET Addrs, NEW id
    PROVE  Sound(e, ConsumePeerRecord(e, rec, F, id))
<1>1. CASE \/ rec.addrs = {}
           \/ e # NoEntry /\ e.record # NoRecord /\ e.record.seq >= rec.seq
  BY <1>1, KeepSound DEF ConsumePeerRecord
<1>2. CASE ~ \/ rec.addrs = {}
             \/ e # NoEntry /\ e.record # NoRecord /\ e.record.seq >= rec.seq
  <2> DEFINE A == Addresses(rec.addrs \cap F, TRUE)
  <2>1. OrEmpty(e) \in Entries  BY OrEmptyTyped
  <2>2. PICK o \in Entries : o = OrEmpty(e)  BY <2>1
  <2>3. PICK B : B = A  OBVIOUS
  <2>4. B \in PartialFunctions(Addrs, BOOLEAN)
    BY <2>3, AddressesTyped DEF Records
  <2>5. PICK new : new = [o EXCEPT !.addresses = B, !.record = rec]  OBVIOUS
  <2>6. new \in Entries  BY <2>4, <2>5 DEF Entries
  <2>7. new.record = rec /\ new.protocols = o.protocols /\ new.pubKey = o.pubKey
    BY <2>5 DEF Entries
  <2>8. Advances(e, new)
    <3> SUFFICES ASSUME e # NoEntry, e.record # NoRecord
                 PROVE  rec # NoRecord /\ rec.seq > e.record.seq
      BY <2>7 DEF Advances
    <3>1. e.record \in Records  BY DEF MaybeEntries, Entries
    <3>2. e.record.seq \in Nat /\ rec.seq \in Nat  BY <3>1, BooksAssumption DEF Records
    <3>3. ~ (e.record.seq >= rec.seq)  BY <1>2
    <3> QED  BY <3>2, <3>3, EntryAssumption
  <2>9. {"change:multiaddrs"} \in SUBSET EventNames  BY DEF EventNames
  <2>10. Sound(e, Save(e, new, {"change:multiaddrs"}, id))
    BY <2>2, <2>6, <2>7, <2>8, <2>9, SaveSound
  <2>11. ConsumePeerRecord(e, rec, F, id) = Save(e, new, {"change:multiaddrs"}, id)
    BY <1>2, <2>2, <2>3, <2>5 DEF ConsumePeerRecord
  <2> QED  BY <2>10, <2>11
<1> QED  BY <1>1, <1>2

LEMMA AddressBookSound ==
    ASSUME NEW e \in MaybeEntries, NEW S \in SUBSET Addrs, NEW id
    PROVE  /\ Sound(e, AddressSet(e, S, id))
           /\ Sound(e, AddressAdd(e, S, id))
           /\ Sound(e, AddressDelete(e, id))
<1>1. Sound(e, AddressSet(e, S, id))
  BY AddressesTyped, SetAddresses, KeepSound DEF AddressSet, EventNames
<1>2. Sound(e, AddressAdd(e, S, id))
  BY NoMetadata, SaveMerge, KeepSound DEF AddressAdd, EventNames
<1>3. Sound(e, AddressDelete(e, id))
  <2>1. e = NoEntry => Addresses({}, FALSE) = OrEmpty(e).addresses
    BY DEF OrEmpty, EmptyEntry
  <2> QED  BY <2>1, AddressesTyped, SetAddresses DEF AddressDelete, EventNames
<1> QED  BY <1>1, <1>2, <1>3

LEMMA ProtoBookSound ==
    ASSUME NEW e \in MaybeEntries, NEW P \in SUBSET Protos, NEW id
    PROVE  /\ Sound(e, ProtoSet(e, P, id))
           /\ Sound(e, ProtoAdd(e, P, id))
           /\ Sound(e, ProtoRemove(e, P, id))
           /\ Sound(e, ProtoDelete(e, id))
<1> DEFINE events == {"change:protocols"}
<1>0. events \in SUBSET EventNames  BY DEF EventNames
<1>1. Sound(e, ProtoSet(e, P, id))
  BY <1>0, SetProtocols, KeepSound DEF ProtoSet
<1>2. Sound(e, ProtoAdd(e, P, id))
  <2>1. Sound(e, Save(e, Merge(e, {}, P, [k \in {} |-> k]), events, id))
    BY <1>0, NoMetadata, SaveMerge
  <2> QED  BY <2>1, KeepSound DEF ProtoAdd
<1>3. Sound(e, ProtoRemove(e, P, id))
  <2>1. OrEmpty(e) \in Entries  BY OrEmptyTyped
  <2>2. PICK Q : Q = IF e = NoEntry THEN P ELSE OrEmpty(e).protocols \ P  OBVIOUS
  <2>3. Q \in SUBSET Protos  BY <2>1, <2>2 DEF Entries
  <2>4. Sound(e, Save(e, [OrEmpty(e) EXCEPT !.protocols = Q], events, id))
    BY <1>0, <2>3, SetProtocols
  <2> QED  BY <2>2, <2>4, KeepSound DEF ProtoRemove
<1>4. Sound(e, ProtoDelete(e, id))
  <2>1. e = NoEntry => {} = OrEmpty(e).protocols  BY DEF OrEmpty, EmptyEntry
  <2> QED  BY <1>0, <2>1, SetProtocols DEF ProtoDelete
<1> QED  BY <1>1, <1>2, <1>3, <1>4

LEMMA KeyBookSound ==
    ASSUME NEW e \in MaybeEntries, NEW k \in PubKeys, NEW id
    PROVE  Sound(e, KeySet(e, k, id)) /\ Sound(e, KeyDelete(e, id))
BY SetPubKey, KeepSound DEF KeySet, KeyDelete

LEMMA MetadataSetSound ==
    ASSUME NEW e \in MaybeEntries, NEW M \in PartialFunctions(MetaKeys, Values), NEW id
    PROVE  Sound(e, MetadataSet(e, M, id))
BY SaveMerge DEF MetadataSet, EventNames

LEMMA MetadataSetValueSound ==
    ASSUME NEW e \in MaybeEntries, NEW k \in MetaKeys, NEW v \in Values, NEW id
    PROVE  Sound(e, MetadataSetValue(e, k, v, id))
<1>1. [l \in {k} |-> v] \in [{k} -> Values]  OBVIOUS
<1>2. [l \in {k} |-> v] \in PartialFunctions(MetaKeys, Values)
  BY <1>1, PartialIntro
<1>3. {"change:metadata"} \in SUBSET EventNames  BY DEF EventNames
<1>4. Sound(e, Save(e, Merge(e, {}, {}, [l \in {k} |-> v]), {"change:metadata"}, id))
  BY <1>2, <1>3, SaveMerge
<1> QED  BY <1>4, KeepSound DEF MetadataSetValue

LEMMA MetadataDeleteSound ==
    ASSUME NEW e \in MaybeEntries, NEW K, NEW id
    PROVE  Sound(e, MetadataDelete(e, K, id))
<1> DEFINE events == {"change:metadata"}
<1>0. events \in SUBSET EventNames  BY DEF EventNames
<1>1. CASE e = NoEntry  BY <1>1, KeepSound DEF MetadataDelete
<1>2. CASE e # NoEntry
  <2>1. e \in Entries /\ OrEmpty(e) = e  BY <1>2 DEF MaybeEntries, OrEmpty
  <2>2. e.metadata \in PartialFunctions(MetaKeys, Values)  BY <2>1 DEF Entries
  <2>3. PICK N : N = [l \in DOMAIN e.metadata \ K |-> e.metadata[l]]  OBVIOUS
  <2>4. N \in PartialFunctions(MetaKeys, Values)
    <3>1. DOMAIN e.metadata \in SUBSET MetaKeys
          /\ e.metadata \in [DOMAIN e.metadata -> Values]
      BY <2>2, PartialElim
    <3>2. N \in [DOMAIN e.metadata \ K -> Values]  BY <2>3, <3>1
    <3>3. DOMAIN e.metadata \ K \in SUBSET MetaKeys  BY <3>1
    <3> QED  BY <3>2, <3>3, PartialIntro
  <2>5. PICK new : new = [e EXCEPT !.metadata = N]  OBVIOUS
  <2>6. new \in Entries  BY <2>1, <2>4, <2>5 DEF Entries
  <2>7. /\ new.addresses = e.addresses /\ new.protocols = e.protocols
        /\ new.pubKey = e.pubKey /\ new.record = e.record
    BY <2>1, <2>5 DEF Entries
  <2>8. Advances(e, new)  BY <2>1, <2>7, SameRecord
  <2>9. Sound(e, Save(e, new, events, id))
    BY <1>0, <2>1, <2>6, <2>7, <2>8, SaveSound
  <2>10. MetadataDelete(e, K, id) = Save(e, new, events, id)
    BY <1>2, <2>3, <2>5 DEF MetadataDelete
  <2> QED  BY <2>9, <2>10
<1> QED  BY <1>1, <1>2

\* Every outcome of every method for any peer is of its type and advances the
\* record, and announces each field it changes unless it is that of delete() of
\* the whole peer, the one method that announces nothing.
THEOREM OutcomeSound ==
    ASSUME NEW p \in PeerIds, NEW e \in MaybeEntries, NEW out \in Outcomes(p, e)
    PROVE  Sound(e, out)
<1>1. CASE out = StoreDelete
  BY <1>1 DEF StoreDelete, Sound, OutcomeType, Advances
<1>2. CASE out # StoreDelete
  <2> PICK id : id \in {NoKey, OwnKey[p]}
        /\ \/ \E rec \in Records, F \in SUBSET Addrs : out = ConsumePeerRecord(e, rec, F, id)
           \/ \E S \in SUBSET Addrs : \/ out = AddressSet(e, S, id)
                                      \/ out = AddressAdd(e, S, id)
           \/ out = AddressDelete(e, id)
           \/ \E P \in SUBSET Protos : \/ out = ProtoSet(e, P, id)
                                       \/ out = ProtoAdd(e, P, id)
                                       \/ out = ProtoRemove(e, P, id)
           \/ out = ProtoDelete(e, id)
           \/ \E k \in PubKeys : out = KeySet(e, k, id)
           \/ out = KeyDelete(e, id)
           \/ \E M \in PartialFunctions(MetaKeys, Values) : out = MetadataSet(e, M, id)
           \/ \E k \in MetaKeys, v \in Values : out = MetadataSetValue(e, k, v, id)
           \/ \E K \in DeletedKeys : out = MetadataDelete(e, K, id)
    BY <1>2, SMTT(60) DEF Outcomes
  <2>1. ASSUME NEW rec \in Records, NEW F \in SUBSET Addrs,
               out = ConsumePeerRecord(e, rec, F, id)
        PROVE  Sound(e, out)
    BY <2>1, ConsumeSound
  <2>2. ASSUME NEW S \in SUBSET Addrs,
               out \in {AddressSet(e, S, id), AddressAdd(e, S, id), AddressDelete(e, id)}
        PROVE  Sound(e, out)
    BY <2>2, AddressBookSound
  <2>3. ASSUME NEW P \in SUBSET Protos,
               out \in {ProtoSet(e, P, id), ProtoAdd(e, P, id),
                        ProtoRemove(e, P, id), ProtoDelete(e, id)}
        PROVE  Sound(e, out)
    BY <2>3, ProtoBookSound
  <2>4. ASSUME NEW k \in PubKeys, out = KeySet(e, k, id)
        PROVE  Sound(e, out)
    BY <2>4, KeyBookSound
  <2>5. ASSUME out = KeyDelete(e, id)
        PROVE  Sound(e, out)
    BY <2>5, SetPubKey DEF KeyDelete
  <2>6. ASSUME NEW M \in PartialFunctions(MetaKeys, Values), out = MetadataSet(e, M, id)
        PROVE  Sound(e, out)
    BY <2>6, MetadataSetSound
  <2>7. ASSUME NEW k \in MetaKeys, NEW v \in Values, out = MetadataSetValue(e, k, v, id)
        PROVE  Sound(e, out)
    BY <2>7, MetadataSetValueSound
  <2>8. ASSUME NEW K \in DeletedKeys, out = MetadataDelete(e, K, id)
        PROVE  Sound(e, out)
    BY <2>8, MetadataDeleteSound
  <2> QED  BY <2>1, <2>2, <2>3, <2>4, <2>5, <2>6, <2>7, <2>8
<1> QED  BY <1>1, <1>2


-----------------------------------------------------------------------------
(* The actions.                                                            *)

\* Every call of a write method computes one of the outcomes.
LEMMA CallComputes ==
    ASSUME NEW c \in Clients, NEW p \in PeerIds, Call(c, p)
    PROVE  \E out \in Outcomes(p, stored[p]) : Compute(c, p, out)
<1> DEFINE e == stored[p]
           Computes == \E out \in Outcomes(p, e) : Compute(c, p, out)
<1>1. CallConsumePeerRecord(c, p) => Computes
  <2> SUFFICES ASSUME NEW rec \in Records, NEW F \in SUBSET Addrs, NEW id \in IdKeys(p),
                      Compute(c, p, ConsumePeerRecord(e, rec, F, id))
               PROVE  Computes
    BY DEF CallConsumePeerRecord
  <2>1. ConsumePeerRecord(e, rec, F, id) \in Outcomes(p, e)  BY DEF Outcomes, IdKeys
  <2> QED  BY <2>1
<1>2. CallAddressSet(c, p) => Computes
  <2> SUFFICES ASSUME NEW S \in SUBSET Addrs, NEW id \in IdKeys(p),
                      Compute(c, p, AddressSet(e, S, id))
               PROVE  Computes
    BY DEF CallAddressSet
  <2>1. AddressSet(e, S, id) \in Outcomes(p, e)  BY DEF Outcomes, IdKeys
  <2> QED  BY <2>1
<1>3. CallAddressAdd(c, p) => Computes
  <2> SUFFICES ASSUME NEW S \in SUBSET Addrs, NEW id \in IdKeys(p),
                      Compute(c, p, AddressAdd(e, S, id))
               PROVE  Computes
    BY DEF CallAddressAdd
  <2>1. AddressAdd(e, S, id) \in Outcomes(p, e)  BY DEF Outcomes, IdKeys
  <2> QED  BY <2>1
<1>4. CallAddressDelete(c, p) => Computes
  BY DEF CallAddressDelete, Outcomes, IdKeys
<1>5. CallProtoSet(c, p) => Computes
  <2> SUFFICES ASSUME NEW P \in SUBSET Protos, NEW id \in IdKeys(p),
                      Compute(c, p, ProtoSet(e, P, id))
               PROVE  Computes
    BY DEF CallProtoSet
  <2>1. ProtoSet(e, P, id) \in Outcomes(p, e)  BY DEF Outcomes, IdKeys
  <2> QED  BY <2>1
<1>6. CallProtoAdd(c, p) => Computes
  <2> SUFFICES ASSUME NEW P \in SUBSET Protos, NEW id \in IdKeys(p),
                      Compute(c, p, ProtoAdd(e, P, id))
               PROVE  Computes
    BY DEF CallProtoAdd
  <2>1. ProtoAdd(e, P, id) \in Outcomes(p, e)  BY DEF Outcomes, IdKeys
  <2> QED  BY <2>1
<1>7. CallProtoRemove(c, p) => Computes
  <2> SUFFICES ASSUME NEW P \in SUBSET Protos, NEW id \in IdKeys(p),
                      Compute(c, p, ProtoRemove(e, P, id))
               PROVE  Computes
    BY DEF CallProtoRemove
  <2>1. ProtoRemove(e, P, id) \in Outcomes(p, e)  BY DEF Outcomes, IdKeys
  <2> QED  BY <2>1
<1>8. CallProtoDelete(c, p) => Computes
  BY DEF CallProtoDelete, Outcomes, IdKeys
<1>9. CallKeySet(c, p) => Computes
  <2> SUFFICES ASSUME NEW k \in PubKeys, NEW id \in IdKeys(p),
                      Compute(c, p, KeySet(e, k, id))
               PROVE  Computes
    BY DEF CallKeySet
  <2>1. KeySet(e, k, id) \in Outcomes(p, e)  BY DEF Outcomes, IdKeys
  <2> QED  BY <2>1
<1>10. CallKeyDelete(c, p) => Computes
  BY DEF CallKeyDelete, Outcomes, IdKeys
<1>11. CallMetadataSet(c, p) => Computes
  <2> SUFFICES ASSUME NEW M \in PartialFunctions(MetaKeys, Values), NEW id \in IdKeys(p),
                      Compute(c, p, MetadataSet(e, M, id))
               PROVE  Computes
    BY DEF CallMetadataSet
  <2>1. MetadataSet(e, M, id) \in Outcomes(p, e)  BY DEF Outcomes, IdKeys
  <2> QED  BY <2>1
<1>12. CallMetadataSetValue(c, p) => Computes
  <2> SUFFICES ASSUME NEW k \in MetaKeys, NEW v \in Values, NEW id \in IdKeys(p),
                      Compute(c, p, MetadataSetValue(e, k, v, id))
               PROVE  Computes
    BY DEF CallMetadataSetValue
  <2>1. MetadataSetValue(e, k, v, id) \in Outcomes(p, e)  BY DEF Outcomes, IdKeys
  <2> QED  BY <2>1
<1>13. CallMetadataDelete(c, p) => Computes
  <2> SUFFICES ASSUME NEW K \in DeletedKeys, NEW id \in IdKeys(p),
                      Compute(c, p, MetadataDelete(e, K, id))
               PROVE  Computes
    BY DEF CallMetadataDelete
  <2>1. MetadataDelete(e, K, id) \in Outcomes(p, e)  BY DEF Outcomes, IdKeys
  <2> QED  BY <2>1
<1>14. CallStoreDelete(c, p) => Computes
  BY DEF CallStoreDelete, Outcomes
<1> QED
  BY <1>1, <1>2, <1>3, <1>4, <1>5, <1>6, <1>7, <1>8, <1>9, <1>10, <1>11, <1>12,
     <1>13, <1>14 DEF Call

\* A step of Next, with the calls of write methods as one.
StepOf(c) ==
    \/ \E kind \in ReadPhases : ReadLock(c, kind)
    \/ WriteLock(c)
    \/ \E p \in PeerIds : Load(c, p)
    \/ GetDone(c) \/ ListDone(c) \/ WriteFails(c)
    \/ \E p \in PeerIds : \E out \in Outcomes(p, stored[p]) : Compute(c, p, out)
    \/ Put(c) \/ Dispatch(c) \/ ReloadFails(c)

LEMMA NextStep ==
    ASSUME Next
    PROVE  \E c \in Clients : StepOf(c)
BY CallComputes DEF Next, StepOf

-----------------------------------------------------------------------------
(* Types.                                                                  *)

LEMMA ViewTyped ==
    ASSUME NEW e \in MaybeEntries
    PROVE  /\ View(e).multiaddrs \in SUBSET Addrs
           /\ View(e).protocols \in SUBSET Protos
           /\ View(e).pubKey \in PubKeys \cup {NoKey}
<1>1. OrEmpty(e) \in Entries  BY OrEmptyTyped
<1>2. DOMAIN OrEmpty(e).addresses \in SUBSET Addrs  BY <1>1, PartialElim DEF Entries
<1> QED  BY <1>1, <1>2 DEF View, Entries

LEMMA KnowledgeTyped ==
    ASSUME NEW h \in Knowledge, NEW o \in OutcomeType
    PROVE  Hear(h, o) \in Knowledge /\ Miss(h, o) \in Knowledge
<1>1. o.entry \in MaybeEntries  BY DEF OutcomeType, MaybeEntries
<1>2. Hear(h, o) \in Knowledge  BY <1>1, ViewTyped DEF Hear, Knowledge
<1>3. Miss(h, o) \in Knowledge  BY DEF Miss, Knowledge
<1> QED  BY <1>2, <1>3

\* Nothing has been loaded yet.
LEMMA NothingSeen == [p \in {} |-> p] \in PartialFunctions(PeerIds, MaybeEntries)
<1>1. [p \in {} |-> p] \in [{} -> MaybeEntries]  OBVIOUS
<1> QED  BY <1>1, PartialIntro

\* Release keeps the types, if the releasing client holds the lock.
LEMMA ReleaseTyped ==
    ASSUME TypeOK, LockInOrder, NEW c \in Clients, Holds(c), Release(c)
    PROVE  /\ place' \in [Clients -> Nat]
           /\ batches' \in Nat
           /\ phase' \in [Clients -> Phases]
           /\ at' \in [Clients -> PeerIds \cup {NoPeer}]
           /\ outcome' \in [Clients -> OutcomeType \cup {NoOutcome}]
           /\ seen' \in [Clients -> PartialFunctions(PeerIds, MaybeEntries)]
<1> USE DEF TypeOK, Release, Holds
<1>1. batches \in Nat /\ place \in [Clients -> Nat] /\ 1 <= batches
  BY DEF LockInOrder
<1>2. batches - 1 \in Nat  BY <1>1
<1>3. \A d \in Clients : place[d] # 0 => place[d] - 1 \in Nat  BY <1>1
<1>4. place' \in [Clients -> Nat] /\ batches' \in Nat
  <2>1. CASE \E d \in Clients \ {c} : Holds(d)
    BY <1>1, <2>1
  <2>2. CASE ~ \E d \in Clients \ {c} : Holds(d)
    <3>1. place' = [d \in Clients |-> IF place[d] = 0 THEN 0 ELSE place[d] - 1]
          /\ batches' = batches - 1
      BY <2>2
    <3> QED  BY <1>2, <1>3, <3>1
  <2> QED  BY <2>1, <2>2
<1>5. phase' \in [Clients -> Phases]  BY DEF Phases
<1>6. at' \in [Clients -> PeerIds \cup {NoPeer}]  OBVIOUS
<1>7. outcome' \in [Clients -> OutcomeType \cup {NoOutcome}]  OBVIOUS
<1>8. seen' \in [Clients -> PartialFunctions(PeerIds, MaybeEntries)]
  BY NothingSeen DEF MaybeEntries
<1> QED  BY ONLY <1>4, <1>5, <1>6, <1>7, <1>8

\* Every step keeps the types.
LEMMA TypeStep ==
    ASSUME PeerStoreInv, NEW c \in Clients, StepOf(c)
    PROVE  TypeOK'
<1> USE DEF PeerStoreInv, TypeOK
<1> DEFINE Seen == [Clients -> PartialFunctions(PeerIds, MaybeEntries)]
<1>1. ASSUME NEW kind \in ReadPhases, ReadLock(c, kind) PROVE TypeOK'
  <2>1. batches' \in Nat  BY <1>1 DEF ReadLock
  <2>2. place' \in [Clients -> Nat]  BY <1>1, <2>1 DEF ReadLock
  <2>3. phase' \in [Clients -> Phases]  BY <1>1 DEF ReadLock, ReadPhases, Phases
  <2> QED  BY <1>1, <2>1, <2>2, <2>3 DEF ReadLock
<1>2. CASE WriteLock(c)
  <2>1. batches' \in Nat  BY <1>2 DEF WriteLock
  <2>2. place' \in [Clients -> Nat]  BY <1>2, <2>1 DEF WriteLock
  <2>3. phase' \in [Clients -> Phases]  BY <1>2 DEF WriteLock, Phases
  <2> QED  BY <1>2, <2>1, <2>2, <2>3 DEF WriteLock
<1>3. ASSUME NEW p \in PeerIds, Load(c, p) PROVE TypeOK'
  <2>1. PICK f : f = [q \in DOMAIN seen[c] \cup {p} |->
                        IF q = p THEN stored[p] ELSE seen[c][q]]
    OBVIOUS
  <2>2. seen[c] \in PartialFunctions(PeerIds, MaybeEntries)  BY DEF MaybeEntries
  <2>3. /\ DOMAIN seen[c] \in SUBSET PeerIds
        /\ seen[c] \in [DOMAIN seen[c] -> MaybeEntries]
    BY <2>2, PartialElim
  <2>4. f \in [DOMAIN seen[c] \cup {p} -> MaybeEntries]
    BY <2>1, <2>3 DEF MaybeEntries
  <2>5. DOMAIN seen[c] \cup {p} \in SUBSET PeerIds  BY <2>3
  <2>6. f \in PartialFunctions(PeerIds, MaybeEntries)  BY <2>4, <2>5, PartialIntro
  <2>7. seen' = [seen EXCEPT ![c] = f]  BY <1>3, <2>1 DEF Load
  <2>8. seen' \in Seen  BY <2>6, <2>7 DEF MaybeEntries
  <2> QED  BY <1>3, <2>8 DEF Load, lockVars, MaybeEntries
<1>4. CASE GetDone(c) \/ ListDone(c) \/ WriteFails(c)
  BY <1>4, ReleaseTyped DEF GetDone, ListDone, WriteFails, MaybeEntries
<1>5. ASSUME NEW p \in PeerIds, NEW out \in Outcomes(p, stored[p]), Compute(c, p, out)
      PROVE  TypeOK'
  <2>1. CASE out = Keep(stored[p])
    BY <1>5, <2>1, ReleaseTyped DEF Compute, MaybeEntries
  <2>2. CASE out # Keep(stored[p])
    <3>1. stored[p] \in MaybeEntries  BY DEF MaybeEntries
    <3>2. out \in OutcomeType  BY <3>1, OutcomeSound DEF Sound
    <3> QED  BY <1>5, <2>2, <3>2 DEF Compute, lockVars, Phases
  <2> QED  BY <2>1, <2>2
<1>6. CASE Put(c)
  <2>1. at[c] \in PeerIds /\ outcome[c] \in Outcomes(at[c], stored[at[c]])
    BY <1>6 DEF Put, ChangesInHand
  <2>2. stored[at[c]] \in MaybeEntries  BY <2>1 DEF MaybeEntries
  <2>3. outcome[c] \in OutcomeType  BY <2>1, <2>2, OutcomeSound DEF Sound
  <2>4. outcome[c].entry \in Entries \cup {NoEntry}  BY <2>3 DEF OutcomeType
  <2>5. stored' \in [PeerIds -> Entries \cup {NoEntry}]  BY <1>6, <2>4 DEF Put
  <2> QED  BY <1>6, <2>5 DEF Put, lockVars, Phases
<1>7. ASSUME phase[c] = "stored", Release(c), UNCHANGED stored,
             NEW h \in {Hear(heard[at[c]], outcome[c]), Miss(heard[at[c]], outcome[c])},
             heard' = [heard EXCEPT ![at[c]] = h]
      PROVE  TypeOK'
  <2>1. at[c] \in PeerIds /\ outcome[c] \in OutcomeType /\ Holds(c)
    BY <1>7 DEF ChangesInHand, LockInOrder
  <2>2. h \in Knowledge  BY <1>7, <2>1, KnowledgeTyped
  <2>3. heard' \in [PeerIds -> Knowledge]  BY <1>7, <2>2
  <2> QED  BY <1>7, <2>1, <2>3, ReleaseTyped DEF MaybeEntries
<1>8. CASE Dispatch(c)  BY <1>7, <1>8 DEF Dispatch
<1>9. CASE ReloadFails(c)  BY <1>7, <1>9 DEF ReloadFails
<1> QED
  BY <1>1, <1>2, <1>3, <1>4, <1>5, <1>6, <1>8, <1>9 DEF StepOf

-----------------------------------------------------------------------------
(* The lock.                                                               *)

\* A holder that does not read is the only one.
LEMMA WriterAlone ==
    ASSUME TypeOK, LockInOrder, NEW c \in Clients, NEW d \in Clients,
           Holds(c), Holds(d), phase[c] \notin ReadPhases
    PROVE  d = c
BY DEF TypeOK, LockInOrder, Holds

\* The release of a lock that is held leaves the lock in order.
LEMMA ReleaseInOrder ==
    ASSUME TypeOK, LockInOrder, NEW c \in Clients, Holds(c), Release(c)
    PROVE  LockInOrder'
<1> DEFINE Member(d) == /\ phase[d] = "idle" <=> place[d] = 0
                        /\ place[d] <= batches
                        /\ phase[d] \in {"loaded", "stored"} => Holds(d)
                        /\ DOMAIN seen[d] # {} => phase[d] \in ReadPhases /\ Holds(d)
           Apart(d, e) == d # e /\ place[d] = place[e] /\ place[d] > 0
                            => phase[d] \in ReadPhases
<1>1. \A d \in Clients : place[d] \in Nat /\ Member(d)
  BY DEF TypeOK, LockInOrder
<1>2. \A d, e \in Clients : Apart(d, e)
  BY DEF LockInOrder
<1>3. batches \in Nat /\ place[c] = 1
  BY DEF TypeOK, Holds
<1>4. place'[c] = 0 /\ phase'[c] = "idle" /\ seen'[c] = [p \in {} |-> p]
  BY <1>3 DEF TypeOK, Release
<1>5. \A d \in Clients \ {c} : phase'[d] = phase[d] /\ seen'[d] = seen[d]
  BY DEF TypeOK, Release
<1>6. CASE \E d \in Clients \ {c} : Holds(d)
  <2>1. batches' = batches /\ \A d \in Clients \ {c} : place'[d] = place[d]
    BY <1>6 DEF TypeOK, Release
  <2>2. \A d \in Clients : Member(d)'
    BY <1>1, <1>3, <1>4, <1>5, <2>1 DEF Holds
  <2>3. \A d, e \in Clients : Apart(d, e)'
    BY <1>2, <1>4, <1>5, <2>1
  <2> QED  BY <2>2, <2>3 DEF LockInOrder
<1>7. CASE ~ \E d \in Clients \ {c} : Holds(d)
  <2>1. /\ batches' = batches - 1
        /\ \A d \in Clients : place'[d] = IF place[d] = 0 THEN 0 ELSE place[d] - 1
    BY <1>7 DEF Release
  <2>2. \A d \in Clients \ {c} : place[d] # 1
    BY <1>7 DEF Holds
  <2>3. ASSUME NEW d \in Clients PROVE Member(d)'
    <3>1. CASE d = c
      <4>1. 1 <= batches  BY <1>1, <1>3
      <4> QED  BY <1>3, <1>4, <2>1, <3>1, <4>1
    <3>2. CASE d # c
      <4>1. phase[d] \notin {"loaded", "stored"} /\ DOMAIN seen[d] = {}
        BY <1>1, <2>2, <3>2 DEF Holds
      <4>2. place'[d] = 0 <=> place[d] = 0  BY <1>1, <2>1, <2>2, <3>2
      <4>3. place'[d] <= batches'
        <5>1. 1 <= batches  BY <1>1, <1>3
        <5> QED  BY <1>1, <1>3, <2>1, <5>1
      <4> QED  BY <1>1, <1>5, <3>2, <4>1, <4>2, <4>3
    <3> QED  BY <3>1, <3>2
  <2>4. ASSUME NEW d \in Clients, NEW e \in Clients PROVE Apart(d, e)'
    <3> SUFFICES ASSUME d # e, place'[d] = place'[e], place'[d] > 0
                 PROVE  phase'[d] \in ReadPhases
      OBVIOUS
    <3>1. d # c /\ e # c  BY <1>4
    <3>2. place[d] = place[e] /\ place[d] > 0  BY <1>1, <2>1, <2>2, <3>1
    <3> QED  BY <1>2, <1>5, <3>1, <3>2
  <2> QED  BY <2>3, <2>4 DEF LockInOrder
<1> QED  BY <1>6, <1>7

\* Every step leaves the lock in order.
LEMMA LockStep ==
    ASSUME PeerStoreInv, NEW c \in Clients, StepOf(c)
    PROVE  LockInOrder'
<1> USE DEF PeerStoreInv
<1>0. TypeOK /\ LockInOrder /\ batches \in Nat /\ \A d \in Clients : place[d] \in Nat
  BY DEF TypeOK
<1>1. ASSUME NEW kind \in ReadPhases, ReadLock(c, kind) PROVE LockInOrder'
  <2>1. /\ phase[c] = "idle" /\ place[c] = 0 /\ DOMAIN seen[c] = {}
        /\ kind \notin {"idle", "loaded", "stored"}
    BY <1>0, <1>1 DEF ReadLock, LockInOrder, ReadPhases
  <2>2. /\ phase' = [phase EXCEPT ![c] = kind]
        /\ place' = [place EXCEPT ![c] = batches']
        /\ seen' = seen
    BY <1>1 DEF ReadLock
  <2>3. CASE LastIsReads
    <3>1. batches' = batches  BY <1>1, <2>3 DEF ReadLock
    <3>2. PICK r \in Clients : phase[r] \in ReadPhases /\ place[r] = batches
      BY <2>3 DEF LastIsReads
    <3>3. batches > 0  BY <1>0, <3>2 DEF LockInOrder, ReadPhases
    <3>4. \A d \in Clients : place[d] = batches => phase[d] \in ReadPhases
      BY <1>0, <3>2, <3>3 DEF LockInOrder
    <3> QED  BY <1>0, <2>1, <2>2, <3>1, <3>3, <3>4 DEF TypeOK, LockInOrder, Holds
  <2>4. CASE ~ LastIsReads
    <3>1. batches' = batches + 1  BY <1>1, <2>4 DEF ReadLock
    <3> QED  BY <1>0, <2>1, <2>2, <3>1 DEF TypeOK, LockInOrder, Holds
  <2> QED  BY <2>3, <2>4
<1>2. CASE WriteLock(c)
  <2>1. phase[c] = "idle" /\ place[c] = 0 /\ DOMAIN seen[c] = {}
    BY <1>0, <1>2 DEF WriteLock, LockInOrder, ReadPhases
  <2> QED  BY <1>0, <1>2, <2>1 DEF WriteLock, TypeOK, LockInOrder, Holds
<1>3. ASSUME NEW p \in PeerIds, Load(c, p) PROVE LockInOrder'
  BY <1>0, <1>3 DEF Load, lockVars, TypeOK, LockInOrder, Holds
<1>4. CASE GetDone(c) \/ ListDone(c) \/ WriteFails(c)
  BY <1>0, <1>4, ReleaseInOrder DEF GetDone, ListDone, WriteFails
<1>5. ASSUME NEW p \in PeerIds, NEW out, Compute(c, p, out) PROVE LockInOrder'
  <2>1. CASE out = Keep(stored[p])
    BY <1>0, <1>5, <2>1, ReleaseInOrder DEF Compute
  <2>2. CASE out # Keep(stored[p])
    <3>1. /\ phase[c] = "write" /\ Holds(c)
          /\ phase' = [phase EXCEPT ![c] = "loaded"]
          /\ UNCHANGED <<place, batches, seen>>
      BY <1>5, <2>2 DEF Compute, lockVars
    <3>2. \A d \in Clients : d # c => ~ Holds(d)
      BY <1>0, <3>1, WriterAlone DEF ReadPhases
    <3> QED  BY <1>0, <3>1, <3>2 DEF TypeOK, LockInOrder, Holds, ReadPhases
  <2> QED  BY <2>1, <2>2
<1>6. CASE Put(c)
  BY <1>0, <1>6 DEF Put, lockVars, TypeOK, LockInOrder, Holds, ReadPhases
<1>7. CASE Dispatch(c) \/ ReloadFails(c)
  <2>1. Holds(c) /\ Release(c)  BY <1>7 DEF Dispatch, ReloadFails, LockInOrder
  <2> QED  BY <1>0, <2>1, ReleaseInOrder
<1> QED  BY <1>1, <1>2, <1>3, <1>4, <1>5, <1>6, <1>7 DEF StepOf

-----------------------------------------------------------------------------
(* What the lock protects.                                                 *)

\* Every step keeps the readers' snapshots right: a put excludes them.
LEMMA SnapshotStep ==
    ASSUME PeerStoreInv, NEW c \in Clients, StepOf(c)
    PROVE  ReadsAreSnapshots'
<1> USE DEF PeerStoreInv
<1>0. TypeOK /\ LockInOrder /\ ReadsAreSnapshots  OBVIOUS
<1>1. ASSUME stored' = stored, seen' = seen PROVE ReadsAreSnapshots'
  BY <1>0, <1>1 DEF ReadsAreSnapshots
<1>2. ASSUME stored' = stored, Release(c) PROVE ReadsAreSnapshots'
  <2>1. \A d \in Clients : DOMAIN seen'[d] = {} \/ seen'[d] = seen[d]
    BY <1>2 DEF Release, TypeOK
  <2> QED  BY <1>0, <1>2, <2>1 DEF ReadsAreSnapshots
<1>3. ASSUME NEW p \in PeerIds, Load(c, p) PROVE ReadsAreSnapshots'
  <2>1. /\ \A d \in Clients \ {c} : seen'[d] = seen[d]
        /\ seen'[c] = [q \in DOMAIN seen[c] \cup {p} |->
                         IF q = p THEN stored[p] ELSE seen[c][q]]
        /\ stored' = stored
    BY <1>0, <1>3 DEF Load, TypeOK
  <2> QED  BY <1>0, <2>1 DEF ReadsAreSnapshots
<1>4. CASE Put(c)
  <2>1. phase[c] = "loaded" /\ Holds(c) /\ seen' = seen
    BY <1>0, <1>4 DEF Put, LockInOrder
  <2>2. ASSUME NEW d \in Clients PROVE DOMAIN seen[d] = {}
    <3>1. DOMAIN seen[d] # {} => phase[d] \in ReadPhases /\ Holds(d)
      BY <1>0 DEF LockInOrder
    <3>2. Holds(d) => d = c  BY <1>0, <2>1, WriterAlone DEF ReadPhases
    <3> QED  BY <2>1, <3>1, <3>2 DEF ReadPhases
  <2> QED  BY <2>1, <2>2 DEF ReadsAreSnapshots
<1> QED
  BY <1>1, <1>2, <1>3, <1>4 DEF StepOf, ReadLock, WriteLock, GetDone, ListDone,
     WriteFails, Compute, Dispatch, ReloadFails

\* The first part of ChangesInHand, and the second part, of one member.
InHand(c) ==
    /\ phase[c] \in {"loaded", "stored"} => at[c] \in PeerIds
    /\ phase[c] = "loaded" => outcome[c] \in Outcomes(at[c], stored[at[c]])
    /\ phase[c] = "stored" => outcome[c] \in OutcomeType
                              /\ outcome[c].entry = stored[at[c]]

AnnouncedBy(p, name) == \E c \in Clients : Announces(c, p, name)

\* The listener knows a field of p, or is about to be told, or has missed it.
Known(p) ==
    /\ \/ AnnouncedBy(p, "change:multiaddrs")
       \/ "change:multiaddrs" \in heard[p].missed
       \/ heard[p].multiaddrs = View(stored[p]).multiaddrs
    /\ \/ AnnouncedBy(p, "change:protocols")
       \/ "change:protocols" \in heard[p].missed
       \/ heard[p].protocols = View(stored[p]).protocols
    /\ \/ AnnouncedBy(p, "change:pubkey")
       \/ "change:pubkey" \in heard[p].missed
       \/ heard[p].pubKey = View(stored[p]).pubKey

LEMMA ChangesInHandParts ==
    ChangesInHand <=> (\A c \in Clients : InHand(c)) /\ (\A p \in PeerIds : Known(p))
<1>1. ASSUME NEW p \in PeerIds
      PROVE  LET due == {name \in FieldEvents : \E c \in Clients : Announces(c, p, name)}
             IN  UpToDate(heard[p], stored[p], due \cup heard[p].missed) <=> Known(p)
  BY DEF UpToDate, Known, AnnouncedBy, FieldEvents
<1> QED  BY <1>1 DEF ChangesInHand, InHand

\* The same of the next state.
LEMMA ChangesInHandNext ==
    ASSUME \A c \in Clients : InHand(c)', \A p \in PeerIds : Known(p)'
    PROVE  ChangesInHand'
<1>1. ASSUME NEW p \in PeerIds
      PROVE  LET due == {name \in FieldEvents : \E c \in Clients : Announces(c, p, name)'}
             IN  UpToDate(heard'[p], stored'[p], due \cup heard'[p].missed)
  BY DEF UpToDate, Known, AnnouncedBy, FieldEvents
<1> QED  BY <1>1 DEF ChangesInHand, InHand

\* A step that stores nothing, settles nothing and leaves the stored phase
\* to no client keeps what is in hand.
LEMMA QuietStep ==
    ASSUME ChangesInHand, UNCHANGED <<stored, heard>>,
           \A d \in Clients :
              \/ phase'[d] = phase[d] /\ at'[d] = at[d] /\ outcome'[d] = outcome[d]
              \/ phase[d] # "stored" /\ phase'[d] \notin {"loaded", "stored"}
              \/ phase[d] # "stored" /\ phase'[d] = "loaded" /\ at'[d] \in PeerIds
                 /\ outcome'[d] \in Outcomes(at'[d], stored[at'[d]])
    PROVE  ChangesInHand'
<1>0. (\A d \in Clients : InHand(d)) /\ (\A p \in PeerIds : Known(p))
  BY ChangesInHandParts
<1>1. ASSUME NEW d \in Clients PROVE InHand(d)'
  BY <1>0 DEF InHand
<1>2. ASSUME NEW p \in PeerIds PROVE Known(p)'
  <2>1. ASSUME NEW name, AnnouncedBy(p, name) PROVE AnnouncedBy(p, name)'
    BY <2>1 DEF AnnouncedBy, Announces
  <2> QED  BY <1>0, <2>1 DEF Known
<1> QED  BY <1>1, <1>2, ChangesInHandNext

\* A put leaves what every other call has in hand alone, and the listener
\* lacks only what its outcome will announce.
LEMMA PutInHand ==
    ASSUME PeerStoreInv, NEW c \in Clients, Put(c)
    PROVE  ChangesInHand'
<1> DEFINE p == at[c]  out == outcome[c]
<1>0. /\ TypeOK /\ LockInOrder
      /\ (\A d \in Clients : InHand(d)) /\ (\A q \in PeerIds : Known(q))
  BY ChangesInHandParts DEF PeerStoreInv
<1>1. phase[c] = "loaded" /\ Holds(c) /\ p \in PeerIds /\ out \in Outcomes(p, stored[p])
  BY <1>0 DEF Put, LockInOrder, InHand
<1>2. Sound(stored[p], out)
  <2>1. stored[p] \in MaybeEntries  BY <1>0, <1>1 DEF TypeOK, MaybeEntries
  <2> QED  BY <1>1, <2>1, OutcomeSound
<1>3. \A d \in Clients \ {c} : phase[d] \notin {"loaded", "stored"}
  BY <1>0, <1>1, WriterAlone DEF LockInOrder, ReadPhases
<1>4. /\ stored' = [stored EXCEPT ![p] = out.entry]
      /\ phase' = [phase EXCEPT ![c] = "stored"]
      /\ at' = at /\ outcome' = outcome /\ heard' = heard
  BY DEF Put
<1>5. /\ stored'[p] = out.entry /\ \A q \in PeerIds \ {p} : stored'[q] = stored[q]
      /\ phase'[c] = "stored" /\ \A d \in Clients \ {c} : phase'[d] = phase[d]
  BY <1>0, <1>1, <1>4 DEF TypeOK
<1>6. ASSUME NEW d \in Clients PROVE InHand(d)'
  <2>1. CASE d = c  BY <1>1, <1>2, <1>4, <1>5, <2>1 DEF InHand, Sound
  <2>2. CASE d # c  BY <1>3, <1>5, <2>2 DEF InHand
  <2> QED  BY <2>1, <2>2
<1>7. \A q, name : ~ AnnouncedBy(q, name)
  BY <1>1, <1>3 DEF AnnouncedBy, Announces
<1>8. \A name : AnnouncedBy(p, name)' <=> name \in out.events \/ out.entry = NoEntry
  BY <1>3, <1>4, <1>5 DEF AnnouncedBy, Announces
<1>9. ASSUME NEW q \in PeerIds PROVE Known(q)'
  <2>1. CASE q = p
    <3>1. Known(p)  BY <1>0, <1>1
    <3>2. CASE out.entry = NoEntry
      BY <1>4, <1>8, <2>1, <3>2 DEF Known
    <3>3. CASE out.entry # NoEntry
      <4>1. Announced(stored[p], out)  BY <1>2, <3>3 DEF Sound, StoreDelete
      <4> QED
        BY <1>4, <1>5, <1>7, <1>8, <2>1, <3>1, <4>1 DEF Known, Announced, UpToDate
    <3> QED  BY <3>2, <3>3
  <2>2. CASE q # p
    <3>1. Known(q)  BY <1>0
    <3> QED  BY <1>4, <1>5, <1>7, <2>2, <3>1 DEF Known
  <2> QED  BY <2>1, <2>2
<1> QED  BY <1>6, <1>9, ChangesInHandNext

\* So does a client that settles the events it has in hand: the listener hears
\* them, or misses them.
LEMMA SettleInHand ==
    ASSUME PeerStoreInv, NEW c \in Clients, phase[c] = "stored", Release(c),
           UNCHANGED stored, NEW h, heard' = [heard EXCEPT ![at[c]] = h],
           \/ h = Hear(heard[at[c]], outcome[c])
           \/ h = Miss(heard[at[c]], outcome[c]) /\ outcome[c].entry # NoEntry
    PROVE  ChangesInHand'
<1> DEFINE p == at[c]  out == outcome[c]
<1>0. /\ TypeOK /\ LockInOrder
      /\ (\A d \in Clients : InHand(d)) /\ (\A q \in PeerIds : Known(q))
  BY ChangesInHandParts DEF PeerStoreInv
<1>1. Holds(c) /\ p \in PeerIds /\ out.entry = stored[p]
  BY <1>0 DEF LockInOrder, InHand
<1>2. \A d \in Clients \ {c} : phase[d] \notin {"loaded", "stored"}
  BY <1>0, <1>1, WriterAlone DEF LockInOrder, ReadPhases
<1>3. \A d \in Clients : phase'[d] \notin {"loaded", "stored"}
  BY <1>0, <1>2 DEF Release, TypeOK
<1>4. \A d \in Clients : InHand(d)'
  BY <1>3 DEF InHand
<1>5. \A q, name : AnnouncedBy(q, name)
                     => q = p /\ (name \in out.events \/ out.entry = NoEntry)
  BY <1>2 DEF AnnouncedBy, Announces
<1>6. ASSUME NEW q \in PeerIds PROVE Known(q)'
  <2>1. CASE q = p
    <3>1. heard'[p] = h /\ stored'[p] = out.entry
      BY <1>0, <1>1 DEF TypeOK
    <3>2. Known(p)  BY <1>0, <1>1
    <3>3. heard[p].missed \in SUBSET FieldEvents /\ heard[p] \in Knowledge
      BY <1>0, <1>1 DEF TypeOK, Knowledge
    <3>4. CASE h = Hear(heard[p], out) /\ out.entry = NoEntry
      BY <2>1, <3>1, <3>4 DEF Known, Hear, FieldEvents
    <3>5. CASE h = Hear(heard[p], out) /\ out.entry # NoEntry
      BY <1>1, <1>5, <2>1, <3>1, <3>2, <3>5 DEF Known, Hear
    <3>6. CASE h = Miss(heard[p], out) /\ out.entry # NoEntry
      <4>1. /\ h.missed = heard[p].missed \cup (out.events \cap FieldEvents)
            /\ h.multiaddrs = heard[p].multiaddrs
            /\ h.protocols = heard[p].protocols
            /\ h.pubKey = heard[p].pubKey
        BY <3>3, <3>6 DEF Miss, Knowledge
      <4> QED  BY <1>1, <1>5, <2>1, <3>1, <3>2, <3>6, <4>1 DEF Known, FieldEvents
    <3> QED  BY <3>4, <3>5, <3>6
  <2>2. CASE q # p
    <3>1. heard'[q] = heard[q]  BY <1>0, <2>2 DEF TypeOK
    <3>2. Known(q)  BY <1>0
    <3> QED  BY <1>5, <2>2, <3>1, <3>2 DEF Known
  <2> QED  BY <2>1, <2>2
<1> QED  BY <1>4, <1>6, ChangesInHandNext

LEMMA HandStep ==
    ASSUME PeerStoreInv, NEW c \in Clients, StepOf(c)
    PROVE  ChangesInHand'
<1>0. TypeOK /\ LockInOrder /\ ChangesInHand  BY DEF PeerStoreInv
<1>1. ASSUME UNCHANGED <<stored, phase, at, outcome, heard>> PROVE ChangesInHand'
  BY <1>0, <1>1, QuietStep
<1>2. ASSUME NEW next \in {"get", "list", "write"}, phase[c] = "idle",
             phase' = [phase EXCEPT ![c] = next], UNCHANGED <<stored, at, outcome, heard>>
      PROVE  ChangesInHand'
  <2>1. \A d \in Clients : \/ phase'[d] = phase[d]
                           \/ phase[d] = "idle" /\ phase'[d] = next
    BY <1>0, <1>2 DEF TypeOK
  <2> QED  BY <1>0, <1>2, <2>1, QuietStep
<1>3. ASSUME phase[c] # "stored", Release(c), UNCHANGED <<stored, heard>>
      PROVE  ChangesInHand'
  <2>1. \A d \in Clients :
           \/ phase'[d] = phase[d] /\ at'[d] = at[d] /\ outcome'[d] = outcome[d]
           \/ phase[d] # "stored" /\ phase'[d] = "idle"
    BY <1>0, <1>3 DEF Release, TypeOK
  <2> QED  BY <1>0, <1>3, <2>1, QuietStep
<1>4. ASSUME NEW p \in PeerIds, NEW out \in Outcomes(p, stored[p]), Compute(c, p, out)
      PROVE  ChangesInHand'
  <2>1. CASE out = Keep(stored[p])
    BY <1>3, <1>4, <2>1 DEF Compute
  <2>2. CASE out # Keep(stored[p])
    <3>1. \A d \in Clients :
             \/ phase'[d] = phase[d] /\ at'[d] = at[d] /\ outcome'[d] = outcome[d]
             \/ /\ phase[d] # "stored" /\ phase'[d] = "loaded"
                /\ at'[d] = p /\ outcome'[d] = out
      BY <1>0, <1>4, <2>2 DEF Compute, TypeOK
    <3>2. UNCHANGED <<stored, heard>>  BY <1>4 DEF Compute
    <3> QED  BY <1>0, <3>1, <3>2, QuietStep
  <2> QED  BY <2>1, <2>2
<1>5. CASE Put(c)  BY <1>5, PutInHand
<1>6. CASE Dispatch(c)
  BY <1>6, SettleInHand DEF Dispatch
<1>7. CASE ReloadFails(c)
  BY <1>7, SettleInHand DEF ReloadFails
<1>8. ASSUME NEW kind \in ReadPhases, ReadLock(c, kind) PROVE ChangesInHand'
  BY <1>2, <1>8 DEF ReadLock, ReadPhases
<1>9. CASE WriteLock(c)
  BY <1>2, <1>9 DEF WriteLock
<1>10. ASSUME NEW p \in PeerIds, Load(c, p) PROVE ChangesInHand'
  BY <1>1, <1>10 DEF Load
<1>11. CASE GetDone(c) \/ ListDone(c) \/ WriteFails(c)
  BY <1>3, <1>11 DEF GetDone, ListDone, WriteFails
<1> QED
  BY <1>4, <1>5, <1>6, <1>7, <1>8, <1>9, <1>10, <1>11 DEF StepOf

-----------------------------------------------------------------------------
(* The invariant.                                                          *)

LEMMA InitInv ==
    ASSUME Init
    PROVE  PeerStoreInv
<1>1. TypeOK
  <2>1. AtFirst \in Knowledge  BY DEF AtFirst, Knowledge
  <2>2. [p \in {} |-> p] \in PartialFunctions(PeerIds, Entries \cup {NoEntry})
    BY NothingSeen DEF MaybeEntries
  <2> QED  BY <2>1, <2>2 DEF Init, TypeOK, Phases
<1>2. LockInOrder  BY DEF Init, LockInOrder
<1>3. ChangesInHand
  <2>1. \A c \in Clients : InHand(c)  BY DEF Init, InHand
  <2>2. \A p \in PeerIds : Known(p)
    BY DEF Init, Known, AtFirst, View, OrEmpty, EmptyEntry, Addresses
  <2> QED  BY <2>1, <2>2, ChangesInHandParts
<1>4. ReadsAreSnapshots  BY DEF Init, ReadsAreSnapshots
<1> QED  BY <1>1, <1>2, <1>3, <1>4 DEF PeerStoreInv

LEMMA StutterInv ==
    ASSUME PeerStoreInv, UNCHANGED vars
    PROVE  PeerStoreInv'
<1>1. TypeOK'  BY DEF vars, lockVars, callVars, PeerStoreInv, TypeOK
<1>2. LockInOrder'  BY DEF vars, lockVars, callVars, PeerStoreInv, LockInOrder, Holds
<1>3. ChangesInHand'  BY QuietStep DEF vars, callVars, PeerStoreInv
<1>4. ReadsAreSnapshots'  BY DEF vars, callVars, PeerStoreInv, ReadsAreSnapshots
<1> QED  BY <1>1, <1>2, <1>3, <1>4 DEF PeerStoreInv

\* The peer store keeps its inductive invariant: types, the lock, what calls
\* have in hand and what readers have seen.
THEOREM StoreCorrect == Spec => []PeerStoreInv
<1>1. Init => PeerStoreInv  BY InitInv
<1>2. PeerStoreInv /\ [Next]_vars => PeerStoreInv'
  <2> SUFFICES ASSUME PeerStoreInv, [Next]_vars PROVE PeerStoreInv'
    OBVIOUS
  <2>1. CASE Next
    <3>1. PICK c \in Clients : StepOf(c)  BY <2>1, NextStep
    <3> QED  BY <3>1, TypeStep, LockStep, SnapshotStep, HandStep DEF PeerStoreInv
  <2>2. CASE UNCHANGED vars  BY <2>2, StutterInv
  <2> QED  BY <2>1, <2>2
<1> QED  BY <1>1, <1>2, PTL DEF Spec

\* Every variable keeps its type: in particular, whatever the methods save is
\* an entry and whatever they dispatch is an event of the store.
THEOREM StoreTypeCorrect == Spec => []TypeOK
<1>1. PeerStoreInv => TypeOK  BY DEF PeerStoreInv
<1> QED  BY <1>1, StoreCorrect, PTL

\* The lock is held by one batch, reads or a single write, and what a call
\* has in hand it has under the lock.
THEOREM LockCorrect == Spec => []LockInOrder
<1>1. PeerStoreInv => LockInOrder  BY DEF PeerStoreInv
<1> QED  BY <1>1, StoreCorrect, PTL

\* getPeers() yields one state of the store, however long its caller pauses.
THEOREM Snapshots == Spec => []ReadsAreSnapshots
<1>1. PeerStoreInv => ReadsAreSnapshots  BY DEF PeerStoreInv
<1> QED  BY <1>1, StoreCorrect, PTL

\* What a call has loaded is still stored when it puts its outcome, and every
\* stored change that no event has told yet is in the hands of one call.
THEOREM ChangesKept == Spec => []ChangesInHand
<1>1. PeerStoreInv => ChangesInHand  BY DEF PeerStoreInv
<1> QED  BY <1>1, StoreCorrect, PTL

\* A listener that follows the events knows every peer's addresses, protocols
\* and key once no change waits for its events, but for the events that it has
\* missed with a method that threw after its put or with a deleted peer.
THEOREM Listeners == Spec => []ListenersUpToDate
<1>1. PeerStoreInv => ListenersUpToDate
  <2> SUFFICES ASSUME PeerStoreInv, NEW p \in PeerIds,
                      \A c \in Clients : phase[c] = "stored" => at[c] # p
               PROVE  UpToDate(heard[p], stored[p], heard[p].missed)
    BY DEF ListenersUpToDate
  <2>1. Known(p)  BY ChangesInHandParts DEF PeerStoreInv
  <2>2. \A name : ~ AnnouncedBy(p, name)  BY DEF AnnouncedBy, Announces
  <2> QED  BY <2>1, <2>2 DEF Known, UpToDate
<1> QED  BY <1>1, StoreCorrect, PTL

\* No step rewinds or loses the signed record of a peer that stays.
THEOREM Advancing == Spec => RecordsAdvance
<1> DEFINE Kept == \A p \in PeerIds :
              stored[p] # NoEntry /\ stored'[p] # NoEntry
              /\ stored[p].record # NoRecord /\ stored'[p].record # stored[p].record
                => /\ stored'[p].record # NoRecord
                   /\ stored'[p].record.seq > stored[p].record.seq
<1>1. PeerStoreInv /\ [Next]_vars => [Kept]_vars
  <2> SUFFICES ASSUME PeerStoreInv, Next PROVE Kept
    OBVIOUS
  <2>1. PICK c \in Clients : StepOf(c)  BY NextStep
  <2>2. CASE Put(c)
    <3>1. phase[c] = "loaded" /\ at[c] \in PeerIds
          /\ outcome[c] \in Outcomes(at[c], stored[at[c]])
      BY <2>2 DEF Put, PeerStoreInv, ChangesInHand
    <3>2. stored[at[c]] \in MaybeEntries
      BY <3>1 DEF PeerStoreInv, TypeOK, MaybeEntries
    <3>3. Advances(stored[at[c]], outcome[c].entry)
      BY <3>1, <3>2, OutcomeSound DEF Sound
    <3>4. /\ stored'[at[c]] = outcome[c].entry
          /\ \A q \in PeerIds \ {at[c]} : stored'[q] = stored[q]
      BY <2>2, <3>1 DEF Put, PeerStoreInv, TypeOK
    <3> QED  BY <3>3, <3>4 DEF Advances
  <2>3. CASE stored' = stored  BY <2>3
  <2> QED
    BY <2>1, <2>2, <2>3 DEF StepOf, ReadLock, WriteLock, Load, GetDone, ListDone,
       WriteFails, Compute, Dispatch, ReloadFails
<1> QED  BY <1>1, StoreCorrect, PTL DEF Spec, RecordsAdvance

-----------------------------------------------------------------------------
(* The peer store implements the atomic store.                             *)

\* At most one client has stored and not dispatched.
LEMMA OneStored ==
    ASSUME PeerStoreInv, NEW c \in Clients, phase[c] = "stored"
    PROVE  \A d \in Clients : phase[d] = "stored" => d = c
BY WriterAlone DEF PeerStoreInv, LockInOrder, ReadPhases

\* The change that is due is that client's.
LEMMA DueIs ==
    ASSUME NEW c \in Clients, phase[c] = "stored",
           \A d \in Clients : phase[d] = "stored" => d = c
    PROVE  Due = [peer |-> at[c], outcome |-> outcome[c]]
BY DEF Due

LEMMA NoneDue ==
    ASSUME \A c \in Clients : phase[c] # "stored"
    PROVE  Due = NoOutcome
BY DEF Due

\* The same of the next state.
LEMMA DueIsNext ==
    ASSUME NEW c \in Clients, phase'[c] = "stored",
           \A d \in Clients : phase'[d] = "stored" => d = c
    PROVE  Due' = [peer |-> at'[c], outcome |-> outcome'[c]]
BY DEF Due

LEMMA NoneDueNext ==
    ASSUME \A c \in Clients : phase'[c] # "stored"
    PROVE  Due' = NoOutcome
BY DEF Due

\* A step that stores nothing and settles nothing is a stutter.
LEMMA QuietStutters ==
    ASSUME PeerStoreInv, UNCHANGED <<stored, heard>>,
           \A d \in Clients :
              IF phase[d] = "stored"
              THEN phase'[d] = "stored" /\ at'[d] = at[d] /\ outcome'[d] = outcome[d]
              ELSE phase'[d] # "stored"
    PROVE  UNCHANGED Atomic!vars
<1>1. CASE \E c \in Clients : phase[c] = "stored"
  <2>1. PICK c \in Clients : phase[c] = "stored"  BY <1>1
  <2>2. \A d \in Clients : phase[d] = "stored" => d = c  BY <2>1, OneStored
  <2>3. \A d \in Clients : phase'[d] = "stored" => d = c  BY <2>2
  <2>4. Due = [peer |-> at[c], outcome |-> outcome[c]]  BY <2>1, <2>2, DueIs
  <2>5. Due' = [peer |-> at[c], outcome |-> outcome[c]]
    BY <2>1, <2>3, DueIsNext
  <2> QED  BY <2>4, <2>5 DEF Atomic!vars
<1>2. CASE ~ \E c \in Clients : phase[c] = "stored"
  BY <1>2, NoneDue, NoneDueNext DEF Atomic!vars
<1> QED  BY <1>1, <1>2

\* A put is a change of the atomic store.
LEMMA PutChanges ==
    ASSUME PeerStoreInv, NEW c \in Clients, Put(c)
    PROVE  Atomic!Next
<1> DEFINE p == at[c]  out == outcome[c]
<1>1. phase[c] = "loaded" /\ p \in PeerIds /\ out \in Outcomes(p, stored[p]) /\ Holds(c)
  BY DEF Put, PeerStoreInv, ChangesInHand, LockInOrder
<1>2. \A d \in Clients \ {c} : phase[d] # "stored"
  BY <1>1, WriterAlone DEF PeerStoreInv, LockInOrder, ReadPhases
<1>3. /\ phase'[c] = "stored" /\ \A d \in Clients \ {c} : phase'[d] = phase[d]
      /\ at' = at /\ outcome' = outcome /\ heard' = heard
      /\ stored' = [stored EXCEPT ![p] = out.entry]
  BY DEF Put, PeerStoreInv, TypeOK
<1>4. Due = NoOutcome  BY <1>1, <1>2, NoneDue
<1>5. Due' = [peer |-> p, outcome |-> out]
  BY <1>2, <1>3, DueIsNext
<1> QED  BY <1>1, <1>3, <1>4, <1>5 DEF Atomic!Next, Atomic!Change

\* A release after a put settles the change that is due.
LEMMA ReleaseSettles ==
    ASSUME PeerStoreInv, NEW c \in Clients, phase[c] = "stored", Release(c),
           UNCHANGED stored, NEW h, heard' = [heard EXCEPT ![at[c]] = h]
    PROVE  Atomic!Settle(h) /\ Due.outcome = outcome[c] /\ Due.peer = at[c]
<1>1. \A d \in Clients : phase[d] = "stored" => d = c  BY OneStored
<1>2. Due = [peer |-> at[c], outcome |-> outcome[c]]  BY <1>1, DueIs
<1>3. at[c] \in PeerIds /\ outcome[c] \in OutcomeType
  BY DEF PeerStoreInv, ChangesInHand
<1>4. Due # NoOutcome  BY <1>2, <1>3, DueAssumption
<1>5. \A d \in Clients : phase'[d] # "stored"
  BY <1>1 DEF Release, PeerStoreInv, TypeOK
<1>6. Due' = NoOutcome  BY <1>5, NoneDueNext
<1> QED  BY <1>2, <1>4, <1>6 DEF Atomic!Settle

\* Every behaviour of the peer store is one of the atomic store: no update is
\* lost between a load and a put, and no event overtakes another.
THEOREM AtomicRefinement == Spec => ImplementsAtomic
<1>1. Init => Atomic!Init
  BY NoneDue DEF Init, Atomic!Init
<1>2. PeerStoreInv /\ [Next]_vars => [Atomic!Next]_Atomic!vars
  <2> SUFFICES ASSUME PeerStoreInv, [Next]_vars PROVE [Atomic!Next]_Atomic!vars
    OBVIOUS
  <2>0. TypeOK  BY DEF PeerStoreInv
  <2>1. CASE UNCHANGED vars
    BY <2>1, QuietStutters DEF vars, callVars
  <2>2. CASE Next
    <3>1. PICK c \in Clients : StepOf(c)  BY <2>2, NextStep
    <3>2. ASSUME NEW kind \in ReadPhases, ReadLock(c, kind) PROVE UNCHANGED Atomic!vars
      BY <2>0, <3>2, QuietStutters DEF ReadLock, ReadPhases, TypeOK
    <3>3. CASE WriteLock(c)
      BY <2>0, <3>3, QuietStutters DEF WriteLock, TypeOK
    <3>4. ASSUME NEW p \in PeerIds, Load(c, p) PROVE UNCHANGED Atomic!vars
      BY <3>4, QuietStutters DEF Load
    <3>5. CASE GetDone(c) \/ ListDone(c) \/ WriteFails(c)
      BY <2>0, <3>5, QuietStutters DEF GetDone, ListDone, WriteFails, Release, TypeOK
    <3>6. ASSUME NEW p \in PeerIds, NEW out, Compute(c, p, out)
          PROVE  UNCHANGED Atomic!vars
      <4>1. CASE out = Keep(stored[p])
        BY <2>0, <3>6, <4>1, QuietStutters DEF Compute, Release, TypeOK
      <4>2. CASE out # Keep(stored[p])
        BY <2>0, <3>6, <4>2, QuietStutters DEF Compute, TypeOK
      <4> QED  BY <4>1, <4>2
    <3>7. CASE Put(c)  BY <3>7, PutChanges
    <3>8. CASE Dispatch(c)
      BY <3>8, ReleaseSettles DEF Dispatch, Atomic!Next, Atomic!Dispatch
    <3>9. CASE ReloadFails(c)
      BY <3>9, ReleaseSettles DEF ReloadFails, Atomic!Next, Atomic!Lose
    <3> QED
      BY <3>1, <3>2, <3>3, <3>4, <3>5, <3>6, <3>7, <3>8, <3>9 DEF StepOf
  <2> QED  BY <2>1, <2>2
<1> QED  BY <1>1, <1>2, StoreCorrect, PTL DEF Spec, ImplementsAtomic, Atomic!Spec
=============================================================================
