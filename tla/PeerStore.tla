------------------------------ MODULE PeerStore ------------------------------
(***************************************************************************)
(* The peer store: concurrent calls of the methods of its four books over    *)
(* one datastore, serialised by one read/write lock.  An action is what      *)
(* happens between two awaits of a method: asking for the lock, a datastore  *)
(* operation, and the release of the lock with the dispatch of the events    *)
(* that follows it without an await.                                        *)
(*                                                                         *)
(* The lock (package mortice) serves batches in order: a write lock is a     *)
(* batch of its own; a read lock joins the last batch if that is one of      *)
(* reads, even when it is being served, and else starts a new one.           *)
(***************************************************************************)
EXTENDS PeerBooks

CONSTANTS
    Clients,    (* callers; each has at most one call under way            *)
    NoPeer, NoOutcome

VARIABLES
    stored,     (* the datastore: the entry of each peer                   *)
    place,      (* the place of the client's batch in the lock's queue: 0 if *)
                (* it has not asked for the lock, 1 if it holds it         *)
    batches,    (* the number of batches                                   *)
    phase,      (* of the client's call                                    *)
    at,         (* the peer a write method is called for                   *)
    outcome,    (* what the method has computed                            *)
    seen,       (* the entries a read method has loaded under its lock      *)
    heard       (* what a listener of the store's events knows             *)

lockVars == <<place, batches>>
callVars == <<phase, at, outcome, seen>>
vars == <<stored, lockVars, callVars, heard>>

ReadPhases == {"get", "list"}
Phases == {"idle", "get", "list", "write", "loaded", "stored"}

TypeOK ==
    /\ stored \in [PeerIds -> Entries \cup {NoEntry}]
    /\ place \in [Clients -> Nat]
    /\ batches \in Nat
    /\ phase \in [Clients -> Phases]
    /\ at \in [Clients -> PeerIds \cup {NoPeer}]
    /\ outcome \in [Clients -> OutcomeType \cup {NoOutcome}]
    /\ seen \in [Clients -> PartialFunctions(PeerIds, Entries \cup {NoEntry})]
    /\ heard \in [PeerIds -> Knowledge]

Init ==
    /\ stored = [p \in PeerIds |-> NoEntry]
    /\ place = [c \in Clients |-> 0]
    /\ batches = 0
    /\ phase = [c \in Clients |-> "idle"]
    /\ at = [c \in Clients |-> NoPeer]
    /\ outcome = [c \in Clients |-> NoOutcome]
    /\ seen = [c \in Clients |-> [p \in {} |-> p]]
    /\ heard = [p \in PeerIds |-> AtFirst]

-----------------------------------------------------------------------------
(* The lock.                                                               *)

\* The last batch of the queue is one of reads.
LastIsReads == \E d \in Clients : phase[d] \in ReadPhases /\ place[d] = batches

\* readLock().  A "get" is any method that reads one entry, a "list" is
\* getPeers, which holds its lock while its caller handles what it yields.
ReadLock(c, kind) ==
    /\ phase[c] = "idle"
    /\ phase' = [phase EXCEPT ![c] = kind]
    /\ batches' = IF LastIsReads THEN batches ELSE batches + 1
    /\ place' = [place EXCEPT ![c] = batches']
    /\ UNCHANGED <<stored, at, outcome, seen, heard>>

\* Faulty variant: writers join the last batch, too.
WriteLockShared(c) ==
    /\ phase[c] = "idle"
    /\ phase' = [phase EXCEPT ![c] = "write"]
    /\ batches' = IF batches = 0 THEN 1 ELSE batches
    /\ place' = [place EXCEPT ![c] = batches']
    /\ UNCHANGED <<stored, at, outcome, seen, heard>>

WriteLock(c) ==
    /\ phase[c] = "idle"
    /\ phase' = [phase EXCEPT ![c] = "write"]
    /\ batches' = batches + 1
    /\ place' = [place EXCEPT ![c] = batches']
    /\ UNCHANGED <<stored, at, outcome, seen, heard>>

Holds(c) == place[c] = 1

\* release(): the last holder of a batch moves the queue on.  The call ends.
Release(c) ==
    /\ IF \E d \in Clients \ {c} : Holds(d)
       THEN /\ place' = [place EXCEPT ![c] = 0]
            /\ UNCHANGED batches
       ELSE /\ place' = [d \in Clients |-> IF place[d] = 0 THEN 0 ELSE place[d] - 1]
            /\ batches' = batches - 1
    /\ phase' = [phase EXCEPT ![c] = "idle"]
    /\ at' = [at EXCEPT ![c] = NoPeer]
    /\ outcome' = [outcome EXCEPT ![c] = NoOutcome]
    /\ seen' = [seen EXCEPT ![c] = [p \in {} |-> p]]

-----------------------------------------------------------------------------
(* Reading.                                                                *)

\* Faulty variant: the method does not wait for its lock.
LoadUnlocked(c, p) ==
    /\ phase[c] \in ReadPhases
    /\ IF phase[c] = "get" THEN DOMAIN seen[c] = {} ELSE p \notin DOMAIN seen[c]
    /\ seen' = [seen EXCEPT ![c] =
                  [q \in DOMAIN @ \cup {p} |-> IF q = p THEN stored[p] ELSE @[q]]]
    /\ UNCHANGED <<stored, lockVars, phase, at, outcome, heard>>

\* A load (or has) of a reader: one for a get, one per key for getPeers.
Load(c, p) ==
    /\ phase[c] \in ReadPhases /\ Holds(c)
    /\ IF phase[c] = "get" THEN DOMAIN seen[c] = {} ELSE p \notin DOMAIN seen[c]
    /\ seen' = [seen EXCEPT ![c] =
                  [q \in DOMAIN @ \cup {p} |-> IF q = p THEN stored[p] ELSE @[q]]]
    /\ UNCHANGED <<stored, lockVars, phase, at, outcome, heard>>

\* The read returns what it loaded, or throws.
GetDone(c) ==
    /\ phase[c] = "get" /\ Holds(c)
    /\ Release(c)
    /\ UNCHANGED <<stored, heard>>

\* The loop over getPeers() ends, or is left.
ListDone(c) ==
    /\ phase[c] = "list" /\ Holds(c)
    /\ Release(c)
    /\ UNCHANGED <<stored, heard>>

-----------------------------------------------------------------------------
(* Writing.                                                                *)

\* The method has loaded the entry of p.  It returns at once, or throws, when
\* there is nothing to save, and goes on to save its outcome otherwise.
Compute(c, p, out) ==
    /\ phase[c] = "write" /\ Holds(c)
    /\ IF out = Keep(stored[p])
       THEN Release(c)
       ELSE /\ phase' = [phase EXCEPT ![c] = "loaded"]
            /\ at' = [at EXCEPT ![c] = p]
            /\ outcome' = [outcome EXCEPT ![c] = out]
            /\ UNCHANGED <<lockVars, seen>>
    /\ UNCHANGED <<stored, heard>>

\* The public key in the PeerId that the caller gives, if any.
IdKeys(p) == {NoKey, OwnKey[p]}

CallConsumePeerRecord(c, p) ==
    \E rec \in Records, F \in SUBSET Addrs, id \in IdKeys(p) :
        Compute(c, p, ConsumePeerRecord(stored[p], rec, F, id))

CallAddressSet(c, p) ==
    \E S \in SUBSET Addrs, id \in IdKeys(p) :
        Compute(c, p, AddressSet(stored[p], S, id))

CallAddressAdd(c, p) ==
    \E S \in SUBSET Addrs, id \in IdKeys(p) :
        Compute(c, p, AddressAdd(stored[p], S, id))

CallAddressDelete(c, p) ==
    \E id \in IdKeys(p) : Compute(c, p, AddressDelete(stored[p], id))

CallProtoSet(c, p) ==
    \E P \in SUBSET Protos, id \in IdKeys(p) :
        Compute(c, p, ProtoSet(stored[p], P, id))

CallProtoAdd(c, p) ==
    \E P \in SUBSET Protos, id \in IdKeys(p) :
        Compute(c, p, ProtoAdd(stored[p], P, id))

CallProtoRemove(c, p) ==
    \E P \in SUBSET Protos, id \in IdKeys(p) :
        Compute(c, p, ProtoRemove(stored[p], P, id))

CallProtoDelete(c, p) ==
    \E id \in IdKeys(p) : Compute(c, p, ProtoDelete(stored[p], id))

CallKeySet(c, p) ==
    \E k \in PubKeys, id \in IdKeys(p) : Compute(c, p, KeySet(stored[p], k, id))

CallKeyDelete(c, p) ==
    \E id \in IdKeys(p) : Compute(c, p, KeyDelete(stored[p], id))

CallMetadataSet(c, p) ==
    \E M \in PartialFunctions(MetaKeys, Values), id \in IdKeys(p) :
        Compute(c, p, MetadataSet(stored[p], M, id))

CallMetadataSetValue(c, p) ==
    \E k \in MetaKeys, v \in Values, id \in IdKeys(p) :
        Compute(c, p, MetadataSetValue(stored[p], k, v, id))

CallMetadataDelete(c, p) ==
    \E K \in DeletedKeys, id \in IdKeys(p) :
        Compute(c, p, MetadataDelete(stored[p], K, id))

CallStoreDelete(c, p) == Compute(c, p, StoreDelete)

\* Faulty variant: release() is not in a finally block.
WriteFailsHolding(c) ==
    /\ phase[c] \in {"write", "loaded"} /\ Holds(c)
    /\ phase' = [phase EXCEPT ![c] = "idle"]
    /\ UNCHANGED <<stored, lockVars, at, outcome, seen, heard>>

\* The load or the put rejects, or the address filter throws.
WriteFails(c) ==
    /\ phase[c] \in {"write", "loaded"} /\ Holds(c)
    /\ Release(c)
    /\ UNCHANGED <<stored, heard>>

\* datastore.put, or datastore.delete.
Put(c) ==
    /\ phase[c] = "loaded"
    /\ stored' = [stored EXCEPT ![at[c]] = outcome[c].entry]
    /\ phase' = [phase EXCEPT ![c] = "stored"]
    /\ UNCHANGED <<lockVars, at, outcome, seen, heard>>

\* The lock is released and the events are dispatched; delete() of the whole
\* peer has none.
Dispatch(c) ==
    /\ phase[c] = "stored"
    /\ heard' = [heard EXCEPT ![at[c]] = Hear(@, outcome[c])]
    /\ Release(c)
    /\ UNCHANGED stored

\* The load at the end of save rejects: the lock is released and the method
\* throws, with the entry saved and no event dispatched.
ReloadFails(c) ==
    /\ phase[c] = "stored"
    /\ outcome[c].entry # NoEntry
    /\ heard' = [heard EXCEPT ![at[c]] = Miss(@, outcome[c])]
    /\ Release(c)
    /\ UNCHANGED stored

-----------------------------------------------------------------------------
Call(c, p) ==
    \/ CallConsumePeerRecord(c, p) \/ CallAddressSet(c, p)
    \/ CallAddressAdd(c, p) \/ CallAddressDelete(c, p)
    \/ CallProtoSet(c, p) \/ CallProtoAdd(c, p)
    \/ CallProtoRemove(c, p) \/ CallProtoDelete(c, p)
    \/ CallKeySet(c, p) \/ CallKeyDelete(c, p)
    \/ CallMetadataSet(c, p) \/ CallMetadataSetValue(c, p)
    \/ CallMetadataDelete(c, p) \/ CallStoreDelete(c, p)

Next ==
    \E c \in Clients :
        \/ \E kind \in ReadPhases : ReadLock(c, kind)
        \/ WriteLock(c)
        \/ \E p \in PeerIds : Load(c, p) \/ Call(c, p)
        \/ GetDone(c) \/ ListDone(c) \/ WriteFails(c)
        \/ Put(c) \/ Dispatch(c) \/ ReloadFails(c)

Spec == Init /\ [][Next]_vars

\* The datastore answers, so a method that holds the lock comes to its end.
\* Nothing makes the caller of getPeers() go on.
Fairness ==
    \A c \in Clients :
        /\ WF_vars(GetDone(c))
        /\ WF_vars((\E p \in PeerIds : Call(c, p)) \/ WriteFails(c))
        /\ WF_vars(Put(c) \/ WriteFails(c))
        /\ WF_vars(Dispatch(c) \/ ReloadFails(c))

FairSpec == Spec /\ Fairness

-----------------------------------------------------------------------------
(* Safety.                                                                 *)

\* What a read method has loaded is what is stored, all of it at once, for as
\* long as it holds its lock: getPeers() yields one state of the store even
\* when its caller pauses between two peers.
ReadsAreSnapshots ==
    \A c \in Clients : \A p \in DOMAIN seen[c] : seen[c][p] = stored[p]

\* A listener that follows the events knows the addresses, protocols and key
\* of every peer as they are stored, once no change waits for its events: each
\* method announces each field it changes, after the fact and in the order of
\* the changes.  Two things alone leave it behind, and only until the next event
\* about the field: delete() of the whole peer, which dispatches nothing, and a
\* method that throws because the load after its put was rejected.  (The package's
\* README has no exception: data that is updated emits events.)
ListenersUpToDate ==
    \A p \in PeerIds :
        (\A c \in Clients : phase[c] = "stored" => at[c] # p) =>
            UpToDate(heard[p], stored[p], heard[p].missed)

\* The lock is held by one batch: reads, or a single write.  No place is
\* beyond the queue, none is kept by a call that has ended, and what a call
\* has in hand it has under the lock.
LockInOrder ==
    /\ \A c \in Clients :
         /\ phase[c] = "idle" <=> place[c] = 0
         /\ place[c] <= batches
         /\ phase[c] \in {"loaded", "stored"} => Holds(c)
         /\ DOMAIN seen[c] # {} => phase[c] \in ReadPhases /\ Holds(c)
    /\ \A c, d \in Clients :
         c # d /\ place[c] = place[d] /\ place[c] > 0 => phase[c] \in ReadPhases

\* The client is about to announce, or to delete in silence, a field of p.
Announces(c, p, name) ==
    /\ phase[c] = "stored" /\ at[c] = p
    /\ name \in outcome[c].events \/ outcome[c].entry = NoEntry

\* What a write method has computed is still right when it is put, and the
\* listener lacks only what the events of the change will say, beside what it
\* has missed.
ChangesInHand ==
    /\ \A c \in Clients :
         /\ phase[c] \in {"loaded", "stored"} => at[c] \in PeerIds
         /\ phase[c] = "loaded" => outcome[c] \in Outcomes(at[c], stored[at[c]])
         /\ phase[c] = "stored" => outcome[c] \in OutcomeType
                                   /\ outcome[c].entry = stored[at[c]]
    /\ \A p \in PeerIds :
         LET due == {name \in FieldEvents : \E c \in Clients : Announces(c, p, name)}
         IN  UpToDate(heard[p], stored[p], due \cup heard[p].missed)

\* The inductive invariant.
PeerStoreInv ==
    TypeOK /\ LockInOrder /\ ChangesInHand /\ ReadsAreSnapshots

\* The signed record of a peer is only ever replaced by one of a greater
\* sequence number, and goes only with the whole entry: no other method of any
\* book, no failure and no interleaving loses or rewinds it.  (consumePeerRecord
\* refuses a record as new as the stored one, where the comment above its condition
\* says "greater than, or equal to": taking it would replace the addresses of a
\* record by others under the same number.)
RecordsAdvance ==
    [][\A p \in PeerIds :
         stored[p] # NoEntry /\ stored'[p] # NoEntry
         /\ stored[p].record # NoRecord /\ stored'[p].record # stored[p].record
           => /\ stored'[p].record # NoRecord
              /\ stored'[p].record.seq > stored[p].record.seq]_vars

-----------------------------------------------------------------------------
(* Liveness, under FairSpec.                                               *)

\* Every call comes to its end if every loop over getPeers() does.
CallsEnd ==
    (\A c \in Clients : []<>(phase[c] # "list" \/ ~ Holds(c)))
        => \A c \in Clients : phase[c] # "idle" ~> phase[c] = "idle"

-----------------------------------------------------------------------------
(* What the documentation claims and the code does not keep.               *)

\* A certified address is "obtained from a signed peer record" (the Address
\* type): it is among the addresses of the stored record.  Adding an address
\* that is stored already, beside a new one, makes it certified.
CertifiedFromRecord ==
    \A p \in PeerIds : stored[p] # NoEntry =>
        \A a \in DOMAIN stored[p].addresses :
            stored[p].addresses[a] =>
                stored[p].record # NoRecord /\ a \in stored[p].record.addrs
=============================================================================
