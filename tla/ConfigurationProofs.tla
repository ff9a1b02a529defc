------------------------ MODULE ConfigurationProofs -------------------------
(***************************************************************************)
(* What the configuration commands guarantee: ConfigStorage for any clients *)
(* and keys, and Config.Merge for any two configurations.                   *)
(***************************************************************************)
EXTENDS ConfigStorage, ConfigMerge, SequenceTheorems, TLAPS

-----------------------------------------------------------------------------
(* The storage.                                                            *)

USE DEF Signed

Area == [Keys -> Entry]
Areas == [config : Area, hashes : Area, sigs : Area]

\* An entry the storage may hold or have held.
Good(e) == e.rev <= revision /\ (e.rev = 0 => e = Absent)

\* An entry read under k: as long as the revision is the same, so is the document.
Old(e, k) == Good(e) /\ (e.rev = config[k].rev => e = config[k])

StoreOK ==
    /\ backend \in {"etcd", "tarantool"} /\ integrity \in {"on", "off"}
    /\ revision \in Nat
    /\ config \in Area /\ hashes \in Area /\ sigs \in Area
    /\ \A k \in Keys : Good(config[k])
    /\ Signed => hashes = config /\ sigs = config
    /\ ~Signed => \A k \in Keys : hashes[k] = Absent /\ sigs[k] = Absent
    /\ published \subseteq Clients

Shapes ==
    /\ cmd \in [Clients -> [kind : Kinds, key : Keys]]
    /\ pc \in [Clients -> {"collect", "publish", "txn", "done"}]
    /\ data \in [Clients -> Area]
    /\ looked \in [Clients -> Areas]
    /\ result \in [Clients -> {"none", "ok", "error"}]

ReadOK(c) ==
    /\ ~Signed => \A k \in Keys : Old(data[c][k], k)
    /\ \A k \in Keys : Old(looked[c].config[k], k)
    /\ Signed => looked[c].hashes = looked[c].config /\ looked[c].sigs = looked[c].config

ControlOK(c) ==
    /\ pc[c] = "done" <=> result[c] # "none"
    /\ pc[c] = "txn" => cmd[c].kind \in ToAll /\ backend = "etcd"
    /\ pc[c] = "publish" /\ cmd[c].kind = "patch" /\ ~Signed =>
          data[c][cmd[c].key].rev # 0
    /\ result[c] = "ok" /\ backend = "etcd" => c \in published

IndInv == StoreOK /\ Shapes /\ \A c \in Clients : ReadOK(c) /\ ControlOK(c)

-----------------------------------------------------------------------------
\* The key of a whole configuration is one of the keys.
LEMMA AllIsKey == All \in Keys
BY DEF Keys

\* A key that is not there.
LEMMA AbsentType == Absent \in Entry /\ Absent.rev = 0
BY DEF Absent, Entry

\* The initial states satisfy the invariant.
LEMMA InitInd == Init => IndInv
<1> SUFFICES ASSUME Init PROVE IndInv
  OBVIOUS
<1> USE AllIsKey
<1>1. [rev |-> 1, val |-> {}] \in Entry
  BY DEF Entry
<1>2. config \in Area /\ hashes \in Area /\ sigs \in Area
  BY <1>1, AbsentType, ZenonT(60) DEF Init, Area
<1>3. \A k \in Keys : Good(config[k])
  <2>1. revision = 1 /\ \A k \in Keys : config[k] \in {Absent, [rev |-> 1, val |-> {}]}
    BY DEF Init
  <2> QED
    BY <2>1, AbsentType DEF Good
<1>4. StoreOK
  BY <1>2, <1>3 DEF StoreOK, Init
<1>5. data \in [Clients -> Area] /\ \A c \in Clients, k \in Keys : data[c][k] = Absent
  BY AbsentType DEF Init, Area
<1>6. /\ looked \in [Clients -> Areas]
      /\ \A c \in Clients : /\ looked[c].config = data[c] /\ looked[c].hashes = data[c]
                            /\ looked[c].sigs = data[c]
  BY <1>5 DEF Init, Areas
<1>7. pc \in [Clients -> {"collect", "publish", "txn", "done"}]
  BY DEF Init
<1>8. Shapes
  BY <1>5, <1>6, <1>7, ZenonT(60) DEF Init, Shapes
<1>9. ASSUME NEW c \in Clients PROVE ReadOK(c) /\ ControlOK(c)
  <2>1. \A k \in Keys : Old(Absent, k)
    BY <1>3, <1>2, <1>4, AbsentType DEF Old, Good, StoreOK
  <2>2. ReadOK(c)
    BY <2>1, <1>5, <1>6 DEF ReadOK
  <2>3. ControlOK(c)
    BY DEF Init, ControlOK, Collecting, ToAll
  <2> QED
    BY <2>2, <2>3
<1> QED
  BY <1>4, <1>8, <1>9 DEF IndInv

-----------------------------------------------------------------------------
\* A step that leaves the storage alone and touches one client.
ClientMove(c) ==
    /\ UNCHANGED <<storage, cmd>>
    /\ pc' = [pc EXCEPT ![c] = pc'[c]] /\ pc'[c] \in {"collect", "publish", "txn", "done"}
    /\ result' = [result EXCEPT ![c] = result'[c]] /\ result'[c] \in {"none", "ok", "error"}
    /\ data' = [data EXCEPT ![c] = data'[c]] /\ data'[c] \in Area
    /\ looked' = [looked EXCEPT ![c] = looked'[c]] /\ looked'[c] \in Areas
    /\ ReadOK(c)' /\ ControlOK(c)'

\* Such a step keeps the invariant of the storage and of the other clients.
LEMMA ClientFrame ==
    ASSUME IndInv, NEW c \in Clients, ClientMove(c)
    PROVE  IndInv'
<1>1. StoreOK'
  BY DEF IndInv, ClientMove, storage, StoreOK, Good
<1>2. Shapes'
  BY SMTT(30) DEF IndInv, ClientMove, Shapes
<1>3. ASSUME NEW d \in Clients PROVE ReadOK(d)' /\ ControlOK(d)'
  <2>1. CASE d = c
    BY <2>1 DEF ClientMove
  <2>2. CASE d # c
    <3>1. /\ pc'[d] = pc[d] /\ result'[d] = result[d] /\ data'[d] = data[d]
          /\ looked'[d] = looked[d]
      BY <2>2 DEF IndInv, ClientMove, Shapes
    <3>2. ReadOK(d)'
      BY <3>1 DEF IndInv, ReadOK, Old, Good, ClientMove, storage
    <3>3. ControlOK(d)'
      BY <3>1 DEF IndInv, ControlOK, ClientMove, storage
    <3> QED
      BY <3>2, <3>3
  <2> QED
    BY <2>1, <2>2
<1> QED
  BY <1>1, <1>2, <1>3 DEF IndInv
-----------------------------------------------------------------------------
\* A published document is a set of edits.
LEMMA DocumentType ==
    ASSUME IndInv, NEW c \in Clients
    PROVE  Document(c) \in SUBSET Clients
<1>1. cmd[c].key \in Keys /\ data[c] \in Area
  BY DEF IndInv, Shapes
<1>2. \A k \in Keys : data[c][k].val \in SUBSET Clients
  BY <1>1 DEF Area, Entry
<1> DEFINE collected == UNION {data[c][k].val : k \in Keys}
<1>3. collected \subseteq Clients
  BY <1>2
<1>4. CASE cmd[c].kind \in {"all", "key"}
  BY <1>4 DEF Document
<1>5. CASE cmd[c].kind = "instance"
  <2>1. cmd[c].kind \notin {"all", "key"}
    BY <1>5
  <2>2. Document(c) = collected \cup {c}
    BY <1>5, <2>1 DEF Document
  <2> HIDE DEF collected
  <2> QED
    BY <1>3, <2>2
<1>6. CASE cmd[c].kind \notin {"all", "key", "instance"}
  BY <1>1, <1>2, <1>6 DEF Document
<1> QED
  BY <1>4, <1>5, <1>6

\* A transaction: the keys in gone are deleted and k gets the document of c.
After(area, k, gone, entry) ==
    [q \in Keys |-> IF q = k THEN entry ELSE IF q \in gone THEN Absent ELSE area[q]]

\* A transaction keeps the invariant: what others have read gets older, never different.
LEMMA WriteFrame ==
    ASSUME IndInv, NEW c \in Clients, pc[c] # "done", NEW k \in Keys,
           NEW deleted \in [config : SUBSET Keys, hashes : SUBSET Keys, sigs : SUBSET Keys],
           Signed => deleted.hashes = deleted.config /\ deleted.sigs = deleted.config,
           Write(c, k, deleted), UNCHANGED <<cmd, data, looked>>
    PROVE  IndInv'
<1> DEFINE entry == [rev |-> revision + 1, val |-> Document(c)]
<1>1. entry \in Entry /\ entry.rev = revision + 1 /\ revision \in Nat
  BY DocumentType DEF Entry, IndInv, StoreOK
<1>2. /\ revision' = revision + 1 /\ published' = published \cup {c}
      /\ config' = After(config, k, deleted.config, entry)
      /\ Signed => /\ hashes' = After(hashes, k, deleted.hashes, entry)
                   /\ sigs' = After(sigs, k, deleted.sigs, entry)
      /\ ~Signed => hashes' = hashes /\ sigs' = sigs
      /\ backend' = backend /\ integrity' = integrity
  BY DEF Write, After
<1>3. PICK r \in {"ok", "error"} : /\ pc' = [pc EXCEPT ![c] = "done"]
                                   /\ result' = [result EXCEPT ![c] = r]
  BY ZenonT(60) DEF Write, End
<1> HIDE DEF entry
<1>4. \A area \in Area, gone \in SUBSET Keys : After(area, k, gone, entry) \in Area
  BY <1>1, AbsentType DEF After, Area
<1>5. ASSUME NEW q \in Keys PROVE config'[q] \in {entry, Absent, config[q]}
  BY <1>2 DEF After
<1>6. StoreOK'
  <2>1. config' \in Area
    BY <1>2, <1>4 DEF IndInv, StoreOK
  <2>2. hashes' \in Area /\ sigs' \in Area
    BY <1>2, <1>4, AllIsKey DEF IndInv, StoreOK
  <2>3. ASSUME NEW q \in Keys PROVE Good(config[q])'
    <3>1. config[q].rev \in Nat /\ Good(config[q])
      BY DEF IndInv, StoreOK, Area, Entry
    <3> QED
      BY <1>1, <1>2, <1>5, <3>1, AbsentType DEF Good
  <2>4. Signed => hashes' = config' /\ sigs' = config'
    BY <1>2 DEF IndInv, StoreOK
  <2>5. ~Signed => \A q \in Keys : hashes'[q] = Absent /\ sigs'[q] = Absent
    BY <1>2 DEF IndInv, StoreOK
  <2>6. published' \subseteq Clients /\ revision' \in Nat
    BY <1>1, <1>2 DEF IndInv, StoreOK
  <2>7. /\ backend' \in {"etcd", "tarantool"} /\ integrity' \in {"on", "off"}
        /\ integrity' = integrity
    BY <1>2 DEF IndInv, StoreOK
  <2> QED
    BY <2>1, <2>2, <2>3, <2>4, <2>5, <2>6, <2>7 DEF StoreOK
<1>7. Shapes'
  BY <1>3 DEF IndInv, Shapes
<1>8. ASSUME NEW e \in Entry, NEW q \in Keys, Old(e, q)
      PROVE  Old(e, q)'
  <2>1. e.rev \in Nat /\ e.rev <= revision /\ (e.rev = 0 => e = Absent)
    BY <1>8 DEF Old, Good, Entry
  <2>2. Good(e)'
    BY <1>1, <1>2, <2>1 DEF Good
  <2>3. ASSUME e.rev = config'[q].rev PROVE e = config'[q]
    <3>1. CASE config'[q] = entry
      BY <1>1, <2>1, <2>3, <3>1
    <3>2. CASE config'[q] = Absent
      BY <2>1, <2>3, <3>2, AbsentType
    <3>3. CASE config'[q] = config[q]
      BY <1>8, <2>3, <3>3 DEF Old
    <3> QED
      BY <1>5, <3>1, <3>2, <3>3
  <2> QED
    BY <2>2, <2>3 DEF Old
<1>9. ASSUME NEW d \in Clients PROVE ReadOK(d)' /\ ControlOK(d)'
  <2>1. /\ data[d] \in Area /\ looked[d].config \in Area
        /\ \A q \in Keys : data[d][q] \in Entry /\ looked[d].config[q] \in Entry
    BY DEF IndInv, Shapes, Area, Areas
  <2>2. ReadOK(d)
    BY DEF IndInv
  <2>3. ~Signed => \A q \in Keys : Old(data[d][q], q)'
    BY <1>8, <2>1, <2>2 DEF ReadOK
  <2>4. \A q \in Keys : Old(looked[d].config[q], q)'
    BY <1>8, <2>1, <2>2 DEF ReadOK
  <2>5. ReadOK(d)'
    BY <1>2, <2>2, <2>3, <2>4 DEF ReadOK
  <2>6. ControlOK(d)
    BY DEF IndInv
  <2>7. CASE d = c
    <3>1. pc'[d] = "done" /\ result'[d] # "none" /\ d \in published'
      BY <1>2, <1>3, <2>7, SMTT(30) DEF IndInv, Shapes
    <3> QED
      BY <2>5, <3>1 DEF ControlOK
  <2>8. CASE d # c
    <3>1. pc'[d] = pc[d] /\ result'[d] = result[d] /\ (d \in published => d \in published')
      BY <1>2, <1>3, <2>8 DEF IndInv, Shapes
    <3> QED
      BY <1>2, <2>5, <2>6, <3>1 DEF ControlOK
  <2> QED
    BY <2>7, <2>8
<1> QED
  BY <1>6, <1>7, <1>9 DEF IndInv
-----------------------------------------------------------------------------
\* A command may end at any time without writing.
LEMMA EndMove ==
    ASSUME IndInv, NEW c \in Clients, pc[c] # "done", NEW r \in {"ok", "error"},
           End(c, r), UNCHANGED <<storage, cmd, data, looked>>, r = "ok" => backend # "etcd"
    PROVE  IndInv'
<1>1. pc'[c] = "done" /\ result'[c] = r /\ data[c] \in Area /\ looked[c] \in Areas
  BY DEF End, IndInv, Shapes
<1>2. /\ pc' = [pc EXCEPT ![c] = pc'[c]] /\ result' = [result EXCEPT ![c] = result'[c]]
      /\ data' = [data EXCEPT ![c] = data'[c]] /\ looked' = [looked EXCEPT ![c] = looked'[c]]
  BY <1>1 DEF End, IndInv, Shapes
<1>3. ReadOK(c)'
  BY DEF IndInv, ReadOK, Old, Good, storage
<1>4. ControlOK(c)'
  BY <1>1 DEF ControlOK, storage
<1>5. ClientMove(c)
  BY <1>1, <1>2, <1>3, <1>4 DEF ClientMove
<1> QED
  BY <1>5, ClientFrame

\* Collect.
LEMMA CollectInd ==
    ASSUME IndInv, NEW c \in Clients, Collect(c)
    PROVE  IndInv'
<1>1. CASE CollectFails(c)
  BY <1>1, EndMove DEF Collect
<1>2. CASE ~CollectFails(c)
  <2>1. /\ pc' = [pc EXCEPT ![c] = "publish"] /\ result' = result /\ pc[c] = "collect"
        /\ data' = [data EXCEPT ![c] = [k \in Keys |-> Collected(c, k)]]
        /\ UNCHANGED <<storage, cmd, looked>>
    BY <1>2 DEF Collect, Goto
  <2>2. \A k \in Keys : config[k] \in Entry /\ config[k].rev \in Nat
    BY DEF IndInv, StoreOK, Area, Entry
  <2>3. \A k \in Keys : Collected(c, k) \in Entry
    BY <2>2, AbsentType DEF Collected, Entry
  <2>4. data'[c] \in Area /\ \A k \in Keys : data'[c][k] = Collected(c, k)
    BY <2>1, <2>3 DEF IndInv, Shapes, Area
  <2>5. ASSUME ~Signed, NEW k \in Keys PROVE Old(Collected(c, k), k)
    <3>1. Good(config[k]) /\ config[k] = [rev |-> config[k].rev, val |-> config[k].val]
      BY <2>2 DEF IndInv, StoreOK, Entry
    <3>2. CASE Collected(c, k) = Absent
      BY <2>2, <3>1, <3>2, AbsentType DEF Old, Good, IndInv, StoreOK
    <3>3. CASE Collected(c, k) # Absent
      <4>1. Collected(c, k) = config[k]
        BY <2>5, <3>1, <3>3, SMTT(30) DEF Collected
      <4> QED
        BY <4>1, <3>1 DEF Old
    <3> QED
      BY <3>2, <3>3
  <2>6. ReadOK(c)'
    <3>1. ~Signed => \A k \in Keys : Old(data'[c][k], k)
      BY <2>4, <2>5
    <3> QED
      BY <2>1, <3>1 DEF IndInv, ReadOK, Old, Good, storage
  <2>7. ASSUME ~Signed, cmd[c].kind = "patch" PROVE data'[c][cmd[c].key].rev # 0
    <3>1. cmd[c].key \in Keys /\ cmd[c].key \in Wanted(c)
      BY <2>7 DEF IndInv, Shapes, Wanted
    <3>2. config[cmd[c].key] # Absent /\ config[cmd[c].key].rev # 0
      BY <1>2, <2>7, <3>1 DEF CollectFails, IndInv, StoreOK, Good
    <3>3. Collected(c, cmd[c].key) = [rev |-> config[cmd[c].key].rev,
                                      val |-> config[cmd[c].key].val]
      BY <2>7, <3>1, <3>2 DEF Collected
    <3>4. data'[c][cmd[c].key] = Collected(c, cmd[c].key)
      BY <2>4, <3>1, SMTT(30)
    <3> QED
      BY <3>2, <3>3, <3>4
  <2>8. ControlOK(c)'
    <3>1. pc'[c] = "publish" /\ result'[c] = "none"
      BY <2>1 DEF IndInv, Shapes, ControlOK
    <3> QED
      BY <2>1, <2>7, <3>1 DEF ControlOK, storage
  <2>9. ClientMove(c)
    <3>1. /\ pc'[c] = "publish" /\ result[c] \in {"none", "ok", "error"} /\ looked[c] \in Areas
          /\ pc' = [pc EXCEPT ![c] = pc'[c]] /\ result' = [result EXCEPT ![c] = result'[c]]
          /\ data' = [data EXCEPT ![c] = data'[c]]
          /\ looked' = [looked EXCEPT ![c] = looked'[c]]
      BY <2>1 DEF IndInv, Shapes
    <3> QED
      BY <2>1, <2>4, <2>6, <2>8, <3>1 DEF ClientMove
  <2> QED
    BY <2>9, ClientFrame
<1> QED
  BY <1>1, <1>2

\* Publish of a key.
LEMMA PublishKeyInd ==
    ASSUME IndInv, NEW c \in Clients, PublishKey(c)
    PROVE  IndInv'
<1>1. cmd[c].key \in Keys /\ pc[c] # "done" /\ UNCHANGED <<cmd, data, looked>>
  BY DEF PublishKey, IndInv, Shapes
<1>2. CASE Revision(c) \in {0, config[cmd[c].key].rev}
  <2>1. Write(c, cmd[c].key, Nothing)
    BY <1>2 DEF PublishKey
  <2>2. /\ Nothing \in [config : SUBSET Keys, hashes : SUBSET Keys, sigs : SUBSET Keys]
        /\ Nothing.hashes = Nothing.config /\ Nothing.sigs = Nothing.config
    BY DEF Nothing
  <2> QED
    BY <1>1, <2>1, <2>2, WriteFrame, SMTT(30)
<1>3. CASE Revision(c) \notin {0, config[cmd[c].key].rev}
  <2>1. PICK r \in {"ok", "error"} : End(c, r) /\ (r = "ok" => backend # "etcd")
    BY <1>3 DEF PublishKey
  <2>2. UNCHANGED storage
    BY <1>3 DEF PublishKey
  <2> QED
    BY <1>1, <2>1, <2>2, EndMove
<1> QED
  BY <1>2, <1>3

\* Publish of a prefix, Tarantool.
LEMMA PublishAllTarantoolInd ==
    ASSUME IndInv, NEW c \in Clients, PublishAllTarantool(c)
    PROVE  IndInv'
<1> DEFINE deleted == [config |-> Keys, hashes |-> Keys, sigs |-> Keys]
<1>1. /\ deleted \in [config : SUBSET Keys, hashes : SUBSET Keys, sigs : SUBSET Keys]
      /\ deleted.hashes = deleted.config /\ deleted.sigs = deleted.config
  OBVIOUS
<1>2. Write(c, All, deleted) /\ pc[c] # "done" /\ UNCHANGED <<cmd, data, looked>>
  BY DEF PublishAllTarantool
<1> HIDE DEF deleted
<1> QED
  BY <1>1, <1>2, WriteFrame, AllIsKey

\* Publish of a prefix, the transaction of etcd.
LEMMA TxnAllInd ==
    ASSUME IndInv, NEW c \in Clients, TxnAll(c)
    PROVE  IndInv'
<1>1. ToDelete(c) \in [config : SUBSET Keys, hashes : SUBSET Keys, sigs : SUBSET Keys]
  BY DEF ToDelete, Others, There
<1>2. Signed => /\ ToDelete(c).hashes = ToDelete(c).config
                /\ ToDelete(c).sigs = ToDelete(c).config
  BY DEF ToDelete, IndInv, ReadOK
<1>3. Write(c, All, ToDelete(c)) /\ pc[c] # "done" /\ UNCHANGED <<cmd, data, looked>>
  BY DEF TxnAll
<1> QED
  BY <1>1, <1>2, <1>3, WriteFrame, AllIsKey

\* What the publisher of a whole prefix gets is what the storage holds.
LEMMA LookMove ==
    ASSUME IndInv, NEW c \in Clients, pc[c] \in {"publish", "txn"}, cmd[c].kind \in ToAll,
           backend = "etcd",
           looked' = [looked EXCEPT ![c] = Storage], pc' = [pc EXCEPT ![c] = "txn"],
           UNCHANGED <<storage, cmd, data, result>>
    PROVE  IndInv'
<1>1. Storage \in Areas
  BY DEF Storage, Areas, IndInv, StoreOK
<1>2. /\ looked'[c] = Storage /\ pc'[c] = "txn" /\ result'[c] = result[c]
      /\ data'[c] = data[c] /\ data[c] \in Area
      /\ result[c] \in {"none", "ok", "error"}
  BY DEF IndInv, Shapes
<1>3. ReadOK(c)'
  <2>1. \A k \in Keys : Old(config[k], k)
    BY DEF IndInv, StoreOK, Old
  <2>2. Storage.config = config /\ Storage.hashes = hashes /\ Storage.sigs = sigs
    BY DEF Storage
  <2>3. \A k \in Keys : Old(looked'[c].config[k], k)
    BY <1>2, <2>1, <2>2
  <2>4. Signed => looked'[c].hashes = looked'[c].config /\ looked'[c].sigs = looked'[c].config
    BY <1>2, <2>2 DEF IndInv, StoreOK
  <2>5. ~Signed => \A k \in Keys : Old(data[c][k], k)
    BY DEF IndInv, ReadOK
  <2> QED
    BY <2>3, <2>4, <2>5 DEF ReadOK, Old, Good, storage
<1>4. ControlOK(c)'
  BY <1>2 DEF IndInv, ControlOK, storage, ToAll
<1>5. ClientMove(c)
  <2>1. /\ pc' = [pc EXCEPT ![c] = pc'[c]] /\ looked' = [looked EXCEPT ![c] = looked'[c]]
        /\ result' = [result EXCEPT ![c] = result'[c]]
        /\ data' = [data EXCEPT ![c] = data'[c]]
    BY <1>2 DEF IndInv, Shapes
  <2> QED
    BY <1>1, <1>2, <1>3, <1>4, <2>1 DEF ClientMove
<1> QED
  BY <1>5, ClientFrame

\* Publish of a prefix, the next attempt.
LEMMA RetryAllInd ==
    ASSUME IndInv, NEW c \in Clients, RetryAll(c)
    PROVE  IndInv'
<1>1. /\ pc[c] = "txn" /\ cmd[c].kind \in ToAll /\ backend = "etcd"
      /\ UNCHANGED <<storage, cmd, data, result>>
  BY DEF RetryAll, IndInv, ControlOK
<1>2. CASE Signed
  <2>1. pc' = [pc EXCEPT ![c] = "txn"] /\ looked' = [looked EXCEPT ![c] = Storage]
    BY <1>1, <1>2 DEF RetryAll, IndInv, Shapes
  <2> QED
    BY <1>1, <2>1, LookMove, ZenonT(60)
<1>3. CASE ~Signed
  <2>1. /\ pc' = [pc EXCEPT ![c] = "publish"] /\ looked' = looked
        /\ pc'[c] = "publish" /\ pc' = [pc EXCEPT ![c] = pc'[c]]
        /\ result' = [result EXCEPT ![c] = result'[c]] /\ result[c] \in {"none", "ok", "error"}
        /\ data' = [data EXCEPT ![c] = data'[c]] /\ data[c] \in Area
        /\ looked' = [looked EXCEPT ![c] = looked'[c]] /\ looked[c] \in Areas
    BY <1>1, <1>3 DEF RetryAll, IndInv, Shapes
  <2>2. ReadOK(c)'
    BY <1>1, <2>1 DEF IndInv, ReadOK, Old, Good, storage
  <2>3. ControlOK(c)'
    BY <1>1, <2>1 DEF IndInv, ControlOK, storage, ToAll
  <2>4. ClientMove(c)
    BY <1>1, <2>1, <2>2, <2>3 DEF ClientMove
  <2> QED
    BY <2>4, ClientFrame
<1> QED
  BY <1>2, <1>3, SMTT(30)

\* Every step keeps the invariant.
LEMMA NextInd == IndInv /\ [Next]_vars => IndInv'
<1> SUFFICES ASSUME IndInv, [Next]_vars PROVE IndInv'
  OBVIOUS
<1>1. ASSUME NEW c \in Clients, GetAll(c) PROVE IndInv'
  BY <1>1, LookMove, ZenonT(60) DEF GetAll, Goto
<1>2. ASSUME NEW c \in Clients, Fail(c) PROVE IndInv'
  BY <1>2, EndMove DEF Fail
<1>3. CASE UNCHANGED vars
  <2>1. StoreOK'
    BY <1>3 DEF vars, IndInv, StoreOK, Good
  <2>2. Shapes'
    BY <1>3 DEF vars, IndInv, Shapes
  <2>3. ASSUME NEW c \in Clients PROVE ReadOK(c)' /\ ControlOK(c)'
    <3>1. ReadOK(c)'
      BY <1>3, SMTT(30) DEF vars, IndInv, ReadOK, Old, Good
    <3>2. ControlOK(c)'
      BY <1>3 DEF vars, IndInv, ControlOK
    <3> QED
      BY <3>1, <3>2
  <2> QED
    BY <2>1, <2>2, <2>3 DEF IndInv
<1> QED
  BY <1>1, <1>2, <1>3, CollectInd, PublishKeyInd, PublishAllTarantoolInd, TxnAllInd,
     RetryAllInd, SMTT(30) DEF Next, Step, AllDone

\* The inductive invariant of all commands: what was read under a key is still there as
\* long as the revision is (the revision of a key only grows).
THEOREM Invariance == Spec => []IndInv
BY InitInd, NextInd, PTL DEF Spec

-----------------------------------------------------------------------------
\* Every reachable state has its type, and a command has a result exactly when it ended.
THEOREM Types == Spec => []TypeOK
<1>1. IndInv => TypeOK
  <2> SUFFICES ASSUME IndInv PROVE TypeOK
    OBVIOUS
  <2>1. \A k \in Keys : /\ config[k].rev <= revision /\ hashes[k].rev <= revision
                        /\ sigs[k].rev <= revision
    BY AbsentType, AllIsKey DEF IndInv, StoreOK, Good
  <2>2. \A c \in Clients : pc[c] = "done" <=> result[c] # "none"
    BY DEF IndInv, ControlOK
  <2> QED
    BY <2>1, <2>2 DEF IndInv, StoreOK, Shapes, Area, TypeOK
<1> QED
  BY <1>1, Invariance, PTL

\* The hash and the signature of every key match its value, for any number of concurrent
\* commands of the publishers with integrity checks, on both storages.
THEOREM SignaturesMatch == Spec => []SignedStoreVerifies
<1>1. IndInv => SignedStoreVerifies
  BY DEF IndInv, StoreOK, SignedStoreVerifies, Verifies, There
<1> QED
  BY <1>1, Invariance, PTL

\* On etcd a publisher that returns nil has put its document into the storage.
THEOREM EtcdReports == Spec => []EtcdOkMeansPublished
<1>1. IndInv => EtcdOkMeansPublished
  BY DEF IndInv, ControlOK, OkMeansPublished, EtcdOkMeansPublished
<1> QED
  BY <1>1, Invariance, PTL

\* Only the client itself writes its document, in one of three actions.
LEMMA Writer ==
    ASSUME IndInv, Next, NEW c \in Clients, Writes(c)
    PROVE  PublishKey(c) \/ PublishAllTarantool(c) \/ TxnAll(c)
<1>1. pc'[c] # pc[c] /\ revision' # revision
  BY DEF Writes
<1>2. ~AllDone
  BY <1>1 DEF AllDone, vars
<1>3. PICK d \in Clients : Step(d) \/ Fail(d)
  BY <1>2 DEF Next
<1>4. \/ PublishKey(d) /\ pc' = [pc EXCEPT ![d] = pc'[d]]
      \/ PublishAllTarantool(d) /\ pc' = [pc EXCEPT ![d] = pc'[d]]
      \/ TxnAll(d) /\ pc' = [pc EXCEPT ![d] = pc'[d]]
  <2>1. ASSUME NEW r, End(d, r) PROVE pc' = [pc EXCEPT ![d] = pc'[d]]
    BY <2>1 DEF End, IndInv, Shapes
  <2>2. PublishKey(d) \/ PublishAllTarantool(d) \/ TxnAll(d)
    BY <1>1, <1>3, SMTT(30) DEF Step, Fail, Collect, GetAll, RetryAll, storage
  <2>3. \E r : End(d, r)
    BY <2>2 DEF PublishKey, PublishAllTarantool, TxnAll, Write
  <2> QED
    BY <2>1, <2>2, <2>3
<1>5. d = c
  BY <1>1, <1>4 DEF IndInv, Shapes
<1> QED
  BY <1>4, <1>5

\* Without integrity checks a patch never removes an edit that another command made to
\* its key after it was collected, on both storages.
THEOREM PatchIsSafe == Spec => PatchKeepsEdits
<1>1. ASSUME IndInv, Next, NEW c \in Clients, Writes(c), cmd[c].kind = "patch", ~Signed
      PROVE  config[cmd[c].key].val \subseteq config'[cmd[c].key].val
  <2> DEFINE k == cmd[c].key
  <2>1. PublishKey(c)
    <3>1. cmd[c].kind \notin ToAll
      BY <1>1, SMTT(30) DEF ToAll
    <3>2. ~PublishAllTarantool(c) /\ ~TxnAll(c)
      BY <1>1, <3>1, ZenonT(60) DEF PublishAllTarantool, TxnAll, IndInv, ControlOK
    <3> QED
      BY <1>1, <3>2, Writer
  <2>2. k \in Keys /\ Revision(c) = data[c][k].rev /\ data[c][k].rev # 0
    BY <1>1, <2>1, ZenonT(60) DEF PublishKey, Revision, IndInv, Shapes, ControlOK
  <2>3. Revision(c) = config[k].rev /\ Write(c, k, Nothing)
    BY <1>1, <2>1, <2>2, ZenonT(60) DEF PublishKey, Writes, storage
  <2>4. data[c][k] = config[k]
    BY <1>1, <2>2, <2>3, ZenonT(60) DEF IndInv, ReadOK, Old
  <2>5. Document(c) = data[c][k].val \cup {c}
    BY <1>1, SMTT(30) DEF Document
  <2>6. config'[k].val = Document(c)
    BY <2>2, <2>3 DEF Write
  <2> QED
    BY <2>4, <2>5, <2>6, SMTT(30)
<1>2. IndInv /\ [Next]_vars =>
        [\A c \in Clients : Writes(c) /\ cmd[c].kind = "patch" /\ ~Signed =>
            config[cmd[c].key].val \subseteq config'[cmd[c].key].val]_vars
  BY <1>1
<1> QED
  BY <1>2, Invariance, PTL DEF Spec, PatchKeepsEdits, KeepsEdits

\* On etcd publishing the whole configuration deletes no version of another key that the
\* publisher has not seen.
THEOREM AllIsSafe == Spec => AllSparesUnseen
<1>1. ASSUME IndInv, Next, NEW c \in Clients, Writes(c), cmd[c].kind \in ToAll,
             backend = "etcd", NEW k \in There(config) \ There(config')
      PROVE  config[k] = looked[c].config[k]
  <2>1. TxnAll(c)
    BY <1>1, Writer DEF PublishKey, PublishAllTarantool
  <2>2. k \in Keys /\ config[k] # Absent /\ config'[k] = Absent
    BY <1>1 DEF There
  <2>3. k \in ToDelete(c).config
    <3>1. config' = [q \in Keys |-> IF q = All THEN [rev |-> revision + 1, val |-> Document(c)]
                                    ELSE IF q \in ToDelete(c).config THEN Absent
                                    ELSE config[q]]
      BY <2>1 DEF TxnAll, Write
    <3>2. [rev |-> revision + 1, val |-> Document(c)] # Absent
      <4>1. revision + 1 # 0
        BY <1>1 DEF IndInv, StoreOK
      <4> QED
        BY <4>1 DEF Absent
    <3> QED
      BY <2>2, <3>1, <3>2, SMTT(30)
  <2>4. Storage["config"][k].rev = looked[c]["config"][k].rev
    <3>1. ToDelete(c)["config"] = ToDelete(c).config
      OBVIOUS
    <3> QED
      BY <2>1, <2>3, <3>1 DEF TxnAll, Unchanged
  <2>5. config[k].rev = looked[c].config[k].rev
    BY <2>4 DEF Storage
  <2> QED
    BY <1>1, <2>2, <2>5, SMTT(30) DEF IndInv, ReadOK, Old
<1>2. IndInv /\ [Next]_vars =>
        [\A c \in Clients : Writes(c) /\ cmd[c].kind \in ToAll /\ backend = "etcd" =>
            \A k \in There(config) \ There(config') : config[k] = looked[c].config[k]]_vars
  BY <1>1
<1> QED
  BY <1>2, Invariance, PTL DEF Spec, AllSparesUnseen, SparesUnseen

\* On a Tarantool config storage publishing the whole configuration leaves no other key.
THEOREM AllIsOnly == Spec => AllIsAlone
<1>1. ASSUME IndInv, Next, NEW c \in Clients, Writes(c), cmd[c].kind \in ToAll,
             backend = "tarantool"
      PROVE  There(config') = {All}
  <2> DEFINE entry == [rev |-> revision + 1, val |-> Document(c)]
  <2>1. PublishAllTarantool(c)
    BY <1>1, Writer DEF PublishKey, TxnAll, IndInv, ControlOK
  <2>2. config' = [q \in Keys |-> IF q = All THEN entry ELSE Absent]
    <3>1. config' = [q \in Keys |-> IF q = All THEN entry
                                    ELSE IF q \in Keys THEN Absent ELSE config[q]]
      BY <2>1 DEF PublishAllTarantool, Write
    <3> QED
      BY <3>1, SMTT(30)
  <2>3. entry # Absent
    <3>1. revision + 1 # 0 /\ entry.rev = revision + 1
      BY <1>1 DEF IndInv, StoreOK
    <3> QED
      BY <3>1, AbsentType
  <2> HIDE DEF entry
  <2> QED
    BY <2>2, <2>3, AllIsKey, SMTT(30) DEF There
<1>2. IndInv /\ [Next]_vars =>
        [\A c \in Clients : Writes(c) /\ cmd[c].kind \in ToAll /\ backend = "tarantool" =>
            There(config') = {All}]_vars
  BY <1>1
<1> QED
  BY <1>2, Invariance, PTL DEF Spec, AllIsAlone, LeavesAlone

-----------------------------------------------------------------------------
(* Config.Merge.                                                           *)

\* The steps are first-order unless they cite SMT.
USE Zenon

\* The leaves that are set by the visits of V, what stays of the receiver, and the
\* configuration between the visits: the receiver overlaid on the visited leaves.
Taken(V) == {p \in V : ~Decides(high, p)}
Kept(V) == {q \in DOMAIN high : \A p \in Taken(V) : ~IsPrefix(q, p)}
Partial(V) == [p \in Kept(V) \cup Taken(V) |-> IF p \in Taken(V) THEN low[p] ELSE high[p]]

Visited == ForEach(low) \ todo

\* The inductive invariant: after every visit the configuration is the overlay of the
\* leaves visited so far, whatever their order was.
MergeInv ==
    /\ high \in Configs(High) /\ low \in Configs(Low)
    /\ todo \subseteq ForEach(low)
    /\ merging = Partial(Visited)

PathSeq == Seq(UNION {{p[n] : n \in DOMAIN p} : p \in Paths})

-----------------------------------------------------------------------------
(* Paths.                                                                  *)

\* One path lies above another when it has the same keys, as far as it goes.
LEMMA PrefixKeys ==
    ASSUME NEW S, NEW p \in Seq(S), NEW q \in Seq(S)
    PROVE  IsPrefix(p, q) <=> (Len(p) <= Len(q) /\ \A n \in 1 .. Len(p) : p[n] = q[n])
<1>1. CASE Len(p) <= Len(q)
    <2>1. SubSeq(p, 1, Len(p)) = [n \in 1 .. Len(p) |-> p[n]]
        BY SMT
    <2>2. SubSeq(q, 1, Len(p)) = [n \in 1 .. Len(p) |-> q[n]]
        BY <1>1, SMT
    <2>3. QED
        BY <1>1, <2>1, <2>2 DEF IsPrefix
<1>2. CASE ~(Len(p) <= Len(q))
    BY <1>2 DEF IsPrefix
<1>3. QED
    BY <1>1, <1>2

\* The order of the paths in a tree of maps.
LEMMA PrefixOrder ==
    ASSUME NEW S
    PROVE  /\ \A p \in Seq(S) : IsPrefix(p, p) /\ IsPrefix(<< >>, p)
           /\ \A p, q \in Seq(S) : IsPrefix(p, q) /\ IsPrefix(q, p) => p = q
           /\ \A p, q, r \in Seq(S) : IsPrefix(p, q) /\ IsPrefix(q, r) => IsPrefix(p, r)
<1>1. ASSUME NEW p \in Seq(S)
      PROVE  IsPrefix(p, p) /\ IsPrefix(<< >>, p)
    <2>1. << >> \in Seq(S) /\ Len(<< >>) = 0
        BY SMT
    <2>2. IsPrefix(p, p)
        BY PrefixKeys, SMT
    <2>3. IsPrefix(<< >>, p)
        <3>1. Len(<< >>) <= Len(p) /\ \A n \in 1 .. Len(<< >>) : << >>[n] = p[n]
            BY <2>1, SMT
        <3>2. << >> \in Seq(S)
            BY <2>1
        <3> HIDE <2>1
        <3> DEFINE e == << >>
        <3> HIDE DEF e
        <3>3. e \in Seq(S) /\ Len(e) <= Len(p) /\ \A n \in 1 .. Len(e) : e[n] = p[n]
            BY <3>1, <3>2 DEF e
        <3>4. IsPrefix(e, p)
            BY <3>3, PrefixKeys
        <3>5. QED
            BY <3>4 DEF e
    <2>4. QED
        BY <2>2, <2>3
<1>2. ASSUME NEW p \in Seq(S), NEW q \in Seq(S), IsPrefix(p, q), IsPrefix(q, p)
      PROVE  p = q
    <2>1. Len(p) = Len(q) /\ \A n \in 1 .. Len(p) : p[n] = q[n]
        BY <1>2, PrefixKeys, SMT
    <2>2. QED
        BY <2>1, SeqEqual
<1>3. ASSUME NEW p \in Seq(S), NEW q \in Seq(S), NEW r \in Seq(S),
             IsPrefix(p, q), IsPrefix(q, r)
      PROVE  IsPrefix(p, r)
    <2>1. Len(p) <= Len(q) /\ \A n \in 1 .. Len(p) : p[n] = q[n]
        BY <1>3, PrefixKeys, SMT
    <2>2. Len(q) <= Len(r) /\ \A n \in 1 .. Len(q) : q[n] = r[n]
        BY <1>3, PrefixKeys, SMT
    <2>3. Len(p) <= Len(r) /\ \A n \in 1 .. Len(p) : p[n] = r[n]
        BY <2>1, <2>2, SMT
    <2>4. QED
        BY <2>3, PrefixKeys
<1>4. QED
    BY <1>1, <1>2, <1>3

\* The leaves that are neither above nor below the path; what Set leaves with a value.
Apart(c, p) == {q \in DOMAIN c : ~IsPrefix(q, p) /\ ~IsPrefix(p, q)}
WithLeaf(c, p, v) == [q \in Apart(c, p) \cup {p} |-> IF q = p THEN v ELSE c[q]]

\* Set with a plain value: the path has the value, the leaves that are neither above nor
\* below it stay as they are.
LEMMA SetLeaf ==
    ASSUME NEW S, NEW c, NEW p \in Seq(S), NEW v
    PROVE  Set(c, p, v) = IF ~Settable(c, p) THEN c ELSE WithLeaf(c, p, v)
<1> DEFINE kept == {q \in DOMAIN c : ~IsPrefix(q, p) /\ ~IsPrefix(p, q)}
<1>1. Leaf(v) # NewConfig
    <2>1. DOMAIN Leaf(v) = {<< >>} /\ DOMAIN NewConfig = {}
        BY DEF Leaf, NewConfig
    <2>2. QED
        BY <2>1
<1>2. {p \o r : r \in DOMAIN Leaf(v)} = {p}
    <2>1. p \o << >> = p
        BY ConcatEmptySeq
    <2>2. QED
        BY <2>1 DEF Leaf
<1>3. Leaf(v)[SubSeq(p, Len(p) + 1, Len(p))] = v
    <2>1. SubSeq(p, Len(p) + 1, Len(p)) = << >>
        BY SMT
    <2>2. QED
        BY <2>1 DEF Leaf
<1>4. SetConfig(c, p, Leaf(v)) =
        IF ~Settable(c, p) THEN c
        ELSE [q \in kept \cup {p} |-> IF q \in {p} THEN Leaf(v)[SubSeq(q, Len(p) + 1, Len(q))] ELSE c[q]]
    BY <1>1, <1>2 DEF SetConfig
<1>5. [q \in kept \cup {p} |-> IF q \in {p} THEN Leaf(v)[SubSeq(q, Len(p) + 1, Len(q))] ELSE c[q]]
        = [q \in kept \cup {p} |-> IF q = p THEN v ELSE c[q]]
    BY <1>3
<1>6. QED
    BY <1>4, <1>5 DEF Set, WithLeaf, Apart
-----------------------------------------------------------------------------
(* One visit.                                                              *)

\* What the visits work on: leaves with their paths, in the order of PrefixOrder.
LEMMA Leaves ==
    ASSUME MergeInv
    PROVE  /\ DOMAIN high \subseteq PathSeq /\ DOMAIN low \subseteq PathSeq
           /\ ForEach(low) \subseteq DOMAIN low
           /\ IsConfig(high) /\ IsConfig(low)
           /\ << >> \in DOMAIN high => high[<< >>] # Nil
<1>1. DOMAIN high \in SUBSET Paths /\ DOMAIN low \in SUBSET Paths
    BY DEF MergeInv, Configs
<1>2. QED
    BY <1>1, MergeAssumption DEF MergeInv, Configs, ForEach, PathSeq

\* Between the visits no leaf lies below another one.
LEMMA PartialIsConfig ==
    ASSUME MergeInv, NEW V \in SUBSET ForEach(low)
    PROVE  IsConfig(Partial(V))
<1>1. SUFFICES ASSUME NEW p \in Kept(V) \cup Taken(V), NEW q \in Kept(V) \cup Taken(V),
                      IsPrefix(p, q)
               PROVE  p = q
    BY DEF IsConfig, Partial
<1>2. Kept(V) \subseteq DOMAIN high /\ Taken(V) \subseteq DOMAIN low
    BY Leaves DEF Kept, Taken
<1>3. CASE p \in Kept(V) /\ q \in Kept(V)
    BY <1>1, <1>2, <1>3, Leaves DEF IsConfig
<1>4. CASE p \in Taken(V) /\ q \in Taken(V)
    BY <1>1, <1>2, <1>4, Leaves DEF IsConfig
<1>5. CASE p \in Kept(V) /\ q \in Taken(V)
    BY <1>1, <1>5 DEF Kept
<1>6. CASE p \in Taken(V) /\ q \in Kept(V)
    <2>1. ~IsMap(high, p)
        BY <1>6 DEF Taken, Decides
    <2>2. QED
        BY <1>1, <1>2, <1>6, <2>1 DEF IsMap, IsStrictPrefix
<1>7. QED
    BY <1>3, <1>4, <1>5, <1>6

\* A leaf that the receiver decides is not set: Get finds something, or Set fails on a
\* plain value above it.
LEMMA DecidedVisit ==
    ASSUME MergeInv, NEW p \in todo, Decides(high, p)
    PROVE  MergeLeaf(merging, low, p) = merging
<1> DEFINE V == Visited
<1> USE DEF Visited
<1>1. /\ p \in ForEach(low) /\ p \in DOMAIN low /\ p \in PathSeq /\ p \notin V
      /\ V \subseteq ForEach(low) /\ V \subseteq DOMAIN low
    BY Leaves DEF MergeInv
<1>2. /\ DOMAIN merging = Kept(V) \cup Taken(V)
      /\ \A q \in Kept(V) \ Taken(V) : merging[q] = high[q]
      /\ IsConfig(merging)
    BY <1>1, PartialIsConfig DEF MergeInv, Partial
<1>3. /\ Kept(V) \subseteq DOMAIN high /\ Taken(V) \subseteq V
      /\ Kept(V) \subseteq PathSeq /\ Taken(V) \subseteq PathSeq
    BY <1>1, Leaves DEF Kept, Taken
<1>4. \A q \in Kept(V) : q \notin Taken(V)
    BY <1>3, PrefixOrder DEF Kept, PathSeq
<1>5. ASSUME Present(merging, p), p \in DOMAIN merging => merging[p] # Nil
      PROVE  GetStatus(merging, p) = "ok"
    <2>1. DOMAIN merging # {}
        BY <1>5 DEF Present
    <2>2. PICK x \in DOMAIN merging : IsPrefix(p, x)
        BY <1>5 DEF Present
    <2>3. ASSUME NEW q \in DOMAIN merging, IsStrictPrefix(q, p)
          PROVE  FALSE
        <3>1. q \in PathSeq /\ x \in PathSeq /\ IsPrefix(q, p) /\ q # p
            BY <1>2, <1>3, <2>3 DEF IsStrictPrefix
        <3>2. IsPrefix(q, x)
            BY <1>1, <2>2, <3>1, PrefixOrder DEF PathSeq
        <3>3. q = x
            BY <1>2, <3>2 DEF IsConfig
        <3>4. QED
            BY <1>1, <2>2, <3>1, <3>3, PrefixOrder DEF PathSeq
    <2>4. ~NotMapBelow(merging, p)
        BY <2>1, <2>3 DEF NotMapBelow
    <2>5. QED
        BY <1>5, <2>1, <2>4 DEF GetStatus
<1>6. CASE \E q \in ForEach(high) : IsPrefix(q, p) /\ high[q] # EmptyMap
    <2>1. PICK q \in ForEach(high) : IsPrefix(q, p) /\ high[q] # EmptyMap
        BY <1>6
    <2>2. q \in DOMAIN high /\ high[q] # Nil
        BY DEF ForEach
    <2>3. q \in Kept(V)
        BY <2>1, <2>2 DEF Kept, Taken, Decides
    <2>4. q \in DOMAIN merging /\ merging[q] = high[q]
        BY <1>2, <1>4, <2>3
    <2>5. CASE q = p
        <3>1. Present(merging, p)
            BY <1>1, <2>4, <2>5, PrefixOrder DEF Present, PathSeq
        <3>2. QED
            BY <1>5, <2>2, <2>4, <2>5, <3>1 DEF MergeLeaf
    <2>6. CASE q # p
        <3>1. ~Settable(merging, p)
            BY <2>1, <2>2, <2>4, <2>6 DEF Settable, IsStrictPrefix
        <3>2. QED
            BY <3>1 DEF MergeLeaf, Set, SetConfig
    <2>7. QED
        BY <2>5, <2>6
<1>7. CASE \E q \in DOMAIN high : IsStrictPrefix(p, q)
    <2>1. PICK q \in DOMAIN high : IsPrefix(p, q) /\ p # q
        BY <1>7 DEF IsStrictPrefix
    <2>2. ASSUME NEW t \in Taken(V), IsPrefix(q, t)
          PROVE  FALSE
        <3>1. q \in PathSeq /\ t \in PathSeq /\ t \in DOMAIN low
            BY <1>1, <1>3, Leaves
        <3>2. IsPrefix(p, t)
            BY <1>1, <2>1, <2>2, <3>1, PrefixOrder DEF PathSeq
        <3>3. p = t
            BY <1>1, <3>1, <3>2, Leaves DEF IsConfig
        <3>4. QED
            BY <1>1, <1>3, <3>3
    <2>3. q \in DOMAIN merging
        BY <1>2, <2>2 DEF Kept
    <2>4. p \notin DOMAIN merging
        BY <1>2, <2>1, <2>3 DEF IsConfig
    <2>5. QED
        BY <1>5, <2>1, <2>3, <2>4 DEF Present, MergeLeaf
<1>8. CASE p \in DOMAIN high /\ high[p] = EmptyMap
    <2>1. ASSUME NEW t \in Taken(V), IsPrefix(p, t)
          PROVE  FALSE
        BY <1>1, <1>3, <2>1, Leaves DEF IsConfig
    <2>2. p \in Kept(V)
        BY <1>8, <2>1 DEF Kept
    <2>3. p \in DOMAIN merging /\ merging[p] = EmptyMap
        BY <1>2, <1>4, <1>8, <2>2
    <2>4. Present(merging, p)
        BY <1>1, <2>3, PrefixOrder DEF Present, PathSeq
    <2>5. QED
        BY <1>5, <2>3, <2>4, ConfigAssumption DEF MergeLeaf
<1>9. QED
    BY <1>6, <1>7, <1>8 DEF Decides, IsMap

\* A leaf that the receiver does not decide is set, and nothing but the nulls and empty
\* maps above it gives way.
LEMMA TakenVisit ==
    ASSUME MergeInv, NEW p \in todo, ~Decides(high, p)
    PROVE  MergeLeaf(merging, low, p) = Partial(Visited \cup {p})
<1> DEFINE V == Visited
           W == Visited \cup {p}
<1> USE DEF Visited
<1>1. /\ p \in ForEach(low) /\ p \in DOMAIN low /\ p \in PathSeq /\ p \notin V
      /\ V \subseteq ForEach(low) /\ V \subseteq DOMAIN low
    BY Leaves DEF MergeInv
<1>2. /\ DOMAIN merging = Kept(V) \cup Taken(V)
      /\ \A q \in Taken(V) : merging[q] = low[q]
      /\ \A q \in Kept(V) \ Taken(V) : merging[q] = high[q]
    BY DEF MergeInv, Partial
<1>3. /\ Kept(V) \subseteq DOMAIN high /\ Taken(V) \subseteq V
      /\ Kept(V) \subseteq PathSeq /\ Taken(V) \subseteq PathSeq
    BY <1>1, Leaves DEF Kept, Taken
<1>4. \A q \in Kept(V) : q \notin Taken(V)
    BY <1>3, PrefixOrder DEF Kept, PathSeq
<1>5. \A q \in Taken(V) : ~IsPrefix(q, p) /\ ~IsPrefix(p, q)
    BY <1>1, <1>3, Leaves DEF IsConfig
<1>6. \A q \in DOMAIN high : IsPrefix(q, p) => high[q] \in {Nil, EmptyMap}
    BY DEF Decides, ForEach
<1>7. \A q \in DOMAIN high : IsPrefix(p, q) => q = p /\ high[p] = Nil
    <2>1. SUFFICES ASSUME NEW q \in DOMAIN high, IsPrefix(p, q)
                   PROVE  q = p /\ high[p] = Nil
        OBVIOUS
    <2>2. q = p
        BY <2>1 DEF Decides, IsMap, IsStrictPrefix
    <2>3. high[p] # EmptyMap
        BY <2>1, <2>2 DEF Decides, IsMap
    <2>4. QED
        BY <1>6, <2>1, <2>2, <2>3
<1>8. Settable(merging, p)
    BY <1>2, <1>3, <1>4, <1>5, <1>6 DEF Settable, IsStrictPrefix
<1>9. GetStatus(merging, p) # "ok"
    <2>1. ASSUME NEW x \in DOMAIN merging, IsPrefix(p, x)
          PROVE  x = p /\ p \in DOMAIN high /\ merging[p] = Nil /\ high[p] = Nil
        BY <1>2, <1>3, <1>4, <1>5, <1>7, <2>1
    <2>2. CASE p = << >>
        <3>1. DOMAIN merging = {}
            <4>1. ASSUME NEW x \in DOMAIN merging
                  PROVE  FALSE
                <5>1. x \in PathSeq
                    BY <1>2, <1>3
                <5>2. IsPrefix(p, x)
                    BY <2>2, <5>1, PrefixOrder DEF PathSeq
                <5>3. QED
                    BY <2>1, <2>2, <5>2, Leaves
            <4>2. QED
                BY <4>1
        <3>2. QED
            BY <2>2, <3>1 DEF GetStatus
    <2>3. CASE p # << >>
        BY <2>1, <2>3 DEF GetStatus, Present
    <2>4. QED
        BY <2>2, <2>3
<1>10. MergeLeaf(merging, low, p) = WithLeaf(merging, p, low[p])
    BY <1>1, <1>8, <1>9, SetLeaf DEF MergeLeaf, PathSeq
<1>11. Taken(W) = Taken(V) \cup {p}
    BY DEF Taken
<1>12. Kept(W) = {q \in Kept(V) : ~IsPrefix(q, p)}
    BY <1>11 DEF Kept
<1>13. IsPrefix(p, p)
    BY <1>1, PrefixOrder DEF PathSeq
<1>14. Apart(merging, p) = Kept(W) \cup Taken(V)
    BY <1>2, <1>3, <1>5, <1>7, <1>12, <1>13 DEF Apart
<1>15. Apart(merging, p) \cup {p} = Kept(W) \cup Taken(W)
    BY <1>11, <1>14
<1>16. ASSUME NEW q \in Kept(W) \cup Taken(W)
       PROVE  (IF q = p THEN low[p] ELSE merging[q]) = (IF q \in Taken(W) THEN low[q] ELSE high[q])
    BY <1>2, <1>4, <1>11, <1>12, <1>16
<1>17. QED
    BY <1>10, <1>15, <1>16 DEF Partial, WithLeaf

\* Every visit leaves the overlay of the leaves visited so far.
LEMMA VisitStep ==
    ASSUME MergeInv, NEW p \in todo, Visit(p)
    PROVE  MergeInv'
<1>1. high' = high /\ low' = low /\ todo' = todo \ {p} /\ todo' \subseteq ForEach(low)
    BY DEF Visit, MergeInv
<1>2. Visited' = Visited \cup {p}
    BY <1>1 DEF Visited, MergeInv
<1>3. MergeLeaf(merging, low, p) = Partial(Visited \cup {p})
    <2>1. CASE Decides(high, p)
        <3>1. Taken(Visited \cup {p}) = Taken(Visited)
            BY <2>1 DEF Taken
        <3>2. Partial(Visited \cup {p}) = Partial(Visited)
            BY <3>1 DEF Partial, Kept
        <3>3. QED
            BY <2>1, <3>2, DecidedVisit DEF MergeInv
    <2>2. CASE ~Decides(high, p)
        BY <2>2, TakenVisit
    <2>3. QED
        BY <2>1, <2>2
<1>4. Partial(Visited)' = Partial(Visited \cup {p})
    BY <1>1, <1>2 DEF Partial, Kept, Taken
<1>5. QED
    BY <1>1, <1>3, <1>4 DEF MergeInv, Visit

\* Before the first visit the receiver is as it was.
LEMMA MergeStart == MergeInit => MergeInv
<1>1. SUFFICES ASSUME MergeInit PROVE MergeInv
    OBVIOUS
<1>2. Visited = {}
    BY <1>1 DEF MergeInit, Visited
<1>3. Taken(Visited) = {} /\ Kept(Visited) = DOMAIN high
    BY <1>2 DEF Taken, Kept
<1>4. high = [p \in DOMAIN high |-> high[p]]
    BY <1>1 DEF MergeInit, Configs
<1>5. Partial(Visited) = high
    BY <1>3, <1>4 DEF Partial
<1>6. QED
    BY <1>1, <1>5 DEF MergeInit, MergeInv

\* The inductive invariant holds in any order of the visits.
THEOREM MergeInvariance == MergeSpec => []MergeInv
<1>1. MergeInv /\ [MergeNext]_mergeVars => MergeInv'
    <2>1. ASSUME MergeInv, MergeNext
          PROVE  MergeInv'
        BY <2>1, VisitStep DEF MergeNext
    <2>2. ASSUME MergeInv, UNCHANGED mergeVars
          PROVE  MergeInv'
        <3>1. high' = high /\ low' = low /\ merging' = merging /\ todo' = todo
            BY <2>2 DEF mergeVars
        <3>2. Visited' = Visited
            BY <3>1 DEF Visited
        <3>3. Partial(Visited)' = Partial(Visited)
            BY <3>1, <3>2 DEF Partial, Kept, Taken
        <3>4. QED
            BY <2>2, <3>1, <3>3 DEF MergeInv
    <2>3. QED
        BY <2>1, <2>2
<1>2. QED
    BY <1>1, MergeStart, PTL DEF MergeSpec

\* Config.Merge gives the receiver overlaid on the argument, for any two configurations
\* and in whatever order Go walks the maps of the argument; and no leaf ever comes to lie
\* below another one on the way.
THEOREM MergeCorrect == MergeSpec => []MergeIsOverlay
<1>1. MergeInv => MergeIsOverlay
    <2>1. SUFFICES ASSUME MergeInv PROVE MergeIsOverlay
        OBVIOUS
    <2>2. IsConfig(merging)
        BY <2>1, PartialIsConfig DEF MergeInv, Visited
    <2>3. ASSUME todo = {}
          PROVE  merging = Overlay(high, low)
        <3>1. Visited = ForEach(low)
            BY <2>3 DEF Visited
        <3>2. Partial(ForEach(low)) = Overlay(high, low)
            BY DEF Partial, Kept, Taken, Overlay
        <3>3. QED
            BY <2>1, <3>1, <3>2 DEF MergeInv
    <2>4. QED
        BY <2>2, <2>3 DEF MergeIsOverlay
<1>2. QED
    BY <1>1, MergeInvariance, PTL
=============================================================================
