---------------------------- MODULE ConfigStorage ---------------------------
(***************************************************************************)
(* Several tt commands read and write one cluster configuration in etcd or *)
(* in a Tarantool config storage (lib/cluster/etcd.go and tarantool.go,     *)
(* called from cli/cluster/cmd).  A storage operation is atomic; a command  *)
(* is a few of them, and other commands run in between.                    *)
(*                                                                         *)
(* A document is the set of the edits it contains.  An edit is named after  *)
(* the client that made it; a command that publishes a document of its own  *)
(* publishes {c}, a command that changes a collected one adds c to it.      *)
(* With integrity checks every key has a hash and a signature next to it.   *)
(***************************************************************************)
EXTENDS Naturals, FiniteSets

CONSTANTS
    Clients,    \* the tt processes, one command each
    Named,      \* the key names that commands give
    All         \* the key a configuration without a key name goes to

VARIABLES
    backend,                \* "etcd" or "tarantool"
    integrity,              \* "on": collectors and publishers with integrity checks
    config, hashes, sigs,   \* the storage: [Keys -> Entry]
    revision,               \* the revision of the storage
    cmd,                    \* the command of a client: [kind, key]
    pc,                     \* where a client is
    data,                   \* what a client has collected: [Keys -> Entry]
    looked,                 \* the storage as the publisher last got it
    result,                 \* how a command ended
    published               \* the clients whose document ever was in the storage

storage == <<backend, integrity, config, hashes, sigs, revision, published>>
vars == <<backend, integrity, config, hashes, sigs, revision, cmd, pc, data, looked, result,
          published>>

\* The keys under the configuration prefix.
Keys == {All} \cup Named

Signed == integrity = "on"

\* A key that is not there has revision 0.
Entry == [rev : Nat, val : SUBSET Clients]
Absent == [rev |-> 0, val |-> {}]
There(area) == {k \in Keys : area[k] # Absent}

\* all: publish; key: publish ?key=; instance: publish ?name=; instkey: publish
\* ?key=&name=; patch: replicaset promote, demote, expel, roles add.
Kinds == {"all", "key", "instance", "instkey", "patch"}
Collecting == {"instance", "instkey", "patch"}
ToAll == {"all", "instance"}

Init ==
    /\ backend \in {"etcd", "tarantool"} /\ integrity \in {"on", "off"}
    /\ config \in [Keys -> {Absent, [rev |-> 1, val |-> {}]}]
    /\ hashes = IF Signed THEN config ELSE [k \in Keys |-> Absent]
    /\ sigs = hashes
    /\ revision = 1
    /\ cmd \in [Clients -> {m \in [kind : Kinds, key : Keys] : m.kind \in ToAll => m.key = All}]
    /\ pc = [c \in Clients |-> IF cmd[c].kind \in Collecting THEN "collect" ELSE "publish"]
    /\ data = [c \in Clients |-> [k \in Keys |-> Absent]]
    /\ looked = [c \in Clients |-> [config |-> data[c], hashes |-> data[c], sigs |-> data[c]]]
    /\ result = [c \in Clients |-> "none"]
    /\ published = {}

End(c, r) == pc' = [pc EXCEPT ![c] = "done"] /\ result' = [result EXCEPT ![c] = r]
Goto(c, label) == pc' = [pc EXCEPT ![c] = label] /\ UNCHANGED result

-----------------------------------------------------------------------------
\* Collect.

\* checkFunc: the hash and the signature are those of the value.
Verifies(k) == hashes[k].val = config[k].val /\ sigs[k].val = config[k].val
               /\ hashes[k] # Absent /\ sigs[k] # Absent

Wanted(c) == IF cmd[c].kind = "instkey" THEN {cmd[c].key} ELSE Keys

\* The collectors fail when there is nothing, except the one of a whole prefix with
\* integrity checks.  Those with integrity checks do not fill the revision.
Collected(c, k) ==
    IF k \notin Wanted(c) \/ config[k] = Absent THEN Absent
    ELSE [rev |-> IF Signed THEN 0 ELSE config[k].rev, val |-> config[k].val]

CollectFails(c) ==
    \/ Wanted(c) \cap There(config) = {} /\ ~(Signed /\ cmd[c].kind # "instkey")
    \/ Signed /\ \E k \in Wanted(c) \cap There(config) : ~Verifies(k)
    \/ cmd[c].kind = "patch" /\ config[cmd[c].key] = Absent

Collect(c) ==
    /\ pc[c] = "collect"
    /\ IF CollectFails(c) THEN End(c, "error") /\ UNCHANGED data
       ELSE /\ data' = [data EXCEPT ![c] = [k \in Keys |-> Collected(c, k)]]
            /\ Goto(c, "publish")
    /\ UNCHANGED <<storage, cmd, looked>>

-----------------------------------------------------------------------------
\* Publish.

\* The document a command publishes.
Document(c) ==
    CASE cmd[c].kind \in {"all", "key"} -> {c}
      [] cmd[c].kind = "instance" -> (UNION {data[c][k].val : k \in Keys}) \cup {c}
      [] OTHER -> data[c][cmd[c].key].val \cup {c}

\* Faulty variant: the revision of the collected data is not used.
RevisionNever(c) == 0

\* Only a patch names a revision.
Revision(c) == IF cmd[c].kind = "patch" THEN data[c][cmd[c].key].rev ELSE 0

\* A transaction that deletes some keys and puts the document of c under k.  The answer
\* may be lost, or come after the timeout.
Write(c, k, deleted) ==
    LET entry == [rev |-> revision + 1, val |-> Document(c)]
        after(area, gone) == [q \in Keys |-> IF q = k THEN entry
                                             ELSE IF q \in gone THEN Absent ELSE area[q]]
    IN  /\ revision' = revision + 1
        /\ config' = after(config, deleted.config)
        /\ IF Signed THEN /\ hashes' = after(hashes, deleted.hashes)
                          /\ sigs' = after(sigs, deleted.sigs)
           ELSE UNCHANGED <<hashes, sigs>>
        /\ published' = published \cup {c}
        /\ \E r \in {"ok", "error"} : End(c, r)
        /\ UNCHANGED <<backend, integrity>>

Nothing == [config |-> {}, hashes |-> {}, sigs |-> {}]

\* EtcdKeyDataPublisher and TarantoolKeyDataPublisher.  etcd reports a wrong revision;
\* the answer of the Tarantool transaction is not looked at.
PublishKey(c) ==
    /\ pc[c] = "publish" /\ cmd[c].kind \notin ToAll
    /\ IF Revision(c) \in {0, config[cmd[c].key].rev}
       THEN Write(c, cmd[c].key, Nothing)
       ELSE /\ IF backend = "etcd" THEN End(c, "error")
               ELSE \E r \in {"ok", "error"} : End(c, r)
            /\ UNCHANGED storage
    /\ UNCHANGED <<cmd, data, looked>>

\* TarantoolAllDataPublisher: one transaction deletes the prefix and puts the document.
PublishAllTarantool(c) ==
    /\ pc[c] = "publish" /\ cmd[c].kind \in ToAll /\ backend = "tarantool"
    /\ Write(c, All, [config |-> Keys, hashes |-> Keys, sigs |-> Keys])
    /\ UNCHANGED <<cmd, data, looked>>

Storage == [config |-> config, hashes |-> hashes, sigs |-> sigs]

\* EtcdAllDataPublisher, IntegrityEtcdAllDataPublisher: get all there is ...
GetAll(c) ==
    /\ pc[c] = "publish" /\ cmd[c].kind \in ToAll /\ backend = "etcd"
    /\ looked' = [looked EXCEPT ![c] = Storage]
    /\ Goto(c, "txn")
    /\ UNCHANGED <<storage, cmd, data>>

Others(area) == There(area) \ {All}

\* Faulty variant: the hashes and signatures of the deleted keys stay.
ToDeleteConfig(c) == [Nothing EXCEPT !.config = Others(looked[c].config)]

ToDelete(c) ==
    [config |-> Others(looked[c].config), hashes |-> Others(looked[c].hashes),
     sigs |-> Others(looked[c].sigs)]

\* Faulty variant: the revisions are not compared.
UnchangedAlways(c) == TRUE

\* ... and delete it in a transaction that compares the revisions of what it deletes.
Unchanged(c) ==
    \A a \in {"config", "hashes", "sigs"} : \A k \in ToDelete(c)[a] :
        Storage[a][k].rev = looked[c][a][k].rev

TxnAll(c) ==
    /\ pc[c] = "txn"
    /\ Unchanged(c)
    /\ Write(c, All, ToDelete(c))
    /\ UNCHANGED <<cmd, data, looked>>

\* Faulty variant: the transaction is tried again with the old revisions.
RetryAllStale(c) == pc[c] = "txn" /\ ~Unchanged(c) /\ UNCHANGED vars

\* Otherwise again: the publisher with integrity checks gets the storage in the same
\* transaction.
RetryAll(c) ==
    /\ pc[c] = "txn"
    /\ ~Unchanged(c)
    /\ IF Signed THEN looked' = [looked EXCEPT ![c] = Storage] /\ UNCHANGED pc
       ELSE pc' = [pc EXCEPT ![c] = "publish"] /\ UNCHANGED looked
    /\ UNCHANGED <<storage, cmd, data, result>>

\* An operation fails, or the timeout passes, before anything is written.
Fail(c) ==
    /\ pc[c] # "done"
    /\ End(c, "error")
    /\ UNCHANGED <<storage, cmd, data, looked>>

-----------------------------------------------------------------------------
Step(c) == Collect(c) \/ PublishKey(c) \/ PublishAllTarantool(c) \/ GetAll(c)
           \/ TxnAll(c) \/ RetryAll(c)

AllDone == (\A c \in Clients : pc[c] = "done") /\ UNCHANGED vars

Next == (\E c \in Clients : Step(c) \/ Fail(c)) \/ AllDone

Spec == Init /\ [][Next]_vars

\* A client that is waiting for the storage goes on.
FairSpec == Spec /\ \A c \in Clients : WF_vars(Step(c))
-----------------------------------------------------------------------------
\* Types; a command has a result exactly when it has ended, and no key is newer than the
\* storage.
TypeOK ==
    /\ backend \in {"etcd", "tarantool"} /\ integrity \in {"on", "off"}
    /\ \A area \in {config, hashes, sigs} :
          area \in [Keys -> Entry] /\ \A k \in Keys : area[k].rev <= revision
    /\ revision \in Nat
    /\ cmd \in [Clients -> [kind : Kinds, key : Keys]]
    /\ pc \in [Clients -> {"collect", "publish", "txn", "done"}]
    /\ data \in [Clients -> [Keys -> Entry]]
    /\ result \in [Clients -> {"none", "ok", "error"}]
    /\ \A c \in Clients : pc[c] = "done" <=> result[c] # "none"
    /\ published \subseteq Clients

\* Whatever commands interleave, the hash and the signature of every key are those of its
\* value, and none is left of a key that is gone: the collectors with integrity checks
\* never reject what tt itself has published (etcd.go, 537-749; tarantool.go, 334-451).
SignedStoreVerifies ==
    Signed => /\ \A k \in There(config) : Verifies(k)
              /\ There(hashes) = There(config) /\ There(sigs) = There(config)

\* Publish publishes or returns an error (datapublisher.go:14): a command that reports
\* success has put its document into the storage.
OkMeansPublished == \A c \in Clients : result[c] = "ok" => c \in published

\* The same of etcd, where the answer of the transaction is looked at (etcd.go:744).
EtcdOkMeansPublished == backend = "etcd" => OkMeansPublished

\* The client's transaction is written in this step.
Writes(c) == pc[c] # "done" /\ pc'[c] = "done" /\ revision' # revision

KeepsEdits ==
    \A c \in Clients : Writes(c) /\ cmd[c].kind = "patch" /\ ~Signed =>
       config[cmd[c].key].val \subseteq config'[cmd[c].key].val

\* A patch of a collected document is published only over that document: it never removes
\* an edit that another command has made to the key in between (etcd.go:704).  Only
\* without integrity checks: the collectors with them leave the revision at 0.
PatchKeepsEdits == [][KeepsEdits]_vars

SparesUnseen ==
    \A c \in Clients : Writes(c) /\ cmd[c].kind \in ToAll /\ backend = "etcd" =>
       \A k \in There(config) \ There(config') : config[k] = looked[c].config[k]

\* Publishing the whole configuration to etcd deletes another key only as the publisher
\* has seen it, never a newer version (etcd.go:466).
AllSparesUnseen == [][SparesUnseen]_vars

LeavesAlone ==
    \A c \in Clients : Writes(c) /\ cmd[c].kind \in ToAll /\ backend = "tarantool" =>
       There(config') = {All}

\* Publishing the whole configuration to a Tarantool config storage removes all other
\* data with the prefix (tarantool.go:345).  On etcd a key that appears between the get
\* and the transaction stays.
AllIsAlone == [][LeavesAlone]_vars

\* Every command ends, although the publishers of a whole etcd prefix try again as long as
\* other commands change it.
EveryCommandEnds == \A c \in Clients : <>(pc[c] = "done")
=============================================================================
