------------------------------ MODULE NodeProofs ----------------------------
(***************************************************************************)
(* Theorems about the parts of a node that guard something: the keyring,   *)
(* the HTTP API over it, the owner of the gateway's server, the admission  *)
(* of sessions there, its routing and tables, the coordination store, and  *)
(* the storage's data root.                                                *)
(***************************************************************************)
EXTENDS HttpApi, Gateway, GatewayRuntime, GatewayAdmission, CoordinationStore,
        FileStorage, FiniteSetTheorems, TLAPS

(***************************************************************************)
(* The keyring.                                                            *)
(***************************************************************************)

\* What a key file holds: its material's expiry, whatever its status became.
KeysOK ==
  /\ DOMAIN keyFile \subseteq KeyIds
  /\ \A k \in DOMAIN keyFile : keyFile[k].expiry = Material[k].expiry

\* What the holder of the exclusive lock has read and written so far.
OperationOK ==
  /\ operation \in [op : {"none", "install", "rotate", "revoke"},
                    at : {"free", "key", "pointer", "deprecate", "unpoint"},
                    key : KeyIds \cup {NoKey}, previous : KeyIds \cup {NoKey}]
  /\ operation.at = "key" => operation.key \in KeyIds \ DOMAIN keyFile
  /\ operation.at = "pointer" => operation.key \in DOMAIN keyFile
  /\ operation.at \in {"key", "pointer", "deprecate"} =>
       operation.previous \in DOMAIN keyFile \cup {NoKey}
  /\ operation.at = "deprecate" => operation.previous # NoKey

\* A key left behind by a completed rotation stays deprecated or becomes revoked.
SupersededOK ==
  /\ superseded \subseteq DOMAIN keyFile
  /\ \A k \in superseded : keyFile[k].status \in {"deprecated", "revoked"}

StatusOK == \A k \in DOMAIN keyFile : keyFile[k].status \in {"active", "deprecated", "revoked"}

KeyringInv ==
  /\ KeysOK /\ StatusOK /\ OperationOK /\ SupersededOK
  /\ pointer \in DOMAIN keyFile \cup {NoKey}

\* persist_key replaces one file and no other.
LEMMA StoreReplaces ==
  ASSUME NEW k, NEW status, NEW expiry, Store(k, status, expiry)
  PROVE  /\ DOMAIN keyFile' = DOMAIN keyFile \cup {k}
         /\ keyFile'[k] = [status |-> status, expiry |-> expiry]
         /\ \A j \in DOMAIN keyFile : j # k => keyFile'[j] = keyFile[j]
BY DEF Store

\* Init has no key.
LEMMA KeyringInitial == KeyringInit => KeyringInv
BY DEF KeyringInit, KeyringInv, KeysOK, StatusOK, OperationOK, SupersededOK, Idle

\* The operations that take the lock: install_initial, rotate and revoke.
LEMMA KeyringBegins ==
  ASSUME KeyringAssumption, KeyringInv, NEW k \in KeyIds,
         BeginInstall(k) \/ BeginRotate(k) \/ Recover(k)
  PROVE  KeyringInv'
BY DEF KeyringAssumption, KeyringInv, KeysOK, StatusOK, OperationOK, SupersededOK,
       BeginInstall, BeginRotate, Recover, Acceptable, Idle, MayIssue, Validates

\* revoke keeps the key's file, with another status.
LEMMA KeyringRevokes ==
  ASSUME KeyringAssumption, KeyringInv, NEW k \in KeyIds, Revoke(k)
  PROVE  KeyringInv'
<1>1. /\ DOMAIN keyFile' = DOMAIN keyFile
      /\ keyFile'[k] = [status |-> "revoked", expiry |-> keyFile[k].expiry]
      /\ \A j \in DOMAIN keyFile : j # k => keyFile'[j] = keyFile[j]
  BY StoreReplaces DEF Revoke
<1>2. KeysOK' /\ StatusOK'
  BY <1>1 DEF KeyringInv, KeysOK, StatusOK, Revoke
<1>3. SupersededOK'
  BY <1>1 DEF KeyringInv, SupersededOK, Revoke
<1>4. OperationOK' /\ pointer' = pointer
  BY <1>1 DEF KeyringInv, OperationOK, Revoke, Idle
<1> QED BY <1>1, <1>2, <1>3, <1>4 DEF KeyringInv

\* The steps of an operation under way.
LEMMA KeyringContinues ==
  ASSUME KeyringAssumption, KeyringInv,
         PersistKey \/ PersistActive \/ Deprecate \/ Unpoint \/ Interrupted \/ KeyTick
  PROVE  KeyringInv'
<1> USE DEF KeyringInv
<1>1. CASE PersistKey
  <2>1. /\ DOMAIN keyFile' = DOMAIN keyFile \cup {operation.key}
        /\ keyFile'[operation.key] = [status |-> "active", expiry |-> Material[operation.key].expiry]
        /\ \A j \in DOMAIN keyFile : j # operation.key => keyFile'[j] = keyFile[j]
    BY <1>1, StoreReplaces DEF PersistKey
  <2>2. operation.key \in KeyIds \ DOMAIN keyFile
    BY <1>1 DEF PersistKey, OperationOK
  <2>3. KeysOK' /\ StatusOK'
    BY <2>1, <2>2 DEF KeysOK, StatusOK
  <2>4. SupersededOK'
    BY <1>1, <2>1, <2>2 DEF SupersededOK, PersistKey
  <2>5. OperationOK'
    BY <1>1, <2>1, <2>2 DEF OperationOK, PersistKey, StepTo
  <2> QED BY <1>1, <2>1, <2>3, <2>4, <2>5 DEF PersistKey
<1>2. CASE PersistActive
  BY <1>2 DEF PersistActive, KeysOK, StatusOK, OperationOK, SupersededOK, StepTo, Release, Idle
<1>3. CASE Deprecate
  <2> DEFINE old == operation.previous
  <2>1. old \in DOMAIN keyFile
    BY <1>3 DEF Deprecate, OperationOK
  <2>2. /\ DOMAIN keyFile' = DOMAIN keyFile
        /\ keyFile'[old].status \in {"deprecated", "revoked"}
        /\ keyFile'[old].expiry = keyFile[old].expiry
        /\ \A j \in DOMAIN keyFile : j # old => keyFile'[j] = keyFile[j]
    <3>1. CASE keyFile[old].status = "revoked"
      BY <1>3, <3>1 DEF Deprecate
    <3>2. CASE keyFile[old].status # "revoked"
      <4>1. Store(old, "deprecated", keyFile[old].expiry)
        BY <1>3, <3>2 DEF Deprecate
      <4>2. /\ DOMAIN keyFile' = DOMAIN keyFile \cup {old}
            /\ keyFile'[old] = [status |-> "deprecated", expiry |-> keyFile[old].expiry]
            /\ \A j \in DOMAIN keyFile : j # old => keyFile'[j] = keyFile[j]
        BY <4>1 DEF Store
      <4> QED BY <2>1, <4>2
    <3> QED BY <3>1, <3>2
  <2>3. KeysOK' /\ StatusOK'
    BY <2>1, <2>2 DEF KeysOK, StatusOK
  <2>4. SupersededOK'
    BY <1>3, <2>1, <2>2 DEF SupersededOK, Deprecate
  <2>5. OperationOK'
    BY <1>3 DEF OperationOK, Deprecate, Release, Idle
  <2> QED BY <1>3, <2>2, <2>3, <2>4, <2>5 DEF Deprecate
<1>4. CASE Unpoint \/ Interrupted \/ KeyTick
  BY <1>4 DEF Unpoint, Interrupted, KeyTick, KeysOK, StatusOK, OperationOK, SupersededOK, Release, Idle
<1> QED BY <1>1, <1>2, <1>3, <1>4

\* The invariant gives what the run checks.
LEMMA KeyringSigns ==
  ASSUME KeyringAssumption, KeyringInv
  PROVE  SupersededNeverSigns
<1>1. ActiveKey # NoKey => ActiveKey \in DOMAIN keyFile /\ keyFile[ActiveKey].status = "active"
  BY DEF KeyringInv, StatusOK, ActiveKey, MayIssue, Validates
<1>2. ActiveKey \notin superseded
  BY <1>1 DEF KeyringAssumption, KeyringInv, KeysOK, SupersededOK
<1>3. ASSUME NEW k \in superseded
      PROVE  Validates(k) \/ keyFile[k].status = "revoked" \/ ~Unexpired(Material[k].expiry)
  BY DEF KeyringInv, KeysOK, SupersededOK, Validates
<1> QED BY <1>1, <1>2, <1>3 DEF KeyringInv, SupersededNeverSigns

\* For any keys and any sequence of installations, rotations, revocations, repairs
\* and interruptions, a key whose rotation was completed never signs again, and
\* what it signed stays valid until it expires or is revoked (FileSecretKeyring).
THEOREM RotationIsFinal ==
  ASSUME KeyringAssumption
  PROVE  KeyringSpec => []SupersededNeverSigns
<1>1. ASSUME KeyringInv, [KeyringNext]_keyringVars PROVE KeyringInv'
  <2>1. CASE KeyringNext
    BY <1>1, <2>1, KeyringBegins, KeyringRevokes, KeyringContinues DEF KeyringNext
  <2>2. CASE UNCHANGED keyringVars
    BY <1>1, <2>2 DEF keyringVars, KeyringInv, KeysOK, StatusOK, OperationOK, SupersededOK
  <2> QED BY <1>1, <2>1, <2>2
<1>2. KeyringInv => SupersededNeverSigns
  BY KeyringSigns
<1> QED BY <1>1, <1>2, KeyringInitial, PTL DEF KeyringSpec

(***************************************************************************)
(* The owner of the gateway's server.                                      *)
(***************************************************************************)

RuntimeTypeOK ==
  /\ lifecycle \in {"Stopped", "Running", "Stopping", "Orphaned", "Failed"}
  /\ running \in Servers \cup {NoServer}
  /\ server \in [Servers -> {"unused", "serving", "draining", "ended", "failed"}]
  /\ stopCall \in [Hosts -> Servers \cup {NoServer}]

\* The thread that lives is the running one, or the one a stop has taken out.
Owned == \A s \in Alive : s = running \/ \E h \in Hosts : stopCall[h] = s

\* A stop under way leaves nothing running, and says so.
StopsAlone == \A h \in Hosts : Calling(h) => running = NoServer /\ lifecycle = "Stopping"

\* A runtime that reports its end holds nothing.
EndsEmpty == lifecycle \in {"Stopped", "Failed"} => running = NoServer

RuntimeInv == RuntimeTypeOK /\ Owned /\ StopsAlone /\ EndsEmpty

\* refresh_runtime: what the runtime reports is the truth about its thread.
LEMMA FreshReports ==
  ASSUME RuntimeAssumption, RuntimeInv
  PROVE  /\ Fresh.lifecycle \in {"Stopped", "Running", "Stopping", "Orphaned", "Failed"}
         /\ Fresh.running \in {running, NoServer}
         /\ Fresh.running = NoServer => running = NoServer \/ Over(running)
         /\ Fresh.lifecycle \in {"Stopped", "Failed"} => Fresh.running = NoServer
         /\ Fresh.running # NoServer => Fresh.running = running /\ Fresh.lifecycle = lifecycle
         /\ running = NoServer => Fresh.lifecycle = lifecycle
BY DEF RuntimeInv, RuntimeTypeOK, EndsEmpty, Fresh

\* Between calls of the one host, a runtime without a live running server has none.
LEMMA NothingLeft ==
  ASSUME RuntimeAssumption, RuntimeInv, NEW h \in Hosts, ~Calling(h), Fresh.running = NoServer
  PROVE  Alive = {}
<1>1. running = NoServer \/ Over(running)
  BY FreshReports
<1>2. running \notin Alive
  BY <1>1 DEF RuntimeAssumption, Alive, Over
<1>3. \A g \in Hosts : stopCall[g] \notin Alive
  BY DEF RuntimeAssumption, Calling, Alive
<1> QED BY <1>2, <1>3 DEF RuntimeInv, Owned

\* start and the calls that only look.
LEMMA RuntimeStarts ==
  ASSUME RuntimeAssumption, RuntimeInv, NEW h \in Hosts,
         StartIgnored(h) \/ StartFails(h) \/ RuntimeStart(h) \/ StopIdle(h) \/ StopBegins(h)
  PROVE  RuntimeInv'
<1> USE DEF RuntimeInv
<1>1. ~Calling(h) /\ \A g \in Hosts : g = h
  BY DEF RuntimeAssumption, StartIgnored, StartFails, RuntimeStart, StopIdle, StopBegins
<1>2. CASE StartIgnored(h) \/ StartFails(h) \/ StopIdle(h)
  <2>1. /\ UNCHANGED <<server, asked, stopCall>>
        /\ running' = Fresh.running
        /\ lifecycle' \in {"Stopped", "Running", "Stopping", "Orphaned", "Failed"}
        /\ lifecycle' \in {"Stopped", "Failed"} => running' = NoServer
    BY <1>2, FreshReports DEF StartIgnored, StartFails, StopIdle
  <2>2. RuntimeTypeOK' /\ EndsEmpty'
    BY <2>1, FreshReports DEF RuntimeTypeOK, EndsEmpty
  <2>3. Owned'
    BY <1>1, <2>1, FreshReports, NothingLeft DEF Owned, Alive
  <2>4. StopsAlone'
    BY <1>1, <2>1 DEF StopsAlone, Calling
  <2> QED BY <2>2, <2>3, <2>4
<1>3. CASE RuntimeStart(h)
  <2>1. Alive = {}
    BY <1>1, <1>3, FreshReports, NothingLeft DEF RuntimeStart
  <2>2. PICK s \in Servers : /\ server[s] = "unused"
                             /\ server' = [server EXCEPT ![s] = "serving"]
                             /\ running' = s
    BY <1>3 DEF RuntimeStart
  <2>3. lifecycle' = "Running" /\ stopCall' = stopCall
    BY <1>3 DEF RuntimeStart
  <2>4. RuntimeTypeOK' /\ EndsEmpty'
    BY <2>2, <2>3 DEF RuntimeTypeOK, EndsEmpty
  <2>5. Owned'
    BY <2>1, <2>2 DEF Owned, Alive, RuntimeTypeOK
  <2>6. StopsAlone'
    BY <1>1, <2>3 DEF StopsAlone, Calling
  <2> QED BY <2>4, <2>5, <2>6
<1>4. CASE StopBegins(h)
  <2>1. Fresh.running = running /\ running # NoServer
    BY <1>4, FreshReports DEF StopBegins
  <2>2. /\ stopCall' = [stopCall EXCEPT ![h] = running]
        /\ running' = NoServer /\ lifecycle' = "Stopping" /\ server' = server
    BY <1>4, <2>1 DEF StopBegins
  <2>3. RuntimeTypeOK' /\ EndsEmpty'
    BY <2>2 DEF RuntimeTypeOK, EndsEmpty
  <2>4. Owned'
    BY <1>1, <2>1, <2>2 DEF Owned, Alive, Calling, RuntimeTypeOK, RuntimeAssumption
  <2>5. StopsAlone'
    BY <2>2 DEF StopsAlone
  <2> QED BY <2>3, <2>4, <2>5
<1> QED BY <1>2, <1>3, <1>4

\* The end of a stop, in time or not; and the threads themselves.
LEMMA RuntimeStops ==
  ASSUME RuntimeAssumption, RuntimeInv,
         \/ \E h \in Hosts : StopJoins(h) \/ StopExpires(h)
         \/ Snapshot
         \/ \E s \in Servers : Drains(s) \/ \E how \in {"ended", "failed"} : ServerEnds(s, how)
  PROVE  RuntimeInv'
<1> USE DEF RuntimeInv
<1>1. ASSUME NEW h \in Hosts, StopJoins(h) PROVE RuntimeInv'
  <2>1. /\ Calling(h) /\ Over(stopCall[h])
        /\ lifecycle' \in {"Stopped", "Failed"} /\ running' = running /\ server' = server
        /\ stopCall' = [stopCall EXCEPT ![h] = NoServer]
    BY <1>1 DEF StopJoins
  <2>2. running = NoServer /\ \A g \in Hosts : g = h
    BY <2>1 DEF StopsAlone, RuntimeAssumption
  <2>3. RuntimeTypeOK' /\ EndsEmpty' /\ StopsAlone'
    BY <2>1, <2>2 DEF RuntimeTypeOK, EndsEmpty, StopsAlone, Calling
  <2>4. Owned'
    BY <2>1, <2>2 DEF Owned, Alive, Over, RuntimeAssumption
  <2> QED BY <2>3, <2>4
<1>2. ASSUME NEW h \in Hosts, StopExpires(h) PROVE RuntimeInv'
  <2>1. /\ Calling(h) /\ lifecycle' = "Orphaned" /\ running' = stopCall[h] /\ server' = server
        /\ stopCall' = [stopCall EXCEPT ![h] = NoServer]
    BY <1>2 DEF StopExpires
  <2>2. running = NoServer /\ \A g \in Hosts : g = h
    BY <2>1 DEF StopsAlone, RuntimeAssumption
  <2>3. RuntimeTypeOK' /\ EndsEmpty' /\ StopsAlone'
    BY <2>1, <2>2 DEF RuntimeTypeOK, EndsEmpty, StopsAlone, Calling
  <2>4. Owned'
    BY <2>1, <2>2 DEF Owned, Alive, RuntimeAssumption
  <2> QED BY <2>3, <2>4
<1>3. CASE Snapshot
  <2>1. running # NoServer /\ Over(running)
    BY <1>3 DEF Snapshot, Fresh
  <2>2. lifecycle' \in {"Stopped", "Failed"} /\ running' = NoServer /\ UNCHANGED <<server, stopCall>>
    BY <1>3, <2>1 DEF Snapshot, Fresh
  <2>3. RuntimeTypeOK' /\ EndsEmpty'
    BY <2>2 DEF RuntimeTypeOK, EndsEmpty
  <2>4. Owned' /\ StopsAlone'
    BY <2>1, <2>2 DEF Owned, Alive, Over, StopsAlone, Calling
  <2> QED BY <2>3, <2>4
<1>4. ASSUME NEW s \in Servers,
             Drains(s) \/ \E how \in {"ended", "failed"} : ServerEnds(s, how)
      PROVE  RuntimeInv'
  <2>1. /\ UNCHANGED <<lifecycle, running, stopCall>>
        /\ \E how \in {"draining", "ended", "failed"} : server' = [server EXCEPT ![s] = how]
        /\ s \in Alive
    BY <1>4 DEF Drains, ServerEnds, Alive
  <2>2. RuntimeTypeOK' /\ EndsEmpty' /\ StopsAlone'
    BY <2>1 DEF RuntimeTypeOK, EndsEmpty, StopsAlone, Calling
  <2>3. Alive' \subseteq Alive
    BY <2>1 DEF Alive, RuntimeTypeOK
  <2> QED BY <2>1, <2>2, <2>3 DEF Owned
<1> QED BY <1>1, <1>2, <1>3, <1>4

\* At most one thread: the stop's when there is one, else the running one.
LEMMA RuntimeOwns ==
  ASSUME RuntimeAssumption, RuntimeInv
  PROVE  OwnsItsServer
<1> USE DEF RuntimeInv
<1>1. \E x : Alive \subseteq {x}
  <2>1. ASSUME NEW h \in Hosts, Calling(h) PROVE Alive \subseteq {stopCall[h]}
    BY <2>1 DEF Owned, StopsAlone, Alive, RuntimeAssumption
  <2>2. ASSUME \A h \in Hosts : ~Calling(h) PROVE Alive \subseteq {running}
    BY <2>2 DEF Owned, Calling, Alive, RuntimeAssumption
  <2> QED BY <2>1, <2>2
<1>2. Cardinality(Alive) <= 1
  <2>1. PICK x : Alive \subseteq {x}
    BY <1>1
  <2>2. CASE Alive = {}
    BY <2>2, FS_EmptySet
  <2>3. CASE Alive = {x}
    <3>1. Cardinality({x}) = 1
      BY FS_Singleton, Zenon
    <3> QED BY <2>3, <3>1
  <2> QED BY <2>1, <2>2, <2>3
<1>3. lifecycle \in {"Stopped", "Failed"} => Alive = {}
  BY DEF Owned, StopsAlone, EndsEmpty, Calling, Alive, RuntimeAssumption
<1> QED BY <1>2, <1>3 DEF OwnsItsServer, Owned

\* Called by one host at a time, the runtime never has two server threads, never
\* loses the one that lives, and never reports its end before it (GatewayRuntime).
THEOREM OwnerKeepsItsServer ==
  ASSUME RuntimeAssumption
  PROVE  RuntimeSpec => []OwnsItsServer
<1>1. RuntimeInit => RuntimeInv
  BY DEF RuntimeInit, RuntimeInv, RuntimeTypeOK, Owned, StopsAlone, EndsEmpty, Alive, Calling
<1>2. ASSUME RuntimeInv, [RuntimeNext]_runtimeVars PROVE RuntimeInv'
  <2>1. CASE RuntimeNext
    BY <1>2, <2>1, RuntimeStarts, RuntimeStops DEF RuntimeNext
  <2>2. CASE UNCHANGED runtimeVars
    BY <1>2, <2>2 DEF runtimeVars, RuntimeInv, RuntimeTypeOK, Owned, StopsAlone, EndsEmpty, Alive, Calling
  <2> QED BY <1>2, <2>1, <2>2
<1>3. RuntimeInv => OwnsItsServer
  BY RuntimeOwns
<1> QED BY <1>1, <1>2, <1>3, PTL DEF RuntimeSpec

(***************************************************************************)
(* The coordination store.                                                 *)
(***************************************************************************)

\* Every file was written by a release.
FilesOK ==
  /\ metadataFile = NoMetadata \/ (metadataFile \in Metadata /\ Migratable(metadataFile))
  /\ backupFile \in Metadata \cup {NoMetadata}
  /\ restoring \in [StoreThreads -> BOOLEAN]

\* Only an open store restores; one just migrated has the latest schema, and so has
\* an open one whose restores all came to their end.
HandleOK ==
  /\ handle \in {"closed", "migrated", "open"}
  /\ handle = "migrated" => metadataFile = Latest
  /\ handle = "open" => metadataFile # NoMetadata
  /\ handle # "open" => \A t \in StoreThreads : ~restoring[t]
  /\ handle = "open" /\ ~stale /\ (\A t \in StoreThreads : ~restoring[t]) => metadataFile = Latest

StoreInv == FilesOK /\ HandleOK

\* The latest metadata is a release's, and can be migrated.
LEMMA LatestFacts ==
  ASSUME StoreAssumption
  PROVE  Latest \in Metadata /\ Migratable(Latest) /\ Latest # NoMetadata
<1>1. LatestSchema \in Nat \ {0}
  BY DEF StoreAssumption
<1>2. Latest \in Metadata
  BY <1>1 DEF Latest, Metadata
<1>3. Migratable(Latest)
  BY <1>1 DEF Latest, Migratable
<1> QED BY <1>2, <1>3, Zenon DEF StoreAssumption

\* open, ensure_compatible, backup_to.
LEMMA StoreOpens ==
  ASSUME StoreAssumption, StoreInv, NEW ok \in BOOLEAN, Open(ok) \/ EnsureCompatible \/ BackupTo(ok)
  PROVE  StoreInv'
<1> USE LatestFacts DEF StoreInv
<1>1. CASE Open(ok)
  <2>1. /\ metadataFile' \in {metadataFile, Latest} /\ (ok => metadataFile' = Latest)
        /\ handle' \in {"migrated", "closed"} /\ (handle' = "migrated" => ok)
        /\ handle = "closed" /\ UNCHANGED <<backupFile, restoring>>
    BY <1>1 DEF Open, Migrates, Written
  <2>2. FilesOK'
    BY <2>1 DEF FilesOK, Migratable
  <2>3. HandleOK'
    BY <2>1 DEF HandleOK, Latest
  <2> QED BY <2>2, <2>3
<1>2. CASE EnsureCompatible
  <2>1. /\ handle = "migrated" /\ handle' \in {"open", "closed"}
        /\ UNCHANGED <<metadataFile, backupFile, restoring, stale>>
    BY <1>2 DEF EnsureCompatible
  <2>2. FilesOK'
    BY <2>1 DEF FilesOK, Migratable
  <2>3. HandleOK'
    BY <2>1 DEF HandleOK, Latest
  <2> QED BY <2>2, <2>3
<1>3. CASE BackupTo(ok)
  <2>1. /\ handle = "open" /\ UNCHANGED <<metadataFile, handle, restoring, stale>>
        /\ backupFile' \in {backupFile, metadataFile}
    BY <1>3 DEF BackupTo, Written
  <2>2. FilesOK'
    BY <2>1 DEF FilesOK, Migratable
  <2>3. HandleOK'
    BY <2>1 DEF HandleOK, Latest
  <2> QED BY <2>2, <2>3
<1> QED BY <1>1, <1>2, <1>3

\* restore_from, its two steps and their failures.
LEMMA StoreRestores ==
  ASSUME StoreAssumption, StoreInv, NEW ok \in BOOLEAN, NEW t \in StoreThreads,
         RestoreWrites(t, ok) \/ RestoreMigrates(t, ok)
  PROVE  StoreInv'
<1> USE LatestFacts DEF StoreInv
<1>1. CASE RestoreWrites(t, ok)
  <2>1. /\ handle = "open" /\ UNCHANGED <<backupFile, handle>>
        /\ metadataFile' \in {metadataFile, backupFile}
        /\ backupFile # NoMetadata /\ Valid(backupFile)
        /\ restoring' = [restoring EXCEPT ![t] = ok] /\ stale' = (stale \/ ~ok)
    BY <1>1 DEF RestoreWrites, Written
  <2>2. backupFile \in Metadata /\ Migratable(backupFile)
    BY <2>1 DEF FilesOK, Valid, Migratable, Metadata, StoreAssumption
  <2>3. FilesOK'
    BY <2>1, <2>2 DEF FilesOK, Migratable
  <2>4. HandleOK'
    <3>1. ~stale' => restoring'[t]
      BY <2>1 DEF FilesOK
    <3> QED BY <2>1, <3>1 DEF HandleOK, Latest
  <2> QED BY <2>3, <2>4
<1>2. CASE RestoreMigrates(t, ok)
  <2>1. /\ handle = "open" /\ UNCHANGED <<backupFile, handle>>
        /\ metadataFile' \in {metadataFile, Latest} /\ (ok => metadataFile' = Latest)
        /\ restoring' = [restoring EXCEPT ![t] = FALSE] /\ stale' = (stale \/ ~ok)
    BY <1>2 DEF RestoreMigrates, Migrates, Written
  <2>2. FilesOK'
    BY <2>1 DEF FilesOK, Migratable
  <2>3. HandleOK'
    BY <2>1 DEF HandleOK, Latest
  <2> QED BY <2>2, <2>3
<1> QED BY <1>1, <1>2

\* Whatever restores, failed writes and crashes leave behind, the store can be
\* opened again, and an open store serves the latest schema unless a restore is
\* under way or failed half way: for any number of threads and schema versions
\* (FileCoordinationStore).
THEOREM StoreAlwaysReopens ==
  ASSUME StoreAssumption
  PROVE  StoreSpec => []CoordinationReopens
<1>1. StoreInit => StoreInv
  BY DEF StoreInit, StoreInv, FilesOK, HandleOK, StoreAssumption
<1>2. ASSUME StoreInv, [StoreNext]_storeVars PROVE StoreInv'
  <2>1. CASE StoreCrash
    BY <1>2, <2>1 DEF StoreCrash, StoreInv, FilesOK, HandleOK, Migratable, Latest
  <2>2. CASE UNCHANGED storeVars
    BY <1>2, <2>2 DEF storeVars, StoreInv, FilesOK, HandleOK, Migratable, Latest
  <2> QED BY <1>2, <2>1, <2>2, StoreOpens, StoreRestores DEF StoreNext
<1>3. StoreInv => CoordinationReopens
  BY DEF StoreInv, FilesOK, HandleOK, CoordinationReopens
<1> QED BY <1>1, <1>2, <1>3, PTL DEF StoreSpec

(***************************************************************************)
(* The admission of sessions.                                              *)
(***************************************************************************)

\* Clocks and expiries are numbers, and nothing was issued in the future.
TimesOK ==
  /\ gatewayClock \in Nat
  /\ \A t \in DOMAIN issuedAt : issuedAt[t] \in Nat /\ issuedAt[t] <= gatewayClock
  /\ \A j \in DOMAIN replay : replay[j] \in Nat

\* The configuration comes before the sessions, and stays.
ConfigOK ==
  /\ config # None => config.auth \/ config.bind = "loopback"
  /\ config = None => sessions = <<>>

IsSequence == \E S : sessions \in Seq(S)

\* A credential that opened a connection was bound to its identity, and is in the
\* replay store for as long as it verifies.
Used(i) ==
  LET t == sessions[i].credential
      c == Credentials[t] IN
  /\ c.bound = sessions[i].identity
  /\ t \in DOMAIN issuedAt /\ c.lifetime \in Nat
  /\ c.jti \in DOMAIN replay /\ issuedAt[t] + c.lifetime <= replay[c.jti]

Behind == config # None /\ config.auth

UsedOnce ==
  /\ \A i \in Connections : Used(i)
  /\ \A i, j \in Connections : sessions[i].credential = sessions[j].credential => i = j

AdmissionInv == TimesOK /\ ConfigOK /\ IsSequence /\ (Behind => UsedOnce)

\* One more session leaves the earlier ones where they are.
LEMMA SessionAppended ==
  ASSUME IsSequence, NEW identity, NEW token, NewSession(identity, token)
  PROVE  /\ IsSequence'
         /\ Len(sessions) \in Nat
         /\ DOMAIN sessions' = DOMAIN sessions \cup {Len(sessions) + 1}
         /\ Len(sessions) + 1 \notin DOMAIN sessions
         /\ \A i \in DOMAIN sessions : sessions'[i] = sessions[i]
         /\ sessions'[Len(sessions) + 1] = [identity |-> identity, credential |-> token]
<1> DEFINE e == [identity |-> identity, credential |-> token]
<1>1. PICK S : sessions \in Seq(S)
  BY DEF IsSequence
<1>2. sessions \in Seq(S \cup {e})
  BY <1>1
<1>3. sessions' = Append(sessions, e)
  BY DEF NewSession
<1> HIDE DEF e
<1>4. e \in S \cup {e}
  OBVIOUS
<1>5. sessions' \in Seq(S \cup {e})
  BY <1>2, <1>3, <1>4
<1>6. /\ Len(sessions) \in Nat
      /\ DOMAIN sessions' = DOMAIN sessions \cup {Len(sessions) + 1}
      /\ Len(sessions) + 1 \notin DOMAIN sessions
      /\ \A i \in DOMAIN sessions : sessions'[i] = sessions[i]
      /\ sessions'[Len(sessions) + 1] = e
  BY <1>2, <1>3, <1>4
<1> QED BY <1>5, <1>6 DEF IsSequence, e

\* What does not open a connection keeps the connections, whatever is issued or
\* forgotten meanwhile.
LEMMA ConnectionsKept ==
  ASSUME UsedOnce, Connections' = Connections,
         \A i \in Connections : sessions'[i] = sessions[i],
         \A t \in DOMAIN issuedAt : t \in DOMAIN issuedAt' /\ issuedAt'[t] = issuedAt[t],
         replay' = replay
  PROVE  UsedOnce'
BY DEF UsedOnce, Used

\* from_provider_config and validate: no open gateway outside the loopback.
LEMMA Configures ==
  ASSUME AdmissionInv, NEW a \in Adapters, Configure(a)
  PROVE  AdmissionInv'
<1>1. /\ UNCHANGED <<issuedAt, replay, sessions, gatewayClock>>
      /\ config = None
  BY DEF Configure
<1>2. config'.auth \/ config'.bind = "loopback"
  BY DEF Configure, ConfigHolds
<1>3. sessions = <<>>
  BY <1>1 DEF AdmissionInv, ConfigOK
<1>4. Connections' = {}
  BY <1>1, <1>3 DEF Connections
<1>5. UsedOnce'
  BY <1>4 DEF UsedOnce
<1> QED BY <1>1, <1>2, <1>3, <1>5 DEF AdmissionInv, TimesOK, ConfigOK, IsSequence

\* The issuer's side, and time.
LEMMA IssuesAndTicks ==
  ASSUME AdmissionInv, GatewayTick \/ \E token \in DOMAIN Credentials : Issue(token)
  PROVE  AdmissionInv'
<1>1. /\ UNCHANGED <<config, replay, sessions>>
      /\ \A t \in DOMAIN issuedAt : t \in DOMAIN issuedAt' /\ issuedAt'[t] = issuedAt[t]
  BY DEF GatewayTick, Issue
<1>2. TimesOK'
  <2>1. CASE GatewayTick
    BY <2>1 DEF AdmissionInv, TimesOK, GatewayTick
  <2>2. CASE \E token \in DOMAIN Credentials : Issue(token)
    BY <2>2 DEF AdmissionInv, TimesOK, Issue
  <2> QED BY <2>1, <2>2
<1>3. Connections' = Connections
  BY <1>1 DEF Connections
<1>4. Behind' => UsedOnce'
  BY <1>1, <1>3, ConnectionsKept DEF AdmissionInv, Behind
<1> QED BY <1>1, <1>2, <1>4 DEF AdmissionInv, ConfigOK, IsSequence

\* check_and_record: the credential that opens is kept until it expires, and
\* no other is forgotten earlier than before.
LEMMA RecordedKeeps ==
  ASSUME AdmissionAssumption, TimesOK, NEW token, NEW identity, Opens(token, identity)
  PROVE  LET jti == Credentials[token].jti IN
         /\ token \in DOMAIN issuedAt
         /\ Credentials[token].lifetime \in Nat
         /\ DOMAIN Recorded(token) = DOMAIN replay \cup {jti}
         /\ Recorded(token)[jti] = issuedAt[token] + Credentials[token].lifetime
         /\ \A j \in DOMAIN replay : Recorded(token)[j] \in Nat /\ replay[j] <= Recorded(token)[j]
<1> DEFINE lifetime == Credentials[token].lifetime
           jti == Credentials[token].jti
           expiry == issuedAt[token] + lifetime
<1>1. /\ token \in DOMAIN issuedAt /\ lifetime \in 1..CredentialTtl
      /\ expiry > gatewayClock /\ ~Known(jti)
  BY DEF Opens, Verifies
<1>2. /\ issuedAt[token] \in Nat /\ issuedAt[token] <= gatewayClock /\ gatewayClock \in Nat
      /\ CredentialTtl \in Nat /\ StoreTtl \in Nat /\ CredentialTtl <= StoreTtl
  BY <1>1 DEF TimesOK, AdmissionAssumption
<1>3. /\ lifetime \in Nat /\ expiry \in Nat
      /\ expiry <= gatewayClock + StoreTtl
  BY <1>1, <1>2
<1>4. Recorded(token) = [j \in DOMAIN replay \cup {jti} |-> IF j = jti THEN expiry ELSE replay[j]]
  <2> DEFINE kept == IF expiry < gatewayClock + StoreTtl THEN expiry ELSE gatewayClock + StoreTtl
  <2>1. kept = expiry
    <3> HIDE DEF expiry
    <3> QED BY <1>2, <1>3
  <2> QED BY <2>1 DEF Recorded
<1>5. jti \in DOMAIN replay => replay[jti] <= gatewayClock
  BY <1>1, <1>2 DEF Known, TimesOK
<1> HIDE DEF expiry, lifetime, jti
<1>6. \A j \in DOMAIN replay : Recorded(token)[j] \in Nat /\ replay[j] <= Recorded(token)[j]
  BY <1>1, <1>2, <1>3, <1>4, <1>5 DEF TimesOK
<1> QED BY <1>1, <1>3, <1>4, <1>6 DEF expiry, lifetime, jti

\* mesh_peer_relay_handler opens no connection.
LEMMA Relays ==
  ASSUME AdmissionInv, NEW r \in Attempts, Relay(r)
  PROVE  AdmissionInv'
<1>1. /\ UNCHANGED <<config, issuedAt, replay, gatewayClock>> /\ config # None
      /\ \E token : NewSession(MeshHash(r), token)
  BY DEF Relay, Try
<1>2. PICK token : NewSession(MeshHash(r), token)
  BY <1>1
<1>3. /\ IsSequence'
      /\ DOMAIN sessions' = DOMAIN sessions \cup {Len(sessions) + 1}
      /\ Len(sessions) + 1 \notin DOMAIN sessions
      /\ \A i \in DOMAIN sessions : sessions'[i] = sessions[i]
      /\ sessions'[Len(sessions) + 1] = [identity |-> MeshHash(r), credential |-> token]
  BY <1>2, SessionAppended DEF AdmissionInv
<1>4. MeshHash(r) = NoIdentity \/ MeshHash(r)[1] = "envelope"
  BY DEF MeshHash
<1>5. Connections' = Connections
  BY <1>3, <1>4 DEF Connections
<1>6. \A i \in Connections : sessions'[i] = sessions[i]
  BY <1>3 DEF Connections
<1>7. Behind' => UsedOnce'
  BY <1>1, <1>5, <1>6, ConnectionsKept DEF AdmissionInv, Behind
<1> QED BY <1>1, <1>3, <1>7 DEF AdmissionInv, TimesOK, ConfigOK

\* worker_connect_handler and client_connect_handler: a credential that opened a
\* connection before is known to the replay store as long as it verifies.
LEMMA Connects ==
  ASSUME AdmissionAssumption, AdmissionInv, NEW r \in Attempts, Connect(r)
  PROVE  AdmissionInv'
<1>1. /\ UNCHANGED <<config, issuedAt, gatewayClock>> /\ config # None
  BY DEF Connect, Try
<1>2. PICK identity :
        \/ ~config.auth /\ NewSession(identity, None) /\ replay' = replay
        \/ /\ config.auth /\ Opens(r.bearer, identity)
           /\ NewSession(identity, r.bearer) /\ replay' = Recorded(r.bearer)
  BY DEF Connect
<1>3. CASE ~config.auth /\ NewSession(identity, None) /\ replay' = replay
  <2>1. IsSequence'
    BY <1>3, SessionAppended DEF AdmissionInv
  <2> QED BY <1>1, <1>3, <2>1 DEF AdmissionInv, TimesOK, ConfigOK, Behind
<1>4. CASE /\ config.auth /\ Opens(r.bearer, identity)
           /\ NewSession(identity, r.bearer) /\ replay' = Recorded(r.bearer)
  <2>0. PICK n : n = Len(sessions) + 1
    OBVIOUS
  <2> DEFINE b == r.bearer
             jti == Credentials[b].jti
  <2>1. /\ IsSequence'
        /\ DOMAIN sessions' = DOMAIN sessions \cup {n} /\ n \notin DOMAIN sessions
        /\ \A i \in DOMAIN sessions : sessions'[i] = sessions[i]
        /\ sessions'[n] = [identity |-> identity, credential |-> b]
    BY <1>4, <2>0, SessionAppended DEF AdmissionInv
  <2>2. /\ b \in DOMAIN issuedAt /\ Credentials[b].lifetime \in Nat
        /\ DOMAIN replay' = DOMAIN replay \cup {jti}
        /\ replay'[jti] = issuedAt[b] + Credentials[b].lifetime
        /\ \A j \in DOMAIN replay : replay'[j] \in Nat /\ replay[j] <= replay'[j]
    BY <1>4, RecordedKeeps DEF AdmissionInv
  <2>3. /\ issuedAt[b] \in Nat /\ gatewayClock \in Nat
        /\ \A j \in DOMAIN replay : replay[j] \in Nat
        /\ \A t \in DOMAIN issuedAt : issuedAt[t] \in Nat
    BY <2>2 DEF AdmissionInv, TimesOK
  <2>4. TimesOK'
    BY <1>1, <2>2, <2>3 DEF AdmissionInv, TimesOK
  <2>5. /\ Credentials[b].bound = identity
        /\ issuedAt[b] + Credentials[b].lifetime > gatewayClock
        /\ jti \in DOMAIN replay => ~(replay[jti] > gatewayClock)
    BY <1>4 DEF Opens, Verifies, Known
  <2>6. UsedOnce
    BY <1>1, <1>4 DEF AdmissionInv, Behind
  <2>7. \A i \in Connections : i \in DOMAIN sessions /\ Used(i) /\ sessions[i].credential # b
    <3> SUFFICES ASSUME NEW i \in Connections, sessions[i].credential = b PROVE FALSE
      BY <2>6 DEF Connections, UsedOnce
    <3>1. jti \in DOMAIN replay /\ issuedAt[b] + Credentials[b].lifetime <= replay[jti]
      BY <2>6 DEF UsedOnce, Used
    <3> QED BY <2>2, <2>3, <2>5, <3>1
  <2>8. Connections' \subseteq Connections \cup {n}
    BY <2>1 DEF Connections
  <2>9. ASSUME NEW i \in Connections PROVE Used(i)'
    <3> DEFINE t == sessions[i].credential
               j == Credentials[t].jti
    <3>1. /\ sessions'[i] = sessions[i]
          /\ Credentials[t].bound = sessions[i].identity
          /\ t \in DOMAIN issuedAt /\ Credentials[t].lifetime \in Nat
          /\ j \in DOMAIN replay /\ issuedAt[t] + Credentials[t].lifetime <= replay[j]
      BY <2>1, <2>7 DEF Used
    <3>2. /\ replay'[j] \in Nat /\ replay[j] \in Nat /\ replay[j] <= replay'[j]
          /\ issuedAt[t] \in Nat /\ j \in DOMAIN replay'
      BY <2>2, <2>3, <3>1
    <3>3. issuedAt[t] + Credentials[t].lifetime <= replay'[j]
      BY <3>1, <3>2
    <3> QED BY <1>1, <3>1, <3>2, <3>3 DEF Used
  <2>10. Used(n)'
    <3>1. issuedAt[b] + Credentials[b].lifetime <= replay'[jti]
      BY <2>2, <2>3
    <3> QED BY <1>1, <2>1, <2>2, <2>5, <3>1 DEF Used
  <2>11. UsedOnce'
    <3>1. \A i \in Connections' : Used(i)'
      BY <2>8, <2>9, <2>10
    <3>2. \A i \in Connections : sessions'[i].credential # b /\ sessions'[i] = sessions[i]
      BY <2>1, <2>7
    <3>3. sessions'[n].credential = b
      BY <2>1
    <3>4. \A i, j \in Connections' : sessions'[i].credential = sessions'[j].credential => i = j
      BY <2>6, <2>8, <3>2, <3>3 DEF UsedOnce
    <3> QED BY <3>1, <3>4 DEF UsedOnce
  <2> QED BY <1>1, <2>1, <2>4, <2>11 DEF AdmissionInv, ConfigOK
<1> QED BY <1>2, <1>3, <1>4

\* While the replay store keeps identities as long as credentials live, every
\* connection behind authentication has the identity its credential was issued for,
\* and no credential opens two: for any requests, credentials and configuration
\* (authenticate_connection, check_and_record).
THEOREM CredentialsOpenOneConnection ==
  ASSUME AdmissionAssumption
  PROVE  AdmissionSpec => []AdmittedAsIssued
<1>1. AdmissionInit => AdmissionInv
  <2> SUFFICES ASSUME AdmissionInit PROVE AdmissionInv
    OBVIOUS
  <2>1. sessions \in Seq({})
    BY DEF AdmissionInit
  <2> QED BY <2>1 DEF AdmissionInit, AdmissionInv, TimesOK, ConfigOK, IsSequence, Behind
<1>2. ASSUME AdmissionInv, [AdmissionNext]_admissionVars PROVE AdmissionInv'
  <2>1. CASE AdmissionNext
    BY <1>2, <2>1, Configures, IssuesAndTicks, Relays, Connects DEF AdmissionNext
  <2>2. CASE UNCHANGED admissionVars
    <3>1. Connections' = Connections
      BY <2>2 DEF admissionVars, Connections
    <3> QED BY <1>2, <2>2, <3>1, ConnectionsKept
         DEF admissionVars, AdmissionInv, TimesOK, ConfigOK, IsSequence, Behind
  <2> QED BY <1>2, <2>1, <2>2
<1>3. AdmissionInv => AdmittedAsIssued
  BY DEF AdmissionInv, ConfigOK, Behind, UsedOnce, Used, AdmittedAsIssued
<1> QED BY <1>1, <1>2, <1>3, PTL DEF AdmissionSpec

(***************************************************************************)
(* The HTTP API.                                                           *)
(***************************************************************************)

\* A token carries what it was granted for.
TokensOK ==
  \A t \in DOMAIN tokens :
    /\ tokens[t].purpose = Grants[t].purpose /\ tokens[t].name = Grants[t].name
    /\ tokens[t].scope = Grants[t].scope /\ tokens[t].subject = Grants[t].subject
    /\ tokens[t].hash = Grants[t].hash

Stages == {"new", "dispatch", "answered"}
Outcomes == {"accepted", "rejected", "error"}

ExchangeOK ==
  /\ \E S, G : exchange \in [ApiRequests -> [at : Stages, status : S, grant : G]]
  /\ audited \in [ApiRequests -> Seq(Outcomes)]

\* What the token g allows request r.
GrantedTo(r, g) ==
  /\ Grants[g].purpose = ask[r].route
  /\ Wildcard(Grants[g].scope, Grants[g].subject) \/ Grants[g].name = ask[r].name
  /\ Grants[g].hash \in {NoHash, BoundTo(r)}

DispatchOK ==
  \A r \in ApiRequests :
    exchange[r].at = "dispatch" /\ host.auth => GrantedTo(r, exchange[r].grant)

\* The audit of a query begins when it is refused or dispatched.
AuditOK ==
  \A r \in ApiRequests : ask[r].route = "query" =>
    /\ exchange[r].at # "answered" => audited[r] = <<>>
    /\ exchange[r].at = "dispatch" => QueryFault(r) = 200 /\ ask[r].trace
    /\ exchange[r].at = "answered" /\ host.controller =>
         Len(audited[r]) = IF QueryFault(r) = 200 /\ ask[r].trace THEN 1 ELSE 0

ApiInv == TokensOK /\ ExchangeOK /\ DispatchOK /\ AuditOK

\* An answer changes one exchange, whatever its status.
LEMMA AnswerChanges ==
  ASSUME ExchangeOK, NEW r \in ApiRequests, NEW status, Answered(r, status)
  PROVE  /\ \E S, G : exchange' \in [ApiRequests -> [at : Stages, status : S, grant : G]]
         /\ exchange'[r].at = "answered"
         /\ \A q \in ApiRequests : q # r => exchange'[q] = exchange[q]
<1>1. PICK S, G : exchange \in [ApiRequests -> [at : Stages, status : S, grant : G]]
  BY DEF ExchangeOK
<1>2. exchange' = [exchange EXCEPT ![r].at = "answered", ![r].status = status]
  BY DEF Answered
<1>3. exchange' \in [ApiRequests -> [at : Stages, status : S \cup {status}, grant : G]]
  BY <1>1, <1>2 DEF Stages
<1>4. exchange'[r].at = "answered" /\ \A q \in ApiRequests : q # r => exchange'[q] = exchange[q]
  BY <1>1, <1>2
<1> QED BY <1>3, <1>4

\* An admission notes the token it was made with.
LEMMA AdmissionChanges ==
  ASSUME ExchangeOK, NEW r \in ApiRequests, Admitted(r)
  PROVE  /\ \E S, G : exchange' \in [ApiRequests -> [at : Stages, status : S, grant : G]]
         /\ exchange'[r].at = "dispatch" /\ exchange'[r].grant = Presented(r)
         /\ \A q \in ApiRequests : q # r => exchange'[q] = exchange[q]
<1>1. PICK S, G : exchange \in [ApiRequests -> [at : Stages, status : S, grant : G]]
  BY DEF ExchangeOK
<1>2. exchange' = [exchange EXCEPT ![r].at = "dispatch", ![r].grant = Presented(r)]
  BY DEF Admitted
<1>3. exchange' \in [ApiRequests -> [at : Stages, status : S, grant : G \cup {Presented(r)}]]
  BY <1>1, <1>2 DEF Stages
<1>4. /\ exchange'[r].at = "dispatch" /\ exchange'[r].grant = Presented(r)
      /\ \A q \in ApiRequests : q # r => exchange'[q] = exchange[q]
  BY <1>1, <1>2
<1> QED BY <1>3, <1>4

\* An audit entry is one more of its request.
LEMMA AuditChanges ==
  ASSUME ExchangeOK, NEW r \in ApiRequests, NEW outcome \in Outcomes, Audit(r, outcome)
  PROVE  /\ audited' \in [ApiRequests -> Seq(Outcomes)]
         /\ \A q \in ApiRequests : q # r => audited'[q] = audited[q]
         /\ host.controller /\ audited[r] = <<>> => Len(audited'[r]) = 1
<1>1. CASE host.controller
  <2>1. audited' = [audited EXCEPT ![r] = Append(audited[r], outcome)]
    BY <1>1 DEF Audit
  <2>2. audited[r] \in Seq(Outcomes)
    BY DEF ExchangeOK
  <2>3. Append(audited[r], outcome) \in Seq(Outcomes)
    BY <2>2
  <2>4. audited[r] = <<>> => Len(Append(audited[r], outcome)) = 1
    BY <2>2
  <2> QED BY <2>1, <2>3, <2>4 DEF ExchangeOK
<1>2. CASE ~host.controller
  BY <1>2 DEF Audit, ExchangeOK
<1> QED BY <1>1, <1>2

\* authorize_command, authorize_query: what they let through was granted.
LEMMA AuthorizedIsGranted ==
  ASSUME TokensOK, NEW r \in ApiRequests, ask[r].route \in {"command", "query"},
         host.auth, Authorize(r) = 200
  PROVE  GrantedTo(r, Presented(r))
<1> DEFINE token == tokens[Presented(r)]
<1>1. Verify(r, ask[r].route, ask[r].name, BoundTo(r)) = "ok"
  BY DEF Authorize, Status
<1>2. Presented(r) \in DOMAIN tokens
  BY <1>1 DEF Verify
<1>3. TokenVerdict(token, Validates(token.key), "runtime", ask[r].route, ask[r].name, keyClock,
                   BoundTo(r)) = "ok"
  BY <1>1, <1>2 DEF Verify
<1> HIDE DEF token
<1>4. /\ token.purpose = ask[r].route
      /\ ScopeVerdict(token, ask[r].name) = "ok" /\ HashVerdict(token, BoundTo(r)) = "ok"
  BY <1>3 DEF TokenVerdict
<1>5. token.hash \in {NoHash, BoundTo(r)}
  BY <1>4 DEF HashVerdict
<1>6. Wildcard(token.scope, token.subject) \/ token.name = ask[r].name
  BY <1>4 DEF ScopeVerdict, Wildcard
<1> QED BY <1>2, <1>4, <1>5, <1>6 DEF TokensOK, GrantedTo, token

\* A request that is refused, or that only reads the status.
LEMMA RefusalKeeps ==
  ASSUME ApiInv, NEW r \in ApiRequests, NEW status, Answered(r, status),
         UNCHANGED <<host, ask, tokens>>,
         audited' \in [ApiRequests -> Seq(Outcomes)],
         \A q \in ApiRequests : q # r => audited'[q] = audited[q],
         ask[r].route = "query" /\ host.controller =>
           Len(audited'[r]) = IF QueryFault(r) = 200 /\ ask[r].trace THEN 1 ELSE 0
  PROVE  ApiInv'
<1> USE DEF ApiInv
<1>1. /\ ExchangeOK' /\ exchange'[r].at = "answered"
      /\ \A q \in ApiRequests : q # r => exchange'[q] = exchange[q]
  BY AnswerChanges DEF ExchangeOK
<1>2. TokensOK'
  BY DEF TokensOK
<1>3. DispatchOK'
  BY <1>1 DEF DispatchOK, GrantedTo, BoundTo
<1>4. AuditOK'
  <2>1. host' = host /\ ask' = ask /\ \A q \in ApiRequests : QueryFault(q)' = QueryFault(q)
    BY DEF QueryFault
  <2>2. AuditOK
    BY DEF ApiInv
  <2>3. ASSUME NEW q \in ApiRequests, q # r PROVE exchange'[q] = exchange[q] /\ audited'[q] = audited[q]
    BY <1>1, <2>3
  <2> SUFFICES ASSUME NEW q \in ApiRequests, ask[q].route = "query"
               PROVE  /\ exchange'[q].at # "answered" => audited'[q] = <<>>
                      /\ exchange'[q].at = "dispatch" => QueryFault(q) = 200 /\ ask[q].trace
                      /\ exchange'[q].at = "answered" /\ host.controller =>
                           Len(audited'[q]) = IF QueryFault(q) = 200 /\ ask[q].trace THEN 1 ELSE 0
    BY <2>1 DEF AuditOK
  <2>4. CASE q = r
    BY <1>1, <2>4
  <2>5. CASE q # r
    <3>1. exchange'[q] = exchange[q] /\ audited'[q] = audited[q]
      BY <2>3, <2>5
    <3> QED BY <2>2, <3>1 DEF AuditOK
  <2> QED BY <2>4, <2>5
<1> QED BY <1>1, <1>2, <1>3, <1>4

\* A request that is let through.
LEMMA AdmissionKeeps ==
  ASSUME ApiInv, NEW r \in ApiRequests, Admitted(r), UNCHANGED <<host, ask, tokens, audited>>,
         exchange[r].at = "new", ask[r].route \in {"command", "query"}, Authorize(r) = 200,
         ask[r].route = "query" => QueryFault(r) = 200 /\ ask[r].trace
  PROVE  ApiInv'
<1> USE DEF ApiInv
<1>1. /\ ExchangeOK' /\ exchange'[r].at = "dispatch" /\ exchange'[r].grant = Presented(r)
      /\ \A q \in ApiRequests : q # r => exchange'[q] = exchange[q]
  BY AdmissionChanges DEF ExchangeOK
<1>2. TokensOK'
  BY DEF TokensOK
<1>3. host.auth => GrantedTo(r, Presented(r))
  BY AuthorizedIsGranted
<1>4. DispatchOK'
  BY <1>1, <1>3 DEF DispatchOK, GrantedTo, BoundTo
<1>5. AuditOK'
  BY <1>1 DEF AuditOK, QueryFault
<1> QED BY <1>1, <1>2, <1>4, <1>5

\* command_handler and dispatch_command_request.
LEMMA CommandsKeep ==
  ASSUME ApiInv, NEW r \in ApiRequests,
         ReceiveCommand(r) \/ \E outcome \in {200, 409, 500} : DispatchCommand(r, outcome)
  PROVE  ApiInv'
<1> USE DEF ApiInv
<1>1. UNCHANGED <<host, ask, tokens>> /\ ask[r].route = "command"
  BY DEF ReceiveCommand, DispatchCommand
<1>2. CASE \E outcome \in {200, 409, 500} : DispatchCommand(r, outcome)
  <2>1. audited' = audited /\ \E status : Answered(r, status)
    BY <1>2 DEF DispatchCommand
  <2> QED BY <1>1, <2>1, RefusalKeeps DEF ExchangeOK
<1>3. CASE ReceiveCommand(r)
  <2>1. CASE Authorize(r) # 200
    <3>1. Answered(r, Authorize(r)) /\ Audit(r, "rejected")
      BY <1>3, <2>1 DEF ReceiveCommand
    <3> QED BY <1>1, <3>1, RefusalKeeps, AuditChanges DEF Outcomes
  <2>2. CASE Authorize(r) = 200
    <3>1. audited' = audited /\ exchange[r].at = "new"
          /\ (Answered(r, 501) \/ Answered(r, 400) \/ Admitted(r))
      BY <1>3, <2>2 DEF ReceiveCommand
    <3>2. audited' \in [ApiRequests -> Seq(Outcomes)]
      BY <3>1 DEF ExchangeOK
    <3>3. ASSUME NEW status, Answered(r, status) PROVE ApiInv'
      BY <1>1, <3>1, <3>2, <3>3, RefusalKeeps
    <3>4. CASE Admitted(r)
      BY <1>1, <2>2, <3>1, <3>4, AdmissionKeeps
    <3> QED BY <3>1, <3>3, <3>4
  <2> QED BY <2>1, <2>2
<1> QED BY <1>2, <1>3

\* query_handler and dispatch_query_request.
LEMMA QueriesKeep ==
  ASSUME ApiInv, NEW r \in ApiRequests,
         ReceiveQuery(r) \/ \E panics \in BOOLEAN : DispatchQuery(r, panics)
  PROVE  ApiInv'
<1> USE DEF ApiInv
<1>1. /\ UNCHANGED <<host, ask, tokens>> /\ ask[r].route = "query"
      /\ exchange[r].at \in {"new", "dispatch"} /\ audited[r] = <<>>
  BY DEF ReceiveQuery, DispatchQuery, AuditOK
<1>2. CASE \E panics \in BOOLEAN : DispatchQuery(r, panics)
  <2>1. exchange[r].at = "dispatch" /\ QueryFault(r) = 200 /\ ask[r].trace
    BY <1>1, <1>2 DEF DispatchQuery, AuditOK
  <2>2. (\E status : Answered(r, status)) /\ \E outcome \in Outcomes : Audit(r, outcome)
    BY <1>2 DEF DispatchQuery, Outcomes
  <2> QED BY <1>1, <2>1, <2>2, RefusalKeeps, AuditChanges
<1>3. CASE ReceiveQuery(r)
  <2>1. CASE ~(QueryFault(r) = 200 /\ ask[r].trace)
    <3>1. audited' = audited /\ \E status : Answered(r, status)
      BY <1>3, <2>1 DEF ReceiveQuery
    <3>2. Len(audited[r]) = 0
      BY <1>1
    <3>3. audited' \in [ApiRequests -> Seq(Outcomes)]
      BY <3>1 DEF ExchangeOK
    <3>4. Len(audited'[r]) = IF QueryFault(r) = 200 /\ ask[r].trace THEN 1 ELSE 0
      BY <2>1, <3>1, <3>2
    <3>5. PICK status : Answered(r, status)
      BY <3>1
    <3> QED BY <1>1, <3>1, <3>3, <3>4, <3>5, RefusalKeeps
  <2>2. CASE QueryFault(r) = 200 /\ ask[r].trace
    <3>1. \/ (\E status : Answered(r, status)) /\ Audit(r, "rejected")
          \/ Admitted(r) /\ audited' = audited /\ Authorize(r) = 200 /\ exchange[r].at = "new"
      BY <1>3, <2>2 DEF ReceiveQuery
    <3>2. CASE Admitted(r) /\ audited' = audited /\ Authorize(r) = 200 /\ exchange[r].at = "new"
      BY <1>1, <2>2, <3>2, AdmissionKeeps
    <3>3. CASE (\E status : Answered(r, status)) /\ Audit(r, "rejected")
      BY <1>1, <2>2, <3>3, RefusalKeeps, AuditChanges DEF Outcomes
    <3> QED BY <3>1, <3>2, <3>3
  <2> QED BY <2>1, <2>2
<1> QED BY <1>2, <1>3

\* Issuing a token, and whatever the keyring does meanwhile.
LEMMA IssuingKeeps ==
  ASSUME ApiInv, UNCHANGED <<host, ask, exchange, audited>>,
         tokens' = tokens \/ \E t \in DOMAIN Grants : IssueToken(t)
  PROVE  ApiInv'
<1> USE DEF ApiInv
<1>1. ExchangeOK' /\ DispatchOK'
  BY DEF ExchangeOK, DispatchOK, GrantedTo, BoundTo
<1>2. AuditOK'
  <2>1. \A q \in ApiRequests : QueryFault(q)' = QueryFault(q)
    BY DEF QueryFault
  <2>2. exchange' = exchange /\ audited' = audited /\ ask' = ask /\ host' = host /\ AuditOK
    BY Zenon DEF ApiInv
  <2> QED BY <2>1, <2>2, SMT DEF AuditOK
<1>3. ASSUME NEW t \in DOMAIN Grants, IssueToken(t) PROVE TokensOK'
  <2> DEFINE new == Token(Grants[t], ActiveKey, keyClock)
  <2>1. tokens' = [u \in DOMAIN tokens \cup {t} |-> IF u = t THEN new ELSE tokens[u]]
    BY <1>3 DEF IssueToken
  <2>2. /\ new.purpose = Grants[t].purpose /\ new.name = Grants[t].name
        /\ new.scope = Grants[t].scope /\ new.subject = Grants[t].subject
        /\ new.hash = Grants[t].hash
    BY DEF Token
  <2> HIDE DEF new
  <2> QED BY <2>1, <2>2 DEF TokensOK
<1>4. TokensOK'
  BY <1>3 DEF TokensOK
<1> QED BY <1>1, <1>2, <1>4

\* Behind authentication nothing is dispatched that no token was granted for, whatever
\* happens to the keys between authorisation and dispatch, and every query past its
\* contract is audited once: for any requests, grants and keys (auth.rs, query.rs).
THEOREM OnlyGrantsAreDispatched == ApiSpec => []DispatchedAsGranted
<1>1. ApiInit => ApiInv
  <2> SUFFICES ASSUME ApiInit PROVE ApiInv
    OBVIOUS
  <2>1. exchange \in [ApiRequests -> [at : Stages, status : {0}, grant : {Absent}]]
    BY DEF ApiInit, Stages
  <2>2. \A r \in ApiRequests : exchange[r].at = "new" /\ audited[r] = <<>>
    BY DEF ApiInit
  <2>3. audited \in [ApiRequests -> Seq(Outcomes)] /\ TokensOK
    BY DEF ApiInit, TokensOK
  <2> QED BY <2>1, <2>2, <2>3 DEF ApiInv, ExchangeOK, DispatchOK, AuditOK
<1>2. ASSUME ApiInv, [ApiNext]_apiVars PROVE ApiInv'
  <2>1. ASSUME NEW r \in ApiRequests, ReadStatus(r) PROVE ApiInv'
    BY <1>2, <2>1, RefusalKeeps DEF ReadStatus, ApiInv, ExchangeOK
  <2>2. ASSUME NEW t \in DOMAIN Grants, IssueToken(t) PROVE ApiInv'
    BY <1>2, <2>2, IssuingKeeps DEF IssueToken
  <2>3. CASE KeyringNext /\ UNCHANGED <<host, ask, tokens, exchange, audited>>
    BY <1>2, <2>3, IssuingKeeps
  <2>4. CASE UNCHANGED apiVars
    BY <1>2, <2>4, IssuingKeeps DEF apiVars
  <2> QED BY <1>2, <2>1, <2>2, <2>3, <2>4, CommandsKeep, QueriesKeep DEF ApiNext
<1>3. ApiInv => DispatchedAsGranted
  BY DEF ApiInv, DispatchOK, GrantedTo, AuditOK, DispatchedAsGranted
<1> QED BY <1>1, <1>2, <1>3, PTL DEF ApiSpec

(***************************************************************************)
(* The gateway's routing and tables.                                       *)
(***************************************************************************)

\* An entry of a tenant's tables is its own task's: under the task's slot, for the
\* connection the task was routed to, while the task still forwards or waits.
RoutesOK ==
  /\ DOMAIN pending = DOMAIN metadata
  /\ \A k \in DOMAIN pending :
       /\ pending[k] \in Requests
       /\ Slot(pending[k]) = k
       /\ task[pending[k]].at \in {"forward", "waiting"}
       /\ metadata[k].generation = task[pending[k]].worker

\* An answer given is the answer of the worker asked, and the task keeps that worker.
RepliesOK ==
  /\ DOMAIN reply = Requests
  /\ \A q \in Requests : reply[q].outcome = "ok" =>
       /\ task[q].at # "new"
       /\ reply[q].from = task[q].worker
       /\ Slot(reply[q].of) = Slot(q)

\* The tables of workers agree, and a connection enters them once.
WorkersOK ==
  /\ socket \in [Sockets -> {"new", "open", "closed"}]
  /\ workers \subseteq Sockets
  /\ \A s \in workers : socket[s] # "new"
  /\ \A r, s \in workers : Key(r) = Key(s) => r = s
  /\ activeWorkers = Cardinality(workers)
  /\ registry = UNION {Advertised(s) : s \in workers}

TasksOK ==
  task \in [Requests -> [at : {"new", "forward", "waiting", "returning", "answered"} \cup Finished,
                         worker : Sockets \cup {Nobody}]]

GatewayInv == TasksOK /\ RoutesOK /\ RepliesOK /\ WorkersOK

\* Taking a slot out of the tables leaves the entries of the other slots.
LEMMA CleanupLeaves ==
  ASSUME NEW q, Cleanup(q), DOMAIN pending = DOMAIN metadata
  PROVE  /\ DOMAIN pending' = DOMAIN pending \ {Slot(q)}
         /\ DOMAIN metadata' = DOMAIN pending \ {Slot(q)}
         /\ \A k \in DOMAIN pending' : pending'[k] = pending[k] /\ metadata'[k] = metadata[k]
  BY DEF Cleanup, Restrict

\* A task that ends, whatever its caller gets but an answer, cleans up its own slot.
LEMMA EndingKeeps ==
  ASSUME TasksOK, RoutesOK, RepliesOK, NEW q \in Requests, NEW at \in {"returning"} \cup Finished,
         task[q].at # "new",
         task' = [task EXCEPT ![q].at = at],
         Cleanup(q), UNCHANGED call,
         \/ reply' = reply
         \/ \E outcome : outcome # "ok" /\ reply' = [reply EXCEPT ![q] = Rejected(outcome)]
  PROVE  TasksOK' /\ RoutesOK' /\ RepliesOK'
<1>1. TasksOK'
  BY DEF TasksOK, Finished
<1>2. /\ \A r \in Requests : task'[r].worker = task[r].worker
      /\ \A r \in Requests : r # q => task'[r] = task[r]
      /\ task'[q].at = at
  BY DEF TasksOK
<1>3. RoutesOK'
  <2>1. /\ DOMAIN pending' = DOMAIN pending \ {Slot(q)}
        /\ DOMAIN metadata' = DOMAIN pending \ {Slot(q)}
        /\ \A k \in DOMAIN pending' : pending'[k] = pending[k] /\ metadata'[k] = metadata[k]
    BY CleanupLeaves DEF RoutesOK
  <2>2. \A r : Slot(r)' = Slot(r)
    BY DEF Slot
  <2>3. \A k \in DOMAIN pending' : pending[k] # q
    BY <2>1 DEF RoutesOK
  <2> QED BY <1>2, <2>1, <2>2, <2>3 DEF RoutesOK
<1>4. /\ DOMAIN reply' = Requests
      /\ \A r \in Requests : reply'[r].outcome = "ok" => reply'[r] = reply[r]
  BY DEF RepliesOK, Rejected
<1>5. \A r \in Requests : task[r].at # "new" => task'[r].at # "new"
  BY <1>2 DEF Finished
<1>6. RepliesOK'
  BY <1>2, <1>4, <1>5 DEF RepliesOK, Slot
<1> QED BY <1>1, <1>3, <1>6

\* Routing enters a new task, under a slot that was free.
LEMMA RoutingKeeps ==
  ASSUME TasksOK, RoutesOK, RepliesOK, WorkersOK, NEW q \in Requests, RouteRequest(q)
  PROVE  TasksOK' /\ RoutesOK' /\ RepliesOK'
<1>1. /\ task[q].at = "new"
      /\ UNCHANGED call
  BY DEF RouteRequest, Arrives
<1>2. reply[q].outcome # "ok"
  BY <1>1 DEF RepliesOK
<1>3. PICK s \in (IF OfCore(q) = {} THEN {Nobody} ELSE OfCore(q)) :
        IF ClientFault(q) # "none" \/ Refusal(q, s) # "none"
        THEN /\ Done(q, IF ClientFault(q) # "none" THEN ClientFault(q) ELSE Refusal(q, s))
             /\ UNCHANGED <<pending, metadata>>
        ELSE /\ task' = [task EXCEPT ![q] = [at |-> "forward", worker |-> s]]
             /\ pending' = Entered(pending, Slot(q), q)
             /\ metadata' = Entered(metadata, Slot(q), [generation |-> s, limit |-> call[q].limit])
             /\ UNCHANGED reply
  BY DEF RouteRequest
<1>4. s \in Sockets \cup {Nobody}
  BY <1>3 DEF OfCore, WorkersOK
<1>5. ClientFault(q) # "ok" /\ Refusal(q, s) # "ok"
  <2>1. RequestFault(q) # "ok"
    BY DEF RequestFault
  <2> QED BY <2>1 DEF ClientFault, Refusal
<1>6. CASE ClientFault(q) # "none" \/ Refusal(q, s) # "none"
  <2>1. PICK outcome : /\ outcome # "ok"
                       /\ task' = [task EXCEPT ![q].at = "done"]
                       /\ reply' = [reply EXCEPT ![q] = Rejected(outcome)]
                       /\ UNCHANGED <<pending, metadata>>
    BY <1>3, <1>5, <1>6 DEF Done
  <2>2. /\ \A r \in Requests : r # q => task'[r] = task[r] /\ reply'[r] = reply[r]
        /\ reply'[q].outcome # "ok" /\ DOMAIN reply' = Requests
    BY <2>1 DEF TasksOK, RepliesOK, Rejected
  <2>3. TasksOK'
    BY <2>1 DEF TasksOK, Finished
  <2>4. \A k \in DOMAIN pending : pending[k] # q
    BY <1>1 DEF RoutesOK
  <2>5. RoutesOK'
    BY <1>1, <2>1, <2>2, <2>4 DEF RoutesOK, Slot
  <2> QED BY <1>1, <2>2, <2>3, <2>5 DEF RepliesOK, Slot
<1>7. CASE ClientFault(q) = "none" /\ Refusal(q, s) = "none"
  <2>1. /\ task' = [task EXCEPT ![q] = [at |-> "forward", worker |-> s]]
        /\ pending' = Entered(pending, Slot(q), q)
        /\ metadata' = Entered(metadata, Slot(q), [generation |-> s, limit |-> call[q].limit])
        /\ reply' = reply
    BY <1>3, <1>7
  <2>2. /\ \A r \in Requests : r # q => task'[r] = task[r]
        /\ task'[q] = [at |-> "forward", worker |-> s]
    BY <2>1 DEF TasksOK
  <2>3. TasksOK'
    BY <1>4, <2>1 DEF TasksOK
  <2>4. /\ DOMAIN pending' = DOMAIN pending \cup {Slot(q)}
        /\ DOMAIN metadata' = DOMAIN metadata \cup {Slot(q)}
        /\ pending'[Slot(q)] = q /\ metadata'[Slot(q)].generation = s
        /\ \A k \in DOMAIN pending : k # Slot(q) => pending'[k] = pending[k]
        /\ \A k \in DOMAIN metadata : k # Slot(q) => metadata'[k] = metadata[k]
    BY <2>1 DEF Entered
  <2>5. \A k \in DOMAIN pending : pending[k] # q
    BY <1>1 DEF RoutesOK
  <2>6. RoutesOK'
    BY <1>1, <2>2, <2>4, <2>5 DEF RoutesOK, Slot
  <2>7. RepliesOK'
    BY <1>1, <1>2, <2>1, <2>2 DEF RepliesOK, Slot
  <2> QED BY <2>3, <2>6, <2>7
<1> QED BY <1>6, <1>7

\* A task's own steps.
LEMMA TaskStepsKeep ==
  ASSUME TasksOK, RoutesOK, RepliesOK, NEW q \in Requests, TaskStep(q)
  PROVE  TasksOK' /\ RoutesOK' /\ RepliesOK'
<1>1. CASE /\ task[q].at = "forward"
           /\ task' = [task EXCEPT ![q].at = "waiting"]
           /\ UNCHANGED <<reply, pending, metadata, call>>
  <2>1. TasksOK'
    BY <1>1 DEF TasksOK
  <2>2. \A r \in Requests : /\ task'[r].worker = task[r].worker
                            /\ task'[r].at = task[r].at \/ (r = q /\ task'[r].at = "waiting")
    BY <1>1 DEF TasksOK
  <2> QED BY <1>1, <2>1, <2>2 DEF RoutesOK, RepliesOK, Slot
<1>2. CASE Forward(q)
  <2>1. CASE socket[task[q].worker] = "open" /\ Len(outbox[task[q].worker]) < Buffer
    BY <1>1, <1>2, <2>1 DEF Forward
  <2>2. CASE ~(socket[task[q].worker] = "open" /\ Len(outbox[task[q].worker]) < Buffer)
    <3>1. /\ task[q].at = "forward"
          /\ Cleanup(q)
          /\ task' = [task EXCEPT ![q].at = "returning"]
          /\ reply' = [reply EXCEPT ![q] = Rejected("forward_failed")]
          /\ UNCHANGED call
      BY <1>2, <2>2 DEF Forward
    <3> QED BY <3>1, EndingKeeps
  <2> QED BY <2>1, <2>2
<1>3. CASE Returns(q) \/ Resumes(q)
  BY <1>3, EndingKeeps DEF Returns, Resumes, Finished
<1>4. CASE GivesUp(q) \/ LosesChannel(q)
  BY <1>4, EndingKeeps DEF GivesUp, LosesChannel, Done, Finished
<1> QED BY <1>2, <1>3, <1>4 DEF TaskStep

\* The end of a client's connection aborts its tasks and takes out their slots.
LEMMA ClientEndKeeps ==
  ASSUME TasksOK, RoutesOK, RepliesOK, NEW c, ClientEnds(c)
  PROVE  TasksOK' /\ RoutesOK' /\ RepliesOK'
<1> DEFINE aborted == {q \in Requests : /\ call[q].kind = "client" /\ call[q].client = c
                                        /\ task[q].at \notin {"new"} \cup Finished}
           gone == {Slot(q) : q \in aborted}
<1>1. /\ task' = [q \in Requests |->
                    IF q \in aborted THEN [task[q] EXCEPT !.at = "aborted"] ELSE task[q]]
      /\ pending' = Restrict(pending, DOMAIN pending \ gone)
      /\ metadata' = Restrict(metadata, DOMAIN metadata \ gone)
      /\ UNCHANGED <<reply, call>>
  BY DEF ClientEnds
<1>2. TasksOK'
  BY <1>1 DEF TasksOK, Finished
<1>3. \A q \in Requests : /\ task'[q].worker = task[q].worker
                          /\ q \notin aborted => task'[q] = task[q]
                          /\ q \in aborted => task'[q].at = "aborted"
  BY <1>1 DEF TasksOK
<1>4. \A k \in DOMAIN pending \ gone : pending[k] \in Requests \ aborted
  BY DEF RoutesOK
<1>5. RoutesOK'
  BY <1>1, <1>3, <1>4 DEF RoutesOK, Restrict, Slot
<1>6. RepliesOK'
  BY <1>1, <1>3 DEF RepliesOK, Slot
<1> QED BY <1>2, <1>5, <1>6

\* An answer accepted from s goes to the task that was routed to s under its slot.
LEMMA AnswerKeeps ==
  ASSUME TasksOK, RoutesOK, RepliesOK, NEW s, HandleAnswer(s)
  PROVE  TasksOK' /\ RoutesOK' /\ RepliesOK'
<1> DEFINE q == Head(inbox[s])
           owner == pending[Slot(q)]
<1>1. CASE Accepts(s, q)
  <2>1. /\ task' = [task EXCEPT ![owner].at = "answered"]
        /\ reply' = [reply EXCEPT ![owner] = [outcome |-> "ok", from |-> s, of |-> q]]
        /\ Cleanup(q) /\ UNCHANGED call
    BY <1>1 DEF HandleAnswer
  <2>2. /\ owner \in Requests /\ Slot(owner) = Slot(q)
        /\ task[owner].worker = s
    BY <1>1 DEF Accepts, RoutesOK
  <2>3. PICK o \in Requests : o = owner
    BY <2>2
  <2>4. PICK a : a = q
    OBVIOUS
  <2>5. /\ \A r \in Requests : r # o => task'[r] = task[r] /\ reply'[r] = reply[r]
        /\ task'[o].at = "answered" /\ task'[o].worker = s
        /\ reply'[o] = [outcome |-> "ok", from |-> s, of |-> a]
        /\ DOMAIN reply' = Requests
    BY <2>1, <2>2, <2>3, <2>4 DEF TasksOK, RepliesOK
  <2>6. TasksOK'
    BY <2>1, <2>3 DEF TasksOK
  <2>7. Slot(a)' = Slot(a) /\ Slot(o)' = Slot(o) /\ Slot(a) = Slot(o)
    BY <2>1, <2>2, <2>3, <2>4 DEF Slot
  <2>11. \A r : Slot(r)' = Slot(r)
    BY <2>1 DEF Slot
  <2>8. \A k \in DOMAIN pending \ {Slot(a)} : pending[k] # o
    BY <2>7 DEF RoutesOK
  <2>9. RoutesOK'
    <3>1. /\ DOMAIN pending' = DOMAIN pending \ {Slot(a)}
          /\ DOMAIN metadata' = DOMAIN pending \ {Slot(a)}
          /\ \A k \in DOMAIN pending' : pending'[k] = pending[k] /\ metadata'[k] = metadata[k]
      BY <2>1, <2>4, CleanupLeaves DEF RoutesOK
    <3> QED BY <2>5, <2>8, <2>11, <3>1 DEF RoutesOK
  <2>10. RepliesOK'
    <3>1. ASSUME NEW r \in Requests, reply'[r].outcome = "ok"
          PROVE  /\ task'[r].at # "new"
                 /\ reply'[r].from = task'[r].worker
                 /\ Slot(reply[r].of)' = Slot(r)'
      <4>1. CASE r = o
        BY <2>5, <2>7, <4>1
      <4>2. CASE r # o
        <5>1. Slot(reply[r].of) = Slot(r)
          BY <2>5, <3>1, <4>2 DEF RepliesOK
        <5>2. Slot(reply[r].of)' = Slot(reply[r].of) /\ Slot(r)' = Slot(r)
          BY <2>1, <2>5, <4>2 DEF Slot
        <5> QED BY <2>5, <3>1, <4>2, <5>1, <5>2 DEF RepliesOK
      <4> QED BY <4>1, <4>2
    <3> QED BY <2>5, <3>1 DEF RepliesOK
  <2> QED BY <2>6, <2>9, <2>10
<1>2. CASE ~Accepts(s, q)
  BY <1>2 DEF HandleAnswer, routeVars, TasksOK, RoutesOK, RepliesOK, Slot
<1> QED BY <1>1, <1>2

\* What a table of capabilities loses when a key is taken out of it.
LEMMA DeregisteredIs ==
  ASSUME registry = UNION {Advertised(s) : s \in workers}, NEW key
  PROVE  Deregistered(key) = UNION {Advertised(s) : s \in {r \in workers : Key(r) # key}}
<1>1. ASSUME NEW s, NEW entry \in Advertised(s) PROVE entry[1] = Key(s)
  BY DEF Advertised
<1> QED BY <1>1 DEF Deregistered

\* The leaving of s, and of nobody else, keeps the tables of workers agreeing.
LEMMA RemovalKeeps ==
  ASSUME GatewayAssumption, WorkersOK, NEW s \in Sockets, RemoveIfCurrent(s),
         socket' = socket \/ socket' = [socket EXCEPT ![s] = "closed"]
  PROVE  WorkersOK' /\ workers' = workers \ {s}
<1>1. IsFiniteSet(workers)
  BY FS_Subset DEF GatewayAssumption, WorkersOK
<1>2. workers' = workers \ {s}
  BY DEF RemoveIfCurrent
<1>3. /\ socket' \in [Sockets -> {"new", "open", "closed"}]
      /\ \A r \in workers' : socket'[r] # "new"
  BY <1>2 DEF WorkersOK
<1>4. CASE s \in workers
  <2>1. Cardinality(workers) \in Nat \ {0} /\ Cardinality(workers') = Cardinality(workers) - 1
    BY <1>1, <1>2, <1>4, FS_RemoveElement, FS_CardinalityType, FS_EmptySet
  <2>2. activeWorkers' = Cardinality(workers')
    BY <1>4, <2>1 DEF RemoveIfCurrent, WorkersOK
  <2>3. {r \in workers : Key(r) # Key(s)} = workers'
    BY <1>2, <1>4 DEF WorkersOK
  <2>4. registry' = UNION {Advertised(r) : r \in workers'}
    BY <1>4, <2>3, DeregisteredIs DEF RemoveIfCurrent, WorkersOK
  <2> QED BY <1>2, <1>3, <2>2, <2>4 DEF WorkersOK, Advertised, Key
<1>5. CASE s \notin workers
  BY <1>2, <1>3, <1>5 DEF RemoveIfCurrent, WorkersOK, Advertised, Key
<1> QED BY <1>2, <1>4, <1>5

\* A connection that fits takes the place of the one under its key, or a new one.
LEMMA ConnectingKeeps ==
  ASSUME GatewayAssumption, WorkersOK, NEW s \in Sockets, WorkerConnects(s)
  PROVE  /\ WorkersOK'
         /\ \A r \in workers \ workers' : s \in workers' \ workers /\ Key(s) = Key(r)
<1>1. IsFiniteSet(workers) /\ Cardinality(workers) \in Nat
  BY FS_Subset, FS_CardinalityType DEF GatewayAssumption, WorkersOK
<1>2. s \notin workers
  BY DEF WorkerConnects, WorkersOK
<1>3. CASE WorkerFits(s)
  <2>1. /\ socket' = [socket EXCEPT ![s] = "open"]
        /\ workers' = (workers \ Replaced(s)) \cup {s}
        /\ registry' = Deregistered(Key(s)) \cup Advertised(s)
        /\ activeWorkers' = IF Replaced(s) = {} THEN activeWorkers + 1 ELSE activeWorkers
    BY <1>3 DEF WorkerConnects
  <2>2. /\ socket' \in [Sockets -> {"new", "open", "closed"}]
        /\ workers' \subseteq Sockets
        /\ \A r \in workers' : socket'[r] # "new"
    BY <2>1 DEF WorkersOK, Replaced
  <2>3. \A q, r \in workers' : Key(q) = Key(r) => q = r
    BY <2>1 DEF WorkersOK, Replaced
  <2>4. activeWorkers' = Cardinality(workers')
    <3>1. CASE Replaced(s) = {}
      <4>1. Cardinality(workers \cup {s}) = Cardinality(workers) + 1
        BY <1>1, <1>2, FS_AddElement
      <4>2. workers' = workers \cup {s}
        BY <2>1, <3>1
      <4> QED BY <2>1, <3>1, <4>1, <4>2 DEF WorkersOK
    <3>2. CASE Replaced(s) # {}
      <4>1. PICK r \in workers : Key(r) = Key(s) /\ Replaced(s) = {r}
        BY <3>2 DEF Replaced, WorkersOK
      <4>2. /\ IsFiniteSet(workers \ {r})
            /\ Cardinality(workers \ {r}) = Cardinality(workers) - 1
        BY <1>1, <4>1, FS_RemoveElement
      <4>3. Cardinality((workers \ {r}) \cup {s}) = Cardinality(workers \ {r}) + 1
        BY <1>2, <4>2, FS_AddElement
      <4>4. workers' = (workers \ {r}) \cup {s} /\ activeWorkers' = activeWorkers
        BY <2>1, <3>2, <4>1
      <4> QED BY <1>1, <4>2, <4>3, <4>4 DEF WorkersOK
    <3> QED BY <3>1, <3>2
  <2>5. registry' = UNION {Advertised(r) : r \in workers'}
    <3>1. {r \in workers : Key(r) # Key(s)} = workers \ Replaced(s)
      BY DEF Replaced
    <3>2. Deregistered(Key(s)) = UNION {Advertised(r) : r \in workers \ Replaced(s)}
      BY <3>1, DeregisteredIs DEF WorkersOK
    <3> QED BY <2>1, <3>2
  <2>6. WorkersOK'
    BY <2>2, <2>3, <2>4, <2>5 DEF WorkersOK, Advertised, Key
  <2> QED BY <1>2, <2>1, <2>6 DEF Replaced
<1>4. CASE ~WorkerFits(s)
  <2>1. socket' = [socket EXCEPT ![s] = "closed"] /\ UNCHANGED <<workers, registry, activeWorkers>>
    BY <1>4 DEF WorkerConnects
  <2> QED BY <2>1 DEF WorkersOK, Advertised, Key
<1> QED BY <1>3, <1>4

\* A worker leaves the table when its socket closes, it is silent, or one takes its place.
Leaving ==
  \A s \in workers \ workers' :
    \/ socket'[s] = "closed" \/ s \in silent
    \/ \E r \in workers' \ workers : Key(r) = Key(s)

\* Every step keeps the routing and the tables, and takes out no worker without a reason.
LEMMA GatewayStep ==
  ASSUME GatewayAssumption, GatewayInv, [GatewayNext]_gatewayVars
  PROVE  GatewayInv' /\ Leaving
<1> USE DEF GatewayInv
<1>1. ASSUME UNCHANGED <<task, reply, pending, metadata, call>>
      PROVE  TasksOK' /\ RoutesOK' /\ RepliesOK'
  BY <1>1 DEF TasksOK, RoutesOK, RepliesOK, Slot
<1>2. ASSUME UNCHANGED <<socket, workers, registry, activeWorkers>>
      PROVE  WorkersOK' /\ Leaving
  BY <1>2 DEF WorkersOK, Leaving, Advertised, Key
<1>3. ASSUME NEW s \in Sockets, WorkerConnects(s) PROVE GatewayInv' /\ Leaving
  BY <1>1, <1>3, ConnectingKeeps DEF WorkerConnects, routeVars, Leaving
<1>4. ASSUME NEW s \in Sockets, WorkerRefused(s) PROVE GatewayInv' /\ Leaving
  BY <1>1, <1>4 DEF WorkerRefused, Refuse, routeVars, WorkersOK, Leaving, Advertised, Key
<1>5. ASSUME NEW s \in Sockets, Closes(s) PROVE WorkersOK' /\ Leaving
  BY <1>5, RemovalKeeps DEF Closes, WorkersOK, Leaving
<1>6. ASSUME NEW s \in Sockets, SocketEnds(s) PROVE GatewayInv' /\ Leaving
  BY <1>1, <1>5, <1>6 DEF SocketEnds, routeVars
<1>7. ASSUME NEW s \in Sockets, GoesSilent(s) \/ Heartbeat(s) \/ Delivered(s)
      PROVE  GatewayInv' /\ Leaving
  BY <1>1, <1>2, <1>7 DEF GoesSilent, Heartbeat, Delivered, routeVars, socketVars
<1>8. ASSUME NEW s \in Sockets, Prune(s) PROVE GatewayInv' /\ Leaving
  BY <1>1, <1>8, RemovalKeeps DEF Prune, routeVars, Leaving
<1>9. ASSUME NEW s \in Sockets, HandleAnswer(s) PROVE GatewayInv' /\ Leaving
  <2>1. WorkersOK' /\ Leaving
    BY <1>2, <1>5, <1>9 DEF HandleAnswer
  <2> QED BY <1>9, <2>1, AnswerKeeps
<1>10. ASSUME NEW s \in Sockets, NEW q \in Requests, NEW again \in BOOLEAN, WorkerAnswers(s, q, again)
       PROVE  GatewayInv' /\ Leaving
  BY <1>1, <1>2, <1>10 DEF WorkerAnswers, routeVars, socketVars
<1>11. ASSUME NEW c \in Clients, ClientConnects(c) PROVE GatewayInv' /\ Leaving
  BY <1>1, <1>2, <1>11 DEF ClientConnects, routeVars
<1>12. ASSUME NEW c \in Clients, ClientEnds(c) PROVE GatewayInv' /\ Leaving
  BY <1>2, <1>12, ClientEndKeeps DEF ClientEnds
<1>13. ASSUME NEW q \in Requests, RouteRequest(q) PROVE GatewayInv' /\ Leaving
  BY <1>2, <1>13, RoutingKeeps DEF RouteRequest, socketVars
<1>14. ASSUME NEW q \in Requests, TaskStep(q) PROVE GatewayInv' /\ Leaving
  <2>1. UNCHANGED socketVars
    BY <1>14 DEF TaskStep, Forward, Returns, GivesUp, LosesChannel, Resumes
  <2> QED BY <1>2, <1>14, <2>1, TaskStepsKeep DEF socketVars
<1>15. CASE RequestShutdown \/ UNCHANGED gatewayVars
  BY <1>1, <1>2, <1>15 DEF RequestShutdown, gatewayVars, routeVars, socketVars
<1> QED BY <1>3, <1>4, <1>6, <1>7, <1>8, <1>9, <1>10, <1>11, <1>12, <1>13, <1>14, <1>15 DEF GatewayNext

\* A gateway starts with empty tables.
LEMMA GatewayStarts ==
  ASSUME GatewayInit PROVE GatewayInv
<1>1. TasksOK
  BY DEF GatewayInit, TasksOK
<1>2. RoutesOK /\ RepliesOK
  BY DEF GatewayInit, RoutesOK, RepliesOK, NoReply
<1>3. activeWorkers = Cardinality(workers)
  BY FS_EmptySet DEF GatewayInit
<1> QED BY <1>1, <1>2, <1>3 DEF GatewayInit, GatewayInv, WorkersOK

\* A caller is answered by the very connection its request was routed to and under its
\* own id and tenant, for any number of connections, requests and ids used twice, and
\* whatever was replaced, pruned, aborted or answered late (router.rs, mesh.rs).
THEOREM AnswersAreTheWorkersAsked ==
  ASSUME GatewayAssumption
  PROVE  GatewaySpec => []AnswersComeFromTheWorkerAsked
<1>1. GatewayInit => GatewayInv
  BY GatewayStarts
<1>2. GatewayInv /\ [GatewayNext]_gatewayVars => GatewayInv'
  BY GatewayStep
<1>3. GatewayInv => AnswersComeFromTheWorkerAsked
  BY DEF GatewayInv, RepliesOK, AnswersComeFromTheWorkerAsked
<1> QED BY <1>1, <1>2, <1>3, PTL DEF GatewaySpec

\* The tables of workers, capabilities and waiting requests agree with one another and
\* with the tasks, and no worker is taken out of them by the late end of another
\* connection, for any connections and requests (registry.rs, tenant.rs, heartbeat.rs).
THEOREM GatewayTablesAreAccounted ==
  ASSUME GatewayAssumption
  PROVE  GatewaySpec => TablesAreAccounted
<1>1. GatewayInit => GatewayInv
  BY GatewayStarts
<1>2. GatewayInv /\ [GatewayNext]_gatewayVars => GatewayInv'
  BY GatewayStep
<1>3. GatewayInv => TablesAgree
  BY DEF GatewayInv, RoutesOK, WorkersOK, TablesAgree
<1>4. GatewayInv /\ [GatewayNext]_gatewayVars =>
        [\A s \in workers \ workers' :
           \/ socket'[s] = "closed" \/ s \in silent
           \/ \E r \in workers' \ workers : Key(r) = Key(s)]_gatewayVars
  BY GatewayStep DEF Leaving
<1> QED BY <1>1, <1>2, <1>3, <1>4, PTL DEF GatewaySpec, TablesAreAccounted

(***************************************************************************)
(* The file storage.                                                       *)
(***************************************************************************)

\* What the lock holder may be doing: recovering, taking or restoring a snapshot.
Sections ==
  {Closed}
    \cup [op : {"recover"}, at : {"promote", "drop_pending", "drop_previous"}, name : {Nothing}]
    \cup [op : {"snapshot"}, at : {"populate"}, name : Snapshots]
    \cup [op : {"restore"},
          at : {"promote", "drop_pending", "drop_previous", "copy", "copied", "aside", "placed"},
          name : Snapshots]

StorageTypeOK ==
  /\ {root, pendingRoot, previousRoot} \subseteq Trees \cup {NoTree}
  /\ owed \subseteq Trees
  /\ backups \in [Snapshots -> {NoTree} \cup [manifest : Trees, data : Trees]]
  /\ section \in Sections
  /\ opener \in {"idle", "mkdir"}
  /\ fresh \in BOOLEAN
  /\ rekeying.path # Nothing => rekeying.file \in Files \ {Nothing}

\* A storage opened since the last error has its root, but for the moment between the two
\* renames of a restore; then both siblings are good. Before them pending is the snapshot.
RestoreOK ==
  /\ section # Closed => opener = "idle"
  /\ section.op = "restore" => fresh
  /\ fresh /\ section.at # "aside" => Present(root)
  /\ section.at \in {"copied", "aside"} =>
       /\ Present(backups[section.name])
       /\ pendingRoot = backups[section.name].manifest
  /\ section.at = "aside" => root = NoTree /\ previousRoot \in owed

\* Once recovery has looked for a root, a missing one has no sibling.
PromoteOK ==
  section.at \in {"drop_pending", "drop_previous"} \/ opener = "mkdir" =>
    Present(root) \/ (pendingRoot = NoTree /\ previousRoot = NoTree)

StorageInv == StorageTypeOK /\ RestoreOK /\ PromoteOK /\ LastGoodRootSurvives

\* A snapshot that verifies holds what its manifest lists, and nothing else.
LEMMA VerifiedIsWhole ==
  ASSUME StorageAssumption, NEW b \in [manifest : Trees, data : Trees], Verified(b)
  PROVE  b.data = b.manifest
<1> DEFINE held == {p \in Paths : b.data[p] # Nothing}
           listed == {p \in Paths : b.manifest[p] # Nothing}
<1>1. listed \subseteq held
  BY DEF Verified
<1>2. IsFiniteSet(held) /\ IsFiniteSet(listed)
  BY FS_Subset DEF StorageAssumption
<1>3. held = listed
  BY <1>1, <1>2, FS_Subset DEF Verified
<1>4. \A p \in Paths : b.data[p] = b.manifest[p]
  BY <1>3 DEF Verified
<1> QED BY <1>4 DEF Trees

\* A file that a caller may write is one, and a tree with it in place is a tree.
LEMMA WritingKeepsTrees ==
  ASSUME NEW t \in Trees, NEW p, NEW file \in Files
  PROVE  [t EXCEPT ![p] = file] \in Trees
  BY DEF Trees

\* What recovery would make of the root, told apart by what is there.
LEMMA RecoveredIs ==
  /\ Present(root) => Recovered = root
  /\ ~Present(root) /\ Present(pendingRoot) => Recovered = pendingRoot
  /\ ~Present(root) /\ ~Present(pendingRoot) /\ Present(previousRoot) => Recovered = previousRoot
  /\ ~Present(root) /\ ~Present(pendingRoot) /\ ~Present(previousRoot) => Recovered = Empty
  BY DEF Recovered

\* Writes go to a root that is there, and are owed from then on.
LEMMA WritesKeep ==
  ASSUME StorageAssumption, OneCaller, StorageInv, NEW p, NEW file \in Files,
         \/ WriteBytes(p, file)
         \/ \E replaced \in BOOLEAN, crashed \in BOOLEAN : WriteFails(p, file, replaced, crashed),
         rekeying' = rekeying \/ rekeying'.path = Nothing
  PROVE  StorageInv'
<1>1. /\ section = Closed /\ opener = "idle" /\ fresh
      /\ UNCHANGED <<pendingRoot, previousRoot, backups, section>>
      /\ opener' = "idle"
      /\ fresh' \in BOOLEAN
  BY DEF WriteBytes, WriteFails, Usable, LockFree, StorageInv, StorageTypeOK
<1>2. root \in Trees /\ Present(root) /\ root \in owed
  BY <1>1, RecoveredIs DEF StorageInv, StorageTypeOK, RestoreOK, LastGoodRootSurvives, Present, Closed
<1>3. Put(p, file) = [root EXCEPT ![p] = file] /\ Put(p, file) \in Trees
  BY <1>2, WritingKeepsTrees DEF Put
<1>4. {[t EXCEPT ![p] = file] : t \in owed} \subseteq Trees
  <2>1. ASSUME NEW t \in owed PROVE [t EXCEPT ![p] = file] \in Trees
    BY WritingKeepsTrees DEF StorageInv, StorageTypeOK
  <2> QED BY <2>1
<1>5. root' \in Trees /\ root' \in owed' /\ owed' \subseteq Trees
  <2>1. CASE WriteBytes(p, file)
    BY <1>2, <1>3, <1>4, <2>1 DEF WriteBytes
  <2>2. CASE \E replaced \in BOOLEAN, crashed \in BOOLEAN : WriteFails(p, file, replaced, crashed)
    BY <1>2, <1>3, <1>4, <2>2 DEF WriteFails, StorageInv, StorageTypeOK
  <2> QED BY <2>1, <2>2
<1>6. Present(root)'
  BY <1>5 DEF Present, StorageAssumption
<1>7. StorageTypeOK'
  BY <1>1, <1>5 DEF StorageInv, StorageTypeOK
<1>8. RestoreOK' /\ PromoteOK'
  BY <1>1, <1>6 DEF RestoreOK, PromoteOK, Closed
<1>9. LastGoodRootSurvives'
  BY <1>5, <1>6 DEF LastGoodRootSurvives, Recovered
<1> QED BY <1>7, <1>8, <1>9 DEF StorageInv

\* Every kind of write: plain, sealed, remote, and the second half of a rekeying.
LEMMA WritersKeep ==
  ASSUME StorageAssumption, OneCaller, StorageInv,
         \/ \E p \in Paths : Write(p) \/ RemoteWrite(p)
         \/ \E k \in HeldKeys : RekeyWrites(k)
  PROVE  StorageInv'
<1>1. Writable \subseteq Files /\ RemoteSealed \in Files
  BY DEF Writable, RemoteSealed, Files, Plain, Sealed, Seals
<1>2. CASE \E p \in Paths : Write(p) \/ RemoteWrite(p)
  BY <1>1, <1>2, WritesKeep DEF Write, RemoteWrite
<1>3. ASSUME NEW k \in HeldKeys, RekeyWrites(k) PROVE StorageInv'
  <2>1. rekeying.file \in Files \ {Nothing}
    BY <1>3 DEF RekeyWrites, StorageInv, StorageTypeOK
  <2>2. Sealed(rekeying.file.data, k) \in Files
    BY <2>1 DEF Sealed, Files
  <2>3. rekeying'.path = Nothing
    BY <1>3 DEF RekeyWrites
  <2> QED BY <1>3, <2>2, <2>3, WritesKeep DEF RekeyWrites
<1> QED BY <1>2, <1>3

\* Where a section stands decides its operation; the steps move along one operation.
LEMMA SectionSteps ==
  ASSUME section \in Sections
  PROVE  /\ section.at \in {"copy", "copied", "aside", "placed"} =>
              section.op = "restore" /\ section.name \in Snapshots
         /\ section.at \in {"promote", "drop_pending", "drop_previous"} => section.op \in {"recover", "restore"}
         /\ section.at = "promote" => [section EXCEPT !.at = "drop_pending"] \in Sections
         /\ section.at = "drop_pending" => [section EXCEPT !.at = "drop_previous"] \in Sections
         /\ section.at = "drop_previous" /\ section.op = "restore" =>
              [section EXCEPT !.at = "copy"] \in Sections
         /\ section.op = "restore" =>
              \A at \in {"copied", "aside", "placed"} : [section EXCEPT !.at = at] \in Sections
         /\ \A at : /\ [section EXCEPT !.at = at].at = at
                    /\ [section EXCEPT !.at = at].op = section.op
                    /\ [section EXCEPT !.at = at].name = section.name
  BY DEF Sections, Closed

\* Recovery: the root is taken from pending or previous, then the siblings are dropped.
LEMMA RecoveryKeeps ==
  ASSUME StorageAssumption, OneCaller, StorageInv, Promote \/ DropPendingRoot \/ DropPreviousRoot
  PROVE  StorageInv'
<1> USE DEF StorageInv
<1>0. section \in Sections
  BY DEF StorageTypeOK
<1>1. CASE Promote
  <2>1. /\ section.at = "promote" /\ section' = [section EXCEPT !.at = "drop_pending"]
        /\ UNCHANGED <<backups, rekeying, opener, fresh, owed>>
    BY <1>1 DEF Promote, Advance, Aside
  <2>2. section' \in Sections /\ section'.at = "drop_pending" /\ section'.op = section.op
    BY <1>0, <2>1, SectionSteps
  <2>3. Recovered' = Recovered /\ (Present(root) => Present(root)')
    BY <1>1 DEF Promote, Recovered, Present
  <2>4. StorageTypeOK'
    BY <1>1, <2>1, <2>2 DEF Promote, StorageTypeOK
  <2>5. RestoreOK'
    BY <2>1, <2>2, <2>3 DEF RestoreOK, Closed
  <2>6. PromoteOK'
    BY <1>1 DEF Promote, PromoteOK, Present
  <2>7. LastGoodRootSurvives'
    BY <2>1, <2>3 DEF LastGoodRootSurvives
  <2> QED BY <2>4, <2>5, <2>6, <2>7
<1>2. CASE DropPendingRoot
  <2>1. /\ section.at = "drop_pending" /\ section' = [section EXCEPT !.at = "drop_previous"]
        /\ pendingRoot' = IF Present(root) THEN NoTree ELSE pendingRoot
        /\ UNCHANGED <<root, previousRoot, backups, rekeying, opener, fresh, owed>>
    BY <1>2 DEF DropPendingRoot, Advance, Aside
  <2>2. section' \in Sections /\ section'.at = "drop_previous" /\ section'.op = section.op
    BY <1>0, <2>1, SectionSteps
  <2>3. Recovered' = Recovered
    BY <2>1 DEF Recovered, Present
  <2>4. StorageTypeOK'
    BY <2>1, <2>2 DEF StorageTypeOK
  <2>5. RestoreOK' /\ PromoteOK'
    BY <2>1, <2>2 DEF RestoreOK, PromoteOK, Closed, Present
  <2> QED BY <2>1, <2>3, <2>4, <2>5 DEF LastGoodRootSurvives
<1>3. CASE DropPreviousRoot
  <2>1. /\ section.at = "drop_previous"
        /\ previousRoot' = IF Present(root) THEN NoTree ELSE previousRoot
        /\ owed' = IF Present(root) /\ root \in owed THEN {root} ELSE owed
        /\ IF section.op = "restore"
           THEN section' = [section EXCEPT !.at = "copy"] /\ opener' = opener
           ELSE section' = Closed /\ opener' = "mkdir"
        /\ UNCHANGED <<root, pendingRoot, backups, rekeying, fresh>>
    BY <1>3 DEF DropPreviousRoot, Advance, Finish, Aside
  <2>2. /\ section' \in Sections
        /\ \/ section'.at = "copy" /\ section'.op = "restore" /\ section.op = "restore" /\ opener' = opener
           \/ section' = Closed /\ opener' = "mkdir"
    <3>1. CASE section.op = "restore"
      BY <1>0, <2>1, <3>1, SectionSteps
    <3>2. CASE section.op # "restore"
      BY <2>1, <3>2 DEF Sections
    <3> QED BY <3>1, <3>2
  <2>3. Recovered' = Recovered /\ Recovered \in owed'
    BY <2>1 DEF Recovered, Present, LastGoodRootSurvives
  <2>4. StorageTypeOK'
    BY <2>1, <2>2 DEF StorageTypeOK
  <2>5. RestoreOK' /\ PromoteOK'
    BY <2>1, <2>2 DEF RestoreOK, PromoteOK, Closed, Present
  <2> QED BY <2>3, <2>4, <2>5 DEF LastGoodRootSurvives
<1> QED BY <1>1, <1>2, <1>3

\* A restore: the verified copy, the two renames, and the old root's removal.
LEMMA RestoreKeeps ==
  ASSUME StorageAssumption, OneCaller, StorageInv,
         CopyVerified \/ SetAside \/ PutInPlace \/ RemovePrevious
  PROVE  StorageInv'
<1> USE DEF StorageInv
<1>0. section \in Sections
  BY DEF StorageTypeOK
<1>1. /\ section.op = "restore" /\ section.at \in {"copy", "copied", "aside", "placed"}
      /\ section.name \in Snapshots
      /\ opener = "idle" /\ fresh
  BY <1>0, SectionSteps DEF CopyVerified, SetAside, PutInPlace, RemovePrevious, SectionAt, RestoreOK, Closed
<1>2. CASE CopyVerified
  <2> DEFINE b == backups[section.name]
  <2>1. /\ section.at = "copy"
        /\ UNCHANGED <<root, previousRoot, backups, rekeying, opener, fresh, owed>>
    BY <1>2 DEF CopyVerified, SectionAt, Aside
  <2>2. Present(root)
    BY <1>1, <2>1 DEF RestoreOK
  <2>3. CASE Present(b) /\ Verified(b)
    <3>1. pendingRoot' = b.data /\ section' = [section EXCEPT !.at = "copied"]
      BY <1>2, <2>3 DEF CopyVerified, Advance
    <3>2. b \in [manifest : Trees, data : Trees]
      BY <1>1, <2>3 DEF StorageTypeOK, Present
    <3>3. b.data = b.manifest /\ b.data \in Trees
      BY <2>3, <3>2, VerifiedIsWhole
    <3>4. /\ section' \in Sections /\ section'.at = "copied" /\ section'.op = "restore"
          /\ section'.name = section.name
      BY <1>0, <1>1, <3>1, SectionSteps
    <3>5. StorageTypeOK'
      BY <2>1, <3>1, <3>3, <3>4 DEF StorageTypeOK
    <3>6. RestoreOK' /\ PromoteOK'
      BY <1>1, <2>1, <2>2, <2>3, <3>1, <3>3, <3>4 DEF RestoreOK, PromoteOK, Present
    <3>7. LastGoodRootSurvives'
      BY <2>1, <2>2 DEF LastGoodRootSurvives, Recovered, Present
    <3> QED BY <3>5, <3>6, <3>7
  <2>4. CASE ~(Present(b) /\ Verified(b))
    <3>1. pendingRoot' = pendingRoot /\ section' = Closed
      BY <1>2, <2>4 DEF CopyVerified, Finish
    <3>2. StorageTypeOK'
      BY <2>1, <3>1 DEF StorageTypeOK, Sections
    <3> QED BY <1>1, <2>1, <2>2, <3>1, <3>2
            DEF RestoreOK, PromoteOK, LastGoodRootSurvives, Recovered, Present, Closed
  <2> QED BY <2>3, <2>4
<1>3. CASE SetAside
  <2>1. /\ section.at = "copied" /\ Present(root)
        /\ previousRoot' = root /\ root' = NoTree
        /\ owed' = owed \cup {backups[section.name].manifest}
        /\ section' = [section EXCEPT !.at = "aside"]
        /\ UNCHANGED <<pendingRoot, backups, rekeying, opener, fresh>>
    BY <1>3 DEF SetAside, SectionAt, Advance, Aside
  <2>2. /\ section' \in Sections /\ section'.at = "aside" /\ section'.op = "restore"
        /\ section'.name = section.name
    BY <1>0, <1>1, <2>1, SectionSteps
  <2>3. /\ pendingRoot = backups[section.name].manifest /\ Present(backups[section.name])
        /\ pendingRoot \in Trees /\ Present(pendingRoot)
    BY <1>1, <2>1 DEF RestoreOK, StorageTypeOK, Present, StorageAssumption
  <2>4. root \in owed
    BY <2>1, RecoveredIs DEF LastGoodRootSurvives
  <2>5. StorageTypeOK'
    BY <2>1, <2>2, <2>3 DEF StorageTypeOK
  <2>6. RestoreOK' /\ PromoteOK'
    BY <1>1, <2>1, <2>2, <2>3, <2>4 DEF RestoreOK, PromoteOK, Present
  <2>7. LastGoodRootSurvives'
    BY <2>1, <2>3 DEF LastGoodRootSurvives, Recovered, Present
  <2> QED BY <2>5, <2>6, <2>7
<1>4. CASE PutInPlace
  <2>1. /\ section.at = "aside"
        /\ root = NoTree /\ pendingRoot \in Trees /\ Present(pendingRoot)
    BY <1>1, <1>4 DEF PutInPlace, SectionAt, RestoreOK, StorageTypeOK, Present, StorageAssumption
  <2>2. /\ root' = pendingRoot /\ pendingRoot' = NoTree
        /\ section' = [section EXCEPT !.at = "placed"]
        /\ UNCHANGED <<previousRoot, backups, rekeying, opener, fresh, owed>>
    BY <1>4, <2>1 DEF PutInPlace, MayReplaceRoot, Present, Advance, Aside
  <2>3. /\ section' \in Sections /\ section'.at = "placed" /\ section'.op = "restore"
    BY <1>0, <1>1, <2>2, SectionSteps
  <2>4. StorageTypeOK'
    BY <2>2, <2>3 DEF StorageTypeOK
  <2>5. RestoreOK' /\ PromoteOK'
    BY <1>1, <2>1, <2>2, <2>3 DEF RestoreOK, PromoteOK, Present
  <2>6. LastGoodRootSurvives'
    BY <2>1, <2>2 DEF LastGoodRootSurvives, Recovered, Present
  <2> QED BY <2>4, <2>5, <2>6
<1>5. CASE RemovePrevious
  <2>1. /\ section.at = "placed" /\ previousRoot' = NoTree /\ section' = Closed
        /\ owed' = IF root \in owed THEN {root} ELSE owed
        /\ UNCHANGED <<root, pendingRoot, backups, rekeying, opener, fresh>>
    BY <1>5 DEF RemovePrevious, SectionAt, Finish, Aside
  <2>2. Present(root) /\ root \in owed /\ root \in Trees
    BY <1>1, <2>1, RecoveredIs DEF RestoreOK, LastGoodRootSurvives, StorageTypeOK, Present
  <2>3. StorageTypeOK'
    BY <2>1, <2>2 DEF StorageTypeOK, Sections
  <2> QED BY <1>1, <2>1, <2>2, <2>3
          DEF RestoreOK, PromoteOK, LastGoodRootSurvives, Recovered, Present, Closed
<1> QED BY <1>2, <1>3, <1>4, <1>5

\* A failed call or a crash, at any point of a section, leaves something good to recover.
LEMMA FaultsKeep ==
  ASSUME StorageAssumption, OneCaller, StorageInv, Fails \/ Crashes
  PROVE  StorageInv'
<1> USE DEF StorageInv
<1>0. section \in Sections
  BY DEF StorageTypeOK
<1>1. /\ section' = Closed /\ ~fresh' /\ fresh' \in BOOLEAN
      /\ opener' \in {"idle", opener}
      /\ section # Closed => opener' = "idle"
      /\ UNCHANGED <<backups, owed>>
      /\ rekeying' = rekeying \/ rekeying'.path = Nothing
  <2>1. fresh' = FALSE
    BY Zenon DEF Fails, Crashes
  <2>2. CASE Fails
    BY <2>1, <2>2 DEF Fails, Finish, Aside, RestoreOK
  <2>3. CASE Crashes
    <3>1. rekeying' = [path |-> Nothing, file |-> Nothing]
      BY <2>3 DEF Crashes
    <3>2. rekeying'.path = Nothing
      BY <3>1
    <3> QED BY <2>1, <2>3, <3>2 DEF Crashes
  <2> QED BY <2>2, <2>3
<1>2. \/ UNCHANGED <<root, previousRoot>>
      \/ /\ section.at = "aside" /\ root' = previousRoot /\ previousRoot' = NoTree
  BY DEF Fails, Crashes, SectionAt
<1>3. \/ pendingRoot' = pendingRoot
      \/ section.at = "copy" /\ section.op = "restore" /\ pendingRoot' = Empty
  BY DEF Fails, Crashes, Leaves, SectionAt
<1>4. Empty \in Trees
  BY DEF Empty, Trees, Files
<1>5. StorageTypeOK'
  BY <1>1, <1>2, <1>3, <1>4 DEF StorageTypeOK, Sections
<1>6. CASE UNCHANGED <<root, previousRoot, pendingRoot>>
  <2>1. PromoteOK' /\ RestoreOK'
    <3>1. opener' = "mkdir" => opener = "mkdir"
      BY <1>1
    <3> QED BY <1>1, <1>6, <3>1 DEF PromoteOK, RestoreOK, Closed, Present
  <2> QED BY <1>1, <1>5, <1>6, <2>1 DEF LastGoodRootSurvives, Recovered, Present
<1>7. CASE section.at = "copy" /\ section.op = "restore" /\ UNCHANGED <<root, previousRoot>>
  <2>1. Present(root) /\ opener' = "idle"
    BY <1>1, <1>7 DEF RestoreOK, Closed
  <2> QED BY <1>1, <1>5, <1>7, <2>1
          DEF LastGoodRootSurvives, Recovered, Present, PromoteOK, RestoreOK, Closed
<1>8. CASE section.at = "aside" /\ root' = previousRoot /\ previousRoot' = NoTree
  <2>1. previousRoot \in owed /\ previousRoot \in Trees /\ opener' = "idle"
    BY <1>1, <1>8 DEF RestoreOK, StorageTypeOK, Closed
  <2>2. Present(root)'
    BY <1>8, <2>1 DEF Present, StorageAssumption
  <2> QED BY <1>1, <1>5, <1>8, <2>1, <2>2
          DEF LastGoodRootSurvives, Recovered, Present, PromoteOK, RestoreOK, Closed
<1> QED BY <1>2, <1>3, <1>6, <1>7, <1>8

\* The beginning of a section, and what leaves the directories alone.
LEMMA BeginningsKeep ==
  ASSUME StorageAssumption, OneCaller, StorageInv,
         \/ CreateDirs \/ Populate \/ CleanupTempFiles
         \/ \E n \in Snapshots : CreateSnapshot(n) \/ RestoreSnapshot(n)
         \/ \E n \in Snapshots, p \in Paths, file \in {Nothing, Plain(2)} : Damage(n, p, file)
         \/ \E p \in Paths : RekeyReads(p)
         \/ UNCHANGED storageVars
  PROVE  StorageInv'
<1> USE DEF StorageInv
<1>1. CASE CreateDirs \/ \E n \in Snapshots : CreateSnapshot(n) \/ RestoreSnapshot(n)
  <2>1. PICK op, at, name :
          /\ BeginSection(op, name, at)
          /\ [op |-> op, at |-> at, name |-> name] \in Sections
          /\ at \in {"promote", "populate"}
          /\ op = "restore" => fresh
          /\ section = Closed /\ opener = "idle"
    BY <1>1 DEF CreateDirs, CreateSnapshot, RestoreSnapshot, Usable, LockFree, Sections
  <2>2. /\ section' \in Sections /\ section'.at \in {"promote", "populate"}
        /\ section'.op = "restore" => fresh
        /\ UNCHANGED <<root, pendingRoot, previousRoot, backups, opener, fresh, rekeying, owed>>
    BY <2>1 DEF BeginSection
  <2> QED BY <2>1, <2>2
          DEF StorageTypeOK, RestoreOK, PromoteOK, LastGoodRootSurvives, Recovered, Present, Closed
<1>2. CASE Populate
  <2>1. /\ section.at = "populate" /\ section.op = "snapshot" /\ section' = Closed
        /\ UNCHANGED <<root, pendingRoot, previousRoot, opener, fresh, rekeying, owed>>
    BY <1>2 DEF Populate, SectionAt, Finish
  <2>2. section.name \in Snapshots /\ section # Closed
    BY <2>1 DEF StorageTypeOK, Sections, Closed
  <2>3. backups' \in [Snapshots -> {NoTree} \cup [manifest : Trees, data : Trees]]
    BY <1>2, <2>2 DEF Populate, StorageTypeOK, Present
  <2> QED BY <2>1, <2>2, <2>3
          DEF StorageTypeOK, RestoreOK, PromoteOK, LastGoodRootSurvives, Recovered, Present, Closed, Sections
<1>3. ASSUME NEW n \in Snapshots, NEW p \in Paths, NEW file \in {Nothing, Plain(2)}, Damage(n, p, file)
      PROVE  StorageInv'
  <2>1. /\ Present(backups[n]) /\ backups' = [backups EXCEPT ![n].data[p] = file]
        /\ UNCHANGED <<root, pendingRoot, previousRoot, section, opener, fresh, rekeying, owed>>
    BY <1>3 DEF Damage
  <2>2. backups[n] \in [manifest : Trees, data : Trees] /\ file \in Files
    BY <2>1 DEF StorageTypeOK, Present, Files, Plain
  <2>3. [backups[n].data EXCEPT ![p] = file] \in Trees
    BY <2>2, WritingKeepsTrees
  <2>4. backups' = [backups EXCEPT ![n] = [manifest |-> backups[n].manifest,
                                           data |-> [backups[n].data EXCEPT ![p] = file]]]
    <3> DEFINE tree == [backups[n].data EXCEPT ![p] = file]
    <3>1. [backups[n] EXCEPT !.data = tree] = [manifest |-> backups[n].manifest, data |-> tree]
      BY <2>2
    <3>2. backups' = [backups EXCEPT ![n] = [backups[n] EXCEPT !.data = tree]]
      BY <2>1
    <3> QED BY <3>1, <3>2
  <2>5. /\ backups' \in [Snapshots -> {NoTree} \cup [manifest : Trees, data : Trees]]
        /\ \A m \in Snapshots : /\ backups'[m].manifest = backups[m].manifest \/ ~Present(backups[m])
                                /\ Present(backups[m]) => Present(backups'[m])
    BY <2>2, <2>3, <2>4 DEF StorageTypeOK, Present, StorageAssumption
  <2>6. StorageTypeOK'
    BY <2>1, <2>5 DEF StorageTypeOK
  <2>7. RestoreOK'
    <3>1. section.at \in {"copied", "aside"} => section.name \in Snapshots
      BY SectionSteps DEF StorageTypeOK
    <3> QED BY <2>1, <2>5, <3>1 DEF RestoreOK, Present
  <2> QED BY <2>1, <2>6, <2>7 DEF PromoteOK, LastGoodRootSurvives, Recovered, Present
<1>4. ASSUME NEW p \in Paths, RekeyReads(p) PROVE StorageInv'
  <2>1. /\ Present(root) /\ root[p] # Nothing
        /\ rekeying' = [path |-> p, file |-> root[p]]
        /\ UNCHANGED <<root, pendingRoot, previousRoot, backups, section, opener, fresh, owed>>
    BY <1>4 DEF RekeyReads, OpensSealed
  <2>2. rekeying'.file \in Files \ {Nothing}
    BY <2>1 DEF StorageTypeOK, Present, Trees
  <2> QED BY <2>1, <2>2
          DEF StorageTypeOK, RestoreOK, PromoteOK, LastGoodRootSurvives, Recovered, Present
<1>5. CASE CleanupTempFiles \/ UNCHANGED storageVars
  BY <1>5 DEF CleanupTempFiles, storageVars, StorageTypeOK, RestoreOK, PromoteOK, LastGoodRootSurvives,
              Recovered, Present
<1> QED BY <1>1, <1>2, <1>3, <1>4, <1>5

\* The root made at the end of create_dirs replaces nothing that could be recovered.
LEMMA MakingRootKeeps ==
  ASSUME StorageAssumption, StorageInv, MakeRoot
  PROVE  StorageInv'
<1> USE DEF StorageInv
<1>1. /\ opener = "mkdir" /\ root' = IF Present(root) THEN root ELSE Empty
      /\ opener' = "idle" /\ fresh' = TRUE
      /\ UNCHANGED <<pendingRoot, previousRoot, section, owed, backups, rekeying>>
  BY DEF MakeRoot, Aside
<1>2. section = Closed
  BY <1>1 DEF RestoreOK
<1>3. root' \in Trees /\ root' \in owed
  BY <1>1, RecoveredIs
     DEF PromoteOK, LastGoodRootSurvives, Present, StorageTypeOK, Empty, Trees, Files
<1>4. Present(root)'
  BY <1>3 DEF Present, StorageAssumption
<1>5. StorageTypeOK'
  BY <1>1, <1>3 DEF StorageTypeOK
<1> QED BY <1>1, <1>2, <1>3, <1>4, <1>5
        DEF RestoreOK, PromoteOK, LastGoodRootSurvives, Recovered, Closed

\* For any paths, snapshots, writes and keys, and any number of failed calls and crashes
\* anywhere in a restore: the root, as it is or as recovery makes it, holds what is owed.
\* One caller, that opens the storage again after an error (the run restore shows what
\* another caller in between can do).
THEOREM InterruptedRestoresLoseNothing ==
  ASSUME StorageAssumption, OneCaller
  PROVE  StorageSpec => []LastGoodRootSurvives
<1>1. StorageInit => StorageInv
  <2> SUFFICES ASSUME StorageInit PROVE StorageInv
    OBVIOUS
  <2>1. Empty \in Trees
    BY DEF Empty, Trees, Files
  <2>2. StorageTypeOK
    BY <2>1 DEF StorageInit, StorageTypeOK, Sections
  <2> QED BY <2>2 DEF StorageInit, StorageInv, RestoreOK, PromoteOK, LastGoodRootSurvives, Recovered,
                      Present, Closed
<1>2. StorageInv /\ [StorageNext]_storageVars => StorageInv'
  BY WritersKeep, RecoveryKeeps, RestoreKeeps, FaultsKeep, BeginningsKeep, MakingRootKeeps
     DEF StorageNext, Restoring
<1>3. StorageInv => LastGoodRootSurvives
  BY DEF StorageInv
<1> QED BY <1>1, <1>2, <1>3, PTL DEF StorageSpec
=============================================================================
