-------------------------- MODULE CoordinationStore -------------------------
(***************************************************************************)
(* FileCoordinationStore (appcore-provider, coordination.rs): the metadata *)
(* of the coordination schema, migrated forward when the store is opened   *)
(* and after a restore.  Threads of one process share the handle; the      *)
(* process may crash between any two steps.  Metadata is its version and   *)
(* whether its tables are the ones of the latest schema.                   *)
(***************************************************************************)
EXTENDS Naturals

CONSTANTS
  StoreThreads,
  LatestSchema,    \* COORDINATION_SCHEMA_VERSION
  FoundMetadata,   \* what may be in the directory before the first open
  FoundBackups,    \* backups of this and other releases
  NoMetadata,
  MaxStoreFaults   \* bound on crashes and failed writes

VARIABLES
  metadataFile, \* the metadata file, or NoMetadata
  backupFile,   \* the backup backup_to writes and restore_from reads
  handle,       \* "closed", "migrated" (open, not yet checked) or "open"
  restoring,    \* per thread: inside restore_from, between its two locks
  stale,        \* history: a restore failed half way since the store was opened
  storeFaults

storeVars == <<metadataFile, backupFile, handle, restoring, stale, storeFaults>>

Latest == [version |-> LatestSchema, tables |-> TRUE]

StoreInit ==
  /\ metadataFile \in FoundMetadata /\ backupFile \in FoundBackups
  /\ handle = "closed"
  /\ restoring = [t \in StoreThreads |-> FALSE]
  /\ stale = FALSE /\ storeFaults = 0

\* Forward only: any tables, but no version of the future, and not 0 (which
\* no release writes, though validate_metadata would let it be restored).
Migratable(m) == m.version \in 1..LatestSchema

\* validate_metadata: no version of the future, and the tables of this schema.
Valid(m) == m.version <= LatestSchema /\ m.tables

\* write_atomic: the temporary file is renamed into place, or an error leaves
\* the old file (or, when only the directory's sync failed, the new one).
Written(file, new, ok) ==
  IF ok THEN file' = new /\ UNCHANGED storeFaults
  ELSE /\ storeFaults < MaxStoreFaults /\ storeFaults' = storeFaults + 1
       /\ file' \in {file, new}

Migrates(ok) ==
  /\ metadataFile # NoMetadata => Migratable(metadataFile)
  /\ Written(metadataFile, Latest, ok)

\* open: migrate under the lock, then ensure_compatible outside it.
Open(ok) ==
  /\ handle = "closed"
  /\ Migrates(ok)
  /\ handle' = IF ok THEN "migrated" ELSE "closed"
  /\ stale' = FALSE
  /\ UNCHANGED <<backupFile, restoring>>

\* health (no lock), then the version: refused below the latest.
EnsureCompatible ==
  /\ handle = "migrated"
  /\ handle' = IF Valid(metadataFile) /\ metadataFile.version >= LatestSchema THEN "open" ELSE "closed"
  /\ UNCHANGED <<metadataFile, backupFile, restoring, stale, storeFaults>>

BackupTo(ok) ==
  /\ handle = "open"
  /\ Valid(metadataFile)
  /\ Written(backupFile, metadataFile, ok)
  /\ UNCHANGED <<metadataFile, handle, restoring, stale>>

\* Slip: the backup is taken as it is.
RestoreUnchecked(t, ok) ==
  /\ handle = "open" /\ ~restoring[t]
  /\ backupFile # NoMetadata
  /\ Written(metadataFile, backupFile, ok)
  /\ restoring' = [restoring EXCEPT ![t] = ok]
  /\ stale' = (stale \/ ~ok)
  /\ UNCHANGED <<backupFile, handle>>

\* restore_from: a backup that validates replaces the file under the lock,
\* which is dropped before migrate takes it again.
RestoreWrites(t, ok) ==
  /\ handle = "open" /\ ~restoring[t]
  /\ backupFile # NoMetadata /\ Valid(backupFile)
  /\ Written(metadataFile, backupFile, ok)
  /\ restoring' = [restoring EXCEPT ![t] = ok]
  /\ stale' = (stale \/ ~ok)
  /\ UNCHANGED <<backupFile, handle>>

RestoreMigrates(t, ok) ==
  /\ handle = "open" /\ restoring[t]
  /\ Migrates(ok)
  /\ restoring' = [restoring EXCEPT ![t] = FALSE]
  /\ stale' = (stale \/ ~ok)
  /\ UNCHANGED <<backupFile, handle>>

StoreCrash ==
  /\ handle # "closed" /\ storeFaults < MaxStoreFaults
  /\ storeFaults' = storeFaults + 1
  /\ handle' = "closed"
  /\ restoring' = [t \in StoreThreads |-> FALSE]
  /\ UNCHANGED <<metadataFile, backupFile, stale>>

StoreNext ==
  \/ \E ok \in BOOLEAN :
       \/ Open(ok) \/ BackupTo(ok)
       \/ \E t \in StoreThreads : RestoreWrites(t, ok) \/ RestoreMigrates(t, ok)
  \/ EnsureCompatible \/ StoreCrash

StoreSpec == StoreInit /\ [][StoreNext]_storeVars

-----------------------------------------------------------------------------
\* What is found was written by a release: this one or an earlier one left the
\* metadata, backups may come from later ones too.
Metadata == [version : Nat \ {0}, tables : BOOLEAN]
StoreAssumption ==
  /\ LatestSchema \in Nat \ {0} /\ NoMetadata \notin Metadata
  /\ \A m \in FoundMetadata : m = NoMetadata \/ (m \in Metadata /\ Migratable(m))
  /\ FoundBackups \subseteq Metadata \cup {NoMetadata}

\* Whatever restores, failed writes and crashes leave behind, open can migrate
\* it; and an open store serves the latest schema unless a restore is under
\* way or failed half way.
CoordinationReopens ==
  /\ metadataFile = NoMetadata \/ Migratable(metadataFile)
  /\ handle = "open" /\ ~stale /\ (\A t \in StoreThreads : ~restoring[t]) => metadataFile = Latest
=============================================================================
