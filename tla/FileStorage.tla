---------------------------- MODULE FileStorage ----------------------------
(***************************************************************************)
(* The local file storage (crates/appcore-storage): atomic writes below a  *)
(* data root, snapshots of the root, and the restore that swaps the root   *)
(* for a verified copy through two sibling directories.                    *)
(*                                                                         *)
(* A directory tree is a function from the paths to what is stored there.  *)
(* Every operation runs under the exclusive lock file, so one `section` is *)
(* open at a time; it advances one file system call at a time and any of   *)
(* them may fail or be the last one before a crash, which frees the lock.  *)
(* create_dirs makes a missing root outside the lock: `opener`.            *)
(*                                                                         *)
(* A stored file is [data, key, context]: sealed objects (storage_dnt.rs,  *)
(* storage_auth_remote.rs) open under the key and the context they were    *)
(* sealed for; the cipher is external.                                     *)
(***************************************************************************)
EXTENDS Naturals, FiniteSets

CONSTANTS Paths, Snapshots,
          Policy,        \* the sealed store's policy: key, context, limit
          HeldKeys,      \* keys its key provider resolves
          OneCaller,     \* one caller, that opens the storage again after an error
          NoTree, Nothing, MaxWrites, MaxStorageFaults

VARIABLES root, pendingRoot, previousRoot,  \* the data root and its two siblings
          backups,                   \* snapshots by name: the manifest and the data
          section,                   \* the lock holder: [op, at, name]
          opener,                    \* create_dirs between its recovery and its mkdir
          fresh,                     \* the storage was opened since the last error
          orphan,                    \* a temporary file was left behind
          rekeying,                  \* an object read by rekey_object, not written back yet
          owed,                      \* the trees the data root may be recovered to
          writes, storageFaults

storageVars == <<root, pendingRoot, previousRoot, backups, section, opener, fresh, orphan, rekeying,
                 owed, writes, storageFaults>>

Closed == [op |-> "none", at |-> "closed", name |-> Nothing]
Empty == [p \in Paths |-> Nothing]
Present(tree) == tree # NoTree

StorageInit ==
  /\ root = NoTree /\ pendingRoot = NoTree /\ previousRoot = NoTree
  /\ backups = [n \in Snapshots |-> NoTree]
  /\ section = Closed /\ opener = "idle" /\ fresh = FALSE /\ orphan = FALSE
  /\ rekeying = [path |-> Nothing, file |-> Nothing]
  /\ owed = {Empty}
  /\ writes = 0 /\ storageFaults = 0

Files ==
  {Nothing} \cup [data : 1..2, key : HeldKeys \cup {Nothing, "remote"},
                 context : {Nothing, "remote", Policy.context}]
Trees == [Paths -> Files]

\* Finitely many paths, and a missing directory is neither a tree nor a snapshot.
StorageAssumption ==
  /\ IsFiniteSet(Paths)
  /\ NoTree \notin Trees
  /\ NoTree \notin [manifest : Trees, data : Trees]

\* Another caller may work between two lock sections, and after another one's error.
LockFree == section = Closed /\ (OneCaller => opener = "idle")
Usable == LockFree /\ (OneCaller => fresh)

----------------------------------------------------------------------------
(* Sealed objects.                                                         *)

Plain(d) == [data |-> d, key |-> Nothing, context |-> Nothing]
Sealed(d, k) == [data |-> d, key |-> k, context |-> Policy.context]

\* seal and verify: the key must resolve and the payload fit the policy.
Seals(d, k) == k \in HeldKeys /\ d <= Policy.limit

\* open: bounded read, the policy's context, a key that resolves.
OpensSealed(file) ==
  /\ file # Nothing /\ file.key \in HeldKeys
  /\ file.context = Policy.context /\ file.data <= Policy.limit

\* A remote answer is used when it is a good answer to this request and still valid.
Answers == [status : {"ok", "error"}, echoes : BOOLEAN, expired : BOOLEAN, size : 0..1]
RemoteSealed == [data |-> 1, key |-> "remote", context |-> "remote"]
AnswerHolds(a) == a.status = "ok" /\ a.echoes /\ ~a.expired /\ a.size = 0

----------------------------------------------------------------------------
(* Writes: a temporary file, renamed over the path. The parent directory,  *)
(* and a root that is missing with it, is created first.                   *)

Put(p, file) == [(IF Present(root) THEN root ELSE Empty) EXCEPT ![p] = file]

WriteBytes(p, file) ==
  /\ Usable /\ writes < MaxWrites
  /\ writes' = writes + 1
  /\ root' = Put(p, file)
  /\ owed' = {[t EXCEPT ![p] = file] : t \in owed}
  /\ UNCHANGED <<pendingRoot, previousRoot, backups, section, opener, fresh, orphan, storageFaults>>

\* The write or a sync fails, or the process dies: the root was made, the file replaced or not.
WriteFails(p, file, replaced, crashed) ==
  /\ Usable /\ writes < MaxWrites /\ storageFaults < MaxStorageFaults
  /\ writes' = writes + 1 /\ storageFaults' = storageFaults + 1
  /\ root' = IF replaced THEN Put(p, file) ELSE IF Present(root) THEN root ELSE Empty
  /\ owed' = owed \cup (IF replaced THEN {[t EXCEPT ![p] = file] : t \in owed} ELSE {})
  /\ orphan' = (orphan \/ ~replaced)
  /\ fresh' = (fresh /\ ~crashed)
  /\ opener' = IF crashed THEN "idle" ELSE opener
  /\ UNCHANGED <<pendingRoot, previousRoot, backups, section>>

Writable ==
  {Plain(d) : d \in 1..2} \cup {Sealed(d, Policy.key) : d \in {d \in 1..2 : Seals(d, Policy.key)}}

\* write_bytes, write_object and the remote write that got a good answer; a bad answer changes nothing.
Write(p) ==
  /\ \E file \in Writable :
       \/ WriteBytes(p, file)
       \/ \E replaced \in BOOLEAN, crashed \in BOOLEAN : WriteFails(p, file, replaced, crashed)
  /\ UNCHANGED rekeying

RemoteWrite(p) ==
  /\ \E a \in Answers : AnswerHolds(a) /\ WriteBytes(p, RemoteSealed)
  /\ UNCHANGED rekeying

\* rekey_object reads in one lock section and writes in another.
RekeyReads(p) ==
  /\ Usable /\ Present(root) /\ rekeying.path = Nothing
  /\ OpensSealed(root[p])
  /\ rekeying' = [path |-> p, file |-> root[p]]
  /\ UNCHANGED <<root, pendingRoot, previousRoot, backups, section, opener, fresh, orphan, owed, writes, storageFaults>>

RekeyWrites(k) ==
  /\ rekeying.path # Nothing /\ Seals(rekeying.file.data, k)
  /\ WriteBytes(rekeying.path, Sealed(rekeying.file.data, k))
  /\ rekeying' = [path |-> Nothing, file |-> Nothing]

\* cleanup_temp_files.
CleanupTempFiles ==
  /\ Usable /\ orphan
  /\ orphan' = FALSE
  /\ UNCHANGED <<root, pendingRoot, previousRoot, backups, section, opener, fresh, rekeying, owed, writes, storageFaults>>

----------------------------------------------------------------------------
(* Lock sections of several steps. At(at) advances the open section.       *)

BeginSection(op, name, at) ==
  /\ section' = [op |-> op, at |-> at, name |-> name]
  /\ UNCHANGED <<root, pendingRoot, previousRoot, backups, opener, fresh, orphan, rekeying, owed, writes, storageFaults>>

SectionAt(op, at) == section.op = op /\ section.at = at
Advance(at) == section' = [section EXCEPT !.at = at]
Finish == section' = Closed
Aside == UNCHANGED <<backups, orphan, rekeying, writes>>

\* create_dirs, for open, create_snapshot_backup and restore_snapshot_backup.
CreateDirs == LockFree /\ BeginSection("recover", Nothing, "promote")
CreateSnapshot(n) == Usable /\ BeginSection("snapshot", n, "populate")
RestoreSnapshot(n) == Usable /\ BeginSection("restore", n, "promote")

\* Slip: a pending copy replaces a root that is there.
PromoteAlways ==
  /\ section.op \in {"recover", "restore"} /\ section.at = "promote"
  /\ \/ Present(pendingRoot) /\ root' = pendingRoot /\ pendingRoot' = NoTree /\ UNCHANGED previousRoot
     \/ ~Present(pendingRoot) /\ Present(root) /\ UNCHANGED <<root, pendingRoot, previousRoot>>
     \/ /\ ~Present(root) /\ ~Present(pendingRoot)
        /\ root' = previousRoot /\ previousRoot' = NoTree /\ UNCHANGED pendingRoot
  /\ Advance("drop_pending")
  /\ UNCHANGED <<opener, fresh, owed, storageFaults>> /\ Aside

\* recover_restore_locked: a missing root is taken from pending, or else from previous.
Promote ==
  /\ section.op \in {"recover", "restore"} /\ section.at = "promote"
  /\ \/ Present(root) /\ UNCHANGED <<root, pendingRoot, previousRoot>>
     \/ /\ ~Present(root) /\ Present(pendingRoot)
        /\ root' = pendingRoot /\ pendingRoot' = NoTree /\ UNCHANGED previousRoot
     \/ /\ ~Present(root) /\ ~Present(pendingRoot)
        /\ root' = previousRoot /\ previousRoot' = NoTree /\ UNCHANGED pendingRoot
  /\ Advance("drop_pending")
  /\ UNCHANGED <<opener, fresh, owed, storageFaults>> /\ Aside

DropPendingRoot ==
  /\ section.at = "drop_pending"
  /\ pendingRoot' = IF Present(root) THEN NoTree ELSE pendingRoot
  /\ Advance("drop_previous")
  /\ UNCHANGED <<root, previousRoot, opener, fresh, owed, storageFaults>> /\ Aside

\* With the siblings gone the root is settled.
DropPreviousRoot ==
  /\ section.at = "drop_previous"
  /\ previousRoot' = IF Present(root) THEN NoTree ELSE previousRoot
  /\ owed' = IF Present(root) /\ root \in owed THEN {root} ELSE owed
  /\ IF section.op = "restore"
     THEN Advance("copy") /\ UNCHANGED opener
     ELSE Finish /\ opener' = "mkdir"
  /\ UNCHANGED <<root, pendingRoot, fresh, storageFaults>> /\ Aside

\* create_real_directory_all of the root, after the lock was released.
MakeRoot ==
  /\ opener = "mkdir"
  /\ root' = IF Present(root) THEN root ELSE Empty
  /\ opener' = "idle" /\ fresh' = TRUE
  /\ UNCHANGED <<pendingRoot, previousRoot, section, owed, storageFaults>> /\ Aside

\* create_snapshot_locked: an existing name is refused; a complete staging directory is renamed.
Populate ==
  /\ SectionAt("snapshot", "populate")
  /\ \/ /\ Present(root) /\ ~Present(backups[section.name])
        /\ backups' = [backups EXCEPT ![section.name] = [manifest |-> root, data |-> root]]
     \/ (~Present(root) \/ Present(backups[section.name])) /\ UNCHANGED backups
  /\ Finish
  /\ UNCHANGED <<root, pendingRoot, previousRoot, opener, fresh, orphan, rekeying, owed, writes, storageFaults>>

\* A file of a snapshot is changed, lost or added behind the provider's back.
Damage(n, p, file) ==
  /\ Present(backups[n]) /\ storageFaults < MaxStorageFaults
  /\ storageFaults' = storageFaults + 1
  /\ backups' = [backups EXCEPT ![n].data[p] = file]
  /\ UNCHANGED <<root, pendingRoot, previousRoot, section, opener, fresh, orphan, rekeying, owed, writes>>

\* verify_manifest: every listed file with its size and hash, and no other file.
Verified(b) ==
  /\ \A p \in Paths : b.manifest[p] # Nothing => b.data[p] = b.manifest[p]
  /\ Cardinality({p \in Paths : b.data[p] # Nothing}) = Cardinality({p \in Paths : b.manifest[p] # Nothing})

\* load_verified_backup, then copy_verified_tree into pending. A backup that does not verify is refused.
CopyVerified ==
  /\ SectionAt("restore", "copy")
  /\ LET b == backups[section.name] IN
       IF Present(b) /\ Verified(b)
       THEN pendingRoot' = b.data /\ Advance("copied")
       ELSE UNCHANGED pendingRoot /\ Finish
  /\ UNCHANGED <<root, previousRoot, opener, fresh, owed, storageFaults>> /\ Aside

\* The root becomes previous. From here the snapshot may be what recovery finds.
SetAside ==
  /\ SectionAt("restore", "copied") /\ Present(root)
  /\ previousRoot' = root /\ root' = NoTree
  /\ owed' = owed \cup {backups[section.name].manifest}
  /\ Advance("aside")
  /\ UNCHANGED <<pendingRoot, opener, fresh, storageFaults>> /\ Aside

\* A directory can be renamed over a missing or an empty one.
MayReplaceRoot == ~Present(root) \/ root = Empty

PutInPlace ==
  /\ SectionAt("restore", "aside")
  /\ IF MayReplaceRoot
     THEN root' = pendingRoot /\ pendingRoot' = NoTree /\ Advance("placed")
     ELSE UNCHANGED <<root, pendingRoot>> /\ Finish
  /\ UNCHANGED <<previousRoot, opener, fresh, owed, storageFaults>> /\ Aside

RemovePrevious ==
  /\ SectionAt("restore", "placed")
  /\ previousRoot' = NoTree
  /\ owed' = IF root \in owed THEN {root} ELSE owed
  /\ Finish
  /\ UNCHANGED <<root, pendingRoot, opener, fresh, storageFaults>> /\ Aside

\* A copy that is interrupted leaves a part of the tree in pending.
Leaves == pendingRoot' \in {pendingRoot} \cup (IF SectionAt("restore", "copy") THEN {Empty} ELSE {})

\* A call of the section fails and the operation returns; a failed last rename is undone if it can be.
Fails ==
  /\ section # Closed /\ storageFaults < MaxStorageFaults
  /\ storageFaults' = storageFaults + 1
  /\ Finish /\ fresh' = FALSE
  /\ \/ UNCHANGED <<root, previousRoot>>
     \/ SectionAt("restore", "aside") /\ MayReplaceRoot /\ root' = previousRoot /\ previousRoot' = NoTree
  /\ Leaves
  /\ UNCHANGED <<opener, owed>> /\ Aside

\* The process dies: the lock is free, and whoever comes next opens the storage first.
Crashes ==
  /\ section # Closed \/ opener # "idle"
  /\ storageFaults < MaxStorageFaults
  /\ storageFaults' = storageFaults + 1
  /\ section' = Closed /\ opener' = "idle" /\ fresh' = FALSE
  /\ rekeying' = [path |-> Nothing, file |-> Nothing]
  /\ Leaves
  /\ UNCHANGED <<root, previousRoot, backups, orphan, owed, writes>>

Restoring == Promote \/ DropPendingRoot \/ DropPreviousRoot \/ CopyVerified \/ SetAside \/ PutInPlace \/ RemovePrevious

StorageNext ==
  \/ CreateDirs \/ MakeRoot \/ Restoring \/ Populate \/ Fails \/ Crashes \/ CleanupTempFiles
  \/ \E n \in Snapshots : CreateSnapshot(n) \/ RestoreSnapshot(n)
  \/ \E n \in Snapshots, p \in Paths, file \in {Nothing, Plain(2)} : Damage(n, p, file)
  \/ \E p \in Paths : Write(p) \/ RemoteWrite(p) \/ RekeyReads(p)
  \/ \E k \in HeldKeys : RekeyWrites(k)

StorageSpec == StorageInit /\ [][StorageNext]_storageVars

----------------------------------------------------------------------------
(* What the next recovery makes the root from.                             *)
Recovered ==
  IF Present(root) THEN root ELSE IF Present(pendingRoot) THEN pendingRoot
  ELSE IF Present(previousRoot) THEN previousRoot ELSE Empty

\* Whatever a restore or a write is interrupted by, the data root, as it is or as the next
\* recovery makes it, holds every acknowledged write on top of the last root, or the restored
\* snapshot: recover_restore_locked takes a missing root from pending, then from previous, and
\* deletes neither before a root is there.
LastGoodRootSurvives == Recovered \in owed

=============================================================================
