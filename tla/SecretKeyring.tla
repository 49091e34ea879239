---------------------------- MODULE SecretKeyring ---------------------------
(***************************************************************************)
(* FileSecretKeyring (appcore-security/src/secret_keyring.rs): one file    *)
(* per key and a pointer to the active one, shared by processes under an   *)
(* exclusive file lock.  Every write is a whole-file replacement           *)
(* (atomic_write); an operation of several writes may stop after any of    *)
(* them, by an I/O error or by the death of its process, and the lock is   *)
(* then free again.                                                        *)
(***************************************************************************)
EXTENDS Naturals, FiniteSets

CONSTANTS
  KeyIds, Material,   \* per key id: the material offered, [length, expiry]; 0 is no expiry
  MinSecretBytes,
  MaxTime,            \* bound
  NoKey

VARIABLES
  keyFile,     \* key id -> [status, expiry]
  pointer,     \* the content of the active file, or NoKey
  operation,   \* what holds the exclusive lock: [op, at, key, previous]
  keyClock,
  superseded   \* history: keys whose rotation was completed

keyringVars == <<keyFile, pointer, operation, keyClock, superseded>>

Idle == [op |-> "none", at |-> "free", key |-> NoKey, previous |-> NoKey]

KeyringInit ==
  /\ keyFile = <<>> /\ pointer = NoKey
  /\ operation = Idle /\ keyClock = 1
  /\ superseded = {}

Unexpired(expiry) == expiry = 0 \/ expiry > keyClock

\* validate_for_validation, of the key read from its file.
Validates(k) ==
  k \in DOMAIN keyFile /\ keyFile[k].status # "revoked" /\ Unexpired(keyFile[k].expiry)

\* validate_for_issue.
MayIssue(k) == Validates(k) /\ keyFile[k].status # "deprecated"

\* validate_new_active: new material is active; its ids are fresh (new_rotated_secret).
Acceptable(k) ==
  Material[k].length >= MinSecretBytes /\ Unexpired(Material[k].expiry) /\ k \notin DOMAIN keyFile

\* persist_key.
Store(k, status, expiry) ==
  keyFile' = [j \in DOMAIN keyFile \cup {k} |->
                IF j = k THEN [status |-> status, expiry |-> expiry] ELSE keyFile[j]]

Free == operation.at = "free"
Release == operation' = Idle
StepTo(at) == operation' = [operation EXCEPT !.at = at]

-----------------------------------------------------------------------------
(* install_initial and rotate: the key, the pointer, the deprecation.      *)

BeginInstall(k) ==
  /\ Free /\ Acceptable(k) /\ pointer = NoKey
  /\ operation' = [op |-> "install", at |-> "key", key |-> k, previous |-> NoKey]
  /\ UNCHANGED <<keyFile, pointer, keyClock, superseded>>

\* The previous pointer is read once, and may be absent.
BeginRotate(k) ==
  /\ Free /\ Acceptable(k) /\ pointer # k
  /\ operation' = [op |-> "rotate", at |-> "key", key |-> k, previous |-> pointer]
  /\ UNCHANGED <<keyFile, pointer, keyClock, superseded>>

PersistKey ==
  /\ operation.at = "key"
  /\ Store(operation.key, "active", Material[operation.key].expiry)
  /\ StepTo("pointer")
  /\ UNCHANGED <<pointer, keyClock, superseded>>

PersistActive ==
  /\ operation.at = "pointer"
  /\ pointer' = operation.key
  /\ IF operation.previous = NoKey THEN Release ELSE StepTo("deprecate")
  /\ UNCHANGED <<keyFile, keyClock, superseded>>

\* Slip: the previous key keeps its status.
NotDeprecated ==
  /\ operation.at = "deprecate"
  /\ superseded' = superseded \cup {operation.previous}
  /\ Release
  /\ UNCHANGED <<keyFile, pointer, keyClock>>

Deprecate ==
  LET old == operation.previous IN
  /\ operation.at = "deprecate"
  /\ IF keyFile[old].status = "revoked" THEN UNCHANGED keyFile
     ELSE Store(old, "deprecated", keyFile[old].expiry)
  /\ superseded' = superseded \cup {old}
  /\ Release
  /\ UNCHANGED <<pointer, keyClock>>

-----------------------------------------------------------------------------
(* revoke and recover.                                                     *)

Revoke(k) ==
  /\ Free /\ k \in DOMAIN keyFile
  /\ Store(k, "revoked", keyFile[k].expiry)
  /\ operation' = IF pointer = k
                  THEN [op |-> "revoke", at |-> "unpoint", key |-> k, previous |-> NoKey]
                  ELSE Idle
  /\ UNCHANGED <<pointer, keyClock, superseded>>

Unpoint ==
  /\ operation.at = "unpoint"
  /\ pointer' = NoKey
  /\ Release
  /\ UNCHANGED <<keyFile, keyClock, superseded>>

\* active_candidates: recover repairs an absent pointer when there is one.
Recover(k) ==
  /\ Free /\ pointer = NoKey
  /\ {j \in DOMAIN keyFile : MayIssue(j)} = {k}
  /\ pointer' = k
  /\ UNCHANGED <<keyFile, operation, keyClock, superseded>>

\* The process dies, or a write fails; what was written stays.
Interrupted ==
  /\ ~Free
  /\ Release
  /\ UNCHANGED <<keyFile, pointer, keyClock, superseded>>

KeyTick ==
  /\ keyClock < MaxTime
  /\ keyClock' = keyClock + 1
  /\ UNCHANGED <<keyFile, pointer, operation, superseded>>

KeyringNext ==
  \/ \E k \in KeyIds : BeginInstall(k) \/ BeginRotate(k) \/ Revoke(k) \/ Recover(k)
  \/ PersistKey \/ PersistActive \/ Deprecate \/ Unpoint \/ Interrupted \/ KeyTick

\* resolve_active, under the shared lock: the key new credentials are signed with.
ActiveKey == IF Free /\ pointer # NoKey /\ MayIssue(pointer) THEN pointer ELSE NoKey

KeyringSpec == KeyringInit /\ [][KeyringNext]_keyringVars

-----------------------------------------------------------------------------
(* Properties.                                                             *)

\* A key id is never the absent pointer.
KeyringAssumption == NoKey \notin KeyIds

\* A pointer always names a stored key.  A key whose rotation was completed never
\* signs again, nor does a revoked one, whatever is revoked, interrupted or
\* recovered afterwards; and it still validates what it signed until it expires or
\* is revoked itself (rotate, revoke, recover).
SupersededNeverSigns ==
  /\ pointer # NoKey => pointer \in DOMAIN keyFile
  /\ ActiveKey # NoKey => keyFile[ActiveKey].status = "active"
  /\ ActiveKey \notin superseded
  /\ \A k \in superseded :
       Validates(k) \/ keyFile[k].status = "revoked" \/ ~Unexpired(Material[k].expiry)
=============================================================================
