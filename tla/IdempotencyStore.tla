-------------------------- MODULE IdempotencyStore --------------------------
(***************************************************************************)
(* The idempotency store of appcore-core (idempotency.rs): the in-memory   *)
(* map `seen` and, for FileIdempotencyStore, the append-only file behind   *)
(* it.                                                                     *)
(*                                                                         *)
(* The file is kept as what load_entries can read back from it:            *)
(*   durable[k]  the last complete Resolved line of key k (Pending lines   *)
(*               are skipped on load and never shadow a Resolved one);     *)
(*   fileState   "clean"    the file ends with a newline;                  *)
(*               "torn"     a last line has no newline, load drops it;     *)
(*               "corrupt"  a complete line does not parse, load refuses   *)
(*                          the file.  It arises when a line is appended   *)
(*                          behind a torn tail, because append_entry does  *)
(*                          not look at how the file ends.                 *)
(***************************************************************************)
EXTENDS Naturals

CONSTANTS
  Keys,          \* idempotency keys
  Payloads,      \* payload digests (hash_payload)
  Requests,      \* command requests; a response body names the one that ran
  NoRecord,      \* absence of a record
  FileBacked,    \* FileIdempotencyStore (TRUE) or InMemoryIdempotencyStore
  Ttl            \* ttl_ms; 0 is None (new_with_ttl maps Some(0) to None)

VARIABLES
  seen,          \* HashMap<String, IdempotencyRecord>
  durable,       \* what the file yields for each key
  fileState,     \* how the file ends
  clock          \* now_ms()

store == <<seen, durable, fileState>>

Statuses == {"Pending", "Resolved"}
ResultKinds == {"accepted", "rejected"}

\* IdempotencyRecord.  `by` and `kind` stand for the response body of a Resolved
\* record: the request whose handler produced it and whether it was accepted.
\* For a Pending record `by` is the reserving request, which the code does not
\* store and no guard of this model reads.
Record ==
  [hash : Payloads, status : Statuses, by : Requests, kind : ResultKinds,
   created : Nat]

PendingRecord(r, payload) ==
  [hash |-> payload, status |-> "Pending", by |-> r, kind |-> "rejected",
   created |-> clock]

ResolvedRecord(r, payload, kind) ==
  [hash |-> payload, status |-> "Resolved", by |-> r, kind |-> kind,
   created |-> clock]

ASSUME StoreAssumption ==
  /\ NoRecord \notin Record
  /\ FileBacked \in BOOLEAN
  /\ Ttl \in Nat

StoreTypeOK ==
  /\ seen \in [Keys -> Record \cup {NoRecord}]
  /\ durable \in [Keys -> Record \cup {NoRecord}]
  /\ fileState \in {"clean", "torn", "corrupt"}

EmptyMap == [k \in Keys |-> NoRecord]

StoreInit ==
  /\ seen = EmptyMap
  /\ durable = EmptyMap
  /\ fileState = "clean"

\* Off-by-one slip: a record expires at the ttl instead of after it.
IsExpiredEarly(rec) == FileBacked /\ Ttl # 0 /\ clock - rec.created >= Ttl

\* is_expired: only the file store has a ttl, and a record dies strictly after it.
IsExpired(rec) == FileBacked /\ Ttl # 0 /\ clock - rec.created > Ttl

\* IdempotencyStore::get: an expired record is reported as absent.
Get(k) ==
  IF seen[k] # NoRecord /\ ~IsExpired(seen[k]) THEN seen[k] ELSE NoRecord

\* Slip: the record reaches the map but the append is skipped.
AppendLineSkipped(k, rec) == UNCHANGED <<durable, fileState>>

\* append_entry, seen from the file: a complete line, glued to the torn tail if
\* there is one.  Behind a tail or a corrupt line it is lost to load_entries.
AppendLine(k, rec) ==
  IF ~FileBacked
  THEN UNCHANGED <<durable, fileState>>
  ELSE /\ durable' = IF fileState = "clean" /\ rec.status = "Resolved"
                     THEN [durable EXCEPT ![k] = rec]
                     ELSE durable
       /\ fileState' = IF fileState = "clean" THEN "clean" ELSE "corrupt"

\* append_entry cut short: bytes without their newline.
AppendTorn ==
  /\ FileBacked
  /\ fileState' = IF fileState = "clean" THEN "torn" ELSE fileState
  /\ UNCHANGED durable

\* append_entry returning an error: nothing written (open), part of the line
\* written (write), or the whole line written and not synced (sync_data).
AppendFailure(k, rec) ==
  /\ FileBacked
  /\ \/ UNCHANGED <<durable, fileState>>
     \/ AppendTorn
     \/ AppendLine(k, rec)

\* What load_entries keeps of the map rewrite_entries wrote.
Loadable(map) ==
  [k \in Keys |->
     IF map[k] # NoRecord /\ map[k].status = "Resolved" THEN map[k] ELSE NoRecord]

\* rewrite_entries: a temporary file with the whole map, renamed over the store.
Rewrite(map) ==
  IF ~FileBacked
  THEN UNCHANGED <<durable, fileState>>
  ELSE /\ durable' = Loadable(map)
       /\ fileState' = "clean"

\* rewrite_entries returning an error before or after the rename took effect.
RewriteFailure(map) ==
  /\ FileBacked
  /\ UNCHANGED <<durable, fileState>> \/ Rewrite(map)

\* insert: append first, then the map; a failed append leaves the map alone.
Insert(k, rec) ==
  /\ seen' = [seen EXCEPT ![k] = rec]
  /\ AppendLine(k, rec)

InsertFails(k, rec) ==
  /\ AppendFailure(k, rec)
  /\ UNCHANGED seen

Without(k) == [seen EXCEPT ![k] = NoRecord]

\* remove: the map first, then a rewrite only if the key was there.
Remove(k) ==
  /\ seen' = Without(k)
  /\ IF seen[k] = NoRecord THEN UNCHANGED <<durable, fileState>>
                           ELSE Rewrite(Without(k))

RemoveFails(k) ==
  /\ seen[k] # NoRecord
  /\ seen' = Without(k)
  /\ RewriteFailure(Without(k))

Unexpired ==
  [k \in Keys |->
     IF seen[k] # NoRecord /\ ~IsExpired(seen[k]) THEN seen[k] ELSE NoRecord]

\* FileIdempotencyStore::compact: retain in the map, then rewrite.
Compact ==
  /\ FileBacked
  /\ seen' = Unexpired
  /\ Rewrite(Unexpired)

CompactFails ==
  /\ FileBacked
  /\ seen' = Unexpired
  /\ RewriteFailure(Unexpired)

\* Slip: the torn tail is skipped when reading and stays in the file.
OpenKeepsTail ==
  /\ fileState # "corrupt"
  /\ seen' = durable
  /\ UNCHANGED <<durable, fileState>>

\* new_with_ttl on an existing file: corrupt files are refused, a torn tail is
\* dropped and the file rewritten, Pending lines are forgotten.
Open ==
  /\ fileState # "corrupt"
  /\ seen' = durable
  /\ fileState' = "clean"
  /\ UNCHANGED durable
=============================================================================
