-------------------------- MODULE CommandDispatch ---------------------------
(***************************************************************************)
(* Command dispatch: RuntimeController::pre_dispatch and post_dispatch     *)
(* (appcore-core controller.rs) driven by concurrent HTTP requests         *)
(* (appcore-api http/command.rs).                                          *)
(*                                                                         *)
(* dispatch_command_request holds the controller lock for pre_dispatch,    *)
(* releases it, runs the handler on a blocking thread, and takes the lock  *)
(* again for post_dispatch.  So pre_dispatch and post_dispatch are atomic, *)
(* handlers overlap, and a crash or a panic may come between any two       *)
(* steps.  Each element of Requests is one dispatch; several requests may  *)
(* carry the same idempotency key (client retries) and a retry may carry   *)
(* another payload.                                                        *)
(***************************************************************************)
EXTENDS IdempotencyStore, RuntimeLifecycle

CONSTANTS
  NoKey,           \* idempotency_key: None
  KeyOf,           \* [Requests -> Keys \cup {NoKey}]
  PayloadOf,       \* [Requests -> Payloads]
  MaxHandlerTime,  \* how many clock ticks a handler may take
  MaxClock,        \* bound on the clock
  MaxCrashes,      \* bound on process crashes
  MaxIoFailures    \* bound on failing store writes

ASSUME DispatchAssumption ==
  /\ NoKey \notin Keys
  /\ KeyOf \in [Requests -> Keys \cup {NoKey}]
  /\ PayloadOf \in [Requests -> Payloads]
  /\ {MaxHandlerTime, MaxClock, MaxCrashes, MaxIoFailures} \subseteq Nat

VARIABLES
  lifecycle,   \* RuntimeLifecycle
  up,          \* the process is running with its store open
  pc,          \* per request: "new", "running", "executed", "replied"
  outcome,     \* per request: what its handler returned
  started,     \* per request: clock when pre_dispatch let it through
  reply,       \* per request: [kind, by], by = request whose result is served
  emitted,     \* requests whose events went to the EventBus
  audited,     \* requests with a command record in the AuditLog
  crashes, ioFailures

control == <<lifecycle, up, pc, outcome, started, reply, emitted, audited>>
budget == <<crashes, ioFailures>>
vars == <<store, clock, control, budget>>

Outcomes == ResultKinds \cup {"error", "panic"}
ReplyKinds ==
  ResultKinds \cup {"none", "notReady", "conflict", "pending", "ioError",
                    "handlerError", "failed", "lost"}

TypeOK ==
  /\ StoreTypeOK
  /\ clock \in Nat
  /\ lifecycle \in LifecycleStates
  /\ up \in BOOLEAN
  /\ pc \in [Requests -> {"new", "running", "executed", "replied"}]
  /\ outcome \in [Requests -> Outcomes \cup {"none"}]
  /\ started \in [Requests -> Nat]
  /\ reply \in [Requests -> [kind : ReplyKinds, by : Requests]]
  /\ emitted \in SUBSET Requests
  /\ audited \in SUBSET Requests
  /\ crashes \in Nat
  /\ ioFailures \in Nat

Init ==
  /\ StoreInit
  /\ clock = 1
  /\ lifecycle = InitialLifecycle
  /\ up = TRUE
  /\ pc = [r \in Requests |-> "new"]
  /\ outcome = [r \in Requests |-> "none"]
  /\ started = [r \in Requests |-> 0]
  /\ reply = [r \in Requests |-> [kind |-> "none", by |-> r]]
  /\ emitted = {}
  /\ audited = {}
  /\ crashes = 0
  /\ ioFailures = 0

Keyed(r) == KeyOf[r] # NoKey
InFlight(r) == pc[r] \in {"running", "executed"}
Pending(r) == PendingRecord(r, PayloadOf[r])
Resolved(r) == ResolvedRecord(r, PayloadOf[r], outcome[r])

-----------------------------------------------------------------------------
(* Steps every request shares.                                             *)

Answer(r, kind, by) ==
  /\ pc' = [pc EXCEPT ![r] = "replied"]
  /\ reply' = [reply EXCEPT ![r] = [kind |-> kind, by |-> by]]

\* record_audit
Audit(r) == audited' = audited \cup {r}

FailIo ==
  /\ ioFailures < MaxIoFailures
  /\ ioFailures' = ioFailures + 1

-----------------------------------------------------------------------------
(* pre_dispatch, one disjunct per way out of it.                           *)

Entering(r) == up /\ pc[r] = "new"

\* check_lifecycle_readiness: an answer, audited, before the store is looked at.
RejectNotReady(r) ==
  /\ Entering(r)
  /\ ~AcceptsCommands(lifecycle)
  /\ Answer(r, "notReady", r)
  /\ Audit(r)
  /\ UNCHANGED <<store, clock, budget, lifecycle, up, outcome, started, emitted>>

Admissible(r) == Entering(r) /\ AcceptsCommands(lifecycle)

\* The record a keyed request finds under the idempotency lock.
Found(r) == Get(KeyOf[r])
Finds(r) == Keyed(r) /\ Found(r) # NoRecord

RejectConflict(r) ==
  /\ Admissible(r)
  /\ Finds(r)
  /\ Found(r).hash # PayloadOf[r]
  /\ Answer(r, "conflict", r)
  /\ Audit(r)
  /\ UNCHANGED <<store, clock, budget, lifecycle, up, outcome, started, emitted>>

RejectPending(r) ==
  /\ Admissible(r)
  /\ Finds(r)
  /\ Found(r).hash = PayloadOf[r]
  /\ Found(r).status = "Pending"
  /\ Answer(r, "pending", r)
  /\ Audit(r)
  /\ UNCHANGED <<store, clock, budget, lifecycle, up, outcome, started, emitted>>

\* A replay serves the stored response and audits it; it emits no event.  The
\* stored response_status is always 200, so the branch that drops a record with
\* a status of 400 or more is never taken.
Replay(r) ==
  /\ Admissible(r)
  /\ Finds(r)
  /\ Found(r).hash = PayloadOf[r]
  /\ Found(r).status = "Resolved"
  /\ Answer(r, Found(r).kind, Found(r).by)
  /\ Audit(r)
  /\ UNCHANGED <<store, clock, budget, lifecycle, up, outcome, started, emitted>>

Start(r) ==
  /\ pc' = [pc EXCEPT ![r] = "running"]
  /\ started' = [started EXCEPT ![r] = clock]

\* No key, or no live record: insert Pending (replacing an expired record).
Reserve(r) ==
  /\ Admissible(r)
  /\ IF Keyed(r) THEN Found(r) = NoRecord /\ Insert(KeyOf[r], Pending(r))
                 ELSE UNCHANGED store
  /\ Start(r)
  /\ UNCHANGED <<clock, budget, lifecycle, up, outcome, reply, emitted, audited>>

\* The insert of Pending fails: an error without an audit record.
ReserveFails(r) ==
  /\ Admissible(r)
  /\ Keyed(r)
  /\ Found(r) = NoRecord
  /\ InsertFails(KeyOf[r], Pending(r))
  /\ FailIo
  /\ Answer(r, "ioError", r)
  /\ UNCHANGED <<clock, crashes, lifecycle, up, outcome, started, emitted, audited>>

PreDispatch(r) ==
  \/ RejectNotReady(r)
  \/ RejectConflict(r)
  \/ RejectPending(r)
  \/ Replay(r)
  \/ Reserve(r)
  \/ ReserveFails(r)

-----------------------------------------------------------------------------
(* The handler, outside every lock.                                        *)

Execute(r, out) ==
  /\ up
  /\ pc[r] = "running"
  /\ outcome' = [outcome EXCEPT ![r] = out]
  /\ IF out = "panic"
     THEN Answer(r, "failed", r)  \* JoinError: no post_dispatch, Pending stays
     ELSE pc' = [pc EXCEPT ![r] = "executed"] /\ UNCHANGED reply
  /\ UNCHANGED <<store, clock, budget, lifecycle, up, started, emitted, audited>>

-----------------------------------------------------------------------------
(* post_dispatch.                                                          *)

Returning(r) == up /\ pc[r] = "executed"

Emit(r) ==
  emitted' = IF outcome[r] = "accepted" THEN emitted \cup {r} ELSE emitted

\* Slip: the response is answered and its events emitted, but the record that
\* makes a retry a replay is dropped.
ResolveForgets(r) ==
  /\ Returning(r)
  /\ outcome[r] \in ResultKinds
  /\ IF Keyed(r) THEN Remove(KeyOf[r]) ELSE UNCHANGED store
  /\ Emit(r)
  /\ Audit(r)
  /\ Answer(r, outcome[r], r)
  /\ UNCHANGED <<clock, budget, lifecycle, up, outcome, started>>

\* Ok(result), accepted or rejected: record it, then emit and audit.
Resolve(r) ==
  /\ Returning(r)
  /\ outcome[r] \in ResultKinds
  /\ IF Keyed(r) THEN Insert(KeyOf[r], Resolved(r)) ELSE UNCHANGED store
  /\ Emit(r)
  /\ Audit(r)
  /\ Answer(r, outcome[r], r)
  /\ UNCHANGED <<clock, budget, lifecycle, up, outcome, started>>

\* The insert of Resolved fails: the error replaces the response, and neither
\* events nor audit record appear.
ResolveFails(r) ==
  /\ Returning(r)
  /\ outcome[r] \in ResultKinds
  /\ Keyed(r)
  /\ InsertFails(KeyOf[r], Resolved(r))
  /\ FailIo
  /\ Answer(r, "ioError", r)
  /\ UNCHANGED <<clock, crashes, lifecycle, up, outcome, started, emitted, audited>>

\* Err(_): give the key back.
Abort(r) ==
  /\ Returning(r)
  /\ outcome[r] = "error"
  /\ IF Keyed(r) THEN Remove(KeyOf[r]) ELSE UNCHANGED store
  /\ Audit(r)
  /\ Answer(r, "handlerError", r)
  /\ UNCHANGED <<clock, budget, lifecycle, up, outcome, started, emitted>>

AbortFails(r) ==
  /\ Returning(r)
  /\ outcome[r] = "error"
  /\ Keyed(r)
  /\ RemoveFails(KeyOf[r])
  /\ FailIo
  /\ Answer(r, "ioError", r)
  /\ UNCHANGED <<clock, crashes, lifecycle, up, outcome, started, emitted, audited>>

PostDispatch(r) ==
  \/ Resolve(r)
  \/ ResolveFails(r)
  \/ Abort(r)
  \/ AbortFails(r)

-----------------------------------------------------------------------------
(* The host: lifecycle events, compaction, crash, restart, time.           *)

LifecycleEvent(e) ==
  /\ up
  /\ \E to \in LifecycleStates : Applies(lifecycle, e, to) /\ lifecycle' = to
  /\ UNCHANGED <<store, clock, budget, up, pc, outcome, started, reply, emitted,
                 audited>>

CompactStore ==
  /\ up
  /\ Compact
  /\ UNCHANGED <<clock, control, budget>>

CompactStoreFails ==
  /\ up
  /\ CompactFails
  /\ FailIo
  /\ UNCHANGED <<clock, control, crashes>>

\* What a crash leaves in the file: nothing was being written, an append was cut
\* short, or the write of a returning request had just reached the disk while
\* its events, audit record and answer had not.
CrashedFile ==
  \/ UNCHANGED <<durable, fileState>>
  \/ /\ \E r \in Requests : Keyed(r) /\ (Entering(r) \/ Returning(r))
     /\ AppendTorn
  \/ \E r \in Requests :
       /\ Keyed(r) /\ Returning(r)
       /\ IF outcome[r] \in ResultKinds
          THEN AppendLine(KeyOf[r], Resolved(r))
          ELSE Rewrite(Without(KeyOf[r]))

Crash ==
  /\ up
  /\ crashes < MaxCrashes
  /\ crashes' = crashes + 1
  /\ CrashedFile
  /\ up' = FALSE
  /\ seen' = EmptyMap
  /\ pc' = [r \in Requests |-> IF InFlight(r) THEN "replied" ELSE pc[r]]
  /\ reply' = [r \in Requests |->
                 IF InFlight(r) THEN [kind |-> "lost", by |-> r] ELSE reply[r]]
  /\ UNCHANGED <<clock, lifecycle, outcome, started, emitted, audited, ioFailures>>

\* Slip: a restart that starts from an empty map.
RestartEmpty ==
  /\ ~up
  /\ up' = TRUE
  /\ lifecycle' = InitialLifecycle
  /\ fileState # "corrupt"
  /\ seen' = EmptyMap
  /\ fileState' = "clean"
  /\ UNCHANGED <<durable, clock, pc, outcome, started, reply, emitted, audited, budget>>

\* A new process; the in-memory store starts empty, the file store loads.
Restart ==
  /\ ~up
  /\ up' = TRUE
  /\ lifecycle' = InitialLifecycle
  /\ Open
  /\ UNCHANGED <<clock, pc, outcome, started, reply, emitted, audited, budget>>

\* Handlers that take at most MaxHandlerTime ticks.
Tick ==
  /\ clock < MaxClock
  /\ \A r \in Requests : InFlight(r) => clock < started[r] + MaxHandlerTime
  /\ clock' = clock + 1
  /\ UNCHANGED <<store, control, budget>>

Next ==
  \/ \E r \in Requests :
       \/ PreDispatch(r)
       \/ \E out \in Outcomes : Execute(r, out)
       \/ PostDispatch(r)
  \/ \E e \in LifecycleEvents : LifecycleEvent(e)
  \/ CompactStore
  \/ CompactStoreFails
  \/ Crash
  \/ Restart
  \/ Tick

Spec == Init /\ [][Next]_vars

-----------------------------------------------------------------------------
(* Properties.                                                             *)

\* A deployment whose ttl covers its slowest handler (or has no ttl).
TimelyHandlers == ~FileBacked \/ Ttl = 0 \/ MaxHandlerTime <= Ttl

\* Completed records live as long as the process and, if it can restart, on disk.
RecordsKept == (~FileBacked \/ Ttl = 0) /\ (FileBacked \/ MaxCrashes = 0)

SameKey(r, q) == Keyed(r) /\ KeyOf[r] = KeyOf[q]

\* While pre_dispatch and post_dispatch take the lock separately, no two handlers
\* of one key are in flight: the Pending record reserves the key over the gap.
SingleFlight ==
  \A r, q \in Requests :
    SameKey(r, q) /\ InFlight(r) /\ InFlight(q) => r = q

\* The events of a key are emitted at most once, whatever crashes, failed writes
\* and retries come between: post_dispatch makes the record durable before it
\* emits, and a crash before that re-executes without having emitted.
EventsOncePerKey ==
  \A r, q \in emitted : SameKey(r, q) => r = q

Answered(r) == pc[r] = "replied" /\ reply[r].kind \in ResultKinds

\* All requests of a key that are given a command result are given the result of
\* the same execution, across replays, crashes and restarts.
RepliesAgree ==
  \A r, q \in Requests :
    SameKey(r, q) /\ Answered(r) /\ Answered(q) => reply[r] = reply[q]

\* A crash between or during store writes never leaves a file the next process
\* refuses to open (load_entries drops a torn tail and nothing else is lost).
StoreReopens == fileState # "corrupt"

-----------------------------------------------------------------------------
(* The inductive invariant behind the properties.                          *)

\* A keyed request in flight owns the live Pending record of its key.
Reserved ==
  \A r \in Requests : Keyed(r) /\ InFlight(r) =>
    /\ seen[KeyOf[r]] # NoRecord
    /\ seen[KeyOf[r]].status = "Pending"
    /\ seen[KeyOf[r]].by = r
    /\ seen[KeyOf[r]].created = started[r]

\* Handlers run only in a live process and within their time.
OnTime ==
  \A r \in Requests : InFlight(r) =>
    /\ up
    /\ clock <= started[r] + MaxHandlerTime

FlightInv == TypeOK /\ Reserved /\ OnTime

\* A Resolved record tells what the handler of its request returned.
Truthful(map) ==
  \A k \in Keys : map[k] # NoRecord /\ map[k].status = "Resolved" =>
    /\ KeyOf[map[k].by] = k
    /\ PayloadOf[map[k].by] = map[k].hash
    /\ outcome[map[k].by] = map[k].kind
    /\ pc[map[k].by] = "replied"

\* A record of the map belongs to a request of its key that was let through.
Owned ==
  \A k \in Keys : seen[k] # NoRecord =>
    KeyOf[seen[k].by] = k /\ pc[seen[k].by] # "new"

\* The file yields Resolved records only.
DiskResolved ==
  \A k \in Keys : durable[k] # NoRecord => durable[k].status = "Resolved"

\* While the file is readable it agrees with the map of the live process, except
\* that a key stuck in Pending after a failed append may already be on disk.
DiskAgrees ==
  up /\ FileBacked /\ fileState # "corrupt" =>
    \A k \in Keys :
      /\ seen[k] = NoRecord => durable[k] = NoRecord
      /\ seen[k] # NoRecord =>
           /\ seen[k].status = "Resolved" => durable[k] = seen[k]
           /\ seen[k].status = "Pending" /\ InFlight(seen[k].by)
                => durable[k] = NoRecord

\* map holds the result that was served as [by, kind] for key k.
HoldsResult(map, k, by, kind) ==
  /\ map[k] # NoRecord
  /\ map[k].status = "Resolved"
  /\ map[k].by = by
  /\ map[k].kind = kind

\* Served results stay in the map and in the readable file.
Kept(k, by, kind) ==
  /\ up => HoldsResult(seen, k, by, kind)
  /\ FileBacked /\ fileState # "corrupt" => HoldsResult(durable, k, by, kind)

AnswersKept ==
  \A r \in Requests : Keyed(r) /\ Answered(r) =>
    Kept(KeyOf[r], reply[r].by, reply[r].kind)

EmittedKept ==
  \A r \in emitted :
    /\ pc[r] = "replied"
    /\ Keyed(r) => Kept(KeyOf[r], r, "accepted")

ReplyDiscipline ==
  \A r \in Requests : pc[r] # "replied" => reply[r] = [kind |-> "none", by |-> r]

KeptInv ==
  /\ Truthful(seen)
  /\ Truthful(durable)
  /\ Owned
  /\ DiskResolved
  /\ DiskAgrees
  /\ AnswersKept
  /\ EmittedKept
  /\ ReplyDiscipline
  /\ ~FileBacked => durable = EmptyMap /\ fileState = "clean"
  /\ crashes = 0 => up
  /\ crashes <= MaxCrashes
=============================================================================
