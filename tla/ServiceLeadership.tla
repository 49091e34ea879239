------------------------- MODULE ServiceLeadership --------------------------
(***************************************************************************)
(* Leadership of one service (appcore-control-plane): the lease slot of    *)
(* the control plane (memory.rs, kept in a file by file.rs), the HTTP      *)
(* client of each core with its retries (client.rs, worker.rs), and the    *)
(* guard each core asks before it writes (leadership.rs).                  *)
(*                                                                         *)
(* FileControlPlane locks, loads, applies and saves each operation, so an  *)
(* operation is one step at the server; a save that fails is a request     *)
(* without answer, executed or not.  The client's worker thread runs one   *)
(* call at a time.  A request whose attempt timed out may still be         *)
(* executed later, or never.  One clock serves everybody: the guard has no *)
(* allowance for skew.                                                     *)
(***************************************************************************)
EXTENDS Naturals

CONSTANTS
  Cores,
  NoServiceLease, NoBackup,
  LeaseTtl,            \* ttl_ms of every request
  MaxAttempts,         \* RetryPolicy.max_attempts.max(1)
  MaxLeadershipTime,   \* u64::MAX of the clock
  MaxLeadershipEpoch,  \* u64::MAX of the epochs
  MaxTimeouts,         \* bound on attempts without answer
  MaxRestores          \* bound on restore_from

VARIABLES
  slot,      \* ServiceLeaseSlot: [lease, lastEpoch]
  backup,    \* slot as of backup_to
  now,
  client,    \* per core: the call its worker is executing
  delayed,   \* requests whose attempt was given up
  guard,     \* per core: StaticServiceLeadershipGuard
  granted,   \* history: [epoch, holder] of every lease handed out
  timeouts, restores,
  safeFrom   \* history: a lease term after the last restore or late release

leadershipVars == <<slot, backup, now, client, delayed, guard, granted, timeouts, restores, safeFrom>>

ServiceLease == [holder : Cores, epoch : 0..MaxLeadershipEpoch, expires : 0..MaxLeadershipTime]
Slot == [lease : ServiceLease \cup {NoServiceLease}, lastEpoch : 0..MaxLeadershipEpoch]
Requests == [op : {"acquire", "release"}, core : Cores, lease : ServiceLease \cup {NoServiceLease}]

\* The markers are no values, and the widths are numbers.
LeadershipAssumption ==
  /\ LeaseTtl \in Nat /\ MaxLeadershipTime \in Nat /\ MaxLeadershipEpoch \in Nat
  /\ NoServiceLease \notin ServiceLease /\ NoBackup \notin Slot

LeadershipTypeOK ==
  /\ slot \in Slot
  /\ backup \in Slot \cup {NoBackup}
  /\ now \in 0..MaxLeadershipTime
  /\ client \in [Cores -> [pc : {"idle", "acquire", "granted", "release"},
                           attempt : Nat, lease : ServiceLease \cup {NoServiceLease}]]
  /\ delayed \in SUBSET Requests
  /\ guard \in [Cores -> ServiceLease \cup {NoServiceLease}]
  /\ granted \in SUBSET [epoch : 0..MaxLeadershipEpoch, holder : Cores]
  /\ timeouts \in Nat /\ restores \in Nat /\ safeFrom \in Nat

Idle == [pc |-> "idle", attempt |-> 0, lease |-> NoServiceLease]

LeadershipInit ==
  /\ slot = [lease |-> NoServiceLease, lastEpoch |-> 0]
  /\ backup = NoBackup
  /\ now = 0
  /\ client = [c \in Cores |-> Idle]
  /\ delayed = {}
  /\ guard = [c \in Cores |-> NoServiceLease]
  /\ granted = {}
  /\ timeouts = 0 /\ restores = 0 /\ safeFrom = 0

-----------------------------------------------------------------------------
(* The control plane.                                                      *)

\* Slip: a lease still counts as live at the instant it expires for its holder.
LiveTooShort(l) == l # NoServiceLease /\ l.expires > now + 1

Live(l) == l # NoServiceLease /\ l.expires > now

\* acquire_or_renew_service_lease succeeds: nobody else holds a live lease, and
\* neither expiration nor epoch overflows.
Grantable(c) ==
  /\ now + LeaseTtl <= MaxLeadershipTime
  /\ Live(slot.lease) => slot.lease.holder = c
  /\ ~Live(slot.lease) => slot.lastEpoch < MaxLeadershipEpoch

\* Slip: the epoch is taken from the slot's lease, which release removes.
GrantFromLease(c) ==
  [holder |-> c, expires |-> now + LeaseTtl,
   epoch |-> IF slot.lease = NoServiceLease THEN 1
             ELSE IF Live(slot.lease) THEN slot.lease.epoch ELSE slot.lease.epoch + 1]

\* A renewal keeps the epoch, a new lease takes the next one.
Grant(c) ==
  [holder |-> c, expires |-> now + LeaseTtl,
   epoch |-> IF Live(slot.lease) THEN slot.lease.epoch ELSE slot.lastEpoch + 1]

Larger(m, n) == IF m >= n THEN m ELSE n

GrantSlot(c) ==
  /\ slot' = [lease |-> Grant(c), lastEpoch |-> Larger(slot.lastEpoch, Grant(c).epoch)]
  /\ granted' = granted \cup {[epoch |-> Grant(c).epoch, holder |-> c]}

\* release_service_lease applies only to the current holder and epoch.
Releases(l) ==
  /\ slot.lease # NoServiceLease
  /\ slot.lease.holder = l.holder
  /\ slot.lease.epoch = l.epoch

\* A service without slot, which only a restored state can forget: Ok(()).
Unknown == slot.lastEpoch = 0

ReleaseSlot ==
  /\ slot' = [lease |-> NoServiceLease, lastEpoch |-> slot.lastEpoch]
  /\ UNCHANGED granted

BackupSlots ==
  /\ backup # slot
  /\ restores < MaxRestores
  /\ backup' = slot
  /\ UNCHANGED <<slot, now, client, delayed, guard, granted, timeouts, restores, safeFrom>>

\* restore_from: any state that decodes replaces the current one.
RestoreFrom ==
  /\ backup # NoBackup
  /\ restores < MaxRestores
  /\ restores' = restores + 1
  /\ safeFrom' = now + LeaseTtl
  /\ slot' = backup
  /\ UNCHANGED <<backup, now, client, delayed, guard, granted, timeouts>>

-----------------------------------------------------------------------------
(* A core: its worker and its guard.                                       *)

CallAcquire(c) ==
  /\ client[c].pc = "idle"
  /\ client' = [client EXCEPT ![c] = [pc |-> "acquire", attempt |-> 1, lease |-> NoServiceLease]]
  /\ UNCHANGED <<slot, backup, now, delayed, guard, granted, timeouts, restores, safeFrom>>

\* The host gives up leadership: set_service_lease(None), then the release call.
CallRelease(c) ==
  /\ client[c].pc = "idle"
  /\ guard[c] # NoServiceLease
  /\ client' = [client EXCEPT ![c] = [pc |-> "release", attempt |-> 1, lease |-> guard[c]]]
  /\ guard' = [guard EXCEPT ![c] = NoServiceLease]
  /\ UNCHANGED <<slot, backup, now, delayed, granted, timeouts, restores, safeFrom>>

\* send_with_retry: the next attempt, or the last error.
NextAttempt(c) ==
  client' = [client EXCEPT ![c] =
    IF client[c].attempt < MaxAttempts
    THEN [pc |-> client[c].pc, attempt |-> client[c].attempt + 1, lease |-> client[c].lease]
    ELSE Idle]

ServeAcquire(c) ==
  /\ client[c].pc = "acquire"
  /\ Grantable(c)
  /\ GrantSlot(c)
  /\ client' = [client EXCEPT ![c] = [pc |-> "granted", attempt |-> client[c].attempt,
                                      lease |-> Grant(c)]]
  /\ UNCHANGED <<backup, now, delayed, guard, timeouts, restores, safeFrom>>

\* LeaseUnavailable, Rejected or Conflict; an error status is retried as well.
RefuseAcquire(c) ==
  /\ client[c].pc = "acquire"
  /\ ~Grantable(c)
  /\ NextAttempt(c)
  /\ UNCHANGED <<slot, backup, now, delayed, guard, granted, timeouts, restores, safeFrom>>

ServeRelease(c) ==
  /\ client[c].pc = "release"
  /\ Releases(client[c].lease) \/ Unknown
  /\ ReleaseSlot
  /\ client' = [client EXCEPT ![c] = Idle]
  /\ UNCHANGED <<backup, now, delayed, guard, timeouts, restores, safeFrom>>

RefuseRelease(c) ==
  /\ client[c].pc = "release"
  /\ ~(Releases(client[c].lease) \/ Unknown)
  /\ NextAttempt(c)
  /\ UNCHANGED <<slot, backup, now, delayed, guard, granted, timeouts, restores, safeFrom>>

\* set_service_lease refuses an older epoch, or another holder of the same one.
Accepts(l, old) ==
  old # NoServiceLease =>
    /\ l.epoch >= old.epoch
    /\ l.epoch = old.epoch => l.holder = old.holder

\* The answer arrives and the host hands the lease to the guard.
Install(c) ==
  /\ client[c].pc = "granted"
  /\ guard' = IF Accepts(client[c].lease, guard[c])
              THEN [guard EXCEPT ![c] = client[c].lease] ELSE guard
  /\ client' = [client EXCEPT ![c] = Idle]
  /\ UNCHANGED <<slot, backup, now, delayed, granted, timeouts, restores, safeFrom>>

\* An attempt ends without an answer while its request is on the way.
Timeout(c) ==
  /\ timeouts < MaxTimeouts
  /\ timeouts' = timeouts + 1
  /\ client[c].pc \in {"acquire", "release"}
  /\ delayed' = delayed \cup {[op |-> client[c].pc, core |-> c, lease |-> client[c].lease]}
  /\ NextAttempt(c)
  /\ UNCHANGED <<slot, backup, now, guard, granted, restores, safeFrom>>

\* The answer of an acquire is lost; the next attempt renews what it granted.
LoseAnswer(c) ==
  /\ timeouts < MaxTimeouts
  /\ timeouts' = timeouts + 1
  /\ client[c].pc = "granted"
  /\ client' = [client EXCEPT ![c] =
       IF client[c].attempt < MaxAttempts
       THEN [pc |-> "acquire", attempt |-> client[c].attempt + 1, lease |-> NoServiceLease]
       ELSE Idle]
  /\ UNCHANGED <<slot, backup, now, delayed, guard, granted, restores, safeFrom>>

\* A request nobody waits for is executed after all; one that is refused has no
\* effect.
ExecuteDelayed(r) ==
  /\ r \in delayed
  /\ delayed' = delayed \ {r}
  /\ \/ /\ r.op = "acquire" /\ Grantable(r.core) /\ GrantSlot(r.core)
        /\ UNCHANGED safeFrom
     \/ /\ r.op = "release" /\ Releases(r.lease) /\ ReleaseSlot
        /\ safeFrom' = now + LeaseTtl
  /\ UNCHANGED <<backup, now, client, guard, timeouts, restores>>

LeadershipTick ==
  /\ now < MaxLeadershipTime
  /\ now' = now + 1
  /\ UNCHANGED <<slot, backup, client, delayed, guard, granted, timeouts, restores, safeFrom>>

CoreStep(c) ==
  \/ CallAcquire(c) \/ ServeAcquire(c) \/ RefuseAcquire(c) \/ Install(c)
  \/ CallRelease(c) \/ ServeRelease(c) \/ RefuseRelease(c)
  \/ Timeout(c) \/ LoseAnswer(c)

LeadershipNext ==
  \/ \E c \in Cores : CoreStep(c)
  \/ \E r \in delayed : ExecuteDelayed(r)
  \/ BackupSlots \/ RestoreFrom
  \/ LeadershipTick

LeadershipSpec == LeadershipInit /\ [][LeadershipNext]_leadershipVars

-----------------------------------------------------------------------------
(* Properties.                                                             *)

\* check_service_write_permission with a minimal epoch.
Decision(c, minEpoch) ==
  IF guard[c] = NoServiceLease THEN "NoLease"
  ELSE IF guard[c].expires <= now THEN "Expired"
  ELSE IF guard[c].holder # c THEN "WrongHolder"
  ELSE IF guard[c].epoch < minEpoch THEN "StaleEpoch"
  ELSE "Allowed"

MayWrite(c) == Decision(c, 0) = "Allowed"

\* At most one core's guard allows writes, with answers lost, acquire requests
\* executed late, and leases that expire before they are installed.  A release
\* that is executed after its core acquired again, and a restored backup, take a
\* valid lease away from the slot, so two cores may lead at once, but for one lease
\* term at most: what was granted before has expired by then, and what was granted
\* since excludes each other.
ExclusiveLeader ==
  safeFrom <= now =>
    \A c, d \in Cores : MayWrite(c) /\ MayWrite(d) => c = d

\* "Monotonic fencing epoch" (control_plane/v1.rs): an epoch is handed out to one
\* core only, whatever is released, expires or is executed late.  (A restored
\* backup takes last_epoch back and hands epochs out again.)
EpochIdentifiesHolder ==
  restores = 0 => \A g, h \in granted : g.epoch = h.epoch => g = h

=============================================================================
