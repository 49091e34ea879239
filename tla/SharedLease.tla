---------------------------- MODULE SharedLease -----------------------------
(***************************************************************************)
(* FileLeaseRepository (appcore-provider shared_lease.rs and               *)
(* shared_lease_state.rs) for one resource: a state file with the current  *)
(* lease, an epoch sidecar that survives release, and an OS lock that each *)
(* operation holds from its first read to its last write.                  *)
(*                                                                         *)
(* acquire writes two files, so it is two steps here with the lock held in *)
(* between; a process may crash there (the OS drops its lock), and every   *)
(* write may fail before or after its rename took effect.  Each owner is a *)
(* process with a clock of its own; resources do not share files, so one   *)
(* is enough.                                                              *)
(***************************************************************************)
EXTENDS Naturals

CONSTANTS
  Owners,       \* LeaseOwner values, one per process
  NoOwner,      \* nobody holds the OS lock
  NoLease,      \* absent state file; also "believes to hold nothing"
  Ttl,          \* LeasePolicy.ttl_ms
  HeartbeatMs,  \* LeasePolicy.heartbeat_ms
  ClockSkew,    \* LeasePolicy.clock_skew_ms
  MaxDrift,     \* how far apart the processes' clocks really get
  MaxTime,      \* u64::MAX of the clocks
  MaxEpoch,     \* u64::MAX of the epochs
  MaxFaults     \* bound on crashes and failed writes

\* LeasePolicy::validate, and what the model needs of its markers.
ASSUME LeaseAssumption ==
  /\ {Ttl, HeartbeatMs, ClockSkew, MaxDrift, MaxTime, MaxEpoch, MaxFaults} \subseteq Nat
  /\ HeartbeatMs > 0
  /\ Ttl > HeartbeatMs
  /\ ClockSkew < Ttl
  /\ NoOwner \notin Owners

VARIABLES
  lease,      \* the state file
  epochFile,  \* the sidecar; an absent one reads like 0
  lock,       \* holder of the OS lock between the two writes of acquire
  pending,    \* per process: the lease acquire is about to publish
  held,       \* per process: the lease it was last told it holds
  alive,      \* per process
  clock,      \* per process: the now_ms it passes to the repository
  published,  \* history: epochs that ever reached the state file
  faults

vars == <<lease, epochFile, lock, pending, held, alive, clock, published, faults>>

Lease == [owner : Owners, epoch : Nat, heartbeat : Nat, expires : Nat]

ASSUME NoLeaseAssumption == NoLease \notin Lease

LeaseTypes ==
  /\ lease \in Lease \cup {NoLease}
  /\ epochFile \in Nat
  /\ lock \in Owners \cup {NoOwner}
  /\ pending \in [Owners -> Lease \cup {NoLease}]
  /\ held \in [Owners -> Lease \cup {NoLease}]
  /\ alive \in [Owners -> BOOLEAN]
  /\ clock \in [Owners -> Nat]
  /\ published \in SUBSET Nat
  /\ faults \in Nat

Fits(l) == l # NoLease => l.epoch <= MaxEpoch /\ l.expires <= MaxTime

\* Every stored epoch and expiration fits the u64 it is kept in.
Representable ==
  /\ epochFile <= MaxEpoch
  /\ Fits(lease)
  /\ \A o \in Owners : Fits(pending[o]) /\ Fits(held[o])

TypeOK == LeaseTypes /\ Representable

Init ==
  /\ lease = NoLease
  /\ epochFile = 0
  /\ lock = NoOwner
  /\ pending = [o \in Owners |-> NoLease]
  /\ held = [o \in Owners |-> NoLease]
  /\ alive = [o \in Owners |-> TRUE]
  /\ clock = [o \in Owners |-> 0]
  /\ published = {}
  /\ faults = 0

\* Slip: expiry without the skew allowance.
IsExpiredNoSkew(l, now) == now >= l.expires

\* SharedResourceLease::is_expired; the subtraction saturates at zero.
IsExpired(l, now) ==
  (IF now >= ClockSkew THEN now - ClockSkew ELSE 0) >= l.expires

SameToken(l, m) == l.owner = m.owner /\ l.epoch = m.epoch

\* Slip: the next epoch is taken from the state file alone.
NextEpochFromState ==
  IF lease = NoLease THEN 1 ELSE lease.epoch + 1

\* One more than the larger of sidecar and current lease.
NextEpoch ==
  IF lease # NoLease /\ lease.epoch > epochFile THEN lease.epoch + 1
                                                 ELSE epochFile + 1

Fresh(o, epoch) ==
  [owner |-> o, epoch |-> epoch, heartbeat |-> clock[o], expires |-> clock[o] + Ttl]

Fault == faults < MaxFaults /\ faults' = faults + 1

\* What acquire requires once it has the lock: no live lease of another owner
\* (an owner may replace its own), an epoch left, a representable expiration.
MayAcquire(o) ==
  /\ alive[o]
  /\ lock = NoOwner
  /\ lease # NoLease => IsExpired(lease, clock[o]) \/ lease.owner = o
  /\ NextEpoch <= MaxEpoch
  /\ clock[o] + Ttl <= MaxTime

\* acquire up to write_epoch: the sidecar is durable before the lease is.
AcquireEpoch(o) ==
  /\ MayAcquire(o)
  /\ epochFile' = NextEpoch
  /\ lock' = o
  /\ pending' = [pending EXCEPT ![o] = Fresh(o, NextEpoch)]
  /\ UNCHANGED <<lease, held, alive, clock, published, faults>>

AcquireEpochFails(o) ==
  /\ MayAcquire(o)
  /\ epochFile' \in {epochFile, NextEpoch}
  /\ Fault
  /\ UNCHANGED <<lease, lock, pending, held, alive, clock, published>>

Unlock(o) == lock' = NoOwner /\ pending' = [pending EXCEPT ![o] = NoLease]

\* write_state, unlock, Ok(lease).
AcquirePublish(o) ==
  /\ lock = o
  /\ lease' = pending[o]
  /\ published' = published \cup {pending[o].epoch}
  /\ held' = [held EXCEPT ![o] = pending[o]]
  /\ Unlock(o)
  /\ UNCHANGED <<epochFile, alive, clock, faults>>

\* write_state reports an error before or after the rename: the caller is told it
\* has nothing new, while the file may already name it.
AcquirePublishFails(o) ==
  /\ lock = o
  /\ \/ UNCHANGED <<lease, published>>
     \/ /\ lease' = pending[o]
        /\ published' = published \cup {pending[o].epoch}
  /\ Unlock(o)
  /\ Fault
  /\ UNCHANGED <<epochFile, held, alive, clock>>

Renewed(l, now) ==
  [owner |-> l.owner, epoch |-> l.epoch, heartbeat |-> now, expires |-> now + Ttl]

\* heartbeat's checks: a lease, the same token, not expired, time not backwards.
MayRenew(o) ==
  /\ alive[o]
  /\ lock = NoOwner
  /\ held[o] # NoLease
  /\ lease # NoLease
  /\ SameToken(lease, held[o])
  /\ ~IsExpired(lease, clock[o])
  /\ clock[o] >= lease.heartbeat
  /\ clock[o] + Ttl <= MaxTime

Heartbeat(o) ==
  /\ MayRenew(o)
  /\ lease' = Renewed(lease, clock[o])
  /\ held' = [held EXCEPT ![o] = lease']
  /\ UNCHANGED <<epochFile, lock, pending, alive, clock, published, faults>>

HeartbeatFails(o) ==
  /\ MayRenew(o)
  /\ lease' \in {lease, Renewed(lease, clock[o])}
  /\ Fault
  /\ UNCHANGED <<epochFile, lock, pending, held, alive, clock, published>>

\* release: only the current token removes the state file; the caller stops
\* using its token whatever the answer.
Release(o) ==
  /\ alive[o] /\ lock = NoOwner /\ held[o] # NoLease
  /\ lease' = IF lease # NoLease /\ SameToken(lease, held[o]) THEN NoLease ELSE lease
  /\ held' = [held EXCEPT ![o] = NoLease]
  /\ UNCHANGED <<epochFile, lock, pending, alive, clock, published, faults>>

ReleaseFails(o) ==
  /\ alive[o] /\ lock = NoOwner /\ held[o] # NoLease
  /\ lease # NoLease /\ SameToken(lease, held[o])
  /\ UNCHANGED lease
  /\ held' = [held EXCEPT ![o] = NoLease]
  /\ Fault
  /\ UNCHANGED <<epochFile, lock, pending, alive, clock, published>>

\* check_fence, in the order the code decides.
FenceDecision(token, now) ==
  IF lease = NoLease THEN "NoLease"
  ELSE IF IsExpired(lease, now) THEN "Expired"
  ELSE IF lease.owner # token.owner THEN "WrongOwner"
  ELSE IF lease.epoch # token.epoch THEN "StaleEpoch"
  ELSE "Allowed"

\* A process dies, also between the writes of acquire; the OS drops its lock.
Crash(o) ==
  /\ alive[o]
  /\ Fault
  /\ alive' = [alive EXCEPT ![o] = FALSE]
  /\ lock' = IF lock = o THEN NoOwner ELSE lock
  /\ pending' = [pending EXCEPT ![o] = NoLease]
  /\ held' = [held EXCEPT ![o] = NoLease]
  /\ UNCHANGED <<lease, epochFile, clock, published>>

Restart(o) ==
  /\ ~alive[o]
  /\ alive' = [alive EXCEPT ![o] = TRUE]
  /\ UNCHANGED <<lease, epochFile, lock, pending, held, clock, published, faults>>

\* Clocks advance on their own and stay within MaxDrift of each other.
Tick(o) ==
  /\ clock[o] < MaxTime
  /\ \A p \in Owners : clock[o] + 1 <= clock[p] + MaxDrift
  /\ clock' = [clock EXCEPT ![o] = @ + 1]
  /\ UNCHANGED <<lease, epochFile, lock, pending, held, alive, published, faults>>

Step(o) ==
  \/ AcquireEpoch(o) \/ AcquireEpochFails(o)
  \/ AcquirePublish(o) \/ AcquirePublishFails(o)
  \/ Heartbeat(o) \/ HeartbeatFails(o)
  \/ Release(o) \/ ReleaseFails(o)
  \/ Crash(o) \/ Restart(o)
  \/ Tick(o)

Next == \E o \in Owners : Step(o)

Spec == Init /\ [][Next]_vars

-----------------------------------------------------------------------------
(* Properties.                                                             *)

\* A token that reaches the state file carries a larger epoch than every token
\* that did before, across releases, crashes between the two writes, and failed
\* writes: "an epoch is never reused" (appcore-provider wiki/guide.en.md).
EpochsGrow ==
  [][lease' # NoLease /\ (lease # NoLease => ~SameToken(lease, lease'))
       => \A e \in published : lease'.epoch > e]_vars

\* A process believes it holds the lease while its own clock is before the
\* expiration it was given.
Believes(o) == held[o] # NoLease /\ clock[o] < held[o].expires

\* With clocks no further apart than clock_skew_ms, two processes never both
\* believe to hold the resource: a lease is taken over only when its holder's
\* clock has passed the expiration too.
OneBeliever ==
  \A o, p \in Owners : Believes(o) /\ Believes(p) => o = p

\* A token that check_fence lets through carries the largest epoch ever
\* published: every older holder is fenced off.
FenceAllowsNewest ==
  \A o \in Owners :
    held[o] # NoLease /\ FenceDecision(held[o], clock[o]) = "Allowed" =>
      \A e \in published : e <= held[o].epoch

-----------------------------------------------------------------------------
(* The inductive invariant behind the properties.                          *)

\* The lock holder is about to publish a lease of its own.
LockInv ==
  /\ \A o \in Owners : lock = o => pending[o] # NoLease /\ pending[o].owner = o
  /\ \A o \in Owners : held[o] # NoLease => held[o].owner = o

\* The sidecar is never behind: it bounds every epoch that was published, and an
\* epoch about to be published is the sidecar's and still unused.
EpochInv ==
  /\ \A e \in published : e <= epochFile
  /\ lease # NoLease => lease.epoch \in published
  /\ lease # NoLease => \A e \in published : e <= lease.epoch
  /\ \A o \in Owners : lock = o =>
       /\ pending[o].epoch = epochFile
       /\ \A e \in published : e < epochFile

\* No clock runs ahead of another by more than MaxDrift.
DriftInv == \A o, p \in Owners : clock[o] <= clock[p] + MaxDrift

\* Nobody believes for longer than the file says, and nobody but the lock holder
\* believes while a lease is being replaced.
BeliefInv ==
  /\ \A o \in Owners : lock = o => pending[o].expires <= clock[o] + Ttl
  /\ \A o \in Owners : held[o] # NoLease =>
       /\ held[o].expires <= clock[o] + Ttl
       /\ lock = o => held[o].expires <= pending[o].expires
  /\ \A o \in Owners : Believes(o) =>
       /\ lease # NoLease
       /\ lease.owner = o
       /\ held[o].expires <= lease.expires
       /\ lock \in {o, NoOwner}
=============================================================================
