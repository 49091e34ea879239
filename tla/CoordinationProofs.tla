-------------------------- MODULE CoordinationProofs ------------------------
(***************************************************************************)
(* Theorems about what processes and nodes agree on: about SharedLease for *)
(* any number of processes, any policy, any clock drift the policy's skew  *)
(* covers, and any number of faults; about ServiceLeadership for any       *)
(* number of cores, any lease term, and any number of lost answers, late   *)
(* requests and restores; about Manifests for any parts a caller may hold, *)
(* any files and any number of calls; about CapabilityRouting for any      *)
(* instances, capabilities and policy of selection.                        *)
(***************************************************************************)
EXTENDS SharedLease, ServiceLeadership, Manifests, CapabilityRouting, FiniteSetTheorems,
        WellFoundedInduction, TLAPS

-----------------------------------------------------------------------------
(* The shared file lease.                                                  *)

\* The leases acquire and heartbeat build are well typed.
LEMMA FreshType ==
  ASSUME LeaseTypes, NEW o \in Owners
  PROVE  /\ NextEpoch \in Nat
         /\ Fresh(o, NextEpoch) \in Lease
         /\ Fresh(o, NextEpoch) # NoLease
         /\ lease # NoLease => Renewed(lease, clock[o]) \in Lease
<1>1. NextEpoch \in Nat
  BY DEF NextEpoch, LeaseTypes, Lease
<1>2. Fresh(o, NextEpoch) \in Lease
  BY <1>1, LeaseAssumption DEF Fresh, LeaseTypes, Lease
<1>3. lease # NoLease => Renewed(lease, clock[o]) \in Lease
  BY LeaseAssumption DEF Renewed, LeaseTypes, Lease
<1> QED BY <1>1, <1>2, <1>3, NoLeaseAssumption

IInv == LeaseTypes /\ LockInv /\ EpochInv

\* Every operation keeps types, the lock discipline and the epoch discipline.
LEMMA IInvStep ==
  ASSUME IInv, NEW o \in Owners, Step(o)
  PROVE  IInv'
<1> USE DEF IInv
<1> USE LeaseAssumption, NoLeaseAssumption
<1>1. CASE AcquireEpoch(o)
  <2>1. NextEpoch = epochFile + 1
    BY DEF NextEpoch, EpochInv, LeaseTypes, Lease
  <2>2. LeaseTypes'
    BY <1>1, FreshType DEF AcquireEpoch, LeaseTypes
  <2>3. LockInv'
    BY <1>1, <2>2, FreshType DEF AcquireEpoch, MayAcquire, LockInv, Fresh, LeaseTypes
  <2>4. /\ pending'[o].epoch = epochFile'
        /\ epochFile' = epochFile + 1
        /\ \A p \in Owners : lock' = p => p = o
    BY <1>1, <2>1 DEF AcquireEpoch, Fresh, LeaseTypes
  <2>a. epochFile \in Nat /\ published \in SUBSET Nat
    BY DEF LeaseTypes
  <2>b. \A e \in published : e <= epochFile
    BY DEF EpochInv
  <2>5. ASSUME NEW e \in published
        PROVE  e <= epochFile' /\ e < epochFile'
    <3>1. e \in Nat /\ e <= epochFile
      BY <2>a, <2>b
    <3> QED BY <3>1, <2>a, <2>4
  <2>6. UNCHANGED <<lease, published>>
    BY <1>1 DEF AcquireEpoch
  <2>7. EpochInv'
    <3>1. \A e \in published' : e <= epochFile' /\ e < epochFile'
      BY <2>5, <2>6
    <3>2. lease' # NoLease =>
            /\ lease'.epoch \in published'
            /\ \A e \in published' : e <= lease'.epoch
      BY <2>6 DEF EpochInv
    <3>3. \A p \in Owners : lock' = p => pending'[p].epoch = epochFile'
      BY <2>4
    <3> QED BY <3>1, <3>2, <3>3 DEF EpochInv
  <2> QED BY <2>2, <2>3, <2>7
<1>2. CASE AcquireEpochFails(o)
  <2>1. NextEpoch = epochFile + 1
    BY DEF NextEpoch, EpochInv, LeaseTypes, Lease
  <2>2. LeaseTypes'
    BY <1>2, FreshType DEF AcquireEpochFails, Fault, LeaseTypes
  <2>3. LockInv' /\ EpochInv'
    BY <1>2, <2>1 DEF AcquireEpochFails, MayAcquire, LockInv, EpochInv, LeaseTypes, Lease
  <2> QED BY <2>2, <2>3
<1>3. CASE AcquirePublish(o) \/ AcquirePublishFails(o)
  <2>1. LeaseTypes'
    <3>1. pending[o] \in Lease /\ pending[o].epoch \in Nat
      BY <1>3 DEF AcquirePublish, AcquirePublishFails, LockInv, LeaseTypes, Lease
    <3>2. lease' \in Lease \cup {NoLease} /\ published' \in SUBSET Nat
      BY <1>3, <3>1 DEF AcquirePublish, AcquirePublishFails, LeaseTypes
    <3>3. /\ lock' \in Owners \cup {NoOwner}
          /\ pending' \in [Owners -> Lease \cup {NoLease}]
          /\ held' \in [Owners -> Lease \cup {NoLease}]
      BY <1>3, <3>1 DEF AcquirePublish, AcquirePublishFails, Unlock, LeaseTypes
    <3>4. faults' \in Nat /\ UNCHANGED <<epochFile, alive, clock>>
      BY <1>3 DEF AcquirePublish, AcquirePublishFails, Fault, LeaseTypes
    <3> QED BY <3>2, <3>3, <3>4 DEF LeaseTypes
  <2>2. LockInv'
    BY <1>3, <2>1 DEF AcquirePublish, AcquirePublishFails, Unlock, LockInv, LeaseTypes
  <2>3. EpochInv'
    BY <1>3, <2>1 DEF AcquirePublish, AcquirePublishFails, Unlock, LockInv, EpochInv, LeaseTypes, Lease
  <2> QED BY <2>1, <2>2, <2>3
<1>4. CASE Heartbeat(o) \/ HeartbeatFails(o)
  <2>1. lease \in Lease /\ (lease' = lease \/ lease' = Renewed(lease, clock[o]))
    BY <1>4 DEF Heartbeat, HeartbeatFails, MayRenew, LeaseTypes
  <2>2. lease' \in Lease /\ lease'.owner = lease.owner /\ lease'.epoch = lease.epoch
    BY <2>1, FreshType DEF Renewed, Lease
  <2>3. LeaseTypes'
    <3>1. held' \in [Owners -> Lease \cup {NoLease}]
      BY <1>4, <2>2 DEF Heartbeat, HeartbeatFails, LeaseTypes
    <3>2. faults' \in Nat /\ UNCHANGED <<epochFile, lock, pending, alive, clock, published>>
      BY <1>4 DEF Heartbeat, HeartbeatFails, Fault, LeaseTypes
    <3> QED BY <2>2, <3>1, <3>2 DEF LeaseTypes
  <2>4. LockInv'
    BY <1>4, <2>2 DEF Heartbeat, HeartbeatFails, MayRenew, SameToken, LockInv, LeaseTypes
  <2>5. EpochInv'
    BY <1>4, <2>2 DEF Heartbeat, HeartbeatFails, MayRenew, EpochInv, LeaseTypes
  <2> QED BY <2>3, <2>4, <2>5
<1>5. CASE Release(o) \/ ReleaseFails(o)
  <2>1. LeaseTypes'
    <3>1. held' \in [Owners -> Lease \cup {NoLease}] /\ lease' \in Lease \cup {NoLease}
      BY <1>5 DEF Release, ReleaseFails, LeaseTypes
    <3>2. faults' \in Nat /\ UNCHANGED <<epochFile, lock, pending, alive, clock, published>>
      BY <1>5 DEF Release, ReleaseFails, Fault, LeaseTypes
    <3> QED BY <3>1, <3>2 DEF LeaseTypes
  <2>2. LockInv'
    BY <1>5 DEF Release, ReleaseFails, LockInv, LeaseTypes
  <2>3. EpochInv'
    <3>1. lease' = lease \/ lease' = NoLease
      BY <1>5 DEF Release, ReleaseFails
    <3>2. UNCHANGED <<epochFile, published, lock, pending>>
      BY <1>5 DEF Release, ReleaseFails
    <3> QED BY <3>1, <3>2 DEF EpochInv
  <2> QED BY <2>1, <2>2, <2>3
<1>6. CASE Crash(o)
  <2>1. LeaseTypes'
    BY <1>6 DEF Crash, Fault, LeaseTypes
  <2>2. LockInv' /\ EpochInv'
    BY <1>6 DEF Crash, LockInv, EpochInv, LeaseTypes
  <2> QED BY <2>1, <2>2
<1>7. CASE Restart(o) \/ Tick(o)
  <2>1. LeaseTypes'
    <3>1. CASE Restart(o)
      BY <3>1 DEF Restart, LeaseTypes
    <3>2. CASE Tick(o)
      BY <3>2 DEF Tick, LeaseTypes
    <3> QED BY <1>7, <3>1, <3>2
  <2>2. LockInv' /\ EpochInv'
    BY <1>7 DEF Restart, Tick, LockInv, EpochInv
  <2> QED BY <2>1, <2>2
<1> QED BY <1>1, <1>2, <1>3, <1>4, <1>5, <1>6, <1>7 DEF Step

\* Lease files, lock and epochs keep their types and disciplines for ever.
THEOREM LeaseDiscipline == Spec => []IInv
<1>1. Init => IInv
  BY LeaseAssumption DEF Init, IInv, LeaseTypes, LockInv, EpochInv
<1>2. IInv /\ [Next]_vars => IInv'
  <2>1. ASSUME IInv, UNCHANGED vars PROVE IInv'
    BY <2>1 DEF vars, IInv, LeaseTypes, LockInv, EpochInv
  <2> QED BY <2>1, IInvStep DEF Next
<1> QED BY <1>1, <1>2, PTL DEF Spec

\* No operation stores an epoch or an expiration beyond its u64.
LEMMA RepresentableStep ==
  ASSUME IInv, Representable, NEW o \in Owners, Step(o)
  PROVE  Representable'
<1> USE LeaseAssumption, NoLeaseAssumption
<1>0. LeaseTypes /\ LockInv
  BY DEF IInv
<1>1. CASE AcquireEpoch(o)
  <2>1. Fits(Fresh(o, NextEpoch))
    BY <1>1 DEF AcquireEpoch, MayAcquire, Fits, Fresh
  <2> QED BY <1>0, <1>1, <2>1 DEF AcquireEpoch, MayAcquire, Representable, LeaseTypes, Fits
<1>2. CASE AcquireEpochFails(o)
  BY <1>2 DEF AcquireEpochFails, MayAcquire, Representable, Fits
<1>3. CASE AcquirePublish(o) \/ AcquirePublishFails(o)
  <2>1. Fits(NoLease)
    BY DEF Fits
  <2>2. /\ lease' \in {lease, pending[o]}
        /\ \A p \in Owners : pending'[p] \in {pending[p], NoLease}
        /\ \A p \in Owners : held'[p] \in {held[p], pending[p]}
        /\ epochFile' = epochFile
    BY <1>0, <1>3 DEF AcquirePublish, AcquirePublishFails, Unlock, LeaseTypes
  <2> QED BY <2>1, <2>2 DEF Representable, Fits
<1>4. CASE Heartbeat(o) \/ HeartbeatFails(o)
  <2>1. Fits(Renewed(lease, clock[o]))
    BY <1>4 DEF Heartbeat, HeartbeatFails, MayRenew, Representable, Fits, Renewed
  <2>2. /\ lease' \in {lease, Renewed(lease, clock[o])}
        /\ \A p \in Owners : held'[p] \in {held[p], Renewed(lease, clock[o])}
        /\ UNCHANGED <<epochFile, pending>>
    BY <1>0, <1>4 DEF Heartbeat, HeartbeatFails, LeaseTypes
  <2> QED BY <2>1, <2>2 DEF Representable, Fits
<1>5. CASE Release(o) \/ ReleaseFails(o)
  BY <1>0, <1>5 DEF Release, ReleaseFails, Representable, Fits, LeaseTypes
<1>6. CASE Crash(o)
  BY <1>0, <1>6 DEF Crash, Representable, Fits, LeaseTypes
<1>7. CASE Restart(o) \/ Tick(o)
  BY <1>7 DEF Restart, Tick, Representable, Fits
<1> QED BY <1>1, <1>2, <1>3, <1>4, <1>5, <1>6, <1>7 DEF Step

\* The files and the processes' leases keep their types, and no epoch and no
\* expiration ever overflows the u64 it is stored in.
THEOREM LeaseTypeCorrect == Spec => []TypeOK
<1>1. Init => Representable
  BY LeaseAssumption DEF Init, Representable, Fits
<1>2. IInv /\ Representable /\ [Next]_vars => Representable'
  <2>1. CASE UNCHANGED vars
    BY <2>1 DEF vars, Representable, Fits
  <2> QED BY <2>1, RepresentableStep DEF Next
<1>3. IInv /\ Representable => TypeOK
  BY DEF IInv, TypeOK
<1> QED BY <1>1, <1>2, <1>3, LeaseDiscipline, PTL DEF Spec

\* An epoch is never reused: every token that reaches the state file is newer
\* than all that did before, whatever crashes and failed writes intervene.
THEOREM EpochsNeverReused == Spec => EpochsGrow
<1> DEFINE Grow == lease' # NoLease /\ (lease # NoLease => ~SameToken(lease, lease'))
                     => \A e \in published : lease'.epoch > e
<1>1. ASSUME IInv, [Next]_vars
      PROVE  [Grow]_vars
  <2>1. ASSUME NEW o \in Owners, AcquirePublish(o) \/ AcquirePublishFails(o)
        PROVE  Grow
    BY <1>1, <2>1, LeaseAssumption DEF IInv, AcquirePublish, AcquirePublishFails, LockInv, EpochInv, LeaseTypes,
       Lease, SameToken
  <2>2. ASSUME NEW o \in Owners, Heartbeat(o) \/ HeartbeatFails(o)
        PROVE  Grow
    BY <1>1, <2>2 DEF IInv, LeaseTypes, Lease, Heartbeat, HeartbeatFails, MayRenew, Renewed, SameToken
  <2>3. ASSUME NEW o \in Owners,
               \/ AcquireEpoch(o) \/ AcquireEpochFails(o) \/ Release(o) \/ ReleaseFails(o)
               \/ Crash(o) \/ Restart(o) \/ Tick(o)
        PROVE  Grow
    BY <2>3 DEF AcquireEpoch, AcquireEpochFails, Release, ReleaseFails, Crash, Restart, Tick, SameToken
  <2> QED BY <1>1, <2>1, <2>2, <2>3 DEF Next, Step
<1>2. EpochsGrow <=> [][Grow]_vars
  BY PTL DEF EpochsGrow
<1> QED BY <1>1, <1>2, LeaseDiscipline, PTL DEF Spec

\* A writer that check_fence lets through carries the newest epoch.
THEOREM FenceIsSound == Spec => []FenceAllowsNewest
<1>1. IInv => FenceAllowsNewest
  BY DEF IInv, EpochInv, FenceAllowsNewest, FenceDecision
<1> QED BY <1>1, LeaseDiscipline, PTL

-----------------------------------------------------------------------------

BInv == IInv /\ DriftInv /\ BeliefInv

\* With clocks within the policy's skew, a process that believes to hold the
\* lease cannot be overtaken.
LEMMA NoTakeover ==
  ASSUME MaxDrift <= ClockSkew, BInv, NEW o \in Owners, NEW p \in Owners, Believes(o), MayAcquire(p)
  PROVE  p = o
<1>1. /\ lease # NoLease
      /\ lease.owner = o
      /\ held[o].expires <= lease.expires
      /\ clock[o] < held[o].expires
  BY DEF BInv, BeliefInv, Believes
<1>2. clock[p] <= clock[o] + MaxDrift
  BY DEF BInv, DriftInv
<1>3. /\ lease \in Lease /\ held[o] \in Lease
      /\ clock[o] \in Nat /\ clock[p] \in Nat
  BY <1>1 DEF BInv, IInv, LeaseTypes, Believes
<1>4. ~IsExpired(lease, clock[p])
  BY <1>1, <1>2, <1>3, LeaseAssumption DEF IsExpired, Lease
<1> QED BY <1>1, <1>4 DEF MayAcquire

\* Beliefs stay backed by the file.
LEMMA BInvStep ==
  ASSUME MaxDrift <= ClockSkew, BInv, NEW o \in Owners, Step(o)
  PROVE  BInv'
<1> USE LeaseAssumption, NoLeaseAssumption
<1>0. IInv' /\ LeaseTypes /\ LeaseTypes'
  BY IInvStep DEF BInv, IInv
<1>1. CASE AcquireEpoch(o)
  <2>1. \A p \in Owners : Believes(p) => p = o
    BY <1>1, NoTakeover DEF AcquireEpoch
  <2>2. Fresh(o, NextEpoch).expires = clock[o] + Ttl
    BY DEF Fresh
  <2>3. \A p \in Owners : Believes(p)' <=> Believes(p)
    BY <1>1 DEF AcquireEpoch, Believes
  <2> QED BY <1>0, <1>1, <2>1, <2>2, <2>3 DEF AcquireEpoch, MayAcquire, BInv, DriftInv, BeliefInv, LeaseTypes
<1>2. CASE AcquireEpochFails(o)
  BY <1>0, <1>2 DEF AcquireEpochFails, BInv, DriftInv, BeliefInv, Believes
<1>3. CASE AcquirePublish(o)
  <2>1. \A p \in Owners : p # o => ~Believes(p)
    BY <1>3 DEF AcquirePublish, BInv, BeliefInv
  <2>2. /\ held' = [held EXCEPT ![o] = pending[o]]
        /\ lease' = pending[o]
        /\ lock' = NoOwner
        /\ clock' = clock
        /\ pending[o] \in Lease
        /\ pending[o].owner = o
    BY <1>0, <1>3 DEF AcquirePublish, Unlock, BInv, IInv, LockInv, LeaseTypes
  <2>3. pending[o].expires <= clock[o] + Ttl
    BY <1>3 DEF AcquirePublish, BInv, BeliefInv
  <2>4. \A p \in Owners : Believes(p)' => p = o
    BY <1>0, <2>1, <2>2 DEF Believes, LeaseTypes
  <2> QED BY <1>0, <2>2, <2>3, <2>4 DEF BInv, DriftInv, BeliefInv, LeaseTypes, Lease
<1>4. CASE AcquirePublishFails(o)
  <2>1. \A p \in Owners : p # o => ~Believes(p)
    BY <1>4 DEF AcquirePublishFails, BInv, BeliefInv
  <2>2. /\ lock = o
        /\ lock' = NoOwner
        /\ lease' = lease \/ lease' = pending[o]
        /\ UNCHANGED <<held, clock>>
        /\ pending[o] # NoLease
        /\ pending[o].owner = o
    BY <1>0, <1>4 DEF AcquirePublishFails, Unlock, BInv, IInv, LockInv
  <2>3. \A p \in Owners : Believes(p)' => Believes(p) /\ p = o
    BY <2>1, <2>2 DEF Believes
  <2> QED BY <1>0, <2>2, <2>3 DEF BInv, DriftInv, BeliefInv, Believes
<1>5. CASE Heartbeat(o) \/ HeartbeatFails(o)
  <2>1. /\ lease \in Lease
        /\ lease.owner = o
        /\ lock = NoOwner
        /\ lease' = lease \/ lease' = Renewed(lease, clock[o])
        /\ held' = held \/ held' = [held EXCEPT ![o] = lease']
        /\ UNCHANGED <<lock, pending, clock>>
        /\ lease' = lease => held' = held \/ lease'.expires = clock[o] + Ttl
    BY <1>5 DEF Heartbeat, HeartbeatFails, MayRenew, SameToken, BInv, IInv, LockInv, LeaseTypes, Renewed, Lease
  <2>2. lease' \in Lease /\ lease'.owner = o
    BY <1>0, <2>1, FreshType DEF Renewed, Lease
  <2>3. lease' # lease => lease'.expires = clock[o] + Ttl
    BY <2>1 DEF Renewed
  <2>4. held[o] # NoLease => held[o].expires <= clock[o] + Ttl
    BY DEF BInv, BeliefInv
  <2>5. \A p \in Owners : p # o => ~Believes(p)
    BY <2>1 DEF BInv, BeliefInv
  <2>6. \A p \in Owners : Believes(p)' => p = o
    BY <1>0, <2>1, <2>5 DEF Believes, LeaseTypes
  <2>7. BeliefInv'
    <3>1. CASE held' = [held EXCEPT ![o] = lease'] /\ lease'.expires = clock[o] + Ttl
      BY <1>0, <2>1, <2>2, <2>6, <3>1 DEF BInv, BeliefInv, Believes, LeaseTypes, Lease
    <3>2. CASE held' = held
      <4>1. held[o] # NoLease /\ Believes(o) => held[o].expires <= lease'.expires
        BY <2>1, <2>3, <2>4 DEF BInv, BeliefInv
      <4> QED BY <1>0, <2>1, <2>2, <2>6, <3>2, <4>1 DEF BInv, BeliefInv, Believes
    <3> QED BY <2>1, <2>3, <3>1, <3>2
  <2> QED BY <1>0, <2>1, <2>7 DEF BInv, DriftInv
<1>6. CASE Release(o) \/ ReleaseFails(o)
  <2>1. /\ held' = [held EXCEPT ![o] = NoLease]
        /\ lease' = lease \/ lease.owner = o
        /\ UNCHANGED <<lock, pending, clock>>
    BY <1>6 DEF Release, ReleaseFails, SameToken, BInv, IInv, LockInv
  <2>2. \A p \in Owners : Believes(p)' => Believes(p) /\ p # o
    BY <1>0, <2>1 DEF Believes, LeaseTypes
  <2>3. \A p \in Owners : Believes(p)' => lease' = lease
    BY <2>1, <2>2 DEF BInv, BeliefInv
  <2> QED BY <1>0, <2>1, <2>2, <2>3 DEF BInv, DriftInv, BeliefInv, LeaseTypes
<1>7. CASE Crash(o)
  <2>1. /\ held' = [held EXCEPT ![o] = NoLease]
        /\ lock' = IF lock = o THEN NoOwner ELSE lock
        /\ pending' = [pending EXCEPT ![o] = NoLease]
        /\ UNCHANGED <<lease, clock>>
    BY <1>7 DEF Crash
  <2>2. \A p \in Owners : Believes(p)' => Believes(p) /\ p # o
    BY <1>0, <2>1 DEF Believes, LeaseTypes
  <2> QED BY <1>0, <2>1, <2>2 DEF BInv, DriftInv, BeliefInv, LeaseTypes
<1>8. CASE Restart(o)
  BY <1>0, <1>8 DEF Restart, BInv, DriftInv, BeliefInv, Believes
<1>9. CASE Tick(o)
  <2>1. /\ \A p \in Owners : clock[p] \in Nat /\ clock'[p] \in Nat /\ clock[p] <= clock'[p]
        /\ UNCHANGED <<lease, lock, pending, held>>
    BY <1>0, <1>9 DEF Tick, LeaseTypes
  <2>2. DriftInv'
    BY <1>0, <1>9 DEF Tick, BInv, DriftInv, LeaseTypes
  <2>3. \A p \in Owners : held[p] # NoLease => held[p].expires \in Nat
    BY <1>0 DEF LeaseTypes, Lease
  <2>4. \A p \in Owners : lock = p => pending[p].expires \in Nat
    BY <1>0 DEF BInv, IInv, LockInv, LeaseTypes, Lease
  <2>5. \A p \in Owners : Believes(p)' => Believes(p)
    BY <2>1, <2>3 DEF Believes
  <2>6. BeliefInv'
    BY <2>1, <2>3, <2>4, <2>5 DEF BInv, BeliefInv
  <2> QED BY <1>0, <2>2, <2>6 DEF BInv
<1> QED BY <1>1, <1>2, <1>3, <1>4, <1>5, <1>6, <1>7, <1>8, <1>9 DEF Step

\* If clocks stay within the policy's skew, no two processes ever both believe to
\* hold the resource.
THEOREM MutualExclusion ==
  ASSUME MaxDrift <= ClockSkew
  PROVE  Spec => []OneBeliever
<1>1. Init => BInv
  BY LeaseAssumption DEF Init, BInv, IInv, LeaseTypes, LockInv, EpochInv, DriftInv, BeliefInv, Believes
<1>2. BInv /\ [Next]_vars => BInv'
  <2>1. ASSUME BInv, UNCHANGED vars PROVE BInv'
    BY <2>1 DEF vars, BInv, IInv, LeaseTypes, LockInv, EpochInv, DriftInv, BeliefInv, Believes
  <2> QED BY <2>1, BInvStep DEF Next
<1>3. BInv => OneBeliever
  BY DEF BInv, BeliefInv, OneBeliever
<1> QED BY <1>1, <1>2, <1>3, PTL DEF Spec

-----------------------------------------------------------------------------
(* Leadership at the control plane, manifests and routing.                 *)

\* A slot's lease has an epoch the slot knows.
SlotOK(s) == s.lease # NoServiceLease => 1 <= s.lease.epoch /\ s.lease.epoch <= s.lastEpoch

SlotsOK == SlotOK(slot) /\ (backup # NoBackup => SlotOK(backup))

\* A core that releases a lease has withdrawn it from its guard.
Withdrawn ==
  \A c \in Cores : client[c].pc = "release" =>
    /\ guard[c] = NoServiceLease
    /\ client[c].lease # NoServiceLease /\ client[c].lease.holder = c

\* The leases a core may write with: the guard's, and the one of an answer under way.
HeldBy(c, l) == guard[c] = l \/ (client[c].pc = "granted" /\ client[c].lease = l)

\* No lease outlives a term from now.
Term ==
  /\ safeFrom <= now + LeaseTtl
  /\ \A c \in Cores, l \in ServiceLease : HeldBy(c, l) => l.expires <= now + LeaseTtl

\* A lease handed out since the slot last lost one is the slot's, or the slot has
\* its renewal.
Backed(l) ==
  l.expires > now /\ l.expires > safeFrom =>
    /\ slot.lease # NoServiceLease
    /\ slot.lease.holder = l.holder
    /\ slot.lease.expires >= l.expires

HeldLeasesBacked ==
  \A c \in Cores, l \in ServiceLease : HeldBy(c, l) => l.holder = c /\ Backed(l)

LeaderInv == LeadershipTypeOK /\ SlotsOK /\ Withdrawn /\ Term /\ HeldLeasesBacked

\* Without a restore, last_epoch bounds what was granted, and the slot's lease was.
ServiceEpochInv ==
  restores = 0 =>
    /\ \A g \in granted : g.epoch <= slot.lastEpoch
    /\ slot.lease # NoServiceLease =>
         [epoch |-> slot.lease.epoch, holder |-> slot.lease.holder] \in granted
    /\ EpochIdentifiesHolder

-----------------------------------------------------------------------------
(* What the control plane and a client do to the state.                    *)

\* What a client's call in progress is.
ClientStates ==
  [pc : {"idle", "acquire", "granted", "release"}, attempt : Nat,
   lease : ServiceLease \cup {NoServiceLease}]

\* The fields of a lease are numbers.
LEMMA LeaseFacts ==
  ASSUME LeadershipAssumption, NEW l \in ServiceLease
  PROVE  /\ l.holder \in Cores
         /\ l.epoch \in Nat /\ l.epoch <= MaxLeadershipEpoch
         /\ l.expires \in Nat /\ l.expires <= MaxLeadershipTime
  BY DEF LeadershipAssumption, ServiceLease

\* The variables' types, one by one.
LEMMA Types ==
  ASSUME LeadershipTypeOK, LeadershipAssumption
  PROVE  /\ client \in [Cores -> ClientStates]
         /\ guard \in [Cores -> ServiceLease \cup {NoServiceLease}]
         /\ slot.lease \in ServiceLease \cup {NoServiceLease}
         /\ slot.lastEpoch \in 0..MaxLeadershipEpoch
         /\ slot = [lease |-> slot.lease, lastEpoch |-> slot.lastEpoch]
         /\ now \in Nat /\ now <= MaxLeadershipTime /\ safeFrom \in Nat
  BY DEF LeadershipTypeOK, LeadershipAssumption, ClientStates, Slot

\* A lease that is granted is the core's, new or a renewal, and lasts a term.
LEMMA GrantFacts ==
  ASSUME LeadershipAssumption, LeadershipTypeOK, SlotOK(slot), NEW c \in Cores, Grantable(c)
  PROVE  /\ Grant(c) \in ServiceLease /\ Grant(c) # NoServiceLease
         /\ Grant(c).holder = c /\ Grant(c).expires = now + LeaseTtl
         /\ Grant(c).epoch \in Nat /\ 1 <= Grant(c).epoch
         /\ Live(slot.lease) =>
              slot.lease.holder = c /\ Grant(c).epoch = slot.lease.epoch
         /\ ~Live(slot.lease) => Grant(c).epoch = slot.lastEpoch + 1
<1>0. /\ now + LeaseTtl \in 0..MaxLeadershipTime
      /\ slot.lastEpoch \in Nat
      /\ Live(slot.lease) => /\ slot.lease.holder = c /\ slot.lease \in ServiceLease
                             /\ slot.lease.epoch \in 0..MaxLeadershipEpoch /\ 1 <= slot.lease.epoch
      /\ ~Live(slot.lease) => slot.lastEpoch + 1 \in 0..MaxLeadershipEpoch
  BY Types, LeaseFacts DEF Grantable, Live, SlotOK, LeadershipAssumption
<1>1. (IF Live(slot.lease) THEN slot.lease.epoch ELSE slot.lastEpoch + 1) \in 0..MaxLeadershipEpoch
  BY <1>0
<1>2. Grant(c) \in ServiceLease
  BY <1>0, <1>1 DEF Grant, ServiceLease
<1> QED  BY <1>0, <1>1, <1>2 DEF Grant, LeadershipAssumption

\* Granting keeps the slot's type and its order, and never takes last_epoch back.
LEMMA GrantSlotFacts ==
  ASSUME LeadershipAssumption, LeadershipTypeOK, SlotOK(slot), NEW c \in Cores, Grantable(c), GrantSlot(c)
  PROVE  /\ slot' \in Slot /\ SlotOK(slot)'
         /\ granted' \in SUBSET [epoch : 0..MaxLeadershipEpoch, holder : Cores]
         /\ slot'.lease = Grant(c)
         /\ slot'.lastEpoch >= slot.lastEpoch
         /\ Grant(c).epoch <= slot'.lastEpoch
<1>0. /\ Grant(c).epoch \in Nat /\ Grant(c).epoch <= MaxLeadershipEpoch
      /\ slot.lastEpoch \in Nat /\ slot.lastEpoch <= MaxLeadershipEpoch /\ MaxLeadershipEpoch \in Nat
  BY GrantFacts, LeaseFacts, Types DEF LeadershipAssumption
<1>1. /\ Larger(slot.lastEpoch, Grant(c).epoch) \in 0..MaxLeadershipEpoch
      /\ Larger(slot.lastEpoch, Grant(c).epoch) >= slot.lastEpoch
      /\ Larger(slot.lastEpoch, Grant(c).epoch) >= Grant(c).epoch
  BY <1>0 DEF Larger
<1>2. slot'.lease = Grant(c) /\ slot'.lastEpoch = Larger(slot.lastEpoch, Grant(c).epoch)
  BY DEF GrantSlot
<1>3. slot' \in Slot
  BY <1>1, GrantFacts DEF GrantSlot, Slot
<1>4. granted' \in SUBSET [epoch : 0..MaxLeadershipEpoch, holder : Cores]
  BY <1>0 DEF GrantSlot, LeadershipTypeOK
<1> QED  BY <1>0, <1>1, <1>2, <1>3, <1>4, GrantFacts DEF SlotOK

\* A failed attempt ends the call or repeats it.
LEMMA NextAttemptFacts ==
  ASSUME LeadershipAssumption, LeadershipTypeOK, NEW c \in Cores, NextAttempt(c)
  PROVE  /\ client' \in [Cores -> ClientStates]
         /\ \A d \in Cores : d # c => client'[d] = client[d]
         /\ \/ client'[c].pc = "idle"
            \/ client'[c].pc = client[c].pc /\ client'[c].lease = client[c].lease
<1>1. /\ client[c].attempt + 1 \in Nat /\ client[c].lease \in ServiceLease \cup {NoServiceLease}
      /\ client[c].pc \in {"idle", "acquire", "granted", "release"}
  BY Types DEF ClientStates
<1>2. Idle \in ClientStates /\ Idle.pc = "idle"
  BY DEF Idle, ClientStates
<1>3. [pc |-> client[c].pc, attempt |-> client[c].attempt + 1, lease |-> client[c].lease]
        \in ClientStates
  BY <1>1 DEF ClientStates
<1> QED  BY <1>2, <1>3, Types DEF NextAttempt

-----------------------------------------------------------------------------
(* Types and slots.                                                        *)

\* The types hold at the start.
LEMMA TypeInit == ASSUME LeadershipAssumption PROVE LeadershipInit => LeadershipTypeOK /\ SlotsOK
  BY DEF LeadershipAssumption, LeadershipInit, LeadershipTypeOK, Idle, Slot, SlotsOK, SlotOK

\* Every step keeps the types and the order of a slot's epochs.
LEMMA TypeStep ==
  ASSUME LeadershipAssumption, LeadershipTypeOK, SlotsOK, LeadershipNext
  PROVE  LeadershipTypeOK' /\ SlotsOK'
<1>0. slot \in Slot /\ SlotOK(slot) /\ SlotOK(slot) /\ (backup # NoBackup => SlotOK(backup))
  BY DEF LeadershipTypeOK, SlotsOK
<1>1. ASSUME NEW c \in Cores, CallAcquire(c)  PROVE LeadershipTypeOK' /\ SlotsOK'
  <2>1. client' \in [Cores -> ClientStates]
    BY <1>1, Types DEF CallAcquire, ClientStates
  <2> QED  BY <1>1, <2>1 DEF CallAcquire, LeadershipTypeOK, ClientStates, SlotsOK, SlotOK
<1>2. ASSUME NEW c \in Cores, CallRelease(c)  PROVE LeadershipTypeOK' /\ SlotsOK'
  <2>1. /\ client' \in [Cores -> ClientStates]
        /\ guard' \in [Cores -> ServiceLease \cup {NoServiceLease}]
    BY <1>2, Types DEF CallRelease, ClientStates
  <2> QED  BY <1>2, <2>1 DEF CallRelease, LeadershipTypeOK, ClientStates, SlotsOK, SlotOK
<1>3. ASSUME NEW c \in Cores, ServeAcquire(c)  PROVE LeadershipTypeOK' /\ SlotsOK'
  <2>1. client' \in [Cores -> ClientStates]
    BY <1>0, <1>3, Types, GrantFacts DEF ServeAcquire, ClientStates
  <2>2. /\ slot' \in Slot /\ SlotOK(slot)'
        /\ granted' \in SUBSET [epoch : 0..MaxLeadershipEpoch, holder : Cores]
    BY <1>0, <1>3, GrantSlotFacts DEF ServeAcquire
  <2> QED  BY <1>3, <2>1, <2>2 DEF ServeAcquire, LeadershipTypeOK, ClientStates, SlotsOK, SlotOK
<1>4. ASSUME NEW c \in Cores, RefuseAcquire(c) \/ RefuseRelease(c)  PROVE LeadershipTypeOK' /\ SlotsOK'
  BY <1>4, NextAttemptFacts DEF RefuseAcquire, RefuseRelease, LeadershipTypeOK, ClientStates, SlotsOK, SlotOK
<1>5. ASSUME NEW c \in Cores, ServeRelease(c)  PROVE LeadershipTypeOK' /\ SlotsOK'
  <2>1. client' \in [Cores -> ClientStates]
    BY <1>5, Types DEF ServeRelease, Idle, ClientStates
  <2>2. slot' \in Slot /\ slot'.lease = NoServiceLease /\ UNCHANGED granted
    BY <1>5, Types DEF ServeRelease, ReleaseSlot, Slot
  <2> QED  BY <1>5, <2>1, <2>2 DEF ServeRelease, LeadershipTypeOK, ClientStates, SlotsOK, SlotOK
<1>6. ASSUME NEW c \in Cores, Install(c)  PROVE LeadershipTypeOK' /\ SlotsOK'
  <2>1. /\ client' \in [Cores -> ClientStates]
        /\ guard' \in [Cores -> ServiceLease \cup {NoServiceLease}]
    BY <1>6, Types DEF Install, Idle, ClientStates
  <2> QED  BY <1>6, <2>1 DEF Install, LeadershipTypeOK, ClientStates, SlotsOK, SlotOK
<1>7. ASSUME NEW c \in Cores, Timeout(c)  PROVE LeadershipTypeOK' /\ SlotsOK'
  <2>1. delayed' \in SUBSET Requests
    <3>1. [op |-> client[c].pc, core |-> c, lease |-> client[c].lease] \in Requests
      BY <1>7, Types DEF Timeout, ClientStates, Requests
    <3> QED  BY <1>7, <3>1 DEF Timeout, LeadershipTypeOK
  <2>2. client' \in [Cores -> ClientStates]
    BY <1>7, NextAttemptFacts DEF Timeout
  <2> QED  BY <1>7, <2>1, <2>2 DEF Timeout, LeadershipTypeOK, ClientStates, SlotsOK, SlotOK
<1>8. ASSUME NEW c \in Cores, LoseAnswer(c)  PROVE LeadershipTypeOK' /\ SlotsOK'
  <2>1. client' \in [Cores -> ClientStates]
    BY <1>8, Types DEF LoseAnswer, Idle, ClientStates
  <2> QED  BY <1>8, <2>1 DEF LoseAnswer, LeadershipTypeOK, ClientStates, SlotsOK, SlotOK
<1>9. ASSUME NEW r \in delayed, ExecuteDelayed(r)  PROVE LeadershipTypeOK' /\ SlotsOK'
  <2>1. r.core \in Cores
    BY DEF LeadershipTypeOK, Requests
  <2>2. CASE Grantable(r.core) /\ GrantSlot(r.core) /\ UNCHANGED safeFrom
    <3>1. /\ slot' \in Slot /\ SlotOK(slot)'
          /\ granted' \in SUBSET [epoch : 0..MaxLeadershipEpoch, holder : Cores]
      BY <1>0, <2>1, <2>2, GrantSlotFacts
    <3> QED  BY <1>9, <2>2, <3>1 DEF ExecuteDelayed, LeadershipTypeOK, SlotsOK, SlotOK
  <2>3. CASE ReleaseSlot /\ safeFrom' = now + LeaseTtl
    <3>1. slot' \in Slot /\ slot'.lease = NoServiceLease /\ UNCHANGED granted /\ safeFrom' \in Nat
      BY <2>3, Types DEF ReleaseSlot, Slot, LeadershipAssumption
    <3> QED  BY <1>9, <3>1 DEF ExecuteDelayed, LeadershipTypeOK, SlotsOK, SlotOK
  <2> QED  BY <1>9, <2>2, <2>3 DEF ExecuteDelayed
<1>10. CASE BackupSlots
  BY <1>0, <1>10 DEF BackupSlots, LeadershipTypeOK, SlotsOK, SlotOK
<1>11. CASE RestoreFrom
  <2>1. slot' \in Slot /\ SlotOK(slot)' /\ safeFrom' \in Nat /\ restores' \in Nat
    BY <1>0, <1>11, Types DEF RestoreFrom, LeadershipTypeOK, SlotOK, LeadershipAssumption
  <2> QED  BY <1>11, <2>1 DEF RestoreFrom, LeadershipTypeOK, SlotsOK, SlotOK
<1>12. CASE LeadershipTick
  <2>1. now' \in 0..MaxLeadershipTime
    BY <1>12, Types DEF LeadershipTick, LeadershipAssumption
  <2> QED  BY <1>12, <2>1 DEF LeadershipTick, LeadershipTypeOK, SlotsOK, SlotOK
<1> QED  BY <1>1, <1>2, <1>3, <1>4, <1>5, <1>6, <1>7, <1>8, <1>9, <1>10, <1>11, <1>12
         DEF LeadershipNext, CoreStep

-----------------------------------------------------------------------------
(* Leases in hand.                                                         *)

\* A lease in hand was in hand before, or was just granted.
LEMMA HeldSteps ==
  ASSUME LeadershipAssumption, LeadershipTypeOK, LeadershipNext, NEW d \in Cores, NEW l \in ServiceLease, HeldBy(d, l)'
  PROVE  HeldBy(d, l) \/ (ServeAcquire(d) /\ l = Grant(d))
<1>0. l # NoServiceLease
  BY DEF LeadershipAssumption
<1>1. ASSUME NEW c \in Cores, CallAcquire(c) \/ CallRelease(c) \/ Install(c) \/ LoseAnswer(c)
      PROVE  HeldBy(d, l)
  BY <1>0, <1>1, Types
     DEF CallAcquire, CallRelease, Install, LoseAnswer, Idle, HeldBy, ClientStates
<1>2. ASSUME NEW c \in Cores, ServeRelease(c)  PROVE HeldBy(d, l)
  BY <1>2, Types DEF ServeRelease, Idle, HeldBy, ClientStates
<1>3. ASSUME NEW c \in Cores, RefuseAcquire(c) \/ RefuseRelease(c) \/ Timeout(c)
      PROVE  HeldBy(d, l)
  BY <1>3, NextAttemptFacts DEF RefuseAcquire, RefuseRelease, Timeout, HeldBy
<1>4. ASSUME NEW c \in Cores, ServeAcquire(c)
      PROVE  HeldBy(d, l) \/ (ServeAcquire(d) /\ l = Grant(d))
  <2>1. client' = [client EXCEPT ![c] = [pc |-> "granted", attempt |-> client[c].attempt,
                                         lease |-> Grant(c)]]
        /\ UNCHANGED guard
    BY <1>4 DEF ServeAcquire
  <2> QED  BY <1>4, <2>1, Types DEF HeldBy
<1>5. ASSUME NEW r \in delayed, ExecuteDelayed(r)  PROVE HeldBy(d, l)
  BY <1>5 DEF ExecuteDelayed, HeldBy
<1>6. CASE BackupSlots \/ RestoreFrom \/ LeadershipTick
  BY <1>6 DEF BackupSlots, RestoreFrom, LeadershipTick, HeldBy
<1> QED  BY <1>1, <1>2, <1>3, <1>4, <1>5, <1>6 DEF LeadershipNext, CoreStep

\* A core that begins to release withdraws its lease first, and holds none until
\* the call is over.
LEMMA WithdrawnStep ==
  ASSUME LeadershipAssumption, LeaderInv, LeadershipNext
  PROVE  Withdrawn'
<1> SUFFICES ASSUME NEW d \in Cores, client'[d].pc = "release"
             PROVE  /\ guard'[d] = NoServiceLease
                    /\ client'[d].lease # NoServiceLease /\ client'[d].lease.holder = d
  BY DEF Withdrawn
<1>0. LeadershipTypeOK /\ Withdrawn
  BY DEF LeaderInv
<1>1. ASSUME NEW c \in Cores, CallRelease(c), c = d
      PROVE  /\ guard'[d] = NoServiceLease
             /\ client'[d].lease # NoServiceLease /\ client'[d].lease.holder = d
  <2>1. guard[d] \in ServiceLease /\ guard[d].holder = d
    BY <1>0, <1>1, Types DEF CallRelease, LeaderInv, HeldLeasesBacked, HeldBy
  <2> QED  BY <1>0, <1>1, <2>1, Types DEF CallRelease
<1>2. ASSUME client[d].pc = "release", client'[d].lease = client[d].lease,
             guard'[d] = guard[d]
      PROVE  /\ guard'[d] = NoServiceLease
             /\ client'[d].lease # NoServiceLease /\ client'[d].lease.holder = d
  BY <1>0, <1>2 DEF Withdrawn
<1>3. ASSUME NEW c \in Cores,
             \/ CallAcquire(c) \/ (CallRelease(c) /\ c # d) \/ Install(c) \/ LoseAnswer(c)
             \/ ServeRelease(c) \/ ServeAcquire(c)
      PROVE  client[d].pc = "release" /\ client'[d] = client[d] /\ guard'[d] = guard[d]
  BY <1>0, <1>3, Types
     DEF CallAcquire, CallRelease, Install, LoseAnswer, ServeRelease, ServeAcquire, Idle
<1>4. ASSUME NEW c \in Cores, RefuseAcquire(c) \/ RefuseRelease(c) \/ Timeout(c)
      PROVE  /\ client[d].pc = "release" /\ client'[d].lease = client[d].lease
             /\ guard'[d] = guard[d]
  BY <1>0, <1>4, NextAttemptFacts DEF RefuseAcquire, RefuseRelease, Timeout
<1>5. ASSUME NEW r \in delayed, ExecuteDelayed(r)
      PROVE  UNCHANGED <<client, guard>>
  BY <1>5 DEF ExecuteDelayed
<1>6. CASE BackupSlots \/ RestoreFrom \/ LeadershipTick
  BY <1>2, <1>6 DEF BackupSlots, RestoreFrom, LeadershipTick
<1> QED  BY <1>1, <1>2, <1>3, <1>4, <1>5, <1>6 DEF LeadershipNext, CoreStep

\* How a step changes what decides about a lease: the slot, the clock, the time
\* from which two leaders exclude each other.
LEMMA SlotSteps ==
  ASSUME LeadershipNext
  PROVE  \/ UNCHANGED <<slot, now, safeFrom>>
         \/ \E c \in Cores : Grantable(c) /\ GrantSlot(c) /\ UNCHANGED <<now, safeFrom>>
         \/ \E r \in delayed : /\ r.op = "acquire" /\ Grantable(r.core) /\ GrantSlot(r.core)
                               /\ UNCHANGED <<now, safeFrom>>
         \/ \E c \in Cores : ServeRelease(c)
         \/ safeFrom' = now + LeaseTtl /\ UNCHANGED now
         \/ LeadershipTick
<1>1. ASSUME NEW c \in Cores,
             \/ CallAcquire(c) \/ CallRelease(c) \/ Install(c) \/ LoseAnswer(c)
             \/ RefuseAcquire(c) \/ RefuseRelease(c) \/ Timeout(c)
      PROVE  UNCHANGED <<slot, now, safeFrom>>
  BY <1>1 DEF CallAcquire, CallRelease, Install, LoseAnswer, RefuseAcquire, RefuseRelease, Timeout
<1>2. ASSUME NEW c \in Cores, ServeAcquire(c)
      PROVE  Grantable(c) /\ GrantSlot(c) /\ UNCHANGED <<now, safeFrom>>
  BY <1>2 DEF ServeAcquire
<1>3. ASSUME NEW r \in delayed, ExecuteDelayed(r)
      PROVE  \/ /\ r.op = "acquire" /\ Grantable(r.core) /\ GrantSlot(r.core)
                /\ UNCHANGED <<now, safeFrom>>
             \/ safeFrom' = now + LeaseTtl /\ UNCHANGED now
  BY <1>3 DEF ExecuteDelayed
<1>4. CASE BackupSlots
  BY <1>4 DEF BackupSlots
<1>5. CASE RestoreFrom
  BY <1>5 DEF RestoreFrom
<1> QED  BY <1>1, <1>2, <1>3, <1>4, <1>5 DEF LeadershipNext, CoreStep

\* A grant to one core leaves every lease in hand backed: a live one is renewed.
LEMMA GrantKeepsBacked ==
  ASSUME LeadershipAssumption, LeaderInv, NEW c \in Cores, Grantable(c), GrantSlot(c),
         UNCHANGED <<now, safeFrom>>,
         NEW d \in Cores, NEW l \in ServiceLease, HeldBy(d, l)
  PROVE  Backed(l)'
<1>0. /\ LeadershipTypeOK /\ SlotOK(slot) /\ Backed(l) /\ l.expires <= now + LeaseTtl
      /\ l.expires \in Nat /\ now \in Nat /\ safeFrom \in Nat
  BY Types, LeaseFacts DEF LeaderInv, SlotsOK, HeldLeasesBacked, Term
<1>1. slot'.lease = Grant(c) /\ Grant(c) # NoServiceLease
      /\ Grant(c).holder = c /\ Grant(c).expires = now + LeaseTtl
  BY <1>0, GrantFacts, GrantSlotFacts
<1> SUFFICES ASSUME l.expires > now, l.expires > safeFrom
             PROVE  l.holder = c
  BY <1>0, <1>1 DEF Backed
<1>2. /\ slot.lease # NoServiceLease /\ slot.lease.holder = l.holder
      /\ slot.lease.expires >= l.expires
  BY <1>0 DEF Backed
<1>3. slot.lease.expires \in Nat
  BY <1>0, <1>2, Types, LeaseFacts
<1>4. Live(slot.lease)
  BY <1>0, <1>2, <1>3 DEF Live
<1> QED  BY <1>2, <1>4 DEF Grantable

\* A request in the queue is of a core.
LEMMA DelayedCore == ASSUME LeadershipTypeOK, NEW r \in delayed PROVE r.core \in Cores
  BY DEF LeadershipTypeOK, Requests

\* No lease in hand comes to outlive a term.
LEMMA TermStep ==
  ASSUME LeadershipAssumption, LeaderInv, LeadershipNext
  PROVE  Term'
<1>0. /\ LeadershipTypeOK /\ SlotOK(slot) /\ Term
      /\ now \in Nat /\ safeFrom \in Nat /\ LeaseTtl \in Nat
  BY Types DEF LeaderInv, SlotsOK, LeadershipAssumption
<1>1. now' \in Nat /\ now' >= now
  BY <1>0, SlotSteps DEF LeadershipTick, ServeRelease
<1>2. safeFrom' \in Nat /\ safeFrom' <= now' + LeaseTtl
  BY <1>0, SlotSteps DEF LeadershipTick, ServeRelease, Term
<1>3. ASSUME NEW d \in Cores, NEW l \in ServiceLease, HeldBy(d, l)'
      PROVE  l.expires <= now' + LeaseTtl
  <2>1. l.expires <= now + LeaseTtl
    <3>1. CASE HeldBy(d, l)
      BY <1>0, <3>1 DEF Term
    <3>2. CASE ServeAcquire(d) /\ l = Grant(d)
      BY <1>0, <3>2, GrantFacts DEF ServeAcquire
    <3> QED  BY <1>0, <1>3, <3>1, <3>2, HeldSteps
  <2>2. l.expires \in Nat
    BY LeaseFacts
  <2> QED  BY <1>0, <1>1, <2>1, <2>2
<1> QED  BY <1>2, <1>3 DEF Term

\* A lease in hand stays backed by the slot: only its own core takes it back.
LEMMA BackedStep ==
  ASSUME LeadershipAssumption, LeaderInv, LeadershipNext
  PROVE  HeldLeasesBacked'
<1>0. /\ LeadershipTypeOK /\ SlotOK(slot) /\ Term
      /\ now \in Nat /\ safeFrom \in Nat /\ LeaseTtl \in Nat
  BY Types DEF LeaderInv, SlotsOK, LeadershipAssumption
<1> SUFFICES ASSUME NEW d \in Cores, NEW l \in ServiceLease, HeldBy(d, l)'
             PROVE  l.holder = d /\ Backed(l)'
  BY DEF HeldLeasesBacked
<1>l. l.expires \in Nat
  BY LeaseFacts
<1>1. CASE ServeAcquire(d) /\ l = Grant(d)
  <2>1. /\ slot'.lease = Grant(d) /\ Grant(d) # NoServiceLease /\ Grant(d).holder = d
        /\ Grant(d).expires = now + LeaseTtl
    BY <1>0, <1>1, GrantFacts, GrantSlotFacts DEF ServeAcquire
  <2> QED  BY <1>0, <1>1, <2>1 DEF Backed
<1>2. CASE HeldBy(d, l)
  <2>0. l.holder = d /\ Backed(l) /\ l.expires <= now + LeaseTtl
    BY <1>0, <1>2 DEF LeaderInv, HeldLeasesBacked, Term
  <2>1. CASE UNCHANGED <<slot, now, safeFrom>>
    BY <2>0, <2>1 DEF Backed
  <2>2. ASSUME NEW c \in Cores, Grantable(c), GrantSlot(c), UNCHANGED <<now, safeFrom>>
        PROVE  Backed(l)'
    BY <1>2, <2>2, GrantKeepsBacked
  <2>3. ASSUME NEW c \in Cores, ServeRelease(c)
        PROVE  Backed(l)'
    <3>0. /\ client[c].pc = "release" /\ UNCHANGED <<now, safeFrom, guard>>
          /\ Releases(client[c].lease) \/ Unknown
      BY <2>3 DEF ServeRelease
    <3>1. guard[c] = NoServiceLease /\ client[c].lease.holder = c
      BY <3>0 DEF LeaderInv, Withdrawn
    <3>2. d # c
      BY <1>2, <3>0, <3>1 DEF HeldBy, LeadershipAssumption
    <3> SUFFICES ASSUME l.expires > now, l.expires > safeFrom PROVE FALSE
      BY <3>0 DEF Backed
    <3>3. slot.lease # NoServiceLease /\ slot.lease.holder = d
      BY <2>0 DEF Backed
    <3>4. ~Unknown
      BY <1>0, <3>3, Types, LeaseFacts DEF SlotOK, Unknown
    <3> QED  BY <3>0, <3>1, <3>2, <3>3, <3>4 DEF Releases
  <2>4. CASE safeFrom' = now + LeaseTtl /\ UNCHANGED now
    BY <1>0, <1>l, <2>0, <2>4 DEF Backed
  <2>5. CASE LeadershipTick
    BY <1>0, <1>l, <2>0, <2>5 DEF LeadershipTick, Backed
  <2> QED  BY <1>0, <2>0, <2>1, <2>2, <2>3, <2>4, <2>5, SlotSteps, DelayedCore
<1> QED  BY <1>0, <1>1, <1>2, HeldSteps

\* The invariant holds at the start.
LEMMA LeaderInit == ASSUME LeadershipAssumption PROVE LeadershipInit => LeaderInv
<1> SUFFICES ASSUME LeadershipInit PROVE LeaderInv
  OBVIOUS
<1>1. \A c \in Cores, l \in ServiceLease : ~HeldBy(c, l)
  BY DEF LeadershipInit, Idle, HeldBy, LeadershipAssumption
<1>2. Withdrawn /\ safeFrom <= now + LeaseTtl
  BY DEF LeadershipInit, Idle, Withdrawn, LeadershipAssumption
<1> QED  BY <1>1, <1>2, TypeInit DEF LeaderInv, Term, HeldLeasesBacked

\* Every step keeps the invariant.
LEMMA LeaderStep == ASSUME LeadershipAssumption PROVE LeaderInv /\ [LeadershipNext]_leadershipVars => LeaderInv'
<1>1. ASSUME LeaderInv, LeadershipNext PROVE LeaderInv'
  BY <1>1, TypeStep, WithdrawnStep, TermStep, BackedStep DEF LeaderInv
<1>2. ASSUME LeaderInv, UNCHANGED leadershipVars PROVE LeaderInv'
  BY <1>2 DEF leadershipVars, LeaderInv, LeadershipTypeOK, SlotsOK, SlotOK, Withdrawn, Term, HeldLeasesBacked,
     HeldBy, Backed
<1> QED  BY <1>1, <1>2

\* check_service_write_permission: at most one core's guard allows writes, but for
\* one lease term after a restore or a release executed late.
THEOREM OneLeader == ASSUME LeadershipAssumption PROVE LeadershipSpec => []ExclusiveLeader
<1>1. LeadershipInit => LeaderInv
  BY LeaderInit
<1>2. LeaderInv /\ [LeadershipNext]_leadershipVars => LeaderInv'
  BY LeaderStep
<1>3. ASSUME LeaderInv, safeFrom <= now, NEW c \in Cores, MayWrite(c)
      PROVE  slot.lease.holder = c
  <2>1. /\ guard[c] # NoServiceLease /\ guard[c].holder = c /\ ~(guard[c].expires <= now)
    BY <1>3 DEF MayWrite, Decision
  <2>2. LeadershipTypeOK
    BY <1>3 DEF LeaderInv
  <2>3. guard[c] \in ServiceLease /\ guard[c].expires \in Nat /\ now \in Nat /\ safeFrom \in Nat
    BY <2>1, <2>2, Types, LeaseFacts
  <2>4. Backed(guard[c])
    BY <1>3, <2>3 DEF LeaderInv, HeldLeasesBacked, HeldBy
  <2> QED  BY <1>3, <2>1, <2>3, <2>4 DEF Backed
<1>4. LeaderInv => ExclusiveLeader
  BY <1>3 DEF ExclusiveLeader
<1> QED  BY <1>1, <1>2, <1>4, PTL DEF LeadershipSpec

-----------------------------------------------------------------------------
(* Epochs.                                                                 *)

\* A grant takes an epoch nobody had, or renews its own.
LEMMA GrantEpoch ==
  ASSUME LeadershipAssumption, LeadershipTypeOK, SlotOK(slot), ServiceEpochInv, NEW c \in Cores,
         Grantable(c), GrantSlot(c), UNCHANGED restores
  PROVE  ServiceEpochInv'
<1> SUFFICES ASSUME restores = 0
             PROVE  /\ \A g \in granted' : g.epoch <= slot'.lastEpoch
                    /\ slot'.lease # NoServiceLease =>
                         [epoch |-> slot'.lease.epoch, holder |-> slot'.lease.holder] \in granted'
                    /\ \A g, h \in granted' : g.epoch = h.epoch => g = h
  BY DEF ServiceEpochInv, EpochIdentifiesHolder
<1>0. /\ \A g \in granted : g.epoch \in Nat /\ g.epoch <= slot.lastEpoch
      /\ \A g, h \in granted : g.epoch = h.epoch => g = h
      /\ slot.lastEpoch \in Nat /\ slot'.lastEpoch \in Nat
      /\ slot'.lastEpoch >= slot.lastEpoch /\ Grant(c).epoch <= slot'.lastEpoch
      /\ slot'.lease = Grant(c) /\ Grant(c).holder = c /\ Grant(c).epoch \in Nat
  <2>1. slot' \in Slot /\ slot'.lease = Grant(c) /\ slot'.lastEpoch >= slot.lastEpoch
        /\ Grant(c).epoch <= slot'.lastEpoch
    BY GrantSlotFacts
  <2>2. slot'.lastEpoch \in Nat /\ slot.lastEpoch \in Nat
    BY <2>1, Types DEF Slot, LeadershipAssumption
  <2>3. \A g \in granted : g.epoch \in Nat
    BY DEF LeadershipTypeOK, LeadershipAssumption
  <2> QED  BY <2>1, <2>2, <2>3, GrantFacts DEF ServiceEpochInv, EpochIdentifiesHolder
<1>1. granted' = granted \cup {[epoch |-> Grant(c).epoch, holder |-> c]}
  BY DEF GrantSlot
<1>2. \A g \in granted' : g.epoch <= slot'.lastEpoch
  BY <1>0, <1>1
<1>3. CASE Live(slot.lease)
  <2>1. [epoch |-> Grant(c).epoch, holder |-> c] \in granted
    BY <1>3, GrantFacts DEF Live, ServiceEpochInv
  <2> QED  BY <1>0, <1>1, <1>2, <2>1
<1>4. CASE ~Live(slot.lease)
  <2>1. \A g \in granted : g.epoch # Grant(c).epoch
    BY <1>0, <1>4, GrantFacts
  <2> QED  BY <1>0, <1>1, <1>2, <2>1
<1> QED  BY <1>3, <1>4

\* Every step keeps the epochs apart.
LEMMA EpochStep ==
  ASSUME LeadershipAssumption, LeadershipTypeOK, SlotsOK, ServiceEpochInv, LeadershipNext
  PROVE  ServiceEpochInv'
<1>0. SlotOK(slot)
  BY DEF SlotsOK
<1>1. ASSUME UNCHANGED <<slot, granted, restores>>  PROVE ServiceEpochInv'
  BY <1>1 DEF ServiceEpochInv, EpochIdentifiesHolder
<1>2. ASSUME ReleaseSlot, UNCHANGED restores  PROVE ServiceEpochInv'
  BY <1>2 DEF ReleaseSlot, ServiceEpochInv, EpochIdentifiesHolder
<1>3. ASSUME NEW c \in Cores, CoreStep(c)  PROVE ServiceEpochInv'
  <2>1. CASE ServeAcquire(c)
    BY <1>0, <2>1, GrantEpoch DEF ServeAcquire
  <2>2. CASE ServeRelease(c)
    BY <1>2, <2>2 DEF ServeRelease
  <2>3. CASE ~ServeAcquire(c) /\ ~ServeRelease(c)
    BY <1>1, <1>3, <2>3 DEF CoreStep, CallAcquire, RefuseAcquire, Install, CallRelease,
       RefuseRelease, Timeout, LoseAnswer
  <2> QED  BY <2>1, <2>2, <2>3
<1>4. ASSUME NEW r \in delayed, ExecuteDelayed(r)  PROVE ServiceEpochInv'
  BY <1>0, <1>2, <1>4, GrantEpoch, DelayedCore DEF ExecuteDelayed
<1>5. CASE BackupSlots \/ LeadershipTick
  BY <1>1, <1>5 DEF BackupSlots, LeadershipTick
<1>6. CASE RestoreFrom
  <2>1. restores' # 0
    BY <1>6 DEF RestoreFrom, LeadershipTypeOK
  <2> QED  BY <2>1 DEF ServiceEpochInv
<1> QED  BY <1>3, <1>4, <1>5, <1>6 DEF LeadershipNext

\* acquire_or_renew_service_lease: as long as no backup is restored, an epoch is
\* handed out to one core only.
THEOREM EpochsIdentifyHolders ==
  ASSUME LeadershipAssumption PROVE LeadershipSpec => []EpochIdentifiesHolder
<1>1. LeadershipInit => LeadershipTypeOK /\ SlotsOK /\ ServiceEpochInv
  BY TypeInit DEF LeadershipInit, ServiceEpochInv, EpochIdentifiesHolder
<1>2. LeadershipTypeOK /\ SlotsOK /\ ServiceEpochInv /\ [LeadershipNext]_leadershipVars => (LeadershipTypeOK /\ SlotsOK /\ ServiceEpochInv)'
  <2>1. ASSUME LeadershipTypeOK, SlotsOK, ServiceEpochInv, LeadershipNext PROVE (LeadershipTypeOK /\ SlotsOK /\ ServiceEpochInv)'
    BY <2>1, TypeStep, EpochStep
  <2>2. ASSUME LeadershipTypeOK, SlotsOK, ServiceEpochInv, UNCHANGED leadershipVars
        PROVE  (LeadershipTypeOK /\ SlotsOK /\ ServiceEpochInv)'
    BY <2>2 DEF leadershipVars, LeadershipTypeOK, SlotsOK, SlotOK, ServiceEpochInv, EpochIdentifiesHolder
  <2> QED  BY <2>1, <2>2
<1>3. ServiceEpochInv => EpochIdentifiesHolder
  BY DEF ServiceEpochInv, EpochIdentifiesHolder
<1> QED  BY <1>1, <1>2, <1>3, PTL DEF LeadershipSpec

-----------------------------------------------------------------------------
(* Manifests: what is in hand was checked, as a whole or in what changed.  *)

\* A manifest under construction or done has all its fields.
Held ==
  /\ Has("application") =>
       /\ {"kind", "data", "calls"} \subseteq DOMAIN hand
       /\ ApplicationFields \subseteq DOMAIN hand.data
       /\ hand.data.capabilities \in Seq(Range(hand.data.capabilities))
       /\ ValidApplication(hand.data)
  /\ hand.kind \in {"builder", "deployment"} =>
       /\ {"kind", "data", "calls"} \subseteq DOMAIN hand
       /\ DeploymentFields \subseteq DOMAIN hand.data
       /\ hand.data.mode \in {"standalone", "cluster"}
  /\ Has("deployment") => ValidDeployment(hand.data)

\* Capabilities are advertised, and providers created, from a valid manifest.
AdvertisedOK ==
  Has("core") =>
    /\ Cardinality({d.name : d \in Range(hand.data)}) = Len(hand.data)
    /\ (\E d \in Range(hand.data) : d.leader) =>
         \E r \in Range(hand.from.leadership) :
           r.service = PrimaryService /\ r.mode # "disabled" /\ r.lease > 0

CreatedOK ==
  Has("host") =>
    /\ {"kind", "from", "factories", "created", "data"} \subseteq DOMAIN hand
    /\ ValidDeployment(hand.from)
    /\ hand.from.mode \in {"standalone", "cluster"}
    /\ hand.data.providers = hand.from.providers
    /\ \A c \in hand.created :
         /\ c[1] \in Distributed => hand.from.mode = "cluster"
         /\ "sensitive" \notin DOMAIN c[2].settings

FileOK == file # NoValue => Decoded(file) /\ (file.own => AcceptsManifest(file))

ManifestInv == Held /\ AdvertisedOK /\ CreatedOK /\ FileOK

\* The fields a call leaves alone: the rest of the hand is as it was.
LEMMA BecomesHand ==
  ASSUME {"kind", "data", "calls"} \subseteq DOMAIN hand, NEW m, NEW ok, ok, Becomes(m, ok)
  PROVE  /\ hand'.kind = hand.kind /\ hand'.data = m
         /\ {"kind", "data", "calls"} \subseteq DOMAIN hand'
         /\ file' = file
BY DEF Becomes

\* A manifest that is dropped leaves nothing to keep.
LEMMA DroppedHand ==
  ASSUME ManifestInv, hand' = Nil, FileOK'
  PROVE  ManifestInv'
BY DEF ManifestInv, Held, AdvertisedOK, CreatedOK, Has, Nil

\* A call on an application's manifest that checked it, or changed nothing that counts.
LEMMA ApplicationCall ==
  ASSUME ManifestInv, Has("application"), NEW m, NEW ok \in BOOLEAN, Becomes(m, ok),
         ok => /\ ApplicationFields \subseteq DOMAIN m /\ ValidApplication(m)
               /\ m.capabilities \in Seq(Range(m.capabilities))
  PROVE  ManifestInv'
<1>1. file' = file /\ FileOK'
  BY DEF Becomes, ManifestInv, FileOK, Decoded, AcceptsManifest
<1>2. CASE ~ok
  <2>1. hand' = Nil
    BY <1>2 DEF Becomes
  <2>. QED
    BY <1>1, <2>1, DroppedHand
<1>3. CASE ok
  <2>1. /\ hand'.kind = "application" /\ hand'.data = m
        /\ {"kind", "data", "calls"} \subseteq DOMAIN hand'
    BY <1>3, BecomesHand DEF Has, ManifestInv, Held
  <2>. QED
    BY <1>1, <1>3, <2>1 DEF ManifestInv, Held, AdvertisedOK, CreatedOK, Has
<1>. QED
  BY <1>2, <1>3

\* A call on the builder of a deployment, which checks nothing but a name.
LEMMA BuilderCall ==
  ASSUME ManifestInv, Has("builder"), NEW field \in DeploymentFields \ {"mode"}, NEW v,
         NEW ok \in BOOLEAN, Becomes([hand.data EXCEPT ![field] = v], ok)
  PROVE  ManifestInv'
<1>. DEFINE m == [hand.data EXCEPT ![field] = v]
<1>1. file' = file /\ FileOK'
  BY DEF Becomes, ManifestInv, FileOK, Decoded, AcceptsManifest
<1>2. CASE ~ok
  <2>1. hand' = Nil
    BY <1>2 DEF Becomes
  <2>. QED
    BY <1>1, <2>1, DroppedHand
<1>3. CASE ok
  <2>1. DOMAIN m = DOMAIN hand.data /\ m.mode = hand.data.mode
    BY DEF ManifestInv, Held, Has, DeploymentFields
  <2>. HIDE DEF m
  <2>2. /\ hand'.kind = "builder" /\ hand'.data = m
        /\ {"kind", "data", "calls"} \subseteq DOMAIN hand'
    BY <1>3, BecomesHand DEF Has, ManifestInv, Held, m
  <2>. QED
    BY <1>1, <1>3, <2>1, <2>2 DEF ManifestInv, Held, AdvertisedOK, CreatedOK, Has
<1>. QED
  BY <1>2, <1>3

\* A call that replaces a field other than the capabilities, and checks the manifest.
LEMMA FieldCall ==
  ASSUME ManifestInv, Has("application"), NEW field, field # "capabilities", NEW v,
         NEW ok \in BOOLEAN, Becomes([hand.data EXCEPT ![field] = v], ok),
         ok => ValidApplication([hand.data EXCEPT ![field] = v])
  PROVE  ManifestInv'
<1>. DEFINE m == [hand.data EXCEPT ![field] = v]
<1>1. DOMAIN m = DOMAIN hand.data /\ m.capabilities = hand.data.capabilities
  BY DEF ManifestInv, Held, ApplicationFields
<1>2. /\ ApplicationFields \subseteq DOMAIN m
      /\ m.capabilities \in Seq(Range(m.capabilities))
  <2>. HIDE DEF m
  <2>. QED
    BY <1>1 DEF ManifestInv, Held
<1>3. Becomes(m, ok) /\ (ok => ValidApplication(m))
  OBVIOUS
<1>. HIDE DEF m
<1>. QED
  BY <1>2, <1>3, ApplicationCall

\* The calls on an application's manifest (application.rs).
LEMMA ApplicationStep ==
  ASSUME ManifestInv,
         \/ \E d \in Declarations : WithCapability(d)
         \/ \E r \in Requirements : WithLeadership(r)
         \/ \E p \in Listed, field \in {"dependencies", "modules"} : WithListed(field, p)
         \/ \E j \in Jobs : WithPolicy("jobs", j)
         \/ \E s \in Schedulers : WithPolicy("scheduler", s)
         \/ \E h \in Healths : WithPolicy("health", h)
         \/ \E channel \in Texts : WithPolicy("update", channel)
         \/ WithFree
         \/ \E k \in Keys, v \in Values : WithMetadata(k, v)
  PROVE  ManifestInv'
<1>1. ASSUME NEW d \in Declarations, WithCapability(d) PROVE ManifestInv'
  <2>. DEFINE list == Append(hand.data.capabilities, d)
              m == [hand.data EXCEPT !.capabilities = list]
              ok == EnsureUnique(m.capabilities, "id") /\ ValidApplication(m)
  <2>1. Has("application") /\ Becomes(m, ok)
    BY <1>1 DEF WithCapability, May
  <2>2. list \in Seq(Range(list))
    <3>1. PICK S : hand.data.capabilities \in Seq(S)
      BY <2>1 DEF ManifestInv, Held
    <3>2. list \in Seq(S \cup {d})
      BY <3>1
    <3>. HIDE DEF list
    <3>. QED
      BY <3>2 DEF Range
  <2>. HIDE DEF list
  <2>3. m.capabilities = list /\ ApplicationFields \subseteq DOMAIN m
    BY <2>1 DEF ManifestInv, Held, ApplicationFields
  <2>4. ok \in BOOLEAN /\ (ok => ValidApplication(m))
    BY DEF EnsureUnique
  <2>. HIDE DEF m, ok
  <2>. QED
    BY <2>1, <2>2, <2>3, <2>4, ApplicationCall
<1>2. ASSUME NEW field, field # "capabilities", NEW v,
             Has("application"), Becomes([hand.data EXCEPT ![field] = v],
                                         ValidApplication([hand.data EXCEPT ![field] = v]))
      PROVE  ManifestInv'
  <2>1. ValidApplication([hand.data EXCEPT ![field] = v]) \in BOOLEAN
    BY DEF ValidApplication
  <2>. QED
    BY <1>2, <2>1, FieldCall
<1>3. ASSUME NEW r \in Requirements, WithLeadership(r) PROVE ManifestInv'
  BY <1>2, <1>3 DEF WithLeadership, May
<1>4. ASSUME NEW p \in Listed, NEW field \in {"dependencies", "modules"}, WithListed(field, p)
      PROVE  ManifestInv'
  BY <1>2, <1>4 DEF WithListed, May
<1>5. ASSUME NEW policy, NEW field \in {"jobs", "scheduler", "health", "update"},
             WithPolicy(field, policy)
      PROVE  ManifestInv'
  BY <1>2, <1>5 DEF WithPolicy, May
<1>6. CASE WithFree
  <2>. DEFINE m == [hand.data EXCEPT !.free = "given"]
  <2>1. Has("application") /\ Becomes(m, TRUE)
    BY <1>6 DEF WithFree, May
  <2>2. ApplicationFields \subseteq DOMAIN hand.data /\ ValidApplication(hand.data)
    BY <2>1 DEF ManifestInv, Held
  <2>3. \A f \in ApplicationFields \ {"free"} : m[f] = hand.data[f]
    BY <2>2
  <2>4. ValidApplication(m)
    <3>. HIDE DEF m
    <3>. QED
      BY <2>2, <2>3 DEF ValidApplication, ApplicationFields
  <2>. QED
    BY <2>1, <2>4, FieldCall
<1>7. ASSUME NEW k \in Keys, NEW v \in Values, WithMetadata(k, v) PROVE ManifestInv'
  <2>. DEFINE entries == Set(hand.data.metadata, k, v)
              m == [hand.data EXCEPT !.metadata = entries]
  <2>1. Has("application") /\ Becomes(m, ValidMetadata(k, v))
    BY <1>7 DEF WithMetadata, May
  <2>2. ApplicationFields \subseteq DOMAIN hand.data /\ ValidApplication(hand.data)
    BY <2>1 DEF ManifestInv, Held
  <2>3. ASSUME ValidMetadata(k, v) PROVE ValidApplication(m)
    <3>1. /\ \A f \in ApplicationFields \ {"metadata"} : m[f] = hand.data[f]
          /\ m.metadata = entries
      BY <2>2 DEF ApplicationFields
    <3>2. \A x \in DOMAIN entries : ValidMetadata(x, entries[x])
      BY <2>2, <2>3 DEF Set, ValidApplication
    <3>. HIDE DEF m, entries
    <3>. QED
      BY <2>2, <3>1, <3>2 DEF ValidApplication, ApplicationFields
  <2>4. ValidMetadata(k, v) \in BOOLEAN
    BY DEF ValidMetadata
  <2>. QED
    BY <2>1, <2>3, <2>4, FieldCall
<1>. QED
  BY <1>1, <1>3, <1>4, <1>5, <1>6, <1>7

\* The calls on the builder of a deployment (deployment/manifest.rs).
LEMMA BuilderStep ==
  ASSUME ManifestInv,
         \/ \E p \in ProviderConfigs, role \in Roles : WithProvider(role, p)
         \/ \E p \in ProviderConfigs, n \in Texts : WithAdapter(n, p)
         \/ \E w \in Watchdogs : WithSupervisor(w)
         \/ \E n \in Texts : WithVolume(n) \/ WithSecret(n, "env")
         \/ \E n, path \in Texts : WithPath(n, path)
         \/ \E n \in Keys : \E b : WithEnvironment(n, b)
  PROVE  ManifestInv'
<1>1. ASSUME NEW field \in DeploymentFields \ {"mode"}, NEW v, NEW ok \in BOOLEAN,
             May("builder"), Becomes([hand.data EXCEPT ![field] = v], ok)
      PROVE  ManifestInv'
  BY <1>1, BuilderCall DEF May
<1>2. {"providers", "adapters", "watchdog", "volumes", "secrets", "paths", "environment"} \subseteq
        DeploymentFields \ {"mode"}
  BY DEF DeploymentFields
<1>3. /\ \A t : ValidText(t) \in BOOLEAN
      /\ \A n, b : ValidBinding(n, b) \in BOOLEAN
  BY DEF ValidText, ValidBinding, ValidEnvironmentName
<1>4. ASSUME NEW p \in ProviderConfigs, NEW role \in Roles, WithProvider(role, p) PROVE ManifestInv'
  BY <1>1, <1>2, <1>4 DEF WithProvider
<1>5. ASSUME NEW p \in ProviderConfigs, NEW n \in Texts, WithAdapter(n, p) PROVE ManifestInv'
  BY <1>1, <1>2, <1>3, <1>5 DEF WithAdapter
<1>6. ASSUME NEW w \in Watchdogs, WithSupervisor(w) PROVE ManifestInv'
  BY <1>1, <1>2, <1>6 DEF WithSupervisor
<1>7. ASSUME NEW n \in Texts, WithVolume(n) \/ WithSecret(n, "env") PROVE ManifestInv'
  BY <1>1, <1>2, <1>3, <1>7 DEF WithVolume, WithSecret
<1>8. ASSUME NEW n \in Texts, NEW path \in Texts, WithPath(n, path) PROVE ManifestInv'
  BY <1>1, <1>2, <1>3, <1>8 DEF WithPath
<1>9. ASSUME NEW n \in Keys, NEW b, WithEnvironment(n, b) PROVE ManifestInv'
  BY <1>1, <1>2, <1>3, <1>9 DEF WithEnvironment
<1>. QED
  BY <1>4, <1>5, <1>6, <1>7, <1>8, <1>9

\* Declarations with ids of their own have as many names as there are declarations.
LEMMA NamesAreDistinct ==
  ASSUME NEW list, list \in Seq(Range(list)), EnsureUnique(list, "id")
  PROVE  LET advertised == [i \in DOMAIN list |-> Descriptor(list[i])]
         IN Cardinality({d.name : d \in Range(advertised)}) = Len(advertised)
<1>. DEFINE advertised == [i \in DOMAIN list |-> Descriptor(list[i])]
            names == {d.name : d \in Range(advertised)}
            f == [i \in 1..Len(list) |-> list[i].id]
<1>1. Len(list) \in Nat /\ DOMAIN list = 1..Len(list)
  OBVIOUS
<1>2. Len(advertised) = Len(list)
  <2>1. advertised \in Seq(Range(advertised))
    BY <1>1 DEF Range
  <2>. QED
    BY <1>1, <2>1
<1>3. names = {list[i].id : i \in 1..Len(list)}
  <2>1. \A i \in 1..Len(list) : advertised[i].name = list[i].id
    BY <1>1 DEF Descriptor
  <2>2. DOMAIN advertised = 1..Len(list)
    BY <1>1
  <2>. HIDE DEF advertised
  <2>3. names = {advertised[i].name : i \in 1..Len(list)}
    BY <2>2 DEF Range
  <2>. QED
    BY <2>1, <2>3
<1>. HIDE DEF names, advertised
<1>4. \A i, j \in 1..Len(list) : f[i] = f[j] => i = j
  BY <1>1 DEF EnsureUnique
<1>5. f \in Bijection(1..Len(list), names)
  <2>1. f \in [1..Len(list) -> names] /\ \A n \in names : \E i \in 1..Len(list) : f[i] = n
    BY <1>3
  <2>. HIDE DEF f
  <2>. QED
    BY <1>4, <2>1 DEF Bijection, Injection, Surjection, IsInjective
<1>6. ExistsBijection(1..Len(list), names)
  BY <1>5 DEF ExistsBijection
<1>7. IsFiniteSet(1..Len(list)) /\ Cardinality(1..Len(list)) = Len(list)
  BY <1>1, FS_Interval
<1>8. Cardinality(names) = Len(list)
  BY <1>6, <1>7, FS_Bijection
<1>. QED
  BY <1>2, <1>8 DEF names, advertised

\* What is made of a valid manifest keeps what was checked.
LEMMA UseStep ==
  ASSUME ManifestInv,
         \/ AdvertiseCore \/ Plan \/ PutDown
         \/ \E role \in Roles, id \in {p.id : p \in ProviderConfigs} : RegisterFactory(role, id)
         \/ \E role \in Roles : Create(role)
  PROVE  ManifestInv'
<1>0. FileOK'
  BY DEF ManifestInv, FileOK, Decoded, AcceptsManifest, AdvertiseCore, Plan, PutDown,
         RegisterFactory, Create
<1>1. CASE AdvertiseCore
  <2>. DEFINE list == hand.data.capabilities
              advertised == [i \in DOMAIN list |-> Descriptor(list[i])]
  <2>1. /\ list \in Seq(Range(list)) /\ ValidApplication(hand.data)
        /\ hand' = [kind |-> "core", from |-> hand.data, data |-> advertised]
    BY <1>1 DEF AdvertiseCore, ManifestInv, Held
  <2>2. Cardinality({d.name : d \in Range(advertised)}) = Len(advertised)
    <3>1. EnsureUnique(list, "id")
      BY <2>1 DEF ValidApplication
    <3>. HIDE DEF list
    <3>. QED
      BY <2>1, <3>1, NamesAreDistinct
  <2>3. ASSUME \E d \in Range(advertised) : d.leader
        PROVE  \E r \in Range(hand.data.leadership) :
                 r.service = PrimaryService /\ r.mode # "disabled" /\ r.lease > 0
    <3>1. PICK i \in DOMAIN list : advertised[i].leader
      BY <2>3 DEF Range
    <3>2. advertised[i].leader = list[i].leader
      BY DEF Descriptor
    <3>3. \E d \in Range(list) : d.leader
      BY <3>1, <3>2 DEF Range
    <3>. QED
      BY <2>1, <3>3 DEF ValidApplication, ValidRequirement
  <2>4. hand'.kind = "core" /\ hand'.data = advertised /\ hand'.from = hand.data
    BY <2>1
  <2>. HIDE DEF advertised
  <2>5. AdvertisedOK'
    BY <2>2, <2>3, <2>4 DEF AdvertisedOK
  <2>. QED
    BY <1>0, <2>4, <2>5 DEF ManifestInv, Held, CreatedOK, Has
<1>2. CASE Plan
  <2>1. /\ hand.kind = "deployment" /\ ValidDeployment(hand.data)
        /\ hand.data.mode \in {"standalone", "cluster"}
    BY <1>2 DEF Plan, Has, ManifestInv, Held
  <2>2. hand' = [kind |-> "host", from |-> hand.data, factories |-> {}, created |-> {},
                 data |-> [mode |-> hand.data.mode, providers |-> hand.data.providers]]
    BY <1>2 DEF Plan
  <2>3. CreatedOK'
    BY <2>1, <2>2 DEF CreatedOK
  <2>. QED
    BY <1>0, <2>2, <2>3 DEF ManifestInv, Held, AdvertisedOK, Has
<1>3. CASE PutDown
  BY <1>0, <1>3, DroppedHand DEF PutDown
<1>4. ASSUME NEW role \in Roles, NEW id, RegisterFactory(role, id) PROVE ManifestInv'
  <2>1. Has("host") /\ \E v : hand' = [hand EXCEPT !.factories = v]
    BY <1>4 DEF RegisterFactory
  <2>2. /\ hand'.kind = "host" /\ DOMAIN hand' = DOMAIN hand /\ hand'.from = hand.from
        /\ hand'.data = hand.data /\ hand'.created = hand.created
    BY <2>1 DEF ManifestInv, CreatedOK, Has
  <2>3. CreatedOK'
    BY <2>1, <2>2 DEF ManifestInv, CreatedOK, Has
  <2>. QED
    BY <1>0, <2>2, <2>3 DEF ManifestInv, Held, AdvertisedOK, Has
<1>5. ASSUME NEW role \in Roles, Create(role) PROVE ManifestInv'
  <2>1. /\ Has("host") /\ role \in DOMAIN hand.data.providers
        /\ hand' = [hand EXCEPT !.created = @ \cup {<<role, hand.data.providers[role]>>}]
    BY <1>5 DEF Create
  <2>2. /\ hand'.kind = "host" /\ DOMAIN hand' = DOMAIN hand /\ hand'.from = hand.from
        /\ hand'.data = hand.data
        /\ hand'.created = hand.created \cup {<<role, hand.data.providers[role]>>}
    BY <2>1 DEF ManifestInv, CreatedOK, Has
  <2>3. /\ ValidDeployment(hand.from) /\ hand.data.providers = hand.from.providers
        /\ hand.from.mode \in {"standalone", "cluster"}
    BY <2>1 DEF ManifestInv, CreatedOK
  <2>4. role \in Distributed => hand.from.mode = "cluster"
    BY <2>1, <2>3 DEF ValidDeployment
  <2>5. "sensitive" \notin DOMAIN hand.data.providers[role].settings
    BY <2>1, <2>3 DEF ValidDeployment, ValidProvider, ValidSetting, IsSensitiveKey
  <2>6. CreatedOK'
    BY <2>1, <2>2, <2>4, <2>5 DEF ManifestInv, CreatedOK, Has
  <2>. QED
    BY <1>0, <2>2, <2>6 DEF ManifestInv, Held, AdvertisedOK, Has
<1>. QED
  BY <1>1, <1>2, <1>3, <1>4, <1>5

\* New manifests, and what comes from files.
LEMMA MakeStep ==
  ASSUME ManifestAssumption, ManifestInv,
         \/ \E texts, runtime \in Texts : NewApplication(texts, runtime)
         \/ \E kind \in {"standalone", "cluster"}, p \in ProviderConfigs, t \in Tls :
              NewDeployment(kind, p, t)
         \/ Build \/ Encode \/ Decode
         \/ \E f \in ForeignFiles : FromElsewhere(f)
  PROVE  ManifestInv'
<1>1. ASSUME NEW texts \in Texts, NEW runtime \in Texts, NewApplication(texts, runtime)
      PROVE  ManifestInv'
  <2>1. FileOK'
    BY <1>1 DEF NewApplication, ManifestInv, FileOK, Decoded, AcceptsManifest
  <2>2. CASE hand' = Nil
    BY <2>1, <2>2, DroppedHand
  <2>3. CASE hand' # Nil
    <3>. DEFINE fresh == [schema |-> 1, texts |-> texts, runtime |-> runtime, update |-> "plain",
                          capabilities |-> <<>>, leadership |-> <<>>, dependencies |-> <<>>,
                          modules |-> <<>>, jobs |-> [enabled |-> FALSE, limit |-> 0],
                          scheduler |-> [required |-> FALSE, limit |-> 0],
                          health |-> [interval |-> 1, threshold |-> 1],
                          metadata |-> <<>>, free |-> "default"]
    <3>0. ApplicationFields \subseteq DOMAIN fresh /\ fresh.capabilities = <<>>
      BY DEF ApplicationFields
    <3>. HIDE DEF fresh
    <3>1. PICK m : /\ hand' = [kind |-> "application", data |-> m, calls |-> 0]
                   /\ ValidApplication(m) /\ ApplicationFields \subseteq DOMAIN m
                   /\ m.capabilities = <<>>
      <4>1. /\ hand' = [kind |-> "application", data |-> fresh, calls |-> 0]
            /\ ValidApplication(fresh)
        BY <1>1, <2>3 DEF NewApplication, fresh
      <4>. QED
        BY <3>0, <4>1
    <3>2. <<>> \in Seq(Range(<<>>))
      OBVIOUS
    <3>3. Held'
      BY <3>1, <3>2 DEF Held, Has
    <3>. QED
      BY <2>1, <3>1, <3>3 DEF ManifestInv, AdvertisedOK, CreatedOK, Has
  <2>. QED
    BY <2>2, <2>3
<1>2. ASSUME NEW kind \in {"standalone", "cluster"}, NEW p, NEW t, NewDeployment(kind, p, t)
      PROVE  ManifestInv'
  <2>1. FileOK'
    BY <1>2 DEF NewDeployment, ManifestInv, FileOK, Decoded, AcceptsManifest
  <2>. DEFINE fresh == [schema |-> 1, mode |-> kind, storage |-> p, tls |-> t,
                        watchdog |-> [enabled |-> TRUE, check |-> 1, stall |-> 15],
                        providers |-> <<>>, adapters |-> <<>>, paths |-> <<>>,
                        environment |-> <<>>, volumes |-> {}, secrets |-> {}]
  <2>0. DeploymentFields \subseteq DOMAIN fresh /\ fresh.mode = kind
    BY DEF DeploymentFields
  <2>. HIDE DEF fresh
  <2>2. PICK m : /\ hand' = [kind |-> "builder", calls |-> 0, data |-> m]
                 /\ DeploymentFields \subseteq DOMAIN m /\ m.mode = kind
    <3>1. hand' = [kind |-> "builder", calls |-> 0, data |-> fresh]
      BY <1>2 DEF NewDeployment, fresh
    <3>. QED
      BY <2>0, <3>1
  <2>3. Held'
    BY <2>2 DEF Held, Has
  <2>. QED
    BY <2>1, <2>2, <2>3 DEF ManifestInv, AdvertisedOK, CreatedOK, Has
<1>3. CASE Build
  <2>1. FileOK'
    BY <1>3 DEF Build, ManifestInv, FileOK, Decoded, AcceptsManifest
  <2>2. CASE ~ValidDeployment(hand.data)
    BY <1>3, <2>1, <2>2, DroppedHand DEF Build
  <2>3. CASE ValidDeployment(hand.data)
    <3>1. hand' = [hand EXCEPT !.kind = "deployment"] /\ hand.kind = "builder"
      BY <1>3, <2>3 DEF Build, Has
    <3>2. DOMAIN hand' = DOMAIN hand /\ hand'.kind = "deployment" /\ hand'.data = hand.data
      BY <3>1 DEF ManifestInv, Held
    <3>3. Held'
      BY <2>3, <3>1, <3>2 DEF ManifestInv, Held, Has
    <3>. QED
      BY <2>1, <3>2, <3>3 DEF ManifestInv, AdvertisedOK, CreatedOK, Has
  <2>. QED
    BY <2>2, <2>3
<1>4. CASE Encode
  <2>1. /\ hand.kind \in {"application", "deployment"} /\ hand' = Nil
        /\ file' = [kind |-> hand.kind, data |-> hand.data, own |-> TRUE]
    BY <1>4 DEF Encode
  <2>2. FileOK'
    BY <2>1 DEF FileOK, Decoded, AcceptsManifest, ManifestInv, Held, Has
  <2>. QED
    BY <2>1, <2>2, DroppedHand
<1>5. CASE Decode
  <2>1. FileOK'
    BY <1>5 DEF Decode, FileOK
  <2>2. CASE ~AcceptsManifest(file)
    BY <1>5, <2>1, <2>2, DroppedHand DEF Decode
  <2>3. CASE AcceptsManifest(file)
    <3>1. Decoded(file) /\ hand' = [kind |-> file.kind, data |-> file.data, calls |-> 0]
      BY <1>5, <2>3 DEF Decode, ManifestInv, FileOK
    <3>2. Held'
      BY <2>3, <3>1 DEF Held, Has, Decoded, AcceptsManifest
    <3>. QED
      BY <2>1, <3>1, <3>2 DEF ManifestInv, AdvertisedOK, CreatedOK, Has, Decoded
  <2>. QED
    BY <2>2, <2>3
<1>6. ASSUME NEW f \in ForeignFiles, FromElsewhere(f) PROVE ManifestInv'
  <2>1. hand' = Nil /\ file' = [kind |-> f.kind, data |-> f.data, own |-> FALSE] /\ Decoded(f)
    BY <1>6 DEF FromElsewhere, ManifestAssumption
  <2>2. FileOK'
    BY <2>1 DEF FileOK, Decoded
  <2>. QED
    BY <2>1, <2>2, DroppedHand
<1>. QED
  BY <1>1, <1>2, <1>3, <1>4, <1>5, <1>6

\* Whatever the order of the calls and wherever parts and files come from, what is in
\* hand and what this program wrote can be read back, advertised names are distinct
\* and led, and a host creates no provider its manifest forbids (application.rs,
\* deployment/manifest.rs).
THEOREM ManifestsHoldTheirContract ==
  ASSUME ManifestAssumption
  PROVE  ManifestSpec => []ManifestsKeepTheirContract
<1>1. ManifestInit => ManifestInv
  BY DEF ManifestInit, ManifestInv, Held, AdvertisedOK, CreatedOK, FileOK, Has, Nil
<1>2. ManifestInv /\ [ManifestNext]_manifestVars => ManifestInv'
  <2>. SUFFICES ASSUME ManifestInv, [ManifestNext]_manifestVars PROVE ManifestInv'
    OBVIOUS
  <2>1. CASE UNCHANGED manifestVars
    BY <2>1 DEF manifestVars, ManifestInv, Held, AdvertisedOK, CreatedOK, FileOK, Has
  <2>2. CASE ManifestNext
    BY <2>2, ApplicationStep, BuilderStep, UseStep, MakeStep DEF ManifestNext
  <2>. QED
    BY <2>1, <2>2
<1>3. ManifestInv => ManifestsKeepTheirContract
  BY DEF ManifestInv, Held, AdvertisedOK, CreatedOK, FileOK, Has, ManifestsKeepTheirContract,
         AcceptsManifest
<1>. QED
  BY <1>1, <1>2, <1>3, PTL DEF ManifestSpec

-----------------------------------------------------------------------------
(* Routing: what the resolver checked of a provider goes with the call.    *)

\* Times are naturals, and what was discovered was heard of within the retention.
PresenceOK ==
  /\ presenceClock \in Nat
  /\ \A i \in DOMAIN registered : i \in Instances /\ registered[i].at \in Nat

DirectoryOK ==
  /\ directory.at \in Nat
  /\ \A i \in DOMAIN directory.peers :
       /\ i \in Instances /\ directory.peers[i].lastSeen \in Nat
       /\ directory.peers[i].lastSeen + Retention >= directory.at

\* The provider of a call may serve it.
CallOK(call) ==
  /\ call.recent
  /\ CoreIdentity[call.provider].tenant = CoreIdentity[Here].tenant
  /\ call.descriptor.visibility = "local" => call.provider = Here
  /\ call.descriptor.visibility = "cluster" =>
       CoreIdentity[call.provider].cluster = CoreIdentity[Here].cluster
  /\ call.descriptor.leader => call.leads

\* What was answered, and by whom it was done.
AnsweredOK(inv) ==
  inv.call.step = "resolved" =>
    /\ CallOK(inv.call)
    /\ \/ completed = <<>>
       \/ completed = <<inv.call.provider>> /\ inv.result \in {"accepted", "RemoteInvocationFailed"}
    /\ inv.result = "accepted" /\ ~(inv.call.operation = "handle_local" /\ inv.call.provider # Here)
         => completed = <<inv.provider>>

CallsOK ==
  /\ invocation.step \in {"idle", "resolved", "answered"}
  /\ invocation.step = "resolved" => CallOK(invocation) /\ completed = <<>>
  /\ invocation.step = "answered" => AnsweredOK(invocation)

RoutingInv == PresenceOK /\ DirectoryOK /\ CallsOK

\* Min is the least of the positions that are there.
LEMMA LeastPosition ==
  ASSUME NEW S \in SUBSET Nat, S # {}
  PROVE  Min(S) \in S
<1>. DEFINE R == {p \in Nat \X Nat : p[1] < p[2]}
<1>1. IsWellFoundedOn(R, Nat)
  BY NatLessThanWellFounded DEF OpToRel
<1>2. PICK x \in S : \A y \in S : ~(<<y, x>> \in R)
  BY <1>1, WFMin
<1>3. ASSUME NEW y \in S PROVE x <= y
  <2>1. <<y, x>> \in Nat \X Nat /\ <<y, x>>[1] = y /\ <<y, x>>[2] = x
    OBVIOUS
  <2>2. ~(y < x)
    BY <1>2, <2>1
  <2>. QED
    BY <2>2
<1>. QED
  BY <1>3 DEF Min

\* The first of some instances is one of them.
LEMMA FirstIsOne ==
  ASSUME RoutingAssumption, NEW S \in SUBSET Instances, S # {}
  PROVE  FirstOf(S) \in S
<1>. DEFINE P == {n \in DOMAIN KeyOrder : KeyOrder[n] \in S}
<1>1. P \in SUBSET Nat
  BY DEF RoutingAssumption
<1>2. P # {}
  BY DEF Instances, Range
<1>3. Min(P) \in P
  BY <1>1, <1>2, LeastPosition
<1>. QED
  BY <1>3 DEF FirstOf

\* select_provider: whoever is chosen was heard of lately, is of the tenant, and may
\* serve a capability of this visibility.
LEMMA ChosenMayServe ==
  ASSUME RoutingAssumption, RoutingInv, NEW ask, NEW healthy, Select(ask, healthy) # Nothing
  PROVE  LET p == Select(ask, healthy) IN
         /\ p.seen + Retention >= directory.at
         /\ CoreIdentity[p.instance].tenant = CoreIdentity[Here].tenant
         /\ p.descriptor.visibility = "local" => p.instance = Here
         /\ p.descriptor.visibility = "cluster" =>
              CoreIdentity[p.instance].cluster = CoreIdentity[Here].cluster
<1>. DEFINE p == Select(ask, healthy)
            remote == IF Selection.allowRemote THEN RemoteCandidates(ask) ELSE {}
            preferred == {i \in remote : Advertised[i].preferred}
<1>1. remote \subseteq RemoteCandidates(ask) /\ remote \subseteq Instances
  BY DEF RemoteCandidates, RoutingInv, DirectoryOK
<1>2. \/ p = LocalProvider(ask)
      \/ \E i \in RemoteCandidates(ask) : p = RemoteProvider(i, ask)
  <2>1. preferred # {} => FirstOf(preferred) \in RemoteCandidates(ask)
    <3>1. preferred \subseteq remote
      OBVIOUS
    <3>. HIDE DEF preferred, remote
    <3>. QED
      BY <1>1, <3>1, FirstIsOne
  <2>2. remote # {} => FirstOf(remote) \in RemoteCandidates(ask)
    <3>. HIDE DEF remote
    <3>. QED
      BY <1>1, FirstIsOne
  <2>. QED
    BY <2>1, <2>2 DEF Select
<1>3. CASE p = LocalProvider(ask)
  <2>1. p.instance = Here /\ p.seen = directory.at
    BY <1>3 DEF LocalProvider
  <2>. HIDE DEF p
  <2>. QED
    BY <2>1 DEF RoutingInv, DirectoryOK, RoutingAssumption, p
<1>4. ASSUME NEW i \in RemoteCandidates(ask), p = RemoteProvider(i, ask)
      PROVE  /\ p.seen + Retention >= directory.at
             /\ CoreIdentity[p.instance].tenant = CoreIdentity[Here].tenant
             /\ p.descriptor.visibility = "local" => p.instance = Here
             /\ p.descriptor.visibility = "cluster" =>
                  CoreIdentity[p.instance].cluster = CoreIdentity[Here].cluster
  <2>1. /\ p.instance = i /\ p.seen = directory.peers[i].lastSeen
        /\ p.descriptor = FirstMatch(i, ask)
    BY <1>4 DEF RemoteProvider
  <2>2. i \in DOMAIN directory.peers /\ RemoteDescriptorIsCompatible(i, FirstMatch(i, ask))
    BY DEF RemoteCandidates
  <2>. HIDE DEF p
  <2>. QED
    BY <2>1, <2>2 DEF RemoteDescriptorIsCompatible, RoutingInv, DirectoryOK
<1>. QED
  BY <1>2, <1>3, <1>4

\* enforce_requirements: a call that is let through to the leader found one.
LEMMA LeaderWasAsked ==
  ASSUME NEW ask, NEW d, NEW i, RoutingFault(ask, d, i, TRUE) = "none", d.leader
  PROVE  LeadershipFault(i) = "none"
BY DEF RoutingFault

\* Prune keeps what was refreshed within the retention.
LEMMA PruneKeepsRecent ==
  ASSUME RoutingAssumption, PresenceOK
  PROVE  LET r == Prune(registered) IN
         \A i \in DOMAIN r : /\ i \in Instances /\ r[i].at \in Nat /\ r[i] = registered[i]
                             /\ r[i].at + Retention >= presenceClock
BY DEF Prune, PresenceOK, RoutingAssumption

\* Registering, heartbeats and discovery date everything by the server's clock.
LEMMA PresenceStep ==
  ASSUME RoutingAssumption, PresenceOK, DirectoryOK,
         \/ \E i \in Instances : Register(i) \/ Heartbeats(i)
         \/ DiscoverPeers
  PROVE  PresenceOK' /\ DirectoryOK'
<1>. DEFINE r == Prune(registered)
<1>1. \A i \in DOMAIN r : /\ i \in Instances /\ r[i].at \in Nat
                          /\ r[i].at + Retention >= presenceClock
  BY PruneKeepsRecent
<1>2. presenceClock \in Nat
  BY DEF PresenceOK
<1>. HIDE DEF r
<1>3. ASSUME NEW i \in Instances, NEW m
      PROVE  \A j \in DOMAIN Put(r, i, Report(m)) :
               j \in Instances /\ Put(r, i, Report(m))[j].at \in Nat
  BY <1>1, <1>2 DEF Put, Report
<1>4. ASSUME NEW q, Persist(q), presenceClock' = presenceClock,
             \A j \in DOMAIN q : j \in Instances /\ q[j].at \in Nat
      PROVE  PresenceOK'
  BY <1>2, <1>4 DEF Persist, PresenceOK
<1>5. ASSUME NEW i \in Instances, Register(i) PROVE PresenceOK' /\ DirectoryOK'
  <2>1. PresenceOK'
    BY <1>3, <1>4, <1>5 DEF Register, r
  <2>. QED
    BY <1>5, <2>1 DEF Register, DirectoryOK
<1>6. ASSUME NEW i \in Instances, Heartbeats(i) PROVE PresenceOK' /\ DirectoryOK'
  <2>1. PresenceOK'
    BY <1>1, <1>3, <1>4, <1>6 DEF Heartbeats, r
  <2>. QED
    BY <1>6, <2>1 DEF Heartbeats, DirectoryOK
<1>7. CASE DiscoverPeers
  <2>1. PresenceOK'
    BY <1>1, <1>4, <1>7 DEF DiscoverPeers, r
  <2>2. DirectoryOK'
    <3>. DEFINE scope == {i \in DOMAIN r \ {Here} :
                            /\ CoreIdentity[i].tenant = CoreIdentity[Here].tenant
                            /\ CoreIdentity[i].cluster = CoreIdentity[Here].cluster}
                peers == [i \in scope |-> PeerRecord(r[i])]
    <3>1. directory' = directory \/ directory' = [peers |-> peers, at |-> presenceClock]
      BY <1>7 DEF DiscoverPeers, r
    <3>2. \A i \in scope : /\ i \in Instances /\ peers[i].lastSeen \in Nat
                           /\ peers[i].lastSeen + Retention >= presenceClock
      BY <1>1 DEF PeerRecord
    <3>3. DOMAIN peers = scope
      OBVIOUS
    <3>. HIDE DEF peers, scope
    <3>. QED
      BY <1>2, <3>1, <3>2, <3>3 DEF DirectoryOK
  <2>. QED
    BY <2>1, <2>2
<1>. QED
  BY <1>5, <1>6, <1>7

\* What a call finds when it is resolved goes with it (resolver.rs).
LEMMA ResolveKeepsCalls ==
  ASSUME RoutingAssumption, RoutingInv, NEW ask, NEW operation, NEW healthy,
         Resolve(ask, operation, healthy)
  PROVE  CallsOK'
<1>. DEFINE p == Select(ask, healthy)
            fault == RoutingFault(ask, p.descriptor, p.instance, TRUE)
<1>1. invocation = NoCall /\ completed' = <<>>
  BY DEF Resolve
<1>2. ASSUME NEW result, invocation' = Answer(result, Nothing) PROVE CallsOK'
  BY <1>1, <1>2 DEF CallsOK, AnsweredOK, Answer, NoCall
<1>3. CASE p = Nothing \/ fault # "none"
  BY <1>2, <1>3 DEF Resolve
<1>4. CASE p # Nothing /\ fault = "none"
  <2>1. invocation' = [step |-> "resolved", operation |-> operation, ask |-> ask,
                       provider |-> p.instance, descriptor |-> p.descriptor,
                       leads |-> LeadershipFault(p.instance) = "none",
                       recent |-> p.seen + Retention >= directory.at]
    BY <1>4 DEF Resolve
  <2>2. /\ p.seen + Retention >= directory.at
        /\ CoreIdentity[p.instance].tenant = CoreIdentity[Here].tenant
        /\ p.descriptor.visibility = "local" => p.instance = Here
        /\ p.descriptor.visibility = "cluster" =>
             CoreIdentity[p.instance].cluster = CoreIdentity[Here].cluster
    BY <1>4, ChosenMayServe
  <2>3. p.descriptor.leader => LeadershipFault(p.instance) = "none"
    BY <1>4, LeaderWasAsked
  <2>. HIDE DEF p
  <2>4. /\ invocation'.step = "resolved" /\ invocation'.provider = p.instance
        /\ invocation'.descriptor = p.descriptor
        /\ invocation'.leads = (LeadershipFault(p.instance) = "none")
        /\ invocation'.recent = (p.seen + Retention >= directory.at)
    BY <2>1
  <2>5. CallOK(invocation)'
    BY <2>2, <2>3, <2>4 DEF CallOK
  <2>. QED
    BY <1>1, <2>4, <2>5 DEF CallsOK
<1>. QED
  BY <1>3, <1>4

\* The provider the call was resolved to does it, or nobody does.
LEMMA EndsKeepsCalls ==
  ASSUME CallsOK, invocation.step = "resolved", NEW result, NEW provider, NEW by,
         Ends(result, provider, by),
         by = <<>> \/ (by = <<invocation.provider>>
                        /\ result \in {"accepted", "RemoteInvocationFailed"}),
         result = "accepted" =>
           \/ by = <<provider>>
           \/ invocation.operation = "handle_local" /\ invocation.provider # Here
  PROVE  CallsOK'
<1>1. CallOK(invocation) /\ completed = <<>>
  BY DEF CallsOK
<1>2. completed' = by
  BY <1>1 DEF Ends
<1>3. /\ invocation'.step = "answered" /\ invocation'.result = result
      /\ invocation'.provider = provider /\ invocation'.call = invocation
  BY DEF Ends, Answer
<1>4. AnsweredOK(invocation)'
  BY <1>1, <1>2, <1>3 DEF AnsweredOK, CallOK
<1>. QED
  BY <1>3, <1>4 DEF CallsOK

\* No step breaks what is known of peers and calls.
LEMMA RoutingStep ==
  ASSUME RoutingAssumption, RoutingInv, [RoutingNext]_routingVars
  PROVE  RoutingInv'
<1>. USE DEF RoutingInv
<1>0. ASSUME UNCHANGED <<invocation, completed>> PROVE CallsOK'
  BY <1>0 DEF CallsOK, AnsweredOK, CallOK
<1>1. CASE (\E i \in Instances : Register(i) \/ Heartbeats(i)) \/ DiscoverPeers
  <2>1. UNCHANGED <<invocation, completed>>
    BY <1>1 DEF Register, Heartbeats, DiscoverPeers
  <2>. QED
    BY <1>0, <1>1, <2>1, PresenceStep
<1>2. CASE \/ \E i \in Instances : LeaseGranted(i)
           \/ HeartbeatOffline \/ Recovers
           \/ \E d \in Offered : RegisterHandler(d)
           \/ UNCHANGED routingVars
  <2>1. UNCHANGED <<presenceClock, registered, directory, invocation, completed>>
    BY <1>2 DEF LeaseGranted, HeartbeatOffline, Recovers, RegisterHandler, routingVars
  <2>. QED
    BY <1>0, <2>1 DEF PresenceOK, DirectoryOK
<1>3. CASE PresenceTick
  <2>1. presenceClock' = presenceClock + 1 /\ UNCHANGED <<registered, directory, invocation, completed>>
    BY <1>3 DEF PresenceTick
  <2>. QED
    BY <1>0, <2>1 DEF PresenceOK, DirectoryOK
<1>4. ASSUME UNCHANGED <<presenceClock, registered, directory>> PROVE PresenceOK' /\ DirectoryOK'
  BY <1>4 DEF PresenceOK, DirectoryOK
<1>5. ASSUME NEW ask \in CapabilityAsks, AuthorizeLocal(ask) PROVE RoutingInv'
  <2>1. PICK result : invocation = NoCall /\ invocation' = Answer(result, Nothing)
    BY <1>5 DEF AuthorizeLocal
  <2>2. CallsOK'
    BY <2>1 DEF CallsOK, AnsweredOK, Answer, NoCall
  <2>. QED
    BY <1>4, <1>5, <2>2 DEF AuthorizeLocal
<1>6. ASSUME NEW ask \in CapabilityAsks, NEW operation \in {"handle", "handle_local"},
             NEW healthy \in BOOLEAN, Resolve(ask, operation, healthy)
      PROVE  RoutingInv'
  BY <1>4, <1>6, ResolveKeepsCalls DEF Resolve
<1>7. CASE HandleHere
  <2>1. PICK result, provider, by :
          /\ Ends(result, provider, by)
          /\ \/ result = "accepted" /\ provider = Here /\ by = <<Here>>
             \/ result = "rejected" /\ by = <<>>
    BY <1>7 DEF HandleHere
  <2>2. CallsOK'
    BY <1>7, <2>1, EndsKeepsCalls DEF HandleHere
  <2>. QED
    BY <1>4, <2>1, <2>2 DEF Ends
<1>8. CASE AnswerForRemote
  <2>1. CallsOK'
    BY <1>8, EndsKeepsCalls DEF AnswerForRemote
  <2>. QED
    BY <1>4, <1>8, <2>1 DEF AnswerForRemote, Ends
<1>9. CASE InvokeUnsupported
  <2>1. PICK result : result # "accepted" /\ Ends(result, Nothing, <<>>)
    BY <1>9 DEF InvokeUnsupported
  <2>2. CallsOK'
    BY <1>9, <2>1, EndsKeepsCalls DEF InvokeUnsupported
  <2>. QED
    BY <1>4, <2>1, <2>2 DEF Ends
<1>10. CASE InvokeRemote
  <2>1. PICK result, provider, by :
          /\ Ends(result, provider, by)
          /\ \/ result = "accepted" /\ provider = invocation.provider /\ by = <<provider>>
             \/ result = "rejected" /\ by = <<>>
             \/ result = "RemoteInvocationFailed" /\ by \in {<<>>, <<invocation.provider>>}
    BY <1>10 DEF InvokeRemote
  <2>2. CallsOK'
    BY <1>10, <2>1, EndsKeepsCalls DEF InvokeRemote
  <2>. QED
    BY <1>4, <2>1, <2>2 DEF Ends
<1>11. CASE Return
  <2>1. CallsOK'
    BY <1>11 DEF Return, CallsOK, NoCall
  <2>. QED
    BY <1>4, <1>11, <2>1 DEF Return
<1>. QED
  BY <1>1, <1>2, <1>3, <1>5, <1>6, <1>7, <1>8, <1>9, <1>10, <1>11 DEF RoutingNext

\* Whoever handle answers for did the request, once, and was allowed to: heard of
\* lately, of the tenant and cluster, the host itself for a Local capability, the
\* leader where one is needed (resolver.rs, registry.rs, memory.rs).
THEOREM ProvidersCompleteTheirCalls ==
  ASSUME RoutingAssumption
  PROVE  RoutingSpec => []CompletedByTheProvider
<1>1. RoutingInit => RoutingInv
  BY DEF RoutingInit, RoutingInv, PresenceOK, DirectoryOK, CallsOK, NoCall
<1>2. RoutingInv /\ [RoutingNext]_routingVars => RoutingInv'
  BY RoutingStep
<1>3. RoutingInv => CompletedByTheProvider
  BY DEF RoutingInv, CallsOK, AnsweredOK, CallOK, CompletedByTheProvider
<1>. QED
  BY <1>1, <1>2, <1>3, PTL DEF RoutingSpec
=============================================================================
