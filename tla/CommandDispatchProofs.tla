----------------------- MODULE CommandDispatchProofs ------------------------
(***************************************************************************)
(* Theorems about CommandDispatch for every set of requests, keys and      *)
(* payloads, every ttl and every number of crashes and failed writes.      *)
(***************************************************************************)
EXTENDS DispatchRefinement, TLAPS

\* The records the dispatcher builds are IdempotencyRecords.
LEMMA BuiltRecords ==
  ASSUME TypeOK, NEW r \in Requests
  PROVE  /\ Pending(r) \in Record
         /\ outcome[r] \in ResultKinds => Resolved(r) \in Record
  BY DispatchAssumption
     DEF TypeOK, Pending, Resolved, PendingRecord, ResolvedRecord, Record, Statuses, ResultKinds

\* A keyed request has a key of the store.
LEMMA KeyedKey ==
  ASSUME NEW r \in Requests, Keyed(r)
  PROVE  KeyOf[r] \in Keys
  BY DispatchAssumption DEF Keyed

\* Loadable keeps records or drops them.
LEMMA LoadableType ==
  ASSUME NEW map \in [Keys -> Record \cup {NoRecord}]
  PROVE  Loadable(map) \in [Keys -> Record \cup {NoRecord}]
  BY DEF Loadable

\* Every store operation keeps the store's type.
LEMMA StoreOpTypes ==
  ASSUME StoreTypeOK, NEW k \in Keys, NEW rec \in Record
  PROVE  /\ Insert(k, rec) => StoreTypeOK'
         /\ InsertFails(k, rec) => StoreTypeOK'
         /\ Remove(k) => StoreTypeOK'
         /\ RemoveFails(k) => StoreTypeOK'
         /\ Compact => StoreTypeOK'
         /\ CompactFails => StoreTypeOK'
         /\ Open => StoreTypeOK'
<1>1. Without(k) \in [Keys -> Record \cup {NoRecord}]
  BY DEF Without, StoreTypeOK
<1>2. Unexpired \in [Keys -> Record \cup {NoRecord}]
  BY DEF Unexpired, StoreTypeOK
<1>3. ASSUME NEW map \in [Keys -> Record \cup {NoRecord}]
      PROVE  Rewrite(map) => /\ durable' \in [Keys -> Record \cup {NoRecord}]
                             /\ fileState' \in {"clean", "torn", "corrupt"}
  BY LoadableType DEF Rewrite, StoreTypeOK
<1>4. AppendLine(k, rec) => /\ durable' \in [Keys -> Record \cup {NoRecord}]
                            /\ fileState' \in {"clean", "torn", "corrupt"}
  BY DEF AppendLine, StoreTypeOK
<1>5. AppendTorn => /\ durable' \in [Keys -> Record \cup {NoRecord}]
                    /\ fileState' \in {"clean", "torn", "corrupt"}
  BY DEF AppendTorn, StoreTypeOK
<1>6. Insert(k, rec) => StoreTypeOK'
  BY <1>4 DEF Insert, StoreTypeOK
<1>7. InsertFails(k, rec) => StoreTypeOK'
  BY <1>4, <1>5 DEF InsertFails, AppendFailure, StoreTypeOK
<1>8. Remove(k) => StoreTypeOK'
  BY <1>1, <1>3 DEF Remove, StoreTypeOK
<1>9. RemoveFails(k) => StoreTypeOK'
  BY <1>1, <1>3 DEF RemoveFails, RewriteFailure, StoreTypeOK
<1>10. Compact => StoreTypeOK'
  BY <1>2, <1>3 DEF Compact, StoreTypeOK
<1>11. CompactFails => StoreTypeOK'
  BY <1>2, <1>3 DEF CompactFails, RewriteFailure, StoreTypeOK
<1>12. Open => StoreTypeOK'
  BY DEF Open, StoreTypeOK
<1> QED BY <1>6, <1>7, <1>8, <1>9, <1>10, <1>11, <1>12

\* Every step of the dispatcher keeps the type invariant.
LEMMA TypeStep ==
  ASSUME TypeOK, [Next]_vars
  PROVE  TypeOK'
<1> USE DispatchAssumption
<1>0. StoreTypeOK BY DEF TypeOK
<1>1. ASSUME NEW r \in Requests, RejectNotReady(r) \/ RejectConflict(r) \/ RejectPending(r)
      PROVE  TypeOK'
  <2>1. /\ \E kind \in {"notReady", "conflict", "pending"} : Answer(r, kind, r)
        /\ Audit(r)
        /\ UNCHANGED <<store, clock, budget, lifecycle, up, outcome, started, emitted>>
    BY <1>1, Zenon DEF RejectNotReady, RejectConflict, RejectPending
  <2>2. pc' \in [Requests -> {"new", "running", "executed", "replied"}] /\ audited' \in SUBSET Requests
    BY <2>1 DEF TypeOK, Answer, Audit
  <2>3. reply' \in [Requests -> [kind : ReplyKinds, by : Requests]]
    BY <2>1 DEF TypeOK, Answer, ReplyKinds
  <2> QED BY <2>1, <2>2, <2>3 DEF TypeOK, StoreTypeOK, store, budget
<1>2. ASSUME NEW r \in Requests, Replay(r)
      PROVE  TypeOK'
  <2>1. Found(r) \in Record
    BY <1>2, KeyedKey DEF Replay, Finds, Found, Get, TypeOK, StoreTypeOK
  <2> QED BY <1>2, <2>1 DEF Replay, TypeOK, StoreTypeOK, Answer, Audit, ReplyKinds, Record, store, budget
<1>3. ASSUME NEW r \in Requests, Reserve(r)
      PROVE  TypeOK'
  <2>1. StoreTypeOK'
    <3>1. CASE Keyed(r)
      BY <1>0, <1>3, <3>1, KeyedKey, BuiltRecords, StoreOpTypes DEF Reserve
    <3>2. CASE ~Keyed(r)
      BY <1>0, <1>3, <3>2 DEF Reserve, store, StoreTypeOK
    <3> QED BY <3>1, <3>2
  <2> QED BY <1>3, <2>1 DEF Reserve, Start, TypeOK, budget
<1>4. ASSUME NEW r \in Requests, ReserveFails(r)
      PROVE  TypeOK'
  <2>1. StoreTypeOK'
    BY <1>0, <1>4, KeyedKey, BuiltRecords, StoreOpTypes DEF ReserveFails
  <2> QED BY <1>4, <2>1 DEF ReserveFails, Answer, FailIo, TypeOK, ReplyKinds
<1>5. ASSUME NEW r \in Requests, NEW out \in Outcomes, Execute(r, out)
      PROVE  TypeOK'
  <2>1. pc' \in [Requests -> {"new", "running", "executed", "replied"}]
    BY <1>5 DEF Execute, Answer, TypeOK
  <2>2. reply' \in [Requests -> [kind : ReplyKinds, by : Requests]]
    BY <1>5 DEF Execute, Answer, TypeOK, ReplyKinds
  <2>3. outcome' \in [Requests -> Outcomes \cup {"none"}]
    BY <1>5 DEF Execute, TypeOK
  <2> QED BY <1>5, <2>1, <2>2, <2>3 DEF Execute, TypeOK, StoreTypeOK, store, budget
<1>6. ASSUME NEW r \in Requests, Resolve(r)
      PROVE  TypeOK'
  <2>1. StoreTypeOK'
    <3>1. CASE Keyed(r)
      BY <1>0, <1>6, <3>1, KeyedKey, BuiltRecords, StoreOpTypes DEF Resolve
    <3>2. CASE ~Keyed(r)
      BY <1>0, <1>6, <3>2 DEF Resolve, store, StoreTypeOK
    <3> QED BY <3>1, <3>2
  <2> QED BY <1>6, <2>1 DEF Resolve, Answer, Audit, Emit, TypeOK, ReplyKinds, budget
<1>7. ASSUME NEW r \in Requests, ResolveFails(r)
      PROVE  TypeOK'
  <2>1. StoreTypeOK'
    BY <1>0, <1>7, KeyedKey, BuiltRecords, StoreOpTypes DEF ResolveFails
  <2> QED BY <1>7, <2>1 DEF ResolveFails, Answer, FailIo, TypeOK, ReplyKinds
<1>8. ASSUME NEW r \in Requests, Abort(r)
      PROVE  TypeOK'
  <2>1. StoreTypeOK'
    <3>1. CASE Keyed(r)
      BY <1>0, <1>8, <3>1, KeyedKey, BuiltRecords, StoreOpTypes DEF Abort
    <3>2. CASE ~Keyed(r)
      BY <1>0, <1>8, <3>2 DEF Abort, store, StoreTypeOK
    <3> QED BY <3>1, <3>2
  <2> QED BY <1>8, <2>1 DEF Abort, Answer, Audit, TypeOK, ReplyKinds, budget
<1>9. ASSUME NEW r \in Requests, AbortFails(r)
      PROVE  TypeOK'
  <2>1. StoreTypeOK'
    BY <1>0, <1>9, KeyedKey, BuiltRecords, StoreOpTypes DEF AbortFails
  <2> QED BY <1>9, <2>1 DEF AbortFails, Answer, FailIo, TypeOK, ReplyKinds
<1>10. ASSUME NEW e \in LifecycleEvents, LifecycleEvent(e)
       PROVE  TypeOK'
  BY <1>10 DEF LifecycleEvent, TypeOK, StoreTypeOK, store, budget
<1>11. ASSUME CompactStore \/ CompactStoreFails
       PROVE  TypeOK'
  <2>1. StoreTypeOK'
    <3>1. CASE \E k \in Keys, rec \in Record : TRUE
      BY <1>0, <1>11, <3>1, StoreOpTypes DEF CompactStore, CompactStoreFails
    <3>2. CASE ~\E k \in Keys, rec \in Record : TRUE
      BY <1>0, <1>11, <3>2 DEF CompactStore, CompactStoreFails, Compact, CompactFails, Rewrite,
              RewriteFailure, Unexpired, Loadable, StoreTypeOK
    <3> QED BY <3>1, <3>2
  <2> QED BY <1>11, <2>1 DEF CompactStore, CompactStoreFails, FailIo, TypeOK, control, budget
<1>12. ASSUME Crash
       PROVE  TypeOK'
  <2>1. durable' \in [Keys -> Record \cup {NoRecord}] /\ fileState' \in {"clean", "torn", "corrupt"}
    <3>1. CASE UNCHANGED <<durable, fileState>>
      BY <3>1, <1>0 DEF StoreTypeOK
    <3>2. CASE AppendTorn
      BY <3>2, <1>0 DEF AppendTorn, StoreTypeOK
    <3>3. CASE \E r \in Requests :
                 /\ Keyed(r) /\ Returning(r)
                 /\ IF outcome[r] \in ResultKinds
                    THEN AppendLine(KeyOf[r], Resolved(r))
                    ELSE Rewrite(Without(KeyOf[r]))
      <4>1. PICK r \in Requests :
                 /\ Keyed(r) /\ Returning(r)
                 /\ IF outcome[r] \in ResultKinds
                    THEN AppendLine(KeyOf[r], Resolved(r))
                    ELSE Rewrite(Without(KeyOf[r]))
        BY <3>3
      <4>2. KeyOf[r] \in Keys
        BY <4>1, KeyedKey
      <4>3. CASE outcome[r] \in ResultKinds
        BY <4>1, <4>2, <4>3, <1>0, BuiltRecords DEF AppendLine, StoreTypeOK
      <4>4. CASE outcome[r] \notin ResultKinds
        <5>1. Without(KeyOf[r]) \in [Keys -> Record \cup {NoRecord}]
          BY <1>0 DEF Without, StoreTypeOK
        <5> QED BY <4>1, <4>4, <5>1, <1>0, LoadableType DEF Rewrite, StoreTypeOK
      <4> QED BY <4>3, <4>4
    <3> QED BY <1>12, <3>1, <3>2, <3>3 DEF Crash, CrashedFile
  <2>2. seen' \in [Keys -> Record \cup {NoRecord}]
    BY <1>12 DEF Crash, EmptyMap
  <2>3. pc' \in [Requests -> {"new", "running", "executed", "replied"}]
    BY <1>12 DEF Crash, TypeOK
  <2>4. reply' \in [Requests -> [kind : ReplyKinds, by : Requests]]
    BY <1>12 DEF Crash, TypeOK, ReplyKinds
  <2>5. up' \in BOOLEAN
    BY <1>12, Zenon DEF Crash
  <2>7. crashes' \in Nat
    <3>1. crashes' = crashes + 1 /\ crashes \in Nat
      BY <1>12, Zenon DEF Crash, TypeOK
    <3> QED BY <3>1
  <2>6. UNCHANGED <<clock, lifecycle, outcome, started, emitted, audited, ioFailures>>
    BY <1>12 DEF Crash
  <2> QED BY <2>1, <2>2, <2>3, <2>4, <2>5, <2>6, <2>7 DEF TypeOK, StoreTypeOK
<1>13. ASSUME Restart
       PROVE  TypeOK'
  BY <1>13 DEF Restart, Open, TypeOK, StoreTypeOK, budget, InitialLifecycle, LifecycleStates
<1>14. ASSUME Tick
       PROVE  TypeOK'
  BY <1>14 DEF Tick, TypeOK, StoreTypeOK, store, control, budget
<1>15. ASSUME UNCHANGED vars
       PROVE  TypeOK'
  BY <1>15 DEF vars, TypeOK, StoreTypeOK, store, control, budget
<1> QED
  BY <1>1, <1>2, <1>3, <1>4, <1>5, <1>6, <1>7, <1>8, <1>9, <1>10, <1>11, <1>12, <1>13,
     <1>14, <1>15 DEF Next, PreDispatch, PostDispatch

\* The initial state is well typed.
LEMMA TypeInit ==
  Init => TypeOK
  BY DispatchAssumption
     DEF Init, TypeOK, StoreInit, StoreTypeOK, EmptyMap, InitialLifecycle, LifecycleStates, ReplyKinds

\* Command dispatch and its store never leave their types.
THEOREM TypeCorrect == Spec => []TypeOK
<1>1. Init => TypeOK
  BY TypeInit
<1>2. TypeOK /\ [Next]_vars => TypeOK'
  BY TypeStep
<1> QED BY <1>1, <1>2, PTL DEF Spec

-----------------------------------------------------------------------------

\* With handlers that finish within the ttl, the reservation of a request in
\* flight has not expired, so every other request of the key finds it.
LEMMA LiveReservation ==
  ASSUME TimelyHandlers, FlightInv, NEW r \in Requests, Keyed(r), InFlight(r)
  PROVE  /\ ~IsExpired(seen[KeyOf[r]])
         /\ Get(KeyOf[r]) = seen[KeyOf[r]]
         /\ Get(KeyOf[r]) # NoRecord
<1>1. /\ seen[KeyOf[r]] # NoRecord
      /\ seen[KeyOf[r]].created = started[r]
      /\ clock <= started[r] + MaxHandlerTime
  BY DEF FlightInv, Reserved, OnTime
<1>2. started[r] \in Nat /\ clock \in Nat /\ Ttl \in Nat /\ MaxHandlerTime \in Nat
  BY DispatchAssumption, StoreAssumption DEF FlightInv, TypeOK
<1>3. ~IsExpired(seen[KeyOf[r]])
  BY <1>1, <1>2 DEF IsExpired, TimelyHandlers
<1> QED BY <1>1, <1>3 DEF Get

\* The Pending record names the only request of its key that is in flight.
LEMMA OneOwner ==
  ASSUME FlightInv, NEW r \in Requests, NEW q \in Requests,
         SameKey(r, q), InFlight(r), InFlight(q)
  PROVE  r = q
  BY DEF FlightInv, Reserved, SameKey, Keyed

\* The reservation discipline is inductive.
LEMMA FlightStep ==
  ASSUME TimelyHandlers, FlightInv, [Next]_vars
  PROVE  FlightInv'
<1>0. TypeOK /\ TypeOK'
  BY TypeStep DEF FlightInv
<1>1. ASSUME NEW r \in Requests, RejectNotReady(r) \/ RejectConflict(r) \/ RejectPending(r) \/ Replay(r)
      PROVE  Reserved' /\ OnTime'
  BY <1>0, <1>1 DEF FlightInv, TypeOK, Reserved, OnTime, InFlight, Keyed, RejectNotReady, RejectConflict,
         RejectPending, Replay, Answer, store
<1>2. ASSUME NEW r \in Requests, Reserve(r)
      PROVE  Reserved' /\ OnTime'
  <2>1. OnTime'
    BY <1>0, <1>2, DispatchAssumption
       DEF FlightInv, TypeOK, OnTime, InFlight, Reserve, Admissible, Entering, Start
  <2>2. ASSUME NEW q \in Requests, Keyed(q), InFlight(q)'
        PROVE  /\ seen'[KeyOf[q]] # NoRecord
               /\ seen'[KeyOf[q]].status = "Pending"
               /\ seen'[KeyOf[q]].by = q
               /\ seen'[KeyOf[q]].created = started'[q]
    <3>1. CASE q = r
      BY <1>0, <1>2, <2>2, <3>1, KeyedKey, BuiltRecords, StoreAssumption
         DEF Reserve, Insert, Start, Pending, PendingRecord, TypeOK, StoreTypeOK
    <3>2. CASE q # r
      <4>1. InFlight(q)
        BY <1>0, <1>2, <2>2, <3>2 DEF Reserve, Start, InFlight, TypeOK
      <4>2. Keyed(r) => KeyOf[r] # KeyOf[q]
        BY <1>2, <2>2, <4>1, LiveReservation DEF Reserve, Found
      <4>3. seen'[KeyOf[q]] = seen[KeyOf[q]]
        BY <1>0, <1>2, <2>2, <4>2, KeyedKey DEF Reserve, Insert, TypeOK, StoreTypeOK, store
      <4> QED BY <1>0, <1>2, <2>2, <3>2, <4>1, <4>3 DEF FlightInv, Reserved, Reserve, Start, TypeOK
    <3> QED BY <3>1, <3>2
  <2> QED BY <2>1, <2>2 DEF Reserved, Keyed
<1>3. ASSUME NEW r \in Requests, ReserveFails(r) \/ ResolveFails(r)
      PROVE  Reserved' /\ OnTime'
  BY <1>0, <1>3 DEF FlightInv, TypeOK, Reserved, OnTime, InFlight, Keyed, ReserveFails, ResolveFails,
         InsertFails, Answer
<1>4. ASSUME NEW r \in Requests, NEW out \in Outcomes, Execute(r, out)
      PROVE  Reserved' /\ OnTime'
  BY <1>0, <1>4 DEF FlightInv, TypeOK, Reserved, OnTime, InFlight, Keyed, Execute, Answer, store
<1>5. ASSUME NEW r \in Requests, Resolve(r) \/ Abort(r) \/ AbortFails(r)
      PROVE  Reserved' /\ OnTime'
  <2>1. /\ InFlight(r)
        /\ pc' = [pc EXCEPT ![r] = "replied"]
        /\ UNCHANGED <<clock, up, started>>
    BY <1>5 DEF Resolve, Abort, AbortFails, Answer, Returning, InFlight
  <2>2. OnTime'
    BY <1>0, <2>1 DEF FlightInv, TypeOK, OnTime, InFlight
  <2>3. ASSUME NEW q \in Requests, Keyed(q), InFlight(q)'
        PROVE  seen'[KeyOf[q]] = seen[KeyOf[q]] /\ InFlight(q)
    <3>1. InFlight(q) /\ q # r
      BY <1>0, <2>1, <2>3 DEF InFlight, TypeOK
    <3>2. Keyed(r) => KeyOf[r] # KeyOf[q]
      BY <2>1, <2>3, <3>1, OneOwner DEF SameKey
    <3> QED BY <1>0, <1>5, <2>3, <3>1, <3>2, KeyedKey
            DEF Resolve, Abort, AbortFails, Insert, Remove, RemoveFails, Without, TypeOK, StoreTypeOK, store
  <2> QED BY <2>1, <2>2, <2>3 DEF FlightInv, Reserved, Keyed
<1>6. ASSUME NEW e \in LifecycleEvents, LifecycleEvent(e)
      PROVE  Reserved' /\ OnTime'
  BY <1>6 DEF FlightInv, Reserved, OnTime, InFlight, Keyed, LifecycleEvent, store
<1>7. ASSUME CompactStore \/ CompactStoreFails
      PROVE  Reserved' /\ OnTime'
  <2>1. seen' = Unexpired /\ UNCHANGED <<clock, control>>
    BY <1>7 DEF CompactStore, CompactStoreFails, Compact, CompactFails
  <2>2. ASSUME NEW q \in Requests, Keyed(q), InFlight(q)
        PROVE  seen'[KeyOf[q]] = seen[KeyOf[q]]
    BY <2>1, <2>2, KeyedKey, LiveReservation DEF Unexpired
  <2> QED BY <2>1, <2>2 DEF FlightInv, Reserved, OnTime, InFlight, Keyed, control
<1>8. ASSUME Crash
      PROVE  Reserved' /\ OnTime'
  BY <1>0, <1>8 DEF Crash, Reserved, OnTime, InFlight, TypeOK
<1>9. ASSUME Restart
      PROVE  Reserved' /\ OnTime'
  BY <1>9 DEF Restart, FlightInv, Reserved, OnTime, InFlight
<1>10. ASSUME Tick
       PROVE  Reserved' /\ OnTime'
  <2>1. OnTime'
    BY <1>0, <1>10, DispatchAssumption DEF Tick, FlightInv, OnTime, InFlight, TypeOK, control
  <2> QED BY <1>10, <2>1 DEF Tick, FlightInv, Reserved, InFlight, Keyed, store, control
<1>11. ASSUME UNCHANGED vars
       PROVE  Reserved' /\ OnTime'
  BY <1>11 DEF vars, store, control, FlightInv, Reserved, OnTime, InFlight, Keyed
<1> QED
  BY <1>0, <1>1, <1>2, <1>3, <1>4, <1>5, <1>6, <1>7, <1>8, <1>9, <1>10, <1>11
     DEF FlightInv, Next, PreDispatch, PostDispatch

\* The reservation discipline holds throughout: the invariant the other theorems use.
THEOREM ReservationsHold ==
  ASSUME TimelyHandlers
  PROVE  Spec => []FlightInv
<1>1. Init => FlightInv
  BY TypeInit DEF Init, FlightInv, Reserved, OnTime, InFlight
<1>2. FlightInv /\ [Next]_vars => FlightInv'
  BY FlightStep
<1> QED BY <1>1, <1>2, PTL DEF Spec

\* At most one handler of a key is ever in flight, for any number of concurrent
\* requests, crashes and failed writes, if handlers finish within the ttl.
THEOREM NoConcurrentExecution ==
  ASSUME TimelyHandlers
  PROVE  Spec => []SingleFlight
<1>1. FlightInv => SingleFlight
  BY OneOwner DEF SingleFlight
<1> QED BY <1>1, ReservationsHold, PTL

-----------------------------------------------------------------------------

\* Without a ttl a lookup returns the map's record and compaction drops nothing.
LEMMA NothingExpires ==
  ASSUME RecordsKept, TypeOK
  PROVE  /\ TimelyHandlers
         /\ \A k \in Keys : Get(k) = seen[k]
         /\ FileBacked => Unexpired = seen
<1>1. \A rec : ~IsExpired(rec)
  BY DEF RecordsKept, IsExpired
<1>2. TimelyHandlers
  BY DEF RecordsKept, TimelyHandlers
<1>3. \A k \in Keys : Get(k) = seen[k]
  BY <1>1 DEF Get
<1>4. Unexpired = seen
  BY <1>1 DEF Unexpired, TypeOK, StoreTypeOK
<1> QED BY <1>2, <1>3, <1>4

SafeInv == FlightInv /\ KeptInv

\* Steps that answer a request without a result and leave store and outcome alone.
LEMMA QuietAnswer ==
  ASSUME KeptInv, TypeOK, NEW r \in Requests, NEW kind \in ReplyKinds \ ResultKinds,
         Answer(r, kind, r), up,
         UNCHANGED <<seen, durable, fileState, up, outcome, emitted, crashes>>
  PROVE  KeptInv'
<1>1. /\ pc' = [pc EXCEPT ![r] = "replied"]
      /\ reply' = [reply EXCEPT ![r] = [kind |-> kind, by |-> r]]
  BY DEF Answer
<1>2. Truthful(seen)' /\ Truthful(durable)' /\ DiskResolved' /\ Owned'
  BY <1>1 DEF KeptInv, Truthful, DiskResolved, Owned, TypeOK
<1>3. DiskAgrees'
  BY <1>1 DEF KeptInv, DiskAgrees, InFlight, TypeOK, StoreTypeOK, Record
<1>4. ReplyDiscipline'
  BY <1>1 DEF KeptInv, ReplyDiscipline, TypeOK
<1>5. \A q \in Requests : Answered(q)' => Answered(q) /\ reply'[q] = reply[q]
  BY <1>1 DEF Answered, TypeOK
<1>6. AnswersKept'
  BY <1>5 DEF KeptInv, AnswersKept, Kept, HoldsResult, Keyed
<1>7. EmittedKept'
  BY <1>1 DEF KeptInv, EmittedKept, Kept, HoldsResult, Keyed, TypeOK
<1> QED BY <1>2, <1>3, <1>4, <1>6, <1>7 DEF KeptInv, EmptyMap

\* The same when a failed append leaves its traces at the end of the file.
LEMMA FailedWrite ==
  ASSUME KeptInv, TypeOK, NEW r \in Requests, Answer(r, "ioError", r), up, FileBacked,
         durable' = durable, fileState' # "corrupt" => fileState # "corrupt",
         UNCHANGED <<seen, up, outcome, emitted, crashes>>
  PROVE  KeptInv'
<1>1. /\ pc' = [pc EXCEPT ![r] = "replied"]
      /\ reply' = [reply EXCEPT ![r] = [kind |-> "ioError", by |-> r]]
  BY DEF Answer
<1>2. Truthful(seen)' /\ Truthful(durable)' /\ DiskResolved' /\ Owned'
  BY <1>1 DEF KeptInv, Truthful, DiskResolved, Owned, TypeOK
<1>3. DiskAgrees'
  BY <1>1 DEF KeptInv, DiskAgrees, InFlight, TypeOK, StoreTypeOK, Record
<1>4. ReplyDiscipline'
  BY <1>1 DEF KeptInv, ReplyDiscipline, TypeOK
<1>5. \A q \in Requests : Answered(q)' => Answered(q) /\ reply'[q] = reply[q]
  BY <1>1 DEF Answered, TypeOK, ResultKinds
<1>6. AnswersKept'
  BY <1>5 DEF KeptInv, AnswersKept, Kept, HoldsResult, Keyed
<1>7. EmittedKept'
  BY <1>1 DEF KeptInv, EmittedKept, Kept, HoldsResult, Keyed, TypeOK
<1> QED BY <1>2, <1>3, <1>4, <1>6, <1>7 DEF KeptInv, EmptyMap

\* Rewriting the file from a map that lost at most a live reservation, or failing
\* to, loses no served result.
LEMMA RewriteKeeps ==
  ASSUME KeptInv, TypeOK, TypeOK', up, UNCHANGED <<up, outcome, emitted, crashes>>,
         \A j \in Keys :
           \/ seen'[j] = seen[j]
           \/ /\ seen[j] # NoRecord
              /\ seen[j].status = "Pending"
              /\ InFlight(seen[j].by)
              /\ seen'[j] = NoRecord,
         \/ FileBacked /\ durable' = Loadable(seen') /\ fileState' = "clean"
         \/ UNCHANGED <<durable, fileState>>,
         \A q \in Requests : pc'[q] = pc[q] \/ (pc[q] = "executed" /\ pc'[q] = "replied"),
         \A q \in Requests : Answered(q)' => Answered(q) /\ reply'[q] = reply[q],
         ReplyDiscipline'
  PROVE  KeptInv'
<1>1. Truthful(seen)' /\ Owned'
  BY DEF KeptInv, Truthful, Owned, TypeOK, StoreTypeOK, Record
<1>2. Truthful(durable)' /\ DiskResolved'
  BY <1>1 DEF KeptInv, Truthful, DiskResolved, Loadable, TypeOK, StoreTypeOK, Record
<1>3. DiskAgrees'
  <2>1. CASE UNCHANGED <<durable, fileState>>
    BY <2>1 DEF KeptInv, DiskAgrees, InFlight, TypeOK, StoreTypeOK, Record
  <2>2. CASE durable' = Loadable(seen') /\ fileState' = "clean"
    BY <2>2 DEF DiskAgrees, Loadable
  <2> QED BY <2>1, <2>2
<1>4. ASSUME NEW j \in Keys, NEW by, NEW kind, Kept(j, by, kind)
      PROVE  Kept(j, by, kind)'
  <2>1. HoldsResult(seen, j, by, kind) /\ seen'[j] = seen[j]
    BY <1>4 DEF Kept, HoldsResult
  <2> QED BY <1>4, <2>1 DEF Kept, HoldsResult, Loadable
<1>5. AnswersKept'
  BY <1>4, KeyedKey DEF KeptInv, AnswersKept, Keyed
<1>6. EmittedKept'
  BY <1>4, KeyedKey DEF KeptInv, EmittedKept, Keyed, TypeOK
<1>7. ~FileBacked => durable' = EmptyMap /\ fileState' = "clean"
  BY DEF KeptInv
<1> QED BY <1>1, <1>2, <1>3, <1>5, <1>6, <1>7 DEF KeptInv, EmptyMap

\* The facts about served results are inductive.
LEMMA KeptStep ==
  ASSUME RecordsKept, SafeInv, [Next]_vars
  PROVE  KeptInv'
<1>0. TypeOK /\ TypeOK' /\ FlightInv /\ KeptInv /\ TimelyHandlers
  BY TypeStep, NothingExpires DEF SafeInv, FlightInv
<1>1. ASSUME NEW r \in Requests, RejectNotReady(r) \/ RejectConflict(r) \/ RejectPending(r)
      PROVE  KeptInv'
  <2>1. \E kind \in ReplyKinds \ ResultKinds : Answer(r, kind, r)
    BY <1>1 DEF RejectNotReady, RejectConflict, RejectPending, ReplyKinds, ResultKinds
  <2>2. up /\ UNCHANGED <<seen, durable, fileState, up, outcome, emitted, crashes>>
    BY <1>1 DEF RejectNotReady, RejectConflict, RejectPending, Admissible, Entering, store, budget
  <2> QED BY <1>0, <2>1, <2>2, QuietAnswer
<1>2. ASSUME NEW r \in Requests, Replay(r)
      PROVE  KeptInv'
  <2> DEFINE k == KeyOf[r]
  <2>1. /\ k \in Keys
        /\ seen[k] # NoRecord
        /\ seen[k].status = "Resolved"
        /\ pc' = [pc EXCEPT ![r] = "replied"]
        /\ reply' = [reply EXCEPT ![r] = [kind |-> seen[k].kind, by |-> seen[k].by]]
        /\ up
        /\ pc[r] = "new"
        /\ UNCHANGED <<seen, durable, fileState, up, outcome, emitted, crashes>>
    BY <1>0, <1>2, KeyedKey, NothingExpires
       DEF Replay, Finds, Found, Answer, Admissible, Entering, store, budget
  <2>2. Truthful(seen)' /\ Truthful(durable)' /\ DiskResolved' /\ Owned'
    BY <1>0, <2>1 DEF KeptInv, Truthful, DiskResolved, Owned, TypeOK
  <2>3. DiskAgrees'
    BY <1>0, <2>1 DEF KeptInv, DiskAgrees, InFlight, TypeOK, StoreTypeOK, Record
  <2>4. ReplyDiscipline'
    BY <1>0, <2>1 DEF KeptInv, ReplyDiscipline, TypeOK
  <2>5. ASSUME NEW q \in Requests, Keyed(q)', Answered(q)'
        PROVE  Kept(KeyOf[q], reply[q].by, reply[q].kind)'
    <3>1. CASE q = r
      BY <1>0, <2>1, <3>1 DEF KeptInv, DiskAgrees, Kept, HoldsResult, TypeOK
    <3>2. CASE q # r
      <4>1. Keyed(q) /\ Answered(q) /\ reply'[q] = reply[q]
        BY <1>0, <2>1, <2>5, <3>2 DEF Answered, Keyed, TypeOK
      <4> QED BY <1>0, <2>1, <4>1 DEF KeptInv, AnswersKept, Kept, HoldsResult
    <3> QED BY <3>1, <3>2
  <2>6. AnswersKept'
    BY <2>5 DEF AnswersKept, Keyed
  <2>7. EmittedKept'
    BY <1>0, <2>1 DEF KeptInv, EmittedKept, Kept, HoldsResult, Keyed, TypeOK
  <2> QED BY <1>0, <2>1, <2>2, <2>3, <2>4, <2>6, <2>7 DEF KeptInv, EmptyMap
<1>3. ASSUME NEW r \in Requests, Reserve(r)
      PROVE  KeptInv'
  <2>1. /\ pc' = [pc EXCEPT ![r] = "running"]
        /\ pc[r] = "new"
        /\ up
        /\ UNCHANGED <<up, outcome, reply, emitted, crashes>>
    BY <1>3 DEF Reserve, Start, Admissible, Entering, budget
  <2>2. /\ \A q \in Requests : Answered(q)' => Answered(q) /\ reply'[q] = reply[q]
        /\ ReplyDiscipline'
        /\ \A q \in emitted' : q \in emitted /\ pc'[q] = "replied"
    BY <1>0, <2>1 DEF KeptInv, ReplyDiscipline, EmittedKept, Answered, TypeOK
  <2>3. CASE ~Keyed(r)
    <3>1. UNCHANGED <<seen, durable, fileState>>
      BY <1>3, <2>3 DEF Reserve, store
    <3>2. Truthful(seen)' /\ Truthful(durable)' /\ DiskResolved' /\ Owned'
      BY <1>0, <2>1, <3>1 DEF KeptInv, Truthful, DiskResolved, Owned, TypeOK
    <3>3. DiskAgrees'
      BY <1>0, <2>1, <3>1 DEF KeptInv, Owned, DiskAgrees, InFlight, TypeOK, StoreTypeOK, Record
    <3>4. AnswersKept' /\ EmittedKept'
      BY <1>0, <2>1, <2>2, <3>1 DEF KeptInv, AnswersKept, EmittedKept, Kept, HoldsResult, Keyed
    <3> QED BY <1>0, <2>1, <2>2, <3>1, <3>2, <3>3, <3>4 DEF KeptInv, EmptyMap
  <2>4. CASE Keyed(r)
    <3> DEFINE k == KeyOf[r]
    <3>1. /\ k \in Keys
          /\ seen[k] = NoRecord
          /\ seen' = [seen EXCEPT ![k] = Pending(r)]
          /\ AppendLine(k, Pending(r))
      BY <1>0, <1>3, <2>4, KeyedKey, NothingExpires DEF Reserve, Found, Insert
    <3>2. /\ Pending(r) # NoRecord
          /\ Pending(r).status = "Pending"
          /\ Pending(r).by = r
      BY <1>0, BuiltRecords, StoreAssumption DEF Pending, PendingRecord
    <3>3. /\ durable' = durable
          /\ fileState' # "corrupt" => fileState # "corrupt"
          /\ ~FileBacked => fileState' = fileState
      BY <1>0, <3>1, <3>2 DEF AppendLine, TypeOK, StoreTypeOK
    <3>4. Truthful(seen)' /\ Truthful(durable)' /\ DiskResolved' /\ Owned'
      BY <1>0, <2>1, <3>1, <3>2, <3>3 DEF KeptInv, Truthful, DiskResolved, Owned, TypeOK, StoreTypeOK
    <3>5. DiskAgrees'
      BY <1>0, <2>1, <3>1, <3>2, <3>3
         DEF KeptInv, Owned, DiskAgrees, InFlight, TypeOK, StoreTypeOK, Record
    <3>6. \A j \in Keys : seen[j] # NoRecord => seen'[j] = seen[j]
      BY <1>0, <3>1 DEF TypeOK, StoreTypeOK
    <3>7. AnswersKept'
      BY <1>0, <2>1, <2>2, <3>3, <3>6, KeyedKey DEF KeptInv, AnswersKept, Kept, HoldsResult, Keyed
    <3>8. EmittedKept'
      BY <1>0, <2>1, <2>2, <3>3, <3>6, KeyedKey DEF KeptInv, EmittedKept, Kept, HoldsResult, Keyed, TypeOK
    <3> QED BY <1>0, <2>1, <2>2, <3>3, <3>4, <3>5, <3>7, <3>8 DEF KeptInv, EmptyMap
  <2> QED BY <2>3, <2>4
<1>4. ASSUME NEW r \in Requests, ReserveFails(r)
      PROVE  KeptInv'
  <2>1. /\ Answer(r, "ioError", r)
        /\ up
        /\ KeyOf[r] \in Keys
        /\ UNCHANGED <<seen, up, outcome, emitted, crashes>>
    BY <1>4, KeyedKey DEF ReserveFails, InsertFails, Admissible, Entering
  <2>2. /\ durable' = durable
        /\ fileState' # "corrupt" => fileState # "corrupt"
        /\ FileBacked
    BY <1>0, <1>4 DEF ReserveFails, InsertFails, AppendFailure, AppendLine, AppendTorn, Pending,
          PendingRecord, TypeOK, StoreTypeOK
  <2> QED BY <1>0, <2>1, <2>2, FailedWrite
<1>5. ASSUME NEW r \in Requests, NEW out \in Outcomes, Execute(r, out)
      PROVE  KeptInv'
  <2>1. /\ pc[r] = "running"
        /\ pc' = [pc EXCEPT ![r] = IF out = "panic" THEN "replied" ELSE "executed"]
        /\ outcome' = [outcome EXCEPT ![r] = out]
        /\ UNCHANGED <<seen, durable, fileState, up, emitted, crashes>>
    BY <1>5 DEF Execute, Answer, store, budget
  <2>2. reply' = IF out = "panic" THEN [reply EXCEPT ![r] = [kind |-> "failed", by |-> r]] ELSE reply
    BY <1>5 DEF Execute, Answer
  <2>3. Truthful(seen)' /\ Truthful(durable)' /\ DiskResolved' /\ Owned'
    BY <1>0, <2>1 DEF KeptInv, Truthful, DiskResolved, Owned, TypeOK, StoreTypeOK, Record
  <2>4. DiskAgrees'
    BY <1>0, <2>1 DEF KeptInv, DiskAgrees, InFlight, TypeOK, StoreTypeOK, Record
  <2>5. ReplyDiscipline'
    BY <1>0, <2>1, <2>2 DEF KeptInv, ReplyDiscipline, TypeOK
  <2>6. \A q \in Requests : Answered(q)' => Answered(q) /\ reply'[q] = reply[q]
    BY <1>0, <2>1, <2>2 DEF Answered, TypeOK, ResultKinds
  <2>7. AnswersKept'
    BY <1>0, <2>1, <2>6 DEF KeptInv, AnswersKept, Kept, HoldsResult, Keyed
  <2>8. EmittedKept'
    BY <1>0, <2>1 DEF KeptInv, EmittedKept, Kept, HoldsResult, Keyed, TypeOK
  <2> QED BY <1>0, <2>1, <2>3, <2>4, <2>5, <2>7, <2>8 DEF KeptInv, EmptyMap
<1>6. ASSUME NEW r \in Requests, Resolve(r)
      PROVE  KeptInv'
  <2>1. /\ pc[r] = "executed"
        /\ pc' = [pc EXCEPT ![r] = "replied"]
        /\ reply' = [reply EXCEPT ![r] = [kind |-> outcome[r], by |-> r]]
        /\ outcome[r] \in ResultKinds
        /\ emitted' = IF outcome[r] = "accepted" THEN emitted \cup {r} ELSE emitted
        /\ up
        /\ UNCHANGED <<up, outcome, crashes>>
    BY <1>6 DEF Resolve, Returning, Answer, Emit, budget
  <2>2. ReplyDiscipline'
    BY <1>0, <2>1 DEF KeptInv, ReplyDiscipline, TypeOK
  <2>3. \A q \in Requests : q # r => reply'[q] = reply[q] /\ pc'[q] = pc[q] /\ (Answered(q)' => Answered(q))
    BY <1>0, <2>1 DEF Answered, TypeOK
  <2>4. reply'[r] = [kind |-> outcome[r], by |-> r] /\ pc'[r] = "replied"
    BY <1>0, <2>1 DEF TypeOK
  <2>5. CASE ~Keyed(r)
    <3>1. UNCHANGED <<seen, durable, fileState>>
      BY <1>6, <2>5 DEF Resolve, store
    <3>2. Truthful(seen)' /\ Truthful(durable)' /\ DiskResolved' /\ Owned'
      BY <1>0, <2>1, <3>1 DEF KeptInv, Truthful, DiskResolved, Owned, TypeOK
    <3>3. DiskAgrees'
      BY <1>0, <2>1, <3>1 DEF KeptInv, DiskAgrees, InFlight, TypeOK, StoreTypeOK, Record
    <3>4. AnswersKept'
      BY <1>0, <2>1, <2>3, <2>5, <3>1 DEF KeptInv, AnswersKept, Kept, HoldsResult, Keyed
    <3>5. EmittedKept'
      BY <1>0, <2>1, <2>3, <2>4, <2>5, <3>1 DEF KeptInv, EmittedKept, Kept, HoldsResult, Keyed, TypeOK
    <3> QED BY <1>0, <2>1, <2>2, <3>1, <3>2, <3>3, <3>4, <3>5 DEF KeptInv, EmptyMap
  <2>6. CASE Keyed(r)
    <3> DEFINE k == KeyOf[r]
    <3>1. /\ k \in Keys
          /\ seen' = [seen EXCEPT ![k] = Resolved(r)]
          /\ AppendLine(k, Resolved(r))
          /\ seen[k] # NoRecord
          /\ seen[k].status = "Pending"
          /\ seen[k].by = r
      BY <1>0, <1>6, <2>1, <2>6, KeyedKey DEF Resolve, Insert, FlightInv, Reserved, InFlight
    <3>2. /\ Resolved(r) # NoRecord
          /\ Resolved(r).status = "Resolved"
          /\ Resolved(r).by = r
          /\ Resolved(r).kind = outcome[r]
          /\ Resolved(r).hash = PayloadOf[r]
      BY <1>0, <2>1, BuiltRecords, StoreAssumption DEF Resolved, ResolvedRecord
    <3>3. /\ FileBacked /\ fileState' # "corrupt" => /\ fileState # "corrupt"
                                                    /\ durable' = [durable EXCEPT ![k] = Resolved(r)]
          /\ durable' = durable \/ durable' = [durable EXCEPT ![k] = Resolved(r)]
          /\ ~FileBacked => durable' = durable /\ fileState' = fileState
      BY <1>0, <3>1, <3>2 DEF AppendLine, TypeOK, StoreTypeOK
    <3>4. Truthful(seen)'
      BY <1>0, <2>1, <3>1, <3>2 DEF KeptInv, Truthful, TypeOK, StoreTypeOK
    <3>5. Truthful(durable)' /\ DiskResolved'
      BY <1>0, <2>1, <3>1, <3>2, <3>3 DEF KeptInv, Truthful, DiskResolved, TypeOK, StoreTypeOK
    <3>6. Owned'
      BY <1>0, <2>1, <3>1, <3>2 DEF KeptInv, Owned, TypeOK, StoreTypeOK
    <3>7. DiskAgrees'
      BY <1>0, <2>1, <3>1, <3>2, <3>3 DEF KeptInv, DiskAgrees, InFlight, TypeOK, StoreTypeOK, Record
    <3>8. Kept(k, r, outcome[r])'
      BY <1>0, <2>1, <3>1, <3>2, <3>3 DEF Kept, HoldsResult, TypeOK, StoreTypeOK
    <3>9. ASSUME NEW j \in Keys, NEW by, NEW kind, Kept(j, by, kind)
          PROVE  Kept(j, by, kind)'
      BY <1>0, <2>1, <3>1, <3>3, <3>9 DEF Kept, HoldsResult, TypeOK, StoreTypeOK
    <3>10. AnswersKept'
      <4>1. ASSUME NEW q \in Requests, Keyed(q), Answered(q)'
            PROVE  Kept(KeyOf[q], reply[q].by, reply[q].kind)'
        <5>1. CASE q = r
          BY <2>1, <2>4, <3>8, <5>1 DEF Kept, HoldsResult
        <5>2. CASE q # r
          <6>1. Kept(KeyOf[q], reply[q].by, reply[q].kind)
            BY <1>0, <2>3, <4>1, <5>2 DEF KeptInv, AnswersKept
          <6>2. HoldsResult(seen, KeyOf[q], reply[q].by, reply[q].kind)
            BY <2>1, <6>1 DEF Kept
          <6>3. KeyOf[q] # k
            BY <3>1, <6>2 DEF HoldsResult
          <6>4. KeyOf[q] \in Keys
            BY <4>1, KeyedKey
          <6> QED BY <1>0, <2>1, <2>3, <3>1, <3>3, <5>2, <6>1, <6>3, <6>4
                  DEF Kept, HoldsResult, TypeOK, StoreTypeOK
        <5> QED BY <5>1, <5>2
      <4> QED BY <4>1 DEF AnswersKept, Keyed
    <3>11. EmittedKept'
      <4>1. ASSUME NEW q \in emitted'
            PROVE  pc'[q] = "replied" /\ (Keyed(q) => Kept(KeyOf[q], q, "accepted")')
        <5>1. CASE q = r
          BY <1>0, <2>1, <2>4, <3>8, <4>1, <5>1 DEF KeptInv, EmittedKept
        <5>2. CASE q # r
          <6>1. q \in emitted /\ q \in Requests
            BY <1>0, <2>1, <4>1, <5>2 DEF TypeOK
          <6>2. Keyed(q) => Kept(KeyOf[q], q, "accepted")'
            BY <1>0, <3>9, <6>1, KeyedKey DEF KeptInv, EmittedKept
          <6> QED BY <1>0, <2>3, <5>2, <6>1, <6>2 DEF KeptInv, EmittedKept
        <5> QED BY <5>1, <5>2
      <4> QED BY <4>1 DEF EmittedKept, Keyed
    <3> QED BY <1>0, <2>1, <2>2, <3>3, <3>4, <3>5, <3>6, <3>7, <3>10, <3>11 DEF KeptInv, EmptyMap
  <2> QED BY <2>5, <2>6
<1>7. ASSUME NEW r \in Requests, ResolveFails(r)
      PROVE  KeptInv'
  <2> DEFINE k == KeyOf[r]
  <2>1. /\ Answer(r, "ioError", r)
        /\ up
        /\ pc[r] = "executed"
        /\ outcome[r] \in ResultKinds
        /\ k \in Keys
        /\ FileBacked
        /\ AppendFailure(k, Resolved(r))
        /\ UNCHANGED <<seen, up, outcome, emitted, crashes>>
    BY <1>7, KeyedKey DEF ResolveFails, InsertFails, AppendFailure, Returning
  <2>2. /\ seen[k] # NoRecord
        /\ seen[k].status = "Pending"
        /\ seen[k].by = r
    BY <1>0, <1>7, <2>1 DEF ResolveFails, FlightInv, Reserved, InFlight
  <2>3. CASE durable' = durable
    <3>1. fileState' # "corrupt" => fileState # "corrupt"
      BY <1>0, <2>1 DEF AppendFailure, AppendLine, AppendTorn, TypeOK, StoreTypeOK
    <3> QED BY <1>0, <2>1, <2>3, <3>1, FailedWrite
  <2>4. CASE durable' = [durable EXCEPT ![k] = Resolved(r)] /\ fileState = "clean" /\ fileState' = "clean"
    <3>1. /\ Resolved(r) # NoRecord
          /\ Resolved(r).status = "Resolved"
          /\ Resolved(r).by = r
          /\ Resolved(r).kind = outcome[r]
          /\ Resolved(r).hash = PayloadOf[r]
      BY <1>0, <2>1, BuiltRecords, StoreAssumption DEF Resolved, ResolvedRecord
    <3>2. /\ pc' = [pc EXCEPT ![r] = "replied"]
          /\ reply' = [reply EXCEPT ![r] = [kind |-> "ioError", by |-> r]]
      BY <2>1 DEF Answer
    <3>3. Truthful(seen)' /\ Truthful(durable)' /\ DiskResolved' /\ Owned'
      BY <1>0, <2>1, <2>4, <3>1, <3>2 DEF KeptInv, Truthful, DiskResolved, Owned, TypeOK, StoreTypeOK
    <3>4. DiskAgrees'
      BY <1>0, <2>1, <2>2, <2>4, <3>1, <3>2 DEF KeptInv, DiskAgrees, InFlight, TypeOK, StoreTypeOK, Record
    <3>5. ReplyDiscipline'
      BY <1>0, <3>2 DEF KeptInv, ReplyDiscipline, TypeOK
    <3>6. \A q \in Requests : Answered(q)' => Answered(q) /\ reply'[q] = reply[q]
      BY <1>0, <3>2 DEF Answered, TypeOK, ResultKinds
    <3>7. ASSUME NEW j \in Keys, NEW by, NEW kind, Kept(j, by, kind)
          PROVE  Kept(j, by, kind)'
      BY <1>0, <2>1, <2>2, <2>4, <3>7 DEF Kept, HoldsResult, TypeOK, StoreTypeOK
    <3>8. AnswersKept'
      <4>1. ASSUME NEW q \in Requests, Keyed(q), Answered(q)'
            PROVE  Kept(KeyOf[q], reply[q].by, reply[q].kind)'
        <5>1. Kept(KeyOf[q], reply[q].by, reply[q].kind) /\ reply'[q] = reply[q]
          BY <1>0, <3>6, <4>1 DEF KeptInv, AnswersKept
        <5>2. KeyOf[q] # k /\ KeyOf[q] \in Keys
          BY <2>1, <2>2, <4>1, <5>1, KeyedKey DEF Kept, HoldsResult
        <5> QED BY <1>0, <2>1, <2>4, <5>1, <5>2 DEF Kept, HoldsResult, TypeOK, StoreTypeOK
      <4> QED BY <4>1 DEF AnswersKept, Keyed
    <3>9. EmittedKept'
      <4>1. ASSUME NEW q \in emitted
            PROVE  pc'[q] = "replied" /\ (Keyed(q) => Kept(KeyOf[q], q, "accepted")')
        BY <1>0, <3>2, <3>7, <4>1, KeyedKey DEF KeptInv, EmittedKept, TypeOK
      <4> QED BY <2>1, <4>1 DEF EmittedKept, Keyed
    <3> QED BY <1>0, <2>1, <3>3, <3>4, <3>5, <3>8, <3>9 DEF KeptInv
  <2> QED BY <1>0, <2>1, <2>3, <2>4 DEF AppendFailure, AppendLine, AppendTorn, TypeOK, StoreTypeOK
<1>8. ASSUME NEW r \in Requests, Abort(r) \/ AbortFails(r)
      PROVE  KeptInv'
  <2>1. /\ pc[r] = "executed"
        /\ \E kind \in {"handlerError", "ioError"} : Answer(r, kind, r)
        /\ up
        /\ UNCHANGED <<up, outcome, emitted, crashes>>
    BY <1>8 DEF Abort, AbortFails, Returning, budget
  <2>2. PICK kind \in {"handlerError", "ioError"} :
          /\ pc' = [pc EXCEPT ![r] = "replied"]
          /\ reply' = [reply EXCEPT ![r] = [kind |-> kind, by |-> r]]
    BY <2>1 DEF Answer
  <2>3. /\ ReplyDiscipline'
        /\ \A q \in Requests : Answered(q)' => Answered(q) /\ reply'[q] = reply[q]
        /\ \A q \in Requests : pc'[q] = pc[q] \/ (pc[q] = "executed" /\ pc'[q] = "replied")
    BY <1>0, <2>1, <2>2 DEF KeptInv, ReplyDiscipline, Answered, TypeOK, ResultKinds
  <2>4. CASE ~Keyed(r)
    <3>1. UNCHANGED <<seen, durable, fileState>>
      BY <1>8, <2>4 DEF Abort, AbortFails, store
    <3> QED BY <1>0, <2>1, <2>3, <3>1, RewriteKeeps
  <2>5. CASE Keyed(r)
    <3> DEFINE k == KeyOf[r]
    <3>1. /\ k \in Keys
          /\ seen[k] # NoRecord
          /\ seen[k].status = "Pending"
          /\ seen[k].by = r
          /\ InFlight(r)
      BY <1>0, <2>1, <2>5, KeyedKey DEF FlightInv, Reserved, InFlight
    <3>2. /\ seen' = Without(k)
          /\ \/ Rewrite(Without(k))
             \/ UNCHANGED <<durable, fileState>>
      BY <1>8, <2>5, <3>1 DEF Abort, AbortFails, Remove, RemoveFails, RewriteFailure
    <3>3. /\ \A j \in Keys : seen'[j] = seen[j] \/ j = k
          /\ seen'[k] = NoRecord
      BY <1>0, <3>1, <3>2 DEF Without, TypeOK, StoreTypeOK
    <3>4. \/ FileBacked /\ durable' = Loadable(seen') /\ fileState' = "clean"
          \/ UNCHANGED <<durable, fileState>>
      BY <3>2 DEF Rewrite
    <3> QED BY <1>0, <2>1, <2>3, <3>1, <3>3, <3>4, RewriteKeeps
  <2> QED BY <2>4, <2>5
<1>9. ASSUME NEW e \in LifecycleEvents, LifecycleEvent(e)
      PROVE  KeptInv'
  BY <1>0, <1>9 DEF LifecycleEvent, KeptInv, Truthful, Owned, DiskResolved, DiskAgrees, AnswersKept,
       EmittedKept, ReplyDiscipline, Kept, HoldsResult, Keyed, Answered, InFlight, EmptyMap, store, budget
<1>10. ASSUME CompactStore \/ CompactStoreFails
       PROVE  KeptInv'
  <2>1. up /\ FileBacked /\ UNCHANGED <<up, outcome, emitted, crashes, pc, reply>>
    BY <1>10 DEF CompactStore, CompactStoreFails, Compact, CompactFails, control, budget
  <2>2. seen' = seen
    BY <1>0, <1>10, <2>1, NothingExpires DEF CompactStore, CompactStoreFails, Compact, CompactFails
  <2>3. \/ FileBacked /\ durable' = Loadable(seen') /\ fileState' = "clean"
        \/ UNCHANGED <<durable, fileState>>
    BY <1>0, <1>10, <2>1, <2>2, NothingExpires
       DEF CompactStore, CompactStoreFails, Compact, CompactFails, RewriteFailure, Rewrite
  <2>4. /\ ReplyDiscipline'
        /\ \A q \in Requests : Answered(q)' => Answered(q) /\ reply'[q] = reply[q]
    BY <1>0, <2>1 DEF KeptInv, ReplyDiscipline, Answered
  <2> QED BY <1>0, <2>1, <2>2, <2>3, <2>4, RewriteKeeps
<1>11. ASSUME Crash
       PROVE  KeptInv'
  <2>1. /\ seen' = EmptyMap
        /\ crashes' = crashes + 1
        /\ crashes < MaxCrashes
        /\ CrashedFile
        /\ UNCHANGED <<outcome, emitted>>
    BY <1>11, Zenon DEF Crash
  <2>2. up /\ ~up'
    BY <1>11, Zenon DEF Crash
  <2>3. \A q \in Requests :
          /\ pc'[q] = IF InFlight(q) THEN "replied" ELSE pc[q]
          /\ reply'[q] = IF InFlight(q) THEN [kind |-> "lost", by |-> q] ELSE reply[q]
    BY <1>11, Zenon DEF Crash
  <2>4. FileBacked
    BY <1>0, <2>1, DispatchAssumption DEF RecordsKept, TypeOK
  <2>5. crashes' # 0 /\ crashes' <= MaxCrashes
    BY <1>0, <2>1, DispatchAssumption DEF TypeOK
  <2>6. Truthful(seen)' /\ Owned' /\ DiskAgrees'
    BY <2>1, <2>2 DEF Truthful, Owned, DiskAgrees, EmptyMap
  <2>7. /\ ReplyDiscipline'
        /\ \A q \in Requests : Answered(q)' => Answered(q) /\ reply'[q] = reply[q]
        /\ \A q \in Requests : pc[q] = "replied" => pc'[q] = "replied"
    BY <1>0, <2>3 DEF KeptInv, ReplyDiscipline, Answered, TypeOK, ResultKinds, InFlight
  <2>8. /\ Truthful(durable)'
        /\ DiskResolved'
        /\ \A j \in Keys : \A by, kind :
             Kept(j, by, kind) => (fileState' # "corrupt" => HoldsResult(durable', j, by, kind))
    <3>1. CASE durable' = durable /\ (fileState' # "corrupt" => fileState # "corrupt")
      BY <1>0, <2>1, <2>4, <2>7, <3>1
         DEF KeptInv, Truthful, DiskResolved, Kept, HoldsResult, TypeOK, StoreTypeOK, Record
    <3>2. ASSUME NEW r \in Requests, Keyed(r), Returning(r), outcome[r] \in ResultKinds,
                 AppendLine(KeyOf[r], Resolved(r)), fileState = "clean"
          PROVE  <2>8!1 /\ <2>8!2 /\ <2>8!3
      <4> DEFINE k == KeyOf[r]
      <4>1. /\ Resolved(r) # NoRecord
            /\ Resolved(r).status = "Resolved"
            /\ Resolved(r).by = r
            /\ Resolved(r).kind = outcome[r]
            /\ Resolved(r).hash = PayloadOf[r]
        BY <1>0, <3>2, BuiltRecords, StoreAssumption DEF Resolved, ResolvedRecord
      <4>2. /\ k \in Keys
            /\ seen[k].status = "Pending"
            /\ pc'[r] = "replied"
        BY <1>0, <2>3, <3>2, KeyedKey DEF FlightInv, Reserved, InFlight, Returning
      <4>3. durable' = [durable EXCEPT ![k] = Resolved(r)]
        BY <2>4, <3>2, <4>1 DEF AppendLine
      <4>4. Truthful(durable)' /\ DiskResolved'
        BY <1>0, <2>1, <2>7, <4>1, <4>2, <4>3
           DEF KeptInv, Truthful, DiskResolved, TypeOK, StoreTypeOK, Record
      <4>5. ASSUME NEW j \in Keys, NEW by, NEW kind, Kept(j, by, kind)
            PROVE  HoldsResult(durable', j, by, kind)
        <5>1. j # k
          BY <2>2, <4>2, <4>5 DEF Kept, HoldsResult
        <5> QED BY <1>0, <2>4, <3>2, <4>3, <4>5, <5>1 DEF Kept, HoldsResult, TypeOK, StoreTypeOK
      <4> QED BY <4>4, <4>5
    <3>3. ASSUME NEW r \in Requests, Keyed(r), Returning(r), Rewrite(Without(KeyOf[r]))
          PROVE  <2>8!1 /\ <2>8!2 /\ <2>8!3
      <4> DEFINE k == KeyOf[r]
      <4>1. k \in Keys /\ seen[k].status = "Pending"
        BY <1>0, <3>3, KeyedKey DEF FlightInv, Reserved, InFlight, Returning
      <4>2. \A j \in Keys :
              durable'[j] = IF j # k /\ seen[j] # NoRecord /\ seen[j].status = "Resolved"
                            THEN seen[j] ELSE NoRecord
        BY <1>0, <2>4, <3>3, <4>1 DEF Rewrite, Loadable, Without, TypeOK, StoreTypeOK
      <4>3. Truthful(durable)' /\ DiskResolved'
        BY <1>0, <2>1, <2>7, <4>2 DEF KeptInv, Truthful, DiskResolved, TypeOK, StoreTypeOK, Record
      <4>4. ASSUME NEW j \in Keys, NEW by, NEW kind, Kept(j, by, kind)
            PROVE  HoldsResult(durable', j, by, kind)
        BY <2>2, <4>1, <4>2, <4>4 DEF Kept, HoldsResult
      <4> QED BY <4>3, <4>4
    <3> QED BY <1>0, <2>1, <2>4, <3>1, <3>2, <3>3 DEF CrashedFile, AppendTorn, AppendLine, TypeOK, StoreTypeOK
  <2>9. ASSUME NEW j \in Keys, NEW by, NEW kind, Kept(j, by, kind)
        PROVE  Kept(j, by, kind)'
    BY <2>2, <2>8, <2>9 DEF Kept, HoldsResult
  <2>10. AnswersKept'
    BY <1>0, <2>7, <2>9, KeyedKey DEF KeptInv, AnswersKept, Keyed
  <2>11. EmittedKept'
    BY <1>0, <2>1, <2>7, <2>9, KeyedKey DEF KeptInv, EmittedKept, Keyed, TypeOK
  <2> QED BY <2>4, <2>5, <2>6, <2>7, <2>8, <2>10, <2>11 DEF KeptInv
<1>12. ASSUME Restart
       PROVE  KeptInv'
  <2>1. /\ seen' = durable
        /\ fileState # "corrupt"
        /\ fileState' = "clean"
        /\ UNCHANGED <<durable, pc, outcome, reply, emitted, crashes>>
    BY <1>12, Zenon DEF Restart, Open, budget
  <2>2. ~up /\ up'
    BY <1>12, Zenon DEF Restart
  <2>3. FileBacked
    BY <1>0, <2>2, DispatchAssumption DEF KeptInv, RecordsKept, TypeOK
  <2>4. Truthful(seen)' /\ Truthful(durable)' /\ DiskResolved' /\ ReplyDiscipline'
    BY <1>0, <2>1 DEF KeptInv, Truthful, DiskResolved, ReplyDiscipline
  <2>5. Owned' /\ DiskAgrees'
    BY <1>0, <2>1 DEF KeptInv, Truthful, DiskResolved, Owned, DiskAgrees
  <2>6. AnswersKept' /\ EmittedKept'
    BY <1>0, <2>1, <2>3 DEF KeptInv, AnswersKept, EmittedKept, Kept, HoldsResult, Keyed, Answered
  <2> QED BY <1>0, <2>1, <2>2, <2>3, <2>4, <2>5, <2>6 DEF KeptInv
<1>13. ASSUME Tick
       PROVE  KeptInv'
  BY <1>0, <1>13 DEF Tick, KeptInv, Truthful, Owned, DiskResolved, DiskAgrees, AnswersKept,
       EmittedKept, ReplyDiscipline, Kept, HoldsResult, Keyed, Answered, InFlight, EmptyMap, store, control, budget
<1>14. ASSUME UNCHANGED vars
       PROVE  KeptInv'
  BY <1>0, <1>14 DEF vars, KeptInv, Truthful, Owned, DiskResolved, DiskAgrees, AnswersKept,
       EmittedKept, ReplyDiscipline, Kept, HoldsResult, Keyed, Answered, InFlight, EmptyMap, store, control, budget
<1> QED
  BY <1>1, <1>2, <1>3, <1>4, <1>5, <1>6, <1>7, <1>8, <1>9, <1>10, <1>11, <1>12, <1>13, <1>14
     DEF Next, PreDispatch, PostDispatch

\* A process that is down answers nobody and emits nothing.
LEMMA DownIsSilent ==
  ASSUME TypeOK, [Next]_vars, ~up'
  PROVE  /\ \A q \in Requests : Answered(q)' => Answered(q) /\ reply'[q] = reply[q]
         /\ emitted' = emitted
<1>1. CASE Crash
  <2>1. \A q \in Requests :
          /\ pc'[q] = IF InFlight(q) THEN "replied" ELSE pc[q]
          /\ reply'[q] = IF InFlight(q) THEN [kind |-> "lost", by |-> q] ELSE reply[q]
    BY <1>1, Zenon DEF Crash
  <2>2. emitted' = emitted
    BY <1>1, Zenon DEF Crash
  <2>3. ASSUME NEW q \in Requests, Answered(q)'
        PROVE  Answered(q) /\ reply'[q] = reply[q]
    <3>1. CASE InFlight(q)
      <4>1. reply'[q] = [kind |-> "lost", by |-> q]
        BY <2>1, <3>1
      <4>2. reply'[q].kind = "lost"
        BY <4>1
      <4> QED BY <2>3, <4>2 DEF Answered, ResultKinds
    <3>2. CASE ~InFlight(q)
      BY <2>1, <2>3, <3>2 DEF Answered
    <3> QED BY <3>1, <3>2
  <2> QED BY <2>2, <2>3
<1>2. CASE Tick \/ CompactStore \/ CompactStoreFails \/ UNCHANGED vars
  BY <1>2 DEF Tick, CompactStore, CompactStoreFails, vars, control, Answered
<1>3. CASE Restart
  BY <1>3, Zenon DEF Restart
<1>4. ASSUME NEW e \in LifecycleEvents, LifecycleEvent(e)
      PROVE  FALSE
  BY <1>4, Zenon DEF LifecycleEvent
<1>5. ASSUME NEW r \in Requests, PreDispatch(r)
      PROVE  FALSE
  BY <1>5 DEF PreDispatch, RejectNotReady, RejectConflict, RejectPending, Replay, Reserve, ReserveFails,
     Admissible, Entering
<1>6. ASSUME NEW r \in Requests, NEW out \in Outcomes, Execute(r, out)
      PROVE  FALSE
  BY <1>6 DEF Execute
<1>7. ASSUME NEW r \in Requests, PostDispatch(r)
      PROVE  FALSE
  BY <1>7 DEF PostDispatch, Resolve, ResolveFails, Abort, AbortFails, Returning
<1> QED BY <1>1, <1>2, <1>3, <1>4, <1>5, <1>6, <1>7 DEF Next

\* Agreement of replies and single emission follow from what is kept, and survive
\* a process that can no longer read its file.
LEMMA AgreeStep ==
  ASSUME TypeOK, TypeOK', KeptInv', RepliesAgree, EventsOncePerKey, [Next]_vars
  PROVE  RepliesAgree' /\ EventsOncePerKey'
<1>1. CASE up'
  <2>1. ASSUME NEW r \in Requests, NEW q \in Requests, SameKey(r, q), Answered(r)', Answered(q)'
        PROVE  reply'[r] = reply'[q]
    <3>1. /\ Kept(KeyOf[r], reply[r].by, reply[r].kind)'
          /\ Kept(KeyOf[r], reply[q].by, reply[q].kind)'
      BY <2>1 DEF KeptInv, AnswersKept, SameKey, Keyed
    <3>2. reply'[r].by = reply'[q].by /\ reply'[r].kind = reply'[q].kind
      BY <1>1, <3>1 DEF Kept, HoldsResult
    <3> QED BY <3>2 DEF TypeOK
  <2>2. ASSUME NEW r \in emitted', NEW q \in emitted', SameKey(r, q)
        PROVE  r = q
    <3>1. /\ Kept(KeyOf[r], r, "accepted")'
          /\ Kept(KeyOf[r], q, "accepted")'
      BY <2>2 DEF KeptInv, EmittedKept, SameKey, Keyed
    <3> QED BY <1>1, <3>1 DEF Kept, HoldsResult
  <2> QED BY <2>1, <2>2 DEF RepliesAgree, EventsOncePerKey, SameKey, Keyed
<1>2. CASE ~up'
  BY <1>2, DownIsSilent DEF RepliesAgree, EventsOncePerKey, SameKey, Keyed
<1> QED BY <1>1, <1>2

AgreeInv == SafeInv /\ RepliesAgree /\ EventsOncePerKey

\* Served results are kept: the invariant behind the remaining theorems.
THEOREM ResultsKept ==
  ASSUME RecordsKept
  PROVE  Spec => []AgreeInv
<1>1. Init => AgreeInv
  <2>1. Init => FlightInv
    BY TypeInit DEF Init, FlightInv, Reserved, OnTime, InFlight
  <2>2. Init => KeptInv
    BY DispatchAssumption, StoreAssumption
       DEF Init, StoreInit, EmptyMap, KeptInv, Truthful, Owned, DiskResolved, DiskAgrees, AnswersKept,
           EmittedKept, ReplyDiscipline, Answered, ResultKinds, InFlight
  <2>3. Init => RepliesAgree /\ EventsOncePerKey
    BY DEF Init, RepliesAgree, EventsOncePerKey, Answered
  <2> QED BY <2>1, <2>2, <2>3 DEF AgreeInv, SafeInv
<1>2. AgreeInv /\ [Next]_vars => AgreeInv'
  <2> SUFFICES ASSUME AgreeInv, [Next]_vars PROVE AgreeInv'
    OBVIOUS
  <2>1. TypeOK /\ TimelyHandlers
    BY NothingExpires DEF AgreeInv, SafeInv, FlightInv
  <2>2. FlightInv'
    BY <2>1, FlightStep DEF AgreeInv, SafeInv
  <2>3. KeptInv'
    BY KeptStep DEF AgreeInv
  <2>4. RepliesAgree' /\ EventsOncePerKey'
    BY <2>1, <2>2, <2>3, AgreeStep DEF AgreeInv, FlightInv
  <2> QED BY <2>2, <2>3, <2>4 DEF AgreeInv, SafeInv
<1> QED BY <1>1, <1>2, PTL DEF Spec

\* Across retries, crashes, restarts and failed writes, all requests of a key that
\* are served a result are served the same one.
THEOREM AllRepliesAgree ==
  ASSUME RecordsKept
  PROVE  Spec => []RepliesAgree
<1>1. AgreeInv => RepliesAgree
  BY DEF AgreeInv
<1> QED BY <1>1, ResultsKept, PTL

\* The events of a key reach the EventBus at most once, for any number of retries,
\* crashes and failed writes.
THEOREM EventsEmittedOnce ==
  ASSUME RecordsKept
  PROVE  Spec => []EventsOncePerKey
<1>1. AgreeInv => EventsOncePerKey
  BY DEF AgreeInv
<1> QED BY <1>1, ResultsKept, PTL
-----------------------------------------------------------------------------

\* A live process writes behind a whole line: the torn tail a crash may leave is
\* gone once new_with_ttl has opened the file.
ReopenInv ==
  /\ TypeOK
  /\ fileState # "corrupt"
  /\ up => fileState = "clean"

\* Where no write fails under a process that goes on, each store operation leaves
\* a clean file clean.
LEMMA WritesStayClean ==
  ASSUME fileState = "clean", NEW k, NEW rec
  PROVE  /\ Insert(k, rec) => fileState' = "clean"
         /\ Remove(k) => fileState' = "clean"
         /\ Compact => fileState' = "clean"
  BY DEF Insert, Remove, Compact, AppendLine, Rewrite

\* Only failed writes can bring a line behind a torn tail.
LEMMA ReopenStep ==
  ASSUME MaxIoFailures = 0, ReopenInv, [Next]_vars
  PROVE  ReopenInv'
<1>0. TypeOK /\ TypeOK'
  BY TypeStep DEF ReopenInv
<1> DEFINE Goal == fileState' # "corrupt" /\ (up' => fileState' = "clean")
<1>1. ASSUME FailIo
      PROVE  FALSE
  BY <1>0, <1>1 DEF FailIo, TypeOK
<1>2. ASSUME UNCHANGED <<fileState, up>>
      PROVE  Goal
  BY <1>2 DEF ReopenInv
<1>3. ASSUME NEW r \in Requests, PreDispatch(r)
      PROVE  Goal
  <2>1. CASE Reserve(r)
    <3>1. fileState = "clean" /\ UNCHANGED up
      BY <2>1 DEF ReopenInv, Reserve, Admissible, Entering
    <3>2. fileState' = "clean"
      BY <2>1, <3>1, WritesStayClean DEF Reserve, store
    <3> QED BY <3>2
  <2>2. CASE ReserveFails(r)
    BY <1>1, <2>2 DEF ReserveFails
  <2>3. CASE RejectNotReady(r) \/ RejectConflict(r) \/ RejectPending(r) \/ Replay(r)
    BY <1>2, <2>3 DEF RejectNotReady, RejectConflict, RejectPending, Replay, store
  <2> QED BY <1>3, <2>1, <2>2, <2>3 DEF PreDispatch
<1>4. ASSUME NEW r \in Requests, NEW out \in Outcomes, Execute(r, out)
      PROVE  Goal
  BY <1>2, <1>4 DEF Execute, store
<1>5. ASSUME NEW r \in Requests, PostDispatch(r)
      PROVE  Goal
  <2>1. CASE Resolve(r) \/ Abort(r)
    <3>1. fileState = "clean"
      BY <2>1 DEF ReopenInv, Resolve, Abort, Returning
    <3>2. fileState' = "clean"
      BY <2>1, <3>1, WritesStayClean DEF Resolve, Abort, store
    <3> QED BY <3>2
  <2>2. CASE ResolveFails(r) \/ AbortFails(r)
    BY <1>1, <2>2 DEF ResolveFails, AbortFails
  <2> QED BY <1>5, <2>1, <2>2 DEF PostDispatch
<1>6. ASSUME CompactStore \/ CompactStoreFails
      PROVE  Goal
  <2>1. Compact /\ fileState = "clean"
    BY <1>1, <1>6 DEF CompactStore, CompactStoreFails, ReopenInv
  <2>2. fileState' = "clean"
    BY <2>1, WritesStayClean
  <2> QED BY <2>2
<1>7. ASSUME Crash
      PROVE  Goal
  <2>1. CrashedFile /\ ~up' /\ fileState = "clean"
    BY <1>7, Zenon DEF Crash, ReopenInv
  <2>2. fileState' \in {"clean", "torn"}
    BY <2>1 DEF CrashedFile, AppendTorn, AppendLine, Rewrite
  <2> QED BY <2>1, <2>2
<1>8. ASSUME Restart
      PROVE  Goal
  BY <1>8 DEF Restart, Open
<1>9. ASSUME Tick \/ (\E e \in LifecycleEvents : LifecycleEvent(e)) \/ UNCHANGED vars
      PROVE  Goal
  BY <1>2, <1>9 DEF Tick, LifecycleEvent, vars, store, control
<1>10. Goal
  BY <1>3, <1>4, <1>5, <1>6, <1>7, <1>8, <1>9 DEF Next
<1> QED BY <1>0, <1>10 DEF ReopenInv

\* However often and wherever the process crashes, the next one can open the
\* store's file.  The hypothesis excludes the writes that fail while the process
\* goes on: append_entry then puts a line behind a torn tail.
THEOREM CrashesLeaveAReadableStore ==
  ASSUME MaxIoFailures = 0
  PROVE  Spec => []StoreReopens
<1>1. Init => ReopenInv
  BY TypeInit DEF Init, StoreInit, ReopenInv
<1>2. ReopenInv /\ [Next]_vars => ReopenInv'
  BY ReopenStep
<1>3. ReopenInv => StoreReopens
  BY DEF ReopenInv, StoreReopens
<1> QED BY <1>1, <1>2, <1>3, PTL DEF Spec
-----------------------------------------------------------------------------
(* CommandDispatch implements IdempotentKeys.                              *)

\* A step of a key's slot in IdempotentKeys, said of the records behind it.
RecordStep(before, after) ==
  \/ after = before
  \/ before = NoRecord /\ after # NoRecord /\ after.status = "Pending"
  \/ /\ before # NoRecord /\ before.status = "Pending"
     /\ after # NoRecord => after.status = "Resolved"

\* A restart loads what the slot already stood for.
LEMMA RestartKeepsSlots ==
  ASSUME Restart, NEW k \in Keys
  PROVE  Held(k)' = Held(k)
<1>1. ~up /\ up' /\ seen' = durable
  BY Zenon DEF Restart, Open
<1> QED BY <1>1 DEF Held

\* A crash may lose a reservation, or bring to disk the result it was reserved
\* for; what is resolved or free stays so.
LEMMA CrashKeepsSlots ==
  ASSUME RecordsKept, AgreeInv, AgreeInv', Crash, fileState' # "corrupt", NEW k \in Keys
  PROVE  RecordStep(Held(k), Held(k)')
<1>0. TypeOK /\ FlightInv /\ KeptInv /\ KeptInv'
  BY DEF AgreeInv, SafeInv, FlightInv
<1>1. /\ up
      /\ ~up'
      /\ CrashedFile
      /\ crashes < MaxCrashes
  BY Zenon DEF Crash
<1>2. FileBacked
  BY <1>0, <1>1, DispatchAssumption DEF RecordsKept, TypeOK
<1>3. Held(k) = seen[k] /\ Held(k)' = durable'[k]
  BY <1>1 DEF Held
<1>4. durable'[k] # NoRecord => durable'[k].status = "Resolved"
  BY <1>0 DEF KeptInv, DiskResolved
<1>5. CASE seen[k] # NoRecord /\ seen[k].status = "Pending"
  BY <1>3, <1>4, <1>5 DEF RecordStep
<1>6. CASE ~(seen[k] # NoRecord /\ seen[k].status = "Pending")
  <2>1. seen[k] # NoRecord => seen[k].status = "Resolved"
    BY <1>0, <1>6 DEF TypeOK, StoreTypeOK, Record, Statuses
  <2>2. CASE durable' = durable /\ fileState # "corrupt"
    BY <1>0, <1>1, <1>2, <1>3, <2>1, <2>2 DEF KeptInv, DiskAgrees, RecordStep
  <2>3. ASSUME NEW r \in Requests, Keyed(r), Returning(r),
               AppendLine(KeyOf[r], Resolved(r)), fileState = "clean"
        PROVE  durable'[k] = durable[k]
    <3>1. k # KeyOf[r]
      BY <1>0, <1>6, <2>3 DEF FlightInv, Reserved, InFlight, Returning
    <3> QED BY <1>0, <1>2, <2>3, <3>1 DEF AppendLine, TypeOK, StoreTypeOK
  <2>4. ASSUME NEW r \in Requests, Keyed(r), Returning(r), Rewrite(Without(KeyOf[r]))
        PROVE  durable'[k] = seen[k]
    <3>1. k # KeyOf[r]
      BY <1>0, <1>6, <2>4 DEF FlightInv, Reserved, InFlight, Returning
    <3> QED BY <1>0, <1>2, <2>1, <2>4, <3>1 DEF Rewrite, Loadable, Without, TypeOK, StoreTypeOK
  <2>5. \/ durable' = durable /\ fileState # "corrupt"
        \/ \E r \in Requests : /\ Keyed(r) /\ Returning(r)
                               /\ AppendLine(KeyOf[r], Resolved(r)) /\ fileState = "clean"
        \/ \E r \in Requests : Keyed(r) /\ Returning(r) /\ Rewrite(Without(KeyOf[r]))
    BY <1>0, <1>1, <1>2 DEF CrashedFile, AppendTorn, AppendLine, TypeOK, StoreTypeOK
  <2>6. durable'[k] = seen[k]
    BY <1>0, <1>1, <1>2, <2>1, <2>2, <2>3, <2>4, <2>5 DEF KeptInv, DiskAgrees
  <2> QED BY <1>3, <2>6 DEF RecordStep
<1> QED BY <1>5, <1>6

\* Under a live process only a reservation, its resolution and its removal change
\* a slot.
LEMMA DispatchKeepsSlots ==
  ASSUME RecordsKept, AgreeInv, NEW r \in Requests, PreDispatch(r) \/ PostDispatch(r), NEW k \in Keys
  PROVE  RecordStep(Held(k), Held(k)')
<1>0. TypeOK /\ FlightInv
  BY DEF AgreeInv, SafeInv, FlightInv
<1>1. up /\ up'
  BY DEF PreDispatch, RejectNotReady, RejectConflict, RejectPending, Replay, Reserve, ReserveFails,
         Admissible, Entering, PostDispatch, Resolve, ResolveFails, Abort, AbortFails, Returning
<1>2. Held(k) = seen[k] /\ Held(k)' = seen'[k]
  BY <1>1 DEF Held
<1>3. CASE seen' = seen
  BY <1>2, <1>3 DEF RecordStep
<1>4. CASE Reserve(r) /\ Keyed(r)
  <2>1. KeyOf[r] \in Keys /\ seen[KeyOf[r]] = NoRecord
    BY <1>0, <1>4, KeyedKey, NothingExpires DEF Reserve, Found
  <2>2. Pending(r) # NoRecord /\ Pending(r).status = "Pending"
    BY <1>0, BuiltRecords, StoreAssumption DEF Pending, PendingRecord
  <2>3. seen' = [seen EXCEPT ![KeyOf[r]] = Pending(r)]
    BY <1>4 DEF Reserve, Insert
  <2> QED BY <1>0, <1>2, <2>1, <2>2, <2>3 DEF RecordStep, TypeOK, StoreTypeOK
<1>5. CASE (Resolve(r) \/ Abort(r) \/ AbortFails(r)) /\ Keyed(r)
  <2>1. /\ KeyOf[r] \in Keys
        /\ seen[KeyOf[r]] # NoRecord
        /\ seen[KeyOf[r]].status = "Pending"
    BY <1>0, <1>5, KeyedKey
       DEF FlightInv, Reserved, InFlight, Resolve, Abort, AbortFails, Returning
  <2>2. Resolved(r).status = "Resolved"
    BY DEF Resolved, ResolvedRecord
  <2>3. seen' = [seen EXCEPT ![KeyOf[r]] = Resolved(r)] \/ seen' = [seen EXCEPT ![KeyOf[r]] = NoRecord]
    BY <1>5 DEF Resolve, Abort, AbortFails, Insert, Remove, RemoveFails, Without
  <2> QED BY <1>0, <1>2, <2>1, <2>2, <2>3 DEF RecordStep, TypeOK, StoreTypeOK
<1>6. \/ seen' = seen
      \/ Reserve(r) /\ Keyed(r)
      \/ (Resolve(r) \/ Abort(r) \/ AbortFails(r)) /\ Keyed(r)
  BY DEF PreDispatch, RejectNotReady, RejectConflict, RejectPending, Replay, Reserve, ReserveFails,
         PostDispatch, Resolve, ResolveFails, Abort, AbortFails, InsertFails, store
<1> QED BY <1>3, <1>4, <1>5, <1>6

\* A process that cannot read its file stays down for good.
LEMMA HaltedForGood ==
  ASSUME Halted, [Next]_vars
  PROVE  Halted'
<1>1. ~up /\ fileState = "corrupt"
  BY DEF Halted
<1>2. Tick \/ UNCHANGED vars
  BY <1>1 DEF Next, PreDispatch, RejectNotReady, RejectConflict, RejectPending, Replay, Reserve,
     ReserveFails, Admissible, Entering, PostDispatch, Resolve, ResolveFails, Abort, AbortFails,
     Returning, Execute, LifecycleEvent, CompactStore, CompactStoreFails, Crash, Restart, Open
<1>3. UNCHANGED <<up, fileState>>
  BY <1>2 DEF Tick, vars, store, control
<1> QED BY <1>1, <1>3 DEF Halted

\* Every step of a dispatcher that can still read its file is a step of each slot.
LEMMA SlotsStep ==
  ASSUME RecordsKept, AgreeInv, AgreeInv', [Next]_vars, ~Halted', NEW k \in Keys
  PROVE  RecordStep(Held(k), Held(k)')
<1>0. TypeOK
  BY DEF AgreeInv, SafeInv, FlightInv
<1>1. ASSUME NEW r \in Requests, PreDispatch(r) \/ PostDispatch(r)
      PROVE  RecordStep(Held(k), Held(k)')
  BY <1>1, DispatchKeepsSlots
<1>2. ASSUME UNCHANGED <<up, seen, durable>>
      PROVE  RecordStep(Held(k), Held(k)')
  BY <1>2 DEF Held, RecordStep
<1>3. ASSUME NEW r \in Requests, NEW out \in Outcomes, Execute(r, out)
      PROVE  RecordStep(Held(k), Held(k)')
  BY <1>2, <1>3 DEF Execute, store
<1>4. ASSUME CompactStore \/ CompactStoreFails
      PROVE  RecordStep(Held(k), Held(k)')
  <2>1. up /\ up' /\ seen' = seen
    BY <1>0, <1>4, NothingExpires DEF CompactStore, CompactStoreFails, Compact, CompactFails, control
  <2> QED BY <2>1 DEF Held, RecordStep
<1>5. ASSUME Crash
      PROVE  RecordStep(Held(k), Held(k)')
  <2>1. ~up'
    BY <1>5, Zenon DEF Crash
  <2> QED BY <1>5, <2>1, CrashKeepsSlots DEF Halted
<1>6. ASSUME Restart
      PROVE  RecordStep(Held(k), Held(k)')
  BY <1>6, RestartKeepsSlots DEF RecordStep
<1>7. ASSUME Tick \/ (\E e \in LifecycleEvents : LifecycleEvent(e)) \/ UNCHANGED vars
      PROVE  RecordStep(Held(k), Held(k)')
  BY <1>2, <1>7 DEF Tick, LifecycleEvent, vars, store, control
<1> QED BY <1>1, <1>3, <1>4, <1>5, <1>6, <1>7 DEF Next

\* A served result is never withdrawn, and a newly served one has the payload of
\* the request it is served to.
LEMMA AnswersStep ==
  ASSUME RecordsKept, AgreeInv, AgreeInv', [Next]_vars, NEW q \in Requests
  PROVE  /\ Answered(q) => Answered(q)' /\ reply'[q] = reply[q]
         /\ Answered(q)' /\ ~Answered(q) /\ Keyed(q) => up' /\ seen'[KeyOf[q]].hash = PayloadOf[q]
<1>0. TypeOK /\ FlightInv /\ KeptInv
  BY DEF AgreeInv, SafeInv, FlightInv
<1> DEFINE Goal == /\ Answered(q) => Answered(q)' /\ reply'[q] = reply[q]
                   /\ Answered(q)' /\ ~Answered(q) /\ Keyed(q) => up' /\ seen'[KeyOf[q]].hash = PayloadOf[q]
<1>1. ASSUME pc'[q] = pc[q], reply'[q] = reply[q]
      PROVE  Goal
  BY <1>1 DEF Answered
<1>2. ASSUME ~Answered(q), ~Answered(q)'
      PROVE  Goal
  BY <1>2
<1>3. ASSUME NEW r \in Requests, NEW kind, NEW by, Answer(r, kind, by), pc[r] # "replied",
             q # r \/ kind \notin ResultKinds
      PROVE  Goal
  <2>1. CASE q # r
    BY <1>0, <1>1, <1>3, <2>1 DEF Answer, TypeOK
  <2>2. CASE q = r
    BY <1>0, <1>2, <1>3, <2>2 DEF Answer, Answered, TypeOK
  <2> QED BY <2>1, <2>2
<1>4. ASSUME NEW r \in Requests, RejectNotReady(r) \/ RejectConflict(r) \/ RejectPending(r) \/ ReserveFails(r)
      PROVE  Goal
  <2>1. pc[r] # "replied"
    BY <1>4 DEF RejectNotReady, RejectConflict, RejectPending, ReserveFails, Admissible, Entering
  <2>2. \E kind \in {"notReady", "conflict", "pending", "ioError"} : Answer(r, kind, r)
    BY <1>4 DEF RejectNotReady, RejectConflict, RejectPending, ReserveFails
  <2> QED BY <1>3, <2>1, <2>2 DEF ResultKinds
<1>5. ASSUME NEW r \in Requests, Replay(r)
      PROVE  Goal
  <2>1. /\ up'
        /\ pc[r] # "replied"
        /\ Answer(r, Found(r).kind, Found(r).by)
        /\ UNCHANGED seen
    BY <1>5 DEF Replay, Admissible, Entering, store
  <2>2. CASE q = r
    <3>1. KeyOf[r] \in Keys /\ Found(r) = seen[KeyOf[r]] /\ Found(r).hash = PayloadOf[r]
      BY <1>0, <1>5, KeyedKey, NothingExpires DEF Replay, Finds, Found
    <3> QED BY <2>1, <2>2, <3>1 DEF Answered
  <2> QED BY <1>3, <2>1, <2>2
<1>6. ASSUME NEW r \in Requests, Reserve(r)
      PROVE  Goal
  <2>1. CASE q = r
    BY <1>0, <1>2, <1>6, <2>1 DEF Reserve, Start, Admissible, Entering, Answered, TypeOK
  <2>2. CASE q # r
    BY <1>0, <1>1, <1>6, <2>2 DEF Reserve, Start, TypeOK
  <2> QED BY <2>1, <2>2
<1>7. ASSUME NEW r \in Requests, NEW out \in Outcomes, Execute(r, out)
      PROVE  Goal
  <2>1. CASE out = "panic"
    BY <1>3, <1>7, <2>1 DEF Execute, ResultKinds
  <2>2. CASE out # "panic" /\ q = r
    BY <1>0, <1>2, <1>7, <2>2 DEF Execute, Answered, TypeOK
  <2>3. CASE out # "panic" /\ q # r
    BY <1>0, <1>1, <1>7, <2>3 DEF Execute, TypeOK
  <2> QED BY <2>1, <2>2, <2>3
<1>8. ASSUME NEW r \in Requests, Resolve(r)
      PROVE  Goal
  <2>1. up' /\ pc[r] # "replied" /\ Answer(r, outcome[r], r)
    BY <1>8 DEF Resolve, Returning
  <2>2. CASE q = r /\ Keyed(r)
    <3>1. seen' = [seen EXCEPT ![KeyOf[r]] = Resolved(r)] /\ KeyOf[r] \in Keys
      BY <1>8, <2>2, KeyedKey DEF Resolve, Insert
    <3>2. Resolved(r).hash = PayloadOf[r]
      BY DEF Resolved, ResolvedRecord
    <3>3. seen'[KeyOf[r]].hash = PayloadOf[r]
      BY <1>0, <3>1, <3>2 DEF TypeOK, StoreTypeOK
    <3> QED BY <2>1, <2>2, <3>3 DEF Answered
  <2>3. CASE q = r /\ ~Keyed(r)
    BY <2>1, <2>3 DEF Answered
  <2> QED BY <1>3, <2>1, <2>2, <2>3
<1>9. ASSUME NEW r \in Requests, ResolveFails(r) \/ Abort(r) \/ AbortFails(r)
      PROVE  Goal
  <2>1. pc[r] # "replied"
    BY <1>9 DEF ResolveFails, Abort, AbortFails, Returning
  <2>2. \E kind \in {"ioError", "handlerError"} : Answer(r, kind, r)
    BY <1>9 DEF ResolveFails, Abort, AbortFails
  <2> QED BY <1>3, <2>1, <2>2 DEF ResultKinds
<1>10. ASSUME Crash
       PROVE  Goal
  <2>1. /\ pc'[q] = IF InFlight(q) THEN "replied" ELSE pc[q]
        /\ reply'[q] = IF InFlight(q) THEN [kind |-> "lost", by |-> q] ELSE reply[q]
    BY <1>10, Zenon DEF Crash
  <2>2. CASE InFlight(q)
    <3>1. reply'[q].kind = "lost"
      BY <2>1, <2>2
    <3> QED BY <1>2, <2>2, <3>1 DEF InFlight, Answered, ResultKinds
  <2>3. CASE ~InFlight(q)
    BY <1>1, <2>1, <2>3
  <2> QED BY <2>2, <2>3
<1>11. ASSUME UNCHANGED <<pc, reply>>
       PROVE  Goal
  BY <1>1, <1>11
<1>12. ASSUME \/ CompactStore \/ CompactStoreFails \/ Restart \/ Tick
              \/ \E e \in LifecycleEvents : LifecycleEvent(e)
              \/ UNCHANGED vars
       PROVE  Goal
  BY <1>11, <1>12 DEF CompactStore, CompactStoreFails, Restart, Tick, LifecycleEvent, vars, control
<1> QED
  BY <1>4, <1>5, <1>6, <1>7, <1>8, <1>9, <1>10, <1>12 DEF Next, PreDispatch, PostDispatch

\* The slot a request's result is served from is done with that result.  (Stated
\* of the state after a step, where the simulation needs it.)
LEMMA ServedFromSlot ==
  ASSUME TypeOK', KeptInv', up', NEW q \in Requests, Keyed(q), Answered(q)'
  PROVE  /\ KeyOf[q] \in Keys
         /\ SlotOf(KeyOf[q])' \in Abstract!Done
         /\ SlotOf(KeyOf[q])'.hash = seen'[KeyOf[q]].hash
         /\ SlotOf(KeyOf[q])'.by = reply'[q].by
         /\ SlotOf(KeyOf[q])'.kind = reply'[q].kind
<1> DEFINE k == KeyOf[q]
<1>1. /\ k \in Keys
      /\ seen'[k] # NoRecord
      /\ seen'[k].status = "Resolved"
      /\ seen'[k].by = reply'[q].by
      /\ seen'[k].kind = reply'[q].kind
  BY KeyedKey DEF KeptInv, AnswersKept, Kept, HoldsResult, Keyed
<1>2. seen'[k] \in Record
  BY <1>1 DEF TypeOK, StoreTypeOK
<1>3. SlotOf(k)' = [by |-> seen'[k].by, kind |-> seen'[k].kind, hash |-> seen'[k].hash]
  BY <1>1 DEF SlotOf, Held
<1> QED BY <1>1, <1>2, <1>3 DEF Abstract!Done, Record, ResultKinds

\* A step of the record behind a slot is a step of the slot.
LEMMA RecordStepIsSlotStep ==
  ASSUME TypeOK', NEW k \in Keys, RecordStep(Held(k), Held(k)')
  PROVE  \/ SlotOf(k)' = SlotOf(k)
         \/ SlotOf(k) = Free /\ SlotOf(k)' = Busy
         \/ SlotOf(k) = Busy /\ SlotOf(k)' \in {Free} \cup Abstract!Done
<1>1. Held(k)' \in Record \cup {NoRecord}
  BY DEF Held, TypeOK, StoreTypeOK
<1>2. CASE Held(k)' = Held(k)
  BY <1>2 DEF SlotOf
<1>3. CASE Held(k) = NoRecord /\ Held(k)' # NoRecord /\ Held(k)'.status = "Pending"
  BY <1>3 DEF SlotOf
<1>4. CASE /\ Held(k) # NoRecord /\ Held(k).status = "Pending"
           /\ Held(k)' # NoRecord => Held(k)'.status = "Resolved"
  <2>1. SlotOf(k) = Busy
    BY <1>4 DEF SlotOf
  <2>2. CASE Held(k)' = NoRecord
    BY <2>1, <2>2 DEF SlotOf
  <2>3. CASE Held(k)' # NoRecord
    <3>1. SlotOf(k)' = [by |-> Held(k)'.by, kind |-> Held(k)'.kind, hash |-> Held(k)'.hash]
      BY <1>4, <2>3 DEF SlotOf
    <3> QED BY <1>1, <2>1, <2>3, <3>1 DEF Abstract!Done, Record, ResultKinds
  <2> QED BY <2>2, <2>3
<1> QED BY <1>2, <1>3, <1>4 DEF RecordStep

\* Every step of CommandDispatch is a step of IdempotentKeys or leaves its slots
\* and answers alone.
LEMMA StepSimulation ==
  ASSUME RecordsKept, AgreeInv, AgreeInv', [Next]_vars
  PROVE  Abstract!Next
<1>0. TypeOK /\ TypeOK' /\ KeptInv'
  BY DEF AgreeInv, SafeInv, FlightInv
<1>1. CASE Halted'
  <2>1. ~up'
    BY <1>1 DEF Halted
  <2>2. ASSUME NEW r \in Requests
        PROVE  AnswerOf(r)' = AnswerOf(r)
    BY <1>0, <2>1, DownIsSilent, AnswersStep DEF AnswerOf, Keyed
  <2> QED BY <1>1, <2>2 DEF Abstract!Next, Abstract!Halt
<1>2. CASE ~Halted'
  <2>1. ~Halted
    BY <1>2, HaltedForGood
  <2>2. ASSUME NEW k \in Keys
        PROVE  Abstract!SlotStep(k)
    BY <1>0, <1>2, SlotsStep, RecordStepIsSlotStep DEF Abstract!SlotStep
  <2>3. ASSUME NEW r \in Requests
        PROVE  Abstract!AnswerStep(r)
    <3>1. CASE AnswerOf(r)' = AnswerOf(r)
      BY <3>1 DEF Abstract!AnswerStep
    <3>2. CASE AnswerOf(r)' # AnswerOf(r)
      <4>1. Keyed(r) /\ ~Answered(r) /\ Answered(r)'
        BY <3>2, AnswersStep DEF AnswerOf, Keyed
      <4>2. up' /\ seen'[KeyOf[r]].hash = PayloadOf[r]
        BY <4>1, AnswersStep
      <4>3. /\ KeyOf[r] \in Keys
            /\ SlotOf(KeyOf[r])' \in Abstract!Done
            /\ SlotOf(KeyOf[r])'.hash = seen'[KeyOf[r]].hash
            /\ SlotOf(KeyOf[r])'.by = reply'[r].by
            /\ SlotOf(KeyOf[r])'.kind = reply'[r].kind
        BY <1>0, <4>1, <4>2, ServedFromSlot
      <4>4. AnswerOf(r) = NoAnswer
        BY <4>1 DEF AnswerOf
      <4>5. AnswerOf(r)' = [by |-> reply'[r].by, kind |-> reply'[r].kind]
        BY <4>1 DEF AnswerOf, Keyed
      <4> QED BY <4>2, <4>3, <4>4, <4>5 DEF Abstract!AnswerStep
    <3> QED BY <3>1, <3>2
  <2> QED BY <1>2, <2>1, <2>2, <2>3 DEF Abstract!Next, Abstract!Work
<1> QED BY <1>1, <1>2

\* Dispatch keeps the promise of IdempotentKeys, for any number of requests, keys,
\* crashes and failed writes, wherever completed records are kept: each step of
\* controller, store, file and crash is a step of the promise.
THEOREM PromiseKept ==
  ASSUME RecordsKept
  PROVE  Spec => KeepsPromise
<1>1. Init => Abstract!Init
  BY StoreAssumption
     DEF Init, StoreInit, EmptyMap, Abstract!Init, SlotOf, Held, AnswerOf, Answered, Halted
<1>2. AgreeInv /\ AgreeInv' /\ [Next]_vars => Abstract!Next
  BY StepSimulation
<1>3. Spec => []AgreeInv
  BY ResultsKept
<1> QED BY <1>1, <1>2, <1>3, PTL DEF Spec, KeepsPromise, Abstract!Spec

=============================================================================
