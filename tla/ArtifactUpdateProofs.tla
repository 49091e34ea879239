------------------------ MODULE ArtifactUpdateProofs ------------------------
(***************************************************************************)
(* Theorems about two stores of a node that survive crashes:               *)
(* ArtifactUpdate, for any set of artifacts and builds and any number of   *)
(* failed operations, damaged files and crashes, and OperationalJournal,   *)
(* for any limits, records and number of faults.                           *)
(***************************************************************************)
EXTENDS ArtifactUpdate, OperationalJournal, SequenceTheorems, WellFoundedInduction, TLAPS

-----------------------------------------------------------------------------
(* The inductive invariant.                                                *)

\* x is not older than anything reported as applied.
Covers(x) == \A a \in applied : x # None /\ VersionOf[x] >= VersionOf[a]

\* Whoever holds the receipt can commit to what it activated or go back to what it
\* replaced.
Sound(receipt) ==
  receipt # None =>
    /\ receipt.previous \in healthy
    /\ Covers(receipt.previous)
    /\ Resolves(receipt.previous)
    /\ Resolves(receipt.activated)

PointerInv ==
  /\ Resolves(disk.active)
  /\ Covers(disk.active)
  /\ Resolves(disk.previous)
  /\ Sound(disk.pending)
  /\ Sound(proc.receipt)

\* An active artifact without a verdict is the one the pending receipt names.
Reversible ==
  \/ disk.active \in healthy
  \/ disk.pending # None /\ Same(disk.active, disk.pending.activated)

SettledPcs ==
  {"select", "fetch", "stage", "smoke", "install", "unstage", "savePrevious",
   "savePending", "switch", "dropPrevious", "dropPending"}

\* Recovery comes first, and the switch last, of all that happens to the pointer.
Settled == proc.pc \in SettledPcs => disk.active \in healthy

ChosenPcs ==
  {"fetch", "stage", "smoke", "install", "unstage", "savePrevious", "savePending",
   "switch"}

Chosen == proc.pc \in ChosenPcs => proc.candidate # None /\ Covers(proc.candidate)

\* The receipt is complete, and on disk before the switch.
Activating ==
  /\ proc.pc \in {"unstage", "savePrevious", "savePending", "switch"} =>
       proc.receipt # None /\ proc.receipt.activated = proc.candidate
  /\ proc.pc = "switch" => disk.pending = proc.receipt

\* commit and rollback hold a receipt; what commit confirms is active and healthy.
Ending ==
  /\ proc.pc \in {"health", "commit", "restore", "dropPending"} => proc.receipt # None
  /\ proc.pc = "commit" => proc.goal = "applied"
  /\ proc.pc = "commit" /\ Same(disk.active, proc.receipt.activated) =>
       disk.active \in healthy
  /\ proc.goal = "applied" =>
       \/ proc.pc = "commit"
       \/ /\ proc.pc \in {"dropPrevious", "dropPending"}
          /\ proc.receipt # None /\ disk.active = proc.receipt.activated

UpdateInv ==
  TypeOK /\ PointerInv /\ Reversible /\ Settled /\ Chosen /\ Activating /\ Ending

-----------------------------------------------------------------------------
(* The invariant is inductive.                                             *)

\* It holds of an empty store.
LEMMA UpdateInit == Init => UpdateInv
  BY UpdateAssumption
     DEF Init, UpdateInv, TypeOK, Idle, Maybe, Contents, Modes, Pcs, PointerInv, Resolves,
         Covers, Sound, Reversible, Settled, SettledPcs, Chosen, ChosenPcs, Activating, Ending

\* Two descriptors of one installed build are the same artifact: an installed file
\* has the bytes of one of them.
LEMMA SameResolved ==
  ASSUME NEW a, NEW b, Same(a, b), b # None, Resolves(a), Resolves(b)
  PROVE  a = b
  BY DEF Same, Resolves

\* A file operation changes the directory as it says, or not at all.
LEMMA OperationCases ==
  ASSUME NEW new, NEW next, NEW failed, Operation(new, next, failed),
         faults \in 0..MaxFaults
  PROVE  /\ disk' \in {disk, new}
         /\ faults' \in 0..MaxFaults
         /\ \/ disk' = new /\ proc' = next /\ faults' = faults
            \/ proc' = failed /\ faults' # faults
  BY UpdateAssumption DEF Operation, Fault

Procs ==
  [pc : Pcs, mode : Modes, goal : {"select", "applied", "rolledBack"},
   candidate : Maybe(Artifacts), receipt : Maybe(Receipts)]

\* A step that only reads the directory keeps types and pointers, if the receipt it
\* goes on with is sound.
LEMMA ReadOnly ==
  ASSUME UpdateInv, NEW next \in Procs, Proceed(next), Sound(next.receipt)
  PROVE  TypeOK' /\ PointerInv' /\ Reversible'
<1>1. proc' = next /\ UNCHANGED <<disk, healthy, applied, faults>>
  BY DEF Proceed
<1>2. TypeOK'
  BY <1>1 DEF UpdateInv, TypeOK, Procs
<1>3. PointerInv' /\ Reversible'
  BY <1>1 DEF UpdateInv, PointerInv, Reversible, Resolves, Covers, Sound, Same
<1> QED BY <1>2, <1>3

\* What is left to show of such a step: where it goes on.
PlaceInv == Settled /\ Chosen /\ Activating /\ Ending

\* A step that only reads and leads to a good place.
Fine(next) == next \in Procs /\ Proceed(next) /\ Sound(next.receipt) /\ PlaceInv'

\* select_candidate keeps the invariant: an upgrade of what is active is not older
\* than anything applied.
LEMMA SelectStep ==
  ASSUME UpdateInv, NEW a \in Artifacts, Select(a)
  PROVE  Fine([proc EXCEPT !.pc = "fetch", !.candidate = a])
<1> DEFINE next == [proc EXCEPT !.pc = "fetch", !.candidate = a]
<1>1. At("select") /\ Proceed(next) /\ Eligible(a)
  BY DEF Select
<1>2. proc \in Procs
  BY DEF UpdateInv, TypeOK, Procs
<1>3. /\ next \in Procs /\ Sound(next.receipt)
      /\ next.pc = "fetch" /\ next.candidate = a /\ next.goal = proc.goal
  BY <1>2 DEF UpdateInv, PointerInv, Procs, Pcs, Maybe
<1>4. a # None /\ Covers(a)
  <2>1. Covers(disk.active) /\ applied \subseteq Artifacts
    BY DEF UpdateInv, PointerInv, TypeOK
  <2>2. CASE disk.active = None
    BY <2>1, <2>2, UpdateAssumption DEF Covers
  <2>3. CASE disk.active # None
    <3>1. VersionOf[a] > VersionOf[disk.active] /\ disk.active \in Artifacts
      BY <1>1, <2>3 DEF Eligible, UpdateInv, TypeOK, Maybe
    <3> QED BY <2>1, <2>3, <3>1, UpdateAssumption DEF Covers
  <2> QED BY <2>2, <2>3
<1>5. proc' = next /\ UNCHANGED <<disk, healthy, applied>>
  BY <1>1 DEF Proceed
<1>6. PlaceInv'
  BY <1>1, <1>3, <1>4, <1>5
        DEF At, UpdateInv, PlaceInv, Settled, SettledPcs, Chosen, ChosenPcs, Covers,
            Activating, Ending
<1> QED BY <1>1, <1>3, <1>6 DEF Fine

\* A call that goes on to pc with the receipt r, and is the same otherwise.
Continues(next, pc, r) ==
  /\ next \in Procs /\ next.pc = pc /\ next.receipt = r
  /\ next.mode = proc.mode /\ next.goal = proc.goal /\ next.candidate = proc.candidate

\* Recover only moves the call and hands it the pending receipt.
LEMMA RecoveredFields ==
  ASSUME proc \in Procs, NEW pc \in Pcs, NEW r \in Maybe(Receipts)
  PROVE  Continues([proc EXCEPT !.pc = pc, !.receipt = r], pc, r)
BY DEF Procs, Continues

\* Steps that read: recover, the choice of a candidate, fetch, the smoke test, and
\* the verdict of the parent.
LEMMA ReadSteps ==
  ASSUME UpdateInv,
         \/ \E mode \in Modes : Begin(mode)
         \/ \E a \in Artifacts : Select(a)
         \/ Recover \/ SelectNothing \/ Fetch \/ SmokeTestPasses
         \/ ParentChecks \/ HealthFails \/ Commit
  PROVE  UpdateInv'
<1>0. SUFFICES \E next : Fine(next)
  BY ReadOnly DEF UpdateInv, PlaceInv, Fine
<1>p. proc \in Procs /\ disk.pending \in Maybe(Receipts)
  BY DEF UpdateInv, TypeOK, Procs
<1>q. ASSUME NEW pc \in {"restore", "dropPrevious"}
      PROVE  Continues([proc EXCEPT !.pc = pc, !.receipt = disk.pending], pc, disk.pending)
  <2>1. pc \in Pcs
    BY DEF Pcs
  <2> QED BY <1>p, <2>1, RecoveredFields
<1> USE UpdateAssumption
    DEF Fine, Procs, Idle, UpdateInv, PlaceInv, TypeOK, Maybe, Receipts, Modes, Pcs,
        PointerInv, Sound, Reversible, Settled, SettledPcs, Chosen, ChosenPcs, Activating,
        Ending, At, To, Same, Proceed
<1>1. ASSUME NEW mode \in Modes, Begin(mode)
      PROVE  Fine([Idle EXCEPT !.pc = "recover", !.mode = mode])
  BY <1>1 DEF Begin
<1>2. ASSUME NEW a \in Artifacts, Select(a)
      PROVE  Fine([proc EXCEPT !.pc = "fetch", !.candidate = a])
  BY <1>2, SelectStep
<1>3. CASE Recover
  <2>1. CASE disk.pending # None /\ Same(disk.active, disk.pending.activated)
    <3> DEFINE next == [proc EXCEPT !.pc = "restore", !.receipt = disk.pending]
    <3>a. proc' = next /\ UNCHANGED <<disk, healthy, applied, faults>>
      BY <1>3, <2>1 DEF Recover
    <3>b. Continues(next, "restore", disk.pending)
      BY ONLY <1>q
    <3> HIDE DEF next
    <3>2. PlaceInv'
      BY <1>3, <2>1, <3>a, <3>b DEF Recover, Continues
    <3>3. Fine(next)
      BY <3>a, <3>b, <3>2 DEF Continues
    <3> QED BY <3>3, Zenon
  <2>2. CASE ~(disk.pending # None /\ Same(disk.active, disk.pending.activated))
    <3> DEFINE next == [proc EXCEPT !.pc = "dropPrevious", !.receipt = disk.pending]
    <3>a. proc' = next /\ UNCHANGED <<disk, healthy, applied, faults>>
      BY <1>3, <2>2 DEF Recover
    <3>b. Continues(next, "dropPrevious", disk.pending)
      BY ONLY <1>q
    <3> HIDE DEF next
    <3>2. PlaceInv'
      BY <1>3, <2>2, <3>a, <3>b DEF Recover, Continues
    <3>3. Fine(next)
      BY <3>a, <3>b, <3>2 DEF Continues
    <3> QED BY <3>3, Zenon
  <2> QED BY <2>1, <2>2, Zenon
<1>4. ASSUME At("select"), SelectNothing  PROVE Fine(Idle)
  BY <1>4 DEF SelectNothing
<1>5. ASSUME Fetch  PROVE Fine(To("stage")) \/ Fine(Idle)
  BY <1>5 DEF Fetch, Covers
<1>6. ASSUME SmokeTestPasses  PROVE Fine(To("install"))
  BY <1>6 DEF SmokeTestPasses, Covers
<1>7. ASSUME ParentChecks
      PROVE  Fine([Idle EXCEPT !.pc = "health", !.mode = "parent", !.receipt = disk.pending])
  BY <1>7 DEF ParentChecks
<1>8. ASSUME HealthFails
      PROVE  Fine([proc EXCEPT !.pc = "restore", !.goal = "rolledBack"])
  BY <1>8 DEF HealthFails
<1>9. CASE Commit
  <2>1. CASE Same(disk.active, proc.receipt.activated)
    <3>1. disk.active = proc.receipt.activated
      BY <1>9, <2>1, SameResolved DEF Commit
    <3>2. Fine(To("dropPrevious"))
      BY <1>9, <2>1, <3>1 DEF Commit
    <3> QED BY <3>2, Zenon
  <2>2. CASE ~Same(disk.active, proc.receipt.activated)
    <3>1. Fine(Failed)
      BY <1>9, <2>2 DEF Commit, Failed
    <3> QED BY <3>1, Zenon
  <2> QED BY <2>1, <2>2, Zenon
<1> QED
  <2> HIDE DEF Fine
  <2> QED BY <1>1, <1>2, <1>3, <1>4, <1>5, <1>6, <1>7, <1>8, <1>9, Zenon DEF SelectNothing

-----------------------------------------------------------------------------
(* Steps that write.                                                       *)

\* Staging touches no pointer.
LEMMA StageStep ==
  ASSUME UpdateInv, Stage
  PROVE  UpdateInv'
<1> USE UpdateAssumption DEF UpdateInv, Stage, Operation, Fault, At, To, Same, Idle
<1>1. TypeOK'
  BY DEF TypeOK, Maybe, Receipts, Contents, Modes, Pcs
<1>2. PointerInv'
  BY DEF TypeOK, Maybe, Receipts, PointerInv, Resolves, Covers, Sound, Chosen, ChosenPcs,
         Activating, Ending
<1>3. Reversible'
  BY DEF TypeOK, Maybe, Receipts, Reversible, Settled, SettledPcs, Chosen, ChosenPcs,
         Activating, Ending
<1>4. Settled' /\ Chosen' /\ Activating' /\ Ending'
  BY DEF TypeOK, Maybe, Receipts, PointerInv, Sound, Covers, Reversible, Settled,
         SettledPcs, Chosen, ChosenPcs, Activating, Ending
<1> QED BY <1>1, <1>2, <1>3, <1>4

\* Nor does discarding what was staged.
LEMMA DiscardStep ==
  ASSUME UpdateInv, DiscardStaged
  PROVE  UpdateInv'
<1> USE UpdateAssumption DEF UpdateInv, DiscardStaged, Operation, Fault, At, To, Same, Idle
<1>1. TypeOK'
  BY DEF TypeOK, Maybe, Receipts, Contents, Modes, Pcs
<1>2. PointerInv'
  BY DEF TypeOK, Maybe, Receipts, PointerInv, Resolves, Covers, Sound, Chosen, ChosenPcs,
         Activating, Ending
<1>3. Reversible'
  BY DEF TypeOK, Maybe, Receipts, Reversible, Settled, SettledPcs, Chosen, ChosenPcs,
         Activating, Ending
<1>4. Settled' /\ Chosen' /\ Activating' /\ Ending'
  BY DEF TypeOK, Maybe, Receipts, PointerInv, Sound, Covers, Reversible, Settled,
         SettledPcs, Chosen, ChosenPcs, Activating, Ending
<1> QED BY <1>1, <1>2, <1>3, <1>4

\* The staged file is removed after it was installed.
LEMMA UnstageStep ==
  ASSUME UpdateInv, Unstage
  PROVE  UpdateInv'
<1> USE UpdateAssumption DEF UpdateInv, Unstage, Operation, Fault, At, To, Same, Idle
<1>1. TypeOK'
  BY DEF TypeOK, Maybe, Receipts, Contents, Modes, Pcs
<1>2. PointerInv'
  BY DEF TypeOK, Maybe, Receipts, PointerInv, Resolves, Covers, Sound, Chosen, ChosenPcs,
         Activating, Ending
<1>3. Reversible'
  BY DEF TypeOK, Maybe, Receipts, Reversible, Settled, SettledPcs, Chosen, ChosenPcs,
         Activating, Ending
<1>4. Settled' /\ Chosen' /\ Activating' /\ Ending'
  BY DEF TypeOK, Maybe, Receipts, PointerInv, Sound, Covers, Reversible, Settled,
         SettledPcs, Chosen, ChosenPcs, Activating, Ending
<1> QED BY <1>1, <1>2, <1>3, <1>4

\* previous.json takes what is active, which resolves.
LEMMA SavePreviousStep ==
  ASSUME UpdateInv, SavePrevious
  PROVE  UpdateInv'
<1> USE UpdateAssumption DEF UpdateInv, SavePrevious, Operation, Fault, At, To, Same, Idle
<1>1. TypeOK'
  <2>1. /\ proc.receipt \in Receipts /\ proc.receipt.previous \in Maybe(Artifacts)
        /\ disk' \in {disk, [disk EXCEPT !.previous = proc.receipt.previous]}
        /\ proc' \in {[proc EXCEPT !.pc = "savePending"], Idle}
    BY DEF TypeOK, Activating, Maybe, Receipts
  <2>2. faults' \in 0..MaxFaults /\ UNCHANGED <<healthy, applied>>
    BY DEF TypeOK
  <2> QED BY <2>1, <2>2 DEF TypeOK, Maybe, Modes, Pcs
<1>2. PointerInv'
  BY DEF TypeOK, Maybe, Receipts, PointerInv, Resolves, Covers, Sound, Chosen, ChosenPcs,
         Activating, Ending
<1>3. Reversible'
  BY DEF TypeOK, Maybe, Receipts, Reversible, Settled, SettledPcs, Chosen, ChosenPcs,
         Activating, Ending
<1>4. Settled' /\ Chosen' /\ Activating' /\ Ending'
  BY DEF TypeOK, Maybe, Receipts, PointerInv, Sound, Covers, Reversible, Settled,
         SettledPcs, Chosen, ChosenPcs, Activating, Ending
<1> QED BY <1>1, <1>2, <1>3, <1>4

\* The pending receipt is written while the active artifact is still the old one.
LEMMA SavePendingStep ==
  ASSUME UpdateInv, SavePending
  PROVE  UpdateInv'
<1> USE UpdateAssumption DEF UpdateInv, SavePending, Operation, Fault, At, To, Same, Idle
<1>1. TypeOK'
  BY DEF TypeOK, Maybe, Receipts, Contents, Modes, Pcs
<1>2. PointerInv'
  BY DEF TypeOK, Maybe, Receipts, PointerInv, Resolves, Covers, Sound, Chosen, ChosenPcs,
         Activating, Ending
<1>3. Reversible'
  BY DEF TypeOK, Maybe, Receipts, Reversible, Settled, SettledPcs, Chosen, ChosenPcs,
         Activating, Ending
<1>4. Settled' /\ Chosen' /\ Activating' /\ Ending'
  BY DEF TypeOK, Maybe, Receipts, PointerInv, Sound, Covers, Reversible, Settled,
         SettledPcs, Chosen, ChosenPcs, Activating, Ending
<1> QED BY <1>1, <1>2, <1>3, <1>4

\* The switch makes active what the pending receipt names.
LEMMA SwitchStep ==
  ASSUME UpdateInv, Switch
  PROVE  UpdateInv'
<1> USE UpdateAssumption DEF UpdateInv, Switch, Operation, Fault, At, To, Same, Idle
<1>1. TypeOK'
  BY DEF TypeOK, Maybe, Receipts, Contents, Modes, Pcs
<1>2. PointerInv'
  BY DEF TypeOK, Maybe, Receipts, PointerInv, Resolves, Covers, Sound, Chosen, ChosenPcs,
         Activating, Ending
<1>3. Reversible'
  BY DEF TypeOK, Maybe, Receipts, Reversible, Settled, SettledPcs, Chosen, ChosenPcs,
         Activating, Ending
<1>4. Settled' /\ Chosen' /\ Activating' /\ Ending'
  BY DEF TypeOK, Maybe, Receipts, PointerInv, Sound, Covers, Reversible, Settled,
         SettledPcs, Chosen, ChosenPcs, Activating, Ending
<1> QED BY <1>1, <1>2, <1>3, <1>4

\* An error goes on as a rollback of a failed commit, or ends the call.
LEMMA FailedCases ==
  ASSUME UpdateInv
  PROVE  \/ Failed = Idle
         \/ /\ Failed \in Procs /\ Failed.pc = "restore" /\ Failed.goal = "rolledBack"
            /\ Failed.receipt = proc.receipt
            /\ proc.goal = "applied"
<1>1. proc \in Procs
  BY DEF UpdateInv, TypeOK, Procs
<1> QED BY <1>1 DEF Failed, Procs, Pcs

\* rollback makes active what the receipt replaced, or leaves the store alone.
LEMMA RestoreStep ==
  ASSUME UpdateInv, Restore
  PROVE  UpdateInv'
<1> DEFINE new == [disk EXCEPT !.active = proc.receipt.previous]
<1>1. CASE ~Same(disk.active, proc.receipt.activated)
  BY <1>1, UpdateAssumption
     DEF Restore, UpdateInv, Idle, TypeOK, Maybe, Receipts, Modes, Pcs, PointerInv,
         Resolves, Covers, Sound, Reversible, Settled, SettledPcs, Chosen, ChosenPcs,
         Activating, Ending, Same, At
<1>2. CASE Same(disk.active, proc.receipt.activated)
  <2>1. /\ At("restore") /\ UNCHANGED <<healthy, applied>>
        /\ Operation(new, To("dropPrevious"), Idle)
        /\ proc.receipt # None /\ proc.receipt \in Receipts
        /\ faults \in 0..MaxFaults
    BY <1>2, Zenon DEF Restore, UpdateInv, Ending, At, TypeOK, Maybe
  <2>2. /\ disk' \in {disk, new} /\ faults' \in 0..MaxFaults
        /\ (disk' = new /\ proc' = To("dropPrevious")) \/ proc' = Idle
    BY <2>1, OperationCases, Zenon
  <2>3. /\ disk'.active \in {disk.active, proc.receipt.previous}
        /\ disk' = new => disk'.active = proc.receipt.previous
        /\ disk'.previous = disk.previous /\ disk'.pending = disk.pending
        /\ disk'.staged = disk.staged /\ disk'.installed = disk.installed
    BY <2>2 DEF UpdateInv, TypeOK
  <2>4. TypeOK'
    BY <2>1, <2>2 DEF UpdateInv, TypeOK, Idle, To, Pcs, Modes, Receipts, Maybe
  <2>5. PointerInv'
    BY <2>1, <2>2, <2>3 DEF UpdateInv, TypeOK, PointerInv, Resolves, Covers, Sound, Idle, To
  <2>6. Reversible' /\ PlaceInv'
    BY <2>1, <2>2, <2>3
      
          DEF UpdateInv, TypeOK, PointerInv, Sound, Reversible, PlaceInv, Settled,
              SettledPcs, Chosen,
           ChosenPcs, Activating, Ending, Idle, To, At, Same
  <2> QED BY <2>4, <2>5, <2>6 DEF UpdateInv, PlaceInv
<1> QED BY <1>1, <1>2

\* previous.json is removed by recover, commit and rollback, when the active artifact
\* is a healthy one; a failed commit goes on as a rollback.
LEMMA DropPreviousStep ==
  ASSUME UpdateInv, DropPrevious
  PROVE  UpdateInv'
<1> DEFINE new == [disk EXCEPT !.previous = None]
           next == IF proc.receipt = None THEN To("select") ELSE To("dropPending")
<1>1. /\ At("dropPrevious") /\ UNCHANGED <<healthy, applied>>
      /\ Operation(new, next, Failed)
      /\ faults \in 0..MaxFaults
  BY Zenon DEF DropPrevious, UpdateInv, TypeOK
<1>2. /\ disk' \in {disk, new} /\ faults' \in 0..MaxFaults
      /\ proc' = next \/ proc' = Failed
  BY <1>1, OperationCases, Zenon
<1>3. /\ disk'.active = disk.active /\ disk'.pending = disk.pending
      /\ disk'.staged = disk.staged /\ disk'.installed = disk.installed
      /\ disk'.previous \in {disk.previous, None}
  BY <1>2 DEF UpdateInv, TypeOK
<1>4. /\ next \in Procs /\ next.receipt = proc.receipt /\ next.goal = proc.goal
      /\ next.pc = IF proc.receipt = None THEN "select" ELSE "dropPending"
  <2>1. proc \in Procs
    BY DEF UpdateInv, TypeOK, Procs
  <2> QED BY <2>1 DEF To, Procs, Pcs
<1>5. Idle \in Procs /\ Idle.receipt = None /\ Idle.goal = "select" /\ Idle.pc = "idle"
  BY DEF Idle, Procs, Maybe, Pcs, Modes
<1>6. /\ proc' \in Procs /\ proc'.receipt \in {proc.receipt, None}
      /\ \/ /\ proc'.receipt = proc.receipt /\ proc'.goal = proc.goal
            /\ proc'.pc = IF proc.receipt = None THEN "select" ELSE "dropPending"
         \/ /\ proc'.pc = "restore" /\ proc'.goal = "rolledBack"
            /\ proc'.receipt = proc.receipt /\ proc.goal = "applied"
         \/ proc'.pc = "idle" /\ proc'.goal = "select"
  BY <1>2, <1>4, <1>5, FailedCases
<1>7. TypeOK'
  BY <1>1, <1>2, <1>6 DEF UpdateInv, TypeOK, Procs, Maybe
<1>8. PointerInv'
  BY <1>1, <1>3, <1>6 DEF UpdateInv, PointerInv, Resolves, Covers, Sound
<1>9. Reversible' /\ PlaceInv'
  BY <1>1, <1>3, <1>6
     DEF UpdateInv, Reversible, PlaceInv, Settled, SettledPcs, Chosen, ChosenPcs, Activating,
         Ending, At, Same
<1> QED BY <1>7, <1>8, <1>9 DEF UpdateInv, PlaceInv

\* The pending receipt is removed last; only then is an update reported as applied.
LEMMA DropPendingStep ==
  ASSUME UpdateInv, DropPending
  PROVE  UpdateInv'
<1> DEFINE new == [disk EXCEPT !.pending = None]
           next == IF proc.goal = "select" THEN To("select") ELSE Idle
<1>1. /\ At("dropPending") /\ UNCHANGED healthy
      /\ Operation(new, next, Failed)
      /\ faults \in 0..MaxFaults
      /\ proc.receipt \in Receipts /\ proc.receipt # None
  BY Zenon DEF DropPending, UpdateInv, TypeOK, Ending, At, Maybe
<1>2. /\ disk' \in {disk, new} /\ faults' \in 0..MaxFaults
      /\ \/ disk' = new /\ proc' = next /\ faults' = faults
         \/ proc' = Failed /\ faults' # faults
  <2> HIDE DEF new, next
  <2> QED BY <1>1, OperationCases
<1>3. /\ disk'.active = disk.active /\ disk'.previous = disk.previous
      /\ disk'.staged = disk.staged /\ disk'.installed = disk.installed
      /\ disk'.pending \in {disk.pending, None}
      /\ disk' = new => disk'.pending = None
  BY <1>2 DEF UpdateInv, TypeOK
<1>4. /\ next \in Procs
      /\ next.goal = "select" /\ next.pc \in {"select", "idle"}
      /\ next.receipt = IF proc.goal = "select" THEN proc.receipt ELSE None
  <2>1. proc \in Procs
    BY DEF UpdateInv, TypeOK, Procs
  <2>2. Idle \in Procs /\ Idle.receipt = None /\ Idle.goal = "select" /\ Idle.pc = "idle"
    BY DEF Idle, Procs, Maybe, Pcs, Modes
  <2>3. CASE proc.goal = "select"
    BY <2>1, <2>3 DEF To, Procs, Pcs
  <2> QED BY <2>2, <2>3
<1>5. CASE proc.goal = "applied" /\ faults' = faults
  \* The update is reported as applied; no receipt that would undo it is left.
  <2>1. /\ applied' = applied \cup {proc.receipt.activated}
        /\ disk.active = proc.receipt.activated
        /\ disk'.pending = None
        /\ proc' = Idle
    BY <1>1, <1>2, <1>3, <1>5 DEF DropPending, UpdateInv, Ending, At
  <2>2. disk.active \in Artifacts /\ proc.receipt.activated \in Artifacts
    BY <1>1, <2>1 DEF Receipts
  <2>3. TypeOK'
    BY <1>1, <1>2, <2>1, <2>2
       DEF UpdateInv, TypeOK, Idle, Maybe, Modes, Pcs
  <2>4. Covers(disk.active)' /\ Sound(disk.pending)' /\ Sound(proc.receipt)'
    <3>1. \A a \in applied : disk.active # None /\ VersionOf[disk.active] >= VersionOf[a]
      BY DEF UpdateInv, PointerInv, Covers
    <3>2. \A a \in applied' : disk'.active # None /\ VersionOf[disk'.active] >= VersionOf[a]
      BY <1>3, <2>1, <2>2, <3>1, UpdateAssumption
    <3> QED BY <2>1, <3>2 DEF Covers, Sound, Idle
  <2>5. PointerInv'
    BY <1>3, <2>4 DEF UpdateInv, PointerInv, Resolves
  <2>6. Reversible' /\ PlaceInv'
    BY <1>1, <1>3, <2>1
      
          DEF UpdateInv, At, Idle, Reversible, PlaceInv, Settled, SettledPcs, Chosen,
              ChosenPcs, Activating,
           Ending
  <2> QED BY <2>3, <2>5, <2>6 DEF UpdateInv, PlaceInv
<1>6. CASE ~(proc.goal = "applied" /\ faults' = faults)
  <2>1. applied' = applied
    BY <1>6 DEF DropPending
  <2>2. Idle \in Procs /\ Idle.receipt = None /\ Idle.goal = "select" /\ Idle.pc = "idle"
    BY DEF Idle, Procs, Maybe, Pcs, Modes
  <2>3. /\ proc' \in Procs /\ proc'.receipt \in {proc.receipt, None}
        /\ \/ proc'.pc \in {"select", "idle"} /\ proc'.goal = "select"
           \/ /\ proc'.pc = "restore" /\ proc'.goal = "rolledBack"
              /\ proc'.receipt = proc.receipt
    BY <1>2, <1>4, <2>2, FailedCases
  <2>4. TypeOK'
    BY <1>1, <1>2, <2>1, <2>3 DEF UpdateInv, TypeOK, Procs, Maybe
  <2>5. PointerInv'
    BY <1>1, <1>3, <2>1, <2>3 DEF UpdateInv, PointerInv, Resolves, Covers, Sound
  <2>6. Reversible' /\ PlaceInv'
    BY <1>1, <1>3, <2>3
      
          DEF UpdateInv, At, Reversible, PlaceInv, Settled, SettledPcs, Chosen,
              ChosenPcs, Activating,
           Ending
  <2> QED BY <2>4, <2>5, <2>6 DEF UpdateInv, PlaceInv
<1> QED BY <1>5, <1>6

\* install_artifact makes the candidate resolve and replaces nothing.
LEMMA InstallStep ==
  ASSUME UpdateInv, Install
  PROVE  UpdateInv'
<1> DEFINE a == proc.candidate
           b == BuildOf[a]
           new == [disk EXCEPT !.installed[b] = Linked(a)]
           receipt == [activated |-> a, previous |-> disk.active]
           next == [proc EXCEPT !.pc = "unstage", !.receipt = receipt]
<1>0. /\ At("install") /\ UNCHANGED <<healthy, applied>>
      /\ a \in Artifacts /\ b \in BuildIds /\ Covers(a)
      /\ disk.active \in healthy /\ disk.active \in Maybe(Artifacts)
      /\ faults \in 0..MaxFaults
  BY UpdateAssumption
     DEF Install, UpdateInv, TypeOK, At, Chosen, ChosenPcs, Settled, SettledPcs, Maybe
<1>1. CASE ~Installable(a)
  <2>1. proc' = Idle /\ UNCHANGED <<disk, faults>>
    BY <1>1 DEF Install
  <2> QED
    BY <1>0, <2>1
       DEF UpdateInv, Idle, TypeOK, Maybe, Modes, Pcs, PointerInv, Resolves, Covers, Sound,
           Reversible, Settled, SettledPcs, Chosen, ChosenPcs, Activating, Ending, Same
<1>2. CASE Installable(a)
  <2>1. Operation(new, next, Idle)
    BY <1>2 DEF Install
  <2>2. /\ disk' \in {disk, new} /\ faults' \in 0..MaxFaults
        /\ (disk' = new /\ proc' = next) \/ proc' = Idle
    BY <1>0, <2>1, OperationCases, Zenon
  <2>3. Linked(a) = a /\ disk.installed[b] \in {None, a}
    BY <1>2 DEF Installable, Linked, InstalledAs, StagedAs
  <2>4. /\ disk'.active = disk.active /\ disk'.previous = disk.previous
        /\ disk'.pending = disk.pending /\ disk'.staged = disk.staged
        /\ disk'.installed \in {disk.installed, [disk.installed EXCEPT ![b] = a]}
        /\ disk' = new => disk'.installed[b] = a
    BY <1>0, <2>2, <2>3 DEF UpdateInv, TypeOK
  <2>5. /\ receipt \in Receipts
        /\ next \in Procs /\ next.receipt = receipt /\ next.pc = "unstage"
        /\ next.candidate = a /\ next.goal = proc.goal
    <3>1. proc \in Procs
      BY DEF UpdateInv, TypeOK, Procs
    <3>2. receipt \in Receipts
      BY <1>0 DEF Receipts
    <3> QED BY <3>1, <3>2 DEF Procs, Pcs, Maybe
  <2>6. Idle \in Procs /\ Idle.receipt = None /\ Idle.goal = "select" /\ Idle.pc = "idle"
    BY DEF Idle, Procs, Maybe, Pcs, Modes
  <2>7. TypeOK'
    <3>1. disk' \in [active : Maybe(Artifacts), previous : Maybe(Artifacts),
                     pending : Maybe(Receipts), staged : [BuildIds -> Contents],
                     installed : [BuildIds -> Maybe(Artifacts)]]
      BY <1>0, <2>2, <2>3 DEF UpdateInv, TypeOK, Maybe
    <3>2. proc' \in Procs
      BY <2>2, <2>5, <2>6
    <3> QED BY <1>0, <2>2, <3>1, <3>2 DEF UpdateInv, TypeOK, Procs
  <2>8. \A c \in Maybe(Artifacts) : Resolves(c) => c = None \/ disk'.installed[BuildOf[c]] = c
    BY <1>0, <2>3, <2>4, UpdateAssumption DEF Resolves, Maybe, UpdateInv, TypeOK
  <2>9. PointerInv'
    <3>1. \A r \in Maybe(Receipts) : Sound(r) /\ r # None =>
                        /\ r.previous \in healthy /\ Covers(r.previous)
                        /\ r.previous # None => disk'.installed[BuildOf[r.previous]] = r.previous
                        /\ r.activated # None =>
                             disk'.installed[BuildOf[r.activated]] = r.activated
      BY <2>8 DEF Sound, Maybe, Receipts
    <3>2. Sound(disk.pending)'
      BY <1>0, <2>4, <3>1 DEF UpdateInv, TypeOK, PointerInv, Sound, Resolves, Covers
    <3>3. Sound(proc.receipt)'
      <4>1. CASE proc' = Idle
        BY <2>6, <4>1 DEF Sound
      <4>2. CASE disk' = new /\ proc' = next
        BY <1>0, <2>4, <2>5, <2>8, <4>2
           DEF UpdateInv, PointerInv, Sound, Resolves, Covers
      <4> QED BY <2>2, <4>1, <4>2
    <3> QED BY <1>0, <2>4, <2>8, <3>2, <3>3 DEF UpdateInv, TypeOK, PointerInv, Resolves, Covers
  <2>10. Reversible' /\ PlaceInv'
    <3>1. Reversible' /\ Settled'
      BY <1>0, <2>4 DEF Reversible, Settled
    <3>2. CASE proc' = Idle
      BY <2>6, <3>1, <3>2 DEF PlaceInv, Chosen, ChosenPcs, Activating, Ending
    <3>3. CASE proc' = next
      <4>1. Chosen' /\ Activating'
        <5>1. receipt # None /\ receipt.activated = a
          BY <2>5, NoReceiptAssumption
        <5> QED BY <1>0, <2>5, <3>3, <5>1, UpdateAssumption
           DEF Chosen, ChosenPcs, Activating, Covers
      <4>2. proc.goal # "applied"
        BY <1>0 DEF UpdateInv, Ending, At
      <4>3. Ending'
        BY <2>5, <3>3, <4>2 DEF Ending
      <4> QED BY <3>1, <4>1, <4>3 DEF PlaceInv
    <3> QED BY <2>2, <3>2, <3>3
  <2> QED BY <2>7, <2>9, <2>10 DEF UpdateInv, PlaceInv
<1> QED BY <1>1, <1>2

\* The verdict is about what is active.
LEMMA HealthPassesStep ==
  ASSUME UpdateInv, HealthPasses
  PROVE  UpdateInv'
<1> USE UpdateAssumption DEF UpdateInv, HealthPasses, Operation, Fault, At, To, Same, Idle
<1>1. TypeOK'
  BY DEF TypeOK, Maybe, Receipts, Contents, Modes, Pcs
<1>2. PointerInv'
  BY DEF TypeOK, Maybe, Receipts, PointerInv, Resolves, Covers, Sound, Chosen, ChosenPcs,
         Activating, Ending
<1>3. Reversible'
  BY DEF TypeOK, Maybe, Receipts, Reversible, Settled, SettledPcs, Chosen, ChosenPcs,
         Activating, Ending
<1>4. Settled' /\ Chosen' /\ Activating' /\ Ending'
  BY DEF TypeOK, Maybe, Receipts, PointerInv, Sound, Covers, Reversible, Settled,
         SettledPcs, Chosen, ChosenPcs, Activating, Ending
<1> QED BY <1>1, <1>2, <1>3, <1>4

\* A crash leaves a store that recover can finish with.
LEMMA CrashStep ==
  ASSUME UpdateInv, Crash
  PROVE  UpdateInv'
<1> USE UpdateAssumption DEF UpdateInv, Crash, Operation, Fault, At, To, Same, Idle
<1>1. TypeOK'
  BY DEF TypeOK, Maybe, Receipts, Contents, Modes, Pcs
<1>2. PointerInv'
  BY DEF TypeOK, Maybe, Receipts, PointerInv, Resolves, Covers, Sound, Chosen, ChosenPcs,
         Activating, Ending
<1>3. Reversible'
  BY DEF TypeOK, Maybe, Receipts, Reversible, Settled, SettledPcs, Chosen, ChosenPcs,
         Activating, Ending
<1>4. Settled' /\ Chosen' /\ Activating' /\ Ending'
  BY DEF TypeOK, Maybe, Receipts, PointerInv, Sound, Covers, Reversible, Settled,
         SettledPcs, Chosen, ChosenPcs, Activating, Ending
<1> QED BY <1>1, <1>2, <1>3, <1>4

\* Staged bytes are nobody's pointer.
LEMMA DamageStep ==
  ASSUME UpdateInv, NEW b \in BuildIds, DamageStaged(b)
  PROVE  UpdateInv'
<1> USE UpdateAssumption DEF UpdateInv, DamageStaged, Operation, Fault, At, To, Same, Idle
<1>1. TypeOK'
  BY DEF TypeOK, Maybe, Receipts, Contents, Modes, Pcs
<1>2. PointerInv'
  BY DEF TypeOK, Maybe, Receipts, PointerInv, Resolves, Covers, Sound, Chosen, ChosenPcs,
         Activating, Ending
<1>3. Reversible'
  BY DEF TypeOK, Maybe, Receipts, Reversible, Settled, SettledPcs, Chosen, ChosenPcs,
         Activating, Ending
<1>4. Settled' /\ Chosen' /\ Activating' /\ Ending'
  BY DEF TypeOK, Maybe, Receipts, PointerInv, Sound, Covers, Reversible, Settled,
         SettledPcs, Chosen, ChosenPcs, Activating, Ending
<1> QED BY <1>1, <1>2, <1>3, <1>4

-----------------------------------------------------------------------------
(* The theorems.                                                           *)

\* Every step keeps the invariant.
LEMMA UpdateStep ==
  ASSUME UpdateInv, [Next]_vars
  PROVE  UpdateInv'
<1>1. CASE UNCHANGED vars
  BY <1>1 DEF vars, UpdateInv, TypeOK, PointerInv, Resolves, Covers, Sound, Reversible, Settled,
     Chosen, Activating, Ending, Same
<1>2. CASE Next
  BY <1>2, ReadSteps, RestoreStep, DropPreviousStep, DropPendingStep, StageStep, DiscardStep,
     InstallStep, UnstageStep, SavePreviousStep, SavePendingStep, SwitchStep, HealthPassesStep,
     CrashStep, DamageStep, Zenon DEF Next
<1> QED BY <1>1, <1>2

\* Every update can be finished or undone, wherever it was interrupted.
THEOREM UpdateDiscipline == Spec => []UpdateInv
  BY UpdateInit, UpdateStep, PTL DEF Spec

\* Every pointer of the store names an installed file with the bytes described.
THEOREM StorePointersResolve == Spec => []PointersResolve
<1>1. UpdateInv => PointersResolve
  BY DEF UpdateInv, PointerInv, Sound, PointersResolve
<1> QED BY <1>1, UpdateDiscipline, PTL

\* recover returns to an artifact that passed a health check.
THEOREM RecoveryIsHealthy == Spec => []RecoversToHealthy
<1>1. UpdateInv => RecoversToHealthy
  BY DEF UpdateInv, Settled, SettledPcs, RecoversToHealthy, At
<1> QED BY <1>1, UpdateDiscipline, PTL

\* recover never goes behind a version that was reported as applied.
THEOREM AppliedVersionsKept == Spec => []AppliedIsKept
<1>1. UpdateInv => AppliedIsKept
  BY DEF UpdateInv, PointerInv, Covers, AppliedIsKept
<1> QED BY <1>1, UpdateDiscipline, PTL

\* Only install_artifact writes an installed file, and only one that does not exist.
LEMMA InstallOnly ==
  ASSUME UpdateInv, [Next]_vars, NEW b \in BuildIds, disk.installed[b] # None
  PROVE  disk'.installed[b] = disk.installed[b]
<1>1. CASE Install
  <2>1. CASE ~Installable(proc.candidate)
    BY <1>1, <2>1 DEF Install
  <2>2. CASE Installable(proc.candidate)
    <3>1. InstalledAs(proc.candidate) # None =>
            Linked(proc.candidate) = InstalledAs(proc.candidate)
      BY DEF Linked
    <3>2. disk' \in {disk, [disk EXCEPT !.installed[BuildOf[proc.candidate]] =
                                            Linked(proc.candidate)]}
      BY <1>1, <2>2 DEF Install, Operation
    <3> QED BY <3>1, <3>2 DEF UpdateInv, TypeOK, InstalledAs
  <2> QED BY <2>1, <2>2
<1>2. CASE ~Install
  BY <1>2 DEF Next, vars, UpdateInv, TypeOK, Operation, Proceed, Begin, Recover, Restore,
     DropPrevious, DropPending, Select, SelectNothing, Fetch, Stage, SmokeTestPasses,
     DiscardStaged, Unstage, SavePrevious, SavePending, Switch, ParentChecks, HealthPasses,
     HealthFails, Commit, Crash, DamageStaged
<1> QED BY <1>1, <1>2

\* An installed file is never replaced.
THEOREM InstalledFilesStay == Spec => InstalledIsImmutable
<1>1. UpdateInv /\ [Next]_vars =>
        [\A b \in BuildIds :
           disk.installed[b] # None => disk'.installed[b] = disk.installed[b]]_vars
  BY InstallOnly
<1> QED BY <1>1, UpdateDiscipline, PTL DEF Spec, InstalledIsImmutable

-----------------------------------------------------------------------------
(* The operational journal.                                                *)

\* Every set of naturals that is not empty has a least element.
LEMMA LeastNatural ==
  ASSUME NEW S \in SUBSET Nat, S # {}
  PROVE  \E n \in S : \A m \in S : n <= m
<1> DEFINE R == {p \in Nat \X Nat : p[1] < p[2]}
<1>1. IsWellFoundedOn(R, Nat)
  BY NatLessThanWellFounded DEF OpToRel
<1>2. PICK x \in S : \A y \in S : ~(<<y, x>> \in R)
  BY <1>1, WFMin
<1>3. ASSUME NEW y \in S
      PROVE  x <= y
  <2>1. <<y, x>> \in Nat \X Nat
    OBVIOUS
  <2>2. <<y, x>>[1] = y /\ <<y, x>>[2] = x
    OBVIOUS
  <2>3. ~(y < x)
    BY <1>2, <2>1, <2>2
  <2> QED BY <2>3
<1> QED BY <1>3

\* Max is the greatest element of a bounded set.
LEMMA GreatestNatural ==
  ASSUME NEW S \in SUBSET Nat, S # {}, NEW b \in Nat, \A x \in S : x <= b
  PROVE  Max(S) \in S /\ \A y \in S : Max(S) >= y
<1> DEFINE D == {b - x : x \in S}
<1>1. \A x \in S : b - x \in Nat
  OBVIOUS
<1>2. D \in SUBSET Nat /\ D # {}
  BY <1>1
<1>3. PICK d \in D : \A m \in D : d <= m
  BY <1>2, LeastNatural
<1>4. PICK x \in S : d = b - x
  OBVIOUS
<1>5. ASSUME NEW y \in S
      PROVE  x >= y
  <2>1. b - y \in D
    OBVIOUS
  <2> QED BY <1>3, <1>4, <2>1
<1>6. \E z \in S : \A y \in S : z >= y
  BY <1>5
<1> QED BY <1>6 DEF Max

\* Newest keeps the last n elements.
LEMMA NewestIs ==
  ASSUME NEW A, NEW s \in Seq(A), NEW n \in 0..Len(s)
  PROVE  /\ Newest(s, n) \in Seq(A)
         /\ Len(Newest(s, n)) = n
         /\ \A i \in 1..n : Newest(s, n)[i] = s[Len(s) - n + i]
<1>1. Len(s) - n + 1 \in 1..(Len(s) + 1) /\ Len(s) \in Nat /\ n \in Nat
  OBVIOUS
<1>2. {1, Len(s) - n + 1} \in SUBSET Nat /\ \A x \in {1, Len(s) - n + 1} : x <= Len(s) + 1
  BY <1>1
<1>3. Max({1, Len(s) - n + 1}) = Len(s) - n + 1
  <2> DEFINE S == {1, Len(s) - n + 1}
  <2>1. Max(S) \in S /\ \A y \in S : Max(S) >= y
    <3>1. S \in SUBSET Nat /\ S # {} /\ Len(s) + 1 \in Nat /\ \A x \in S : x <= Len(s) + 1
      BY <1>1, <1>2
    <3> HIDE DEF S
    <3> QED BY <3>1, GreatestNatural
  <2> QED BY <1>1, <2>1
<1>4. Newest(s, n) = SubSeq(s, Len(s) - n + 1, Len(s))
  BY <1>3 DEF Newest
<1> QED BY <1>1, <1>4

\* IsSuffix, element by element.
LEMMA SuffixIs ==
  ASSUME NEW A, NEW s \in Seq(A), NEW t \in Seq(A)
  PROVE  IsSuffix(s, t) <=> /\ Len(s) <= Len(t)
                            /\ \A i \in 1..Len(s) : s[i] = t[Len(t) - Len(s) + i]
<1> DEFINE u == Reverse(s)
           v == Reverse(t)
<1>1. /\ u \in Seq(A) /\ Len(u) = Len(s)
      /\ \A i \in 1..Len(s) : u[i] = s[Len(s) - i + 1]
  BY DEF Reverse
<1>2. /\ v \in Seq(A) /\ Len(v) = Len(t)
      /\ \A i \in 1..Len(t) : v[i] = t[Len(t) - i + 1]
  BY DEF Reverse
<1>3. CASE Len(s) <= Len(t)
  <2>1. SubSeq(u, 1, Len(u)) = u
    BY <1>1
  <2> DEFINE w == SubSeq(v, 1, Len(u))
  <2>2. w \in Seq(A) /\ Len(w) = Len(u) /\ \A i \in 1..Len(u) : w[i] = v[i]
    BY <1>1, <1>2, <1>3
  <2>3. IsSuffix(s, t) <=> \A i \in 1..Len(s) : u[i] = v[i]
    <3>1. IsSuffix(s, t) <=> u = w
      BY <1>1, <1>2, <1>3, <2>1 DEF IsSuffix, IsPrefix
    <3>2. (\A i \in 1..Len(u) : u[i] = w[i]) => u = w
      <4> HIDE DEF u, w
      <4> QED BY <1>1, <2>2, SeqEqual
    <3>3. \A i \in 1..Len(u) : w[i] = v[i]
      BY <2>2
    <3> HIDE DEF u, v, w
    <3> QED BY <1>1, <3>1, <3>2, <3>3
  <2>4. ASSUME \A i \in 1..Len(s) : u[i] = v[i], NEW i \in 1..Len(s)
        PROVE  s[i] = t[Len(t) - Len(s) + i]
    <3>1. Len(s) - i + 1 \in 1..Len(s) /\ Len(s) - i + 1 \in 1..Len(t)
      BY <1>3
    <3>2. u[Len(s) - i + 1] = v[Len(s) - i + 1]
      BY <2>4, <3>1
    <3>3. u[Len(s) - i + 1] = s[Len(s) - (Len(s) - i + 1) + 1]
      BY <1>1, <3>1
    <3>4. v[Len(s) - i + 1] = t[Len(t) - (Len(s) - i + 1) + 1]
      BY <1>2, <3>1
    <3>5. Len(s) - (Len(s) - i + 1) + 1 = i /\ Len(t) - (Len(s) - i + 1) + 1 = Len(t) - Len(s) + i
      OBVIOUS
    <3> QED BY <3>2, <3>3, <3>4, <3>5
  <2>5. ASSUME \A i \in 1..Len(s) : s[i] = t[Len(t) - Len(s) + i], NEW i \in 1..Len(s)
        PROVE  u[i] = v[i]
    <3>1. Len(s) - i + 1 \in 1..Len(s) /\ i \in 1..Len(t)
      BY <1>3
    <3>2. s[Len(s) - i + 1] = t[Len(t) - Len(s) + (Len(s) - i + 1)]
      BY <2>5, <3>1
    <3>3. Len(t) - Len(s) + (Len(s) - i + 1) = Len(t) - i + 1
      OBVIOUS
    <3>4. u[i] = s[Len(s) - i + 1] /\ v[i] = t[Len(t) - i + 1]
      BY <1>1, <1>2, <3>1
    <3> QED BY <3>2, <3>3, <3>4
  <2> QED BY <1>3, <2>3, <2>4, <2>5
<1>4. CASE ~(Len(s) <= Len(t))
  BY <1>1, <1>2, <1>4 DEF IsSuffix, IsPrefix
<1> QED BY <1>3, <1>4

\* A record appended to a suffix and to what it ends makes a suffix again.
LEMMA SuffixAppend ==
  ASSUME NEW A, NEW s \in Seq(A), NEW t \in Seq(A), IsSuffix(s, t), NEW r \in A
  PROVE  IsSuffix(Append(s, r), Append(t, r))
<1> DEFINE u == Append(s, r)
           v == Append(t, r)
<1>1. u \in Seq(A) /\ v \in Seq(A) /\ Len(u) = Len(s) + 1 /\ Len(v) = Len(t) + 1
  OBVIOUS
<1>2. Len(s) <= Len(t) /\ \A i \in 1..Len(s) : s[i] = t[Len(t) - Len(s) + i]
  BY SuffixIs
<1>3. ASSUME NEW i \in 1..Len(u)
      PROVE  u[i] = v[Len(v) - Len(u) + i]
  <2>1. CASE i = Len(s) + 1
    BY <1>1, <1>2, <2>1
  <2>2. CASE i \in 1..Len(s)
    BY <1>1, <1>2, <2>2
  <2>3. i = Len(s) + 1 \/ i \in 1..Len(s)
    <3> HIDE DEF u
    <3> QED BY <1>1
  <2> QED BY <2>1, <2>2, <2>3
<1> HIDE DEF u, v
<1>4. Len(u) <= Len(v)
  BY <1>1, <1>2
<1>5. IsSuffix(u, v)
  BY <1>1, <1>3, <1>4, SuffixIs
<1> QED BY <1>5 DEF u, v

\* The newest records of a suffix are a suffix.
LEMMA SuffixNewest ==
  ASSUME NEW A, NEW s \in Seq(A), NEW t \in Seq(A), IsSuffix(s, t), NEW n \in 0..Len(s)
  PROVE  IsSuffix(Newest(s, n), t)
<1> DEFINE u == Newest(s, n)
<1>1. u \in Seq(A) /\ Len(u) = n /\ \A i \in 1..n : u[i] = s[Len(s) - n + i]
  BY NewestIs
<1>2. Len(s) <= Len(t) /\ \A i \in 1..Len(s) : s[i] = t[Len(t) - Len(s) + i]
  BY SuffixIs
<1> HIDE DEF u
<1>3. ASSUME NEW i \in 1..n
      PROVE  u[i] = t[Len(t) - n + i]
  <2>1. Len(s) - n + i \in 1..Len(s)
    OBVIOUS
  <2>2. s[Len(s) - n + i] = t[Len(t) - Len(s) + (Len(s) - n + i)]
    BY <1>2, <2>1
  <2>3. Len(t) - Len(s) + (Len(s) - n + i) = Len(t) - n + i
    OBVIOUS
  <2> QED BY <1>1, <2>2, <2>3
<1>4. Len(u) <= Len(t) /\ \A i \in 1..Len(u) : u[i] = t[Len(t) - Len(u) + i]
  BY <1>1, <1>2, <1>3
<1>5. IsSuffix(u, t)
  BY <1>1, <1>4, SuffixIs
<1> QED BY <1>5 DEF u

\* Compaction keeps the newest records, and one at least if there is one.
LEMMA CompactionKeepsNewest ==
  ASSUME JournalAssumption, NEW A, NEW s \in Seq(A)
  PROVE  \E n \in 0..Len(s) : /\ CompactedFrom(s) = Newest(s, n)
                              /\ s # <<>> => n # 0
<1> DEFINE m == Min({Len(s), MaxRecords})
           keep == {n \in 1..m : n = 1 \/ Bytes(Newest(s, n)) <= MaxBytes}
           S == keep \cup {0}
<1>1. m \in 0..Len(s) /\ (s # <<>> => m >= 1)
  <2>1. Len(s) \in Nat /\ MaxRecords \in Nat \ {0}
    BY DEF JournalAssumption
  <2>2. \E x \in {Len(s), MaxRecords} : \A y \in {Len(s), MaxRecords} : x =< y
    BY <2>1
  <2>3. m \in {Len(s), MaxRecords} /\ \A y \in {Len(s), MaxRecords} : m =< y
    BY <2>2 DEF Min
  <2> HIDE DEF m
  <2>4. s # <<>> => Len(s) >= 1
    OBVIOUS
  <2> QED BY <2>1, <2>3, <2>4
<1>2. S \in SUBSET Nat /\ S # {} /\ \A x \in S : x <= Len(s)
  <2> HIDE DEF m
  <2> QED BY <1>1
<1>3. 1 <= m => 1 \in S
  <2> HIDE DEF m
  <2> QED BY <1>1
<1>4. CompactedFrom(s) = Newest(s, Max(S))
  BY DEF CompactedFrom
<1> HIDE DEF S
<1>5. Max(S) \in S /\ \A y \in S : Max(S) >= y
  <2>1. Len(s) \in Nat
    OBVIOUS
  <2> QED BY <1>2, <2>1, GreatestNatural
<1> HIDE DEF m
<1>6. Max(S) \in 0..Len(s)
  <2>1. Max(S) \in Nat /\ Max(S) <= Len(s)
    BY <1>2, <1>5
  <2> QED BY <2>1
<1>7. s # <<>> => Max(S) # 0
  BY <1>1, <1>2, <1>3, <1>5
<1> QED BY <1>4, <1>6, <1>7

\* A file encoded from records loads, and yields those records.
LEMMA EncodedLoads ==
  ASSUME NEW A, NEW s \in Seq(A)
  PROVE  /\ RecordsOf(Encoded(s)) = s
         /\ Loadable(Encoded(s))
         /\ Len(Encoded(s)) = Len(s)
<1> DEFINE f == Encoded(s)
<1>1. Len(f) = Len(s) /\ \A i \in 1..Len(s) : f[i] = [previous |-> SubSeq(s, 1, i - 1), record |-> s[i]]
  BY DEF Encoded
<1> HIDE DEF f
<1>2. ASSUME NEW i \in 1..Len(s)
      PROVE  f[i].record = s[i] /\ f[i].previous = SubSeq(s, 1, i - 1)
  <2>1. f[i] = [previous |-> SubSeq(s, 1, i - 1), record |-> s[i]]
    BY <1>1
  <2> QED BY <2>1
<1>3. RecordsOf(f) = s
  <2>1. RecordsOf(f) = [i \in 1..Len(s) |-> s[i]]
    BY <1>1, <1>2 DEF RecordsOf
  <2> QED BY <2>1
<1>4. Loadable(f)
  BY <1>1, <1>2, <1>3 DEF Loadable
<1> QED BY <1>1, <1>3, <1>4 DEF f

\* A line that follows the records of a loadable file keeps it loadable.
LEMMA AppendLoads ==
  ASSUME NEW A, NEW B, NEW f \in Seq(B), RecordsOf(f) \in Seq(A), Loadable(f), NEW r \in A,
         NEW l \in B, l.previous = RecordsOf(f), l.record = r
  PROVE  /\ RecordsOf(Append(f, l)) = Append(RecordsOf(f), r)
         /\ Loadable(Append(f, l))
<1> DEFINE g == Append(f, l)
           s == RecordsOf(f)
<1>1. Len(g) = Len(f) + 1 /\ g[Len(f) + 1] = l /\ \A i \in 1..Len(f) : g[i] = f[i]
  OBVIOUS
<1>2. Len(s) = Len(f) /\ s \in Seq(A) /\ \A i \in 1..Len(f) : s[i] = f[i].record
  BY DEF RecordsOf
<1>3. Len(f) \in Nat
  OBVIOUS
<1>4. /\ Append(s, r) \in Seq(A)
      /\ Len(Append(s, r)) = Len(f) + 1
      /\ Append(s, r)[Len(f) + 1] = r
      /\ \A i \in 1..Len(f) : Append(s, r)[i] = s[i]
  <2> HIDE DEF s
  <2> QED BY <1>2
<1> HIDE DEF g, s
<1>5. \A i \in 1..(Len(f) + 1) : g[i].record = Append(s, r)[i]
  BY <1>1, <1>2, <1>3, <1>4
<1>6. RecordsOf(g) = [i \in 1..(Len(f) + 1) |-> Append(s, r)[i]]
  BY <1>1, <1>5 DEF RecordsOf
<1>7. RecordsOf(g) = Append(s, r)
  <2> DEFINE q == Append(s, r)
  <2>1. q \in Seq(A) /\ Len(q) = Len(f) + 1
    BY <1>4
  <2>2. RecordsOf(g) = [i \in 1..(Len(f) + 1) |-> q[i]]
    BY <1>6
  <2> HIDE DEF q
  <2>3. RecordsOf(g) = q
    BY <2>1, <2>2
  <2> QED BY <2>3 DEF q
<1>8. ASSUME NEW i \in 1..(Len(f) + 1)
      PROVE  g[i].previous = SubSeq(Append(s, r), 1, i - 1)
  <2>1. SubSeq(Append(s, r), 1, i - 1) = SubSeq(s, 1, i - 1)
    BY <1>2, <1>3, <1>4
  <2>2. CASE i = Len(f) + 1
    <3>1. SubSeq(s, 1, i - 1) = s
      BY <1>2, <1>3, <2>2
    <3> QED BY <1>1, <2>1, <2>2, <3>1 DEF s
  <2>3. CASE i \in 1..Len(f)
    BY <1>1, <2>1, <2>3 DEF Loadable, s
  <2>4. i = Len(f) + 1 \/ i \in 1..Len(f)
    BY <1>3
  <2> QED BY <2>2, <2>3, <2>4
<1>9. Loadable(g)
  BY <1>1, <1>7, <1>8 DEF Loadable
<1> QED BY <1>7, <1>9 DEF g, s

\* What is on disk: lines that load, and yield the newest of what was appended.
DiskInv ==
  /\ lines \in Seq([previous : Seq(JournalRecords), record : JournalRecords])
  /\ RecordsOf(lines) \in Seq(JournalRecords)
  /\ appended \in Seq(JournalRecords)
  /\ JournalReopens

\* The journal of a live process is the file's: its records and the end of its
\* chain are what the lines yield, and no incomplete line follows them.
JournalInv ==
  /\ DiskInv
  /\ opened => /\ tail = FALSE
               /\ records = RecordsOf(lines)
               /\ lastHash = RecordsOf(lines)

\* The lines encoded from records are lines of the file.
LEMMA EncodedLines ==
  ASSUME NEW s \in Seq(JournalRecords)
  PROVE  Encoded(s) \in Seq([previous : Seq(JournalRecords), record : JournalRecords])
<1>1. ASSUME NEW i \in 1..Len(s)
      PROVE  SubSeq(s, 1, i - 1) \in Seq(JournalRecords) /\ s[i] \in JournalRecords
  OBVIOUS
<1>2. Len(s) \in Nat
  OBVIOUS
<1> QED BY <1>1, <1>2 DEF Encoded

\* A whole line behind a live journal's last one.
LEMMA LineOnDisk ==
  ASSUME JournalInv, opened, NEW r \in JournalRecords,
         lines' = Append(lines, Line(r)), appended' = Append(appended, r)
  PROVE  DiskInv' /\ RecordsOf(lines)' = Append(RecordsOf(lines), r)
<1> DEFINE B == [previous : Seq(JournalRecords), record : JournalRecords]
<1>1. /\ lines \in Seq(B)
      /\ RecordsOf(lines) \in Seq(JournalRecords)
      /\ appended \in Seq(JournalRecords)
      /\ Loadable(lines)
      /\ IsSuffix(RecordsOf(lines), appended)
  BY DEF JournalInv, DiskInv, JournalReopens
<1>2. Line(r) = [previous |-> RecordsOf(lines), record |-> r]
  BY DEF JournalInv, Line
<1>3. Line(r) \in B /\ Line(r).previous = RecordsOf(lines) /\ Line(r).record = r
  BY <1>1, <1>2
<1> HIDE DEF B
<1>4. RecordsOf(Append(lines, Line(r))) = Append(RecordsOf(lines), r) /\ Loadable(Append(lines, Line(r)))
  BY <1>1, <1>3, AppendLoads
<1>5. IsSuffix(Append(RecordsOf(lines), r), Append(appended, r))
  BY <1>1, SuffixAppend
<1>6. lines' \in Seq(B) /\ lines' # <<>>
  <2>1. lines' \in Seq(B)
    BY <1>1, <1>3, AppendProperties
  <2>2. Len(lines') = Len(lines) + 1 /\ Len(lines) \in Nat
    BY <1>1, <1>3, AppendProperties, LenProperties
  <2> QED BY <2>1, <2>2
<1>7. RecordsOf(lines)' = Append(RecordsOf(lines), r) /\ Loadable(lines)'
  BY <1>4 DEF RecordsOf, Loadable
<1>8. RecordsOf(lines)' \in Seq(JournalRecords) /\ appended' \in Seq(JournalRecords)
  BY <1>1, <1>7
<1>9. JournalReopens'
  BY <1>5, <1>6, <1>7 DEF JournalReopens
<1> QED BY <1>6, <1>7, <1>8, <1>9 DEF DiskInv, B

\* A file rewritten from records that end what was appended.
LEMMA RewriteOnDisk ==
  ASSUME JournalAssumption, NEW s \in Seq(JournalRecords), appended' \in Seq(JournalRecords),
         IsSuffix(s, appended'), appended' # <<>> => s # <<>>,
         lines' = Encoded(CompactedFrom(s))
  PROVE  DiskInv' /\ RecordsOf(lines)' = CompactedFrom(s)
<1> DEFINE c == CompactedFrom(s)
<1>1. PICK n \in 0..Len(s) : c = Newest(s, n) /\ (s # <<>> => n # 0)
  BY CompactionKeepsNewest
<1>2. c \in Seq(JournalRecords) /\ Len(c) = n
  BY <1>1, NewestIs
<1>3. IsSuffix(c, appended')
  BY <1>1, SuffixNewest
<1> HIDE DEF c
<1>4. RecordsOf(Encoded(c)) = c /\ Loadable(Encoded(c)) /\ Len(Encoded(c)) = Len(c)
  BY <1>2, EncodedLoads
<1>5. lines' = Encoded(c)
  BY DEF c
<1>6. lines' \in Seq([previous : Seq(JournalRecords), record : JournalRecords])
  BY <1>2, <1>5, EncodedLines
<1>7. RecordsOf(lines)' = c /\ Loadable(lines)'
  BY <1>4, <1>5 DEF RecordsOf, Loadable
<1>8. appended' # <<>> => lines' # <<>>
  BY <1>1, <1>2, <1>4, <1>5
<1>9. JournalReopens'
  BY <1>3, <1>7, <1>8 DEF JournalReopens
<1>10. RecordsOf(lines)' \in Seq(JournalRecords)
  BY <1>2, <1>7
<1> QED BY <1>6, <1>7, <1>9, <1>10 DEF DiskInv, c

\* Every step keeps the journal's invariant, if a process whose append failed does
\* not append behind it.
LEMMA JournalStep ==
  ASSUME JournalAssumption, GoesOn = FALSE, JournalInv, [JournalNext]_journalVars
  PROVE  JournalInv'
<1>0. DiskInv /\ Len(RecordsOf(lines)) \in Nat
  BY DEF JournalInv, DiskInv
<1>1. ASSUME DiskInv', opened' => /\ tail' = FALSE
                                  /\ records' = RecordsOf(lines)'
                                  /\ lastHash' = RecordsOf(lines)'
      PROVE  JournalInv'
  BY <1>1 DEF JournalInv
<1>2. ASSUME UNCHANGED <<lines, appended>>
      PROVE  DiskInv' /\ RecordsOf(lines)' = RecordsOf(lines)
  BY <1>0, <1>2 DEF DiskInv, JournalReopens, RecordsOf, Loadable
<1>3. ASSUME NEW r \in JournalRecords, opened
      PROVE  /\ Append(records, r) \in Seq(JournalRecords)
             /\ Append(appended, r) \in Seq(JournalRecords)
             /\ IsSuffix(Append(records, r), Append(appended, r))
             /\ Append(records, r) # <<>>
  <2>1. /\ records = RecordsOf(lines)
        /\ records \in Seq(JournalRecords)
        /\ appended \in Seq(JournalRecords)
        /\ IsSuffix(records, appended)
    BY <1>3 DEF JournalInv, DiskInv, JournalReopens
  <2>2. IsSuffix(Append(records, r), Append(appended, r))
    BY <2>1, SuffixAppend
  <2> QED BY <2>1, <2>2
<1>4. CASE Reopen
  <2> DEFINE loaded == RecordsOf(lines)
  <2>1. CASE tail \/ ~Fits(loaded)
    <3>1. Rewrite(loaded) /\ UNCHANGED appended
      BY <1>4, <2>1 DEF Reopen
    <3>2. appended # <<>> => loaded # <<>>
      <4>1. lines \in Seq([previous : Seq(JournalRecords), record : JournalRecords])
        BY <1>0 DEF DiskInv
      <4>2. loaded \in Seq(JournalRecords) /\ Len(loaded) = Len(lines)
        BY <1>0, <4>1 DEF DiskInv, RecordsOf
      <4>3. lines # <<>> => loaded # <<>>
        <5> HIDE DEF loaded
        <5> QED BY <4>1, <4>2
      <4> QED BY <1>0, <4>3 DEF DiskInv, JournalReopens
    <3>3. DiskInv' /\ RecordsOf(lines)' = CompactedFrom(loaded)
      BY <1>0, <3>1, <3>2, RewriteOnDisk DEF Rewrite, DiskInv, JournalReopens
    <3> QED BY <1>1, <3>1, <3>3 DEF Rewrite
  <2>2. CASE ~(tail \/ ~Fits(loaded))
    <3>1. records' = loaded /\ lastHash' = loaded /\ UNCHANGED <<lines, tail, appended>>
      BY <1>4, <2>2 DEF Reopen
    <3>2. tail' = FALSE
      BY <2>2, <3>1
    <3> QED BY <1>1, <1>2, <3>1, <3>2
  <2> QED BY <2>1, <2>2
<1>5. ASSUME NEW r \in JournalRecords, AppendRecord(r)
      PROVE  JournalInv'
  <2> DEFINE held == Append(records, r)
  <2>1. opened /\ appended' = Append(appended, r)
    BY <1>5 DEF AppendRecord
  <2>2. CASE Fits(held)
    <3>1. /\ lines' = Append(lines, Line(r)) /\ tail' = FALSE
          /\ records' = held /\ lastHash' = Append(lastHash, r)
      BY <1>5, <2>2 DEF AppendRecord
    <3>2. DiskInv' /\ RecordsOf(lines)' = Append(RecordsOf(lines), r)
      BY <2>1, <3>1, LineOnDisk
    <3> QED BY <1>1, <2>1, <3>1, <3>2 DEF JournalInv
  <2>3. CASE ~Fits(held)
    <3>1. Rewrite(held)
      BY <1>5, <2>3 DEF AppendRecord
    <3>2. DiskInv' /\ RecordsOf(lines)' = CompactedFrom(held)
      BY <1>3, <2>1, <3>1, RewriteOnDisk DEF Rewrite
    <3> QED BY <1>1, <3>1, <3>2 DEF Rewrite
  <2> QED BY <2>2, <2>3
<1>6. ASSUME NEW r \in JournalRecords, NEW written \in BOOLEAN, NEW torn \in BOOLEAN,
             AppendFails(r, written, torn)
      PROVE  JournalInv'
  <2>1. opened /\ ~opened'
    BY <1>6 DEF AppendFails
  <2>2. \/ lines' = Append(lines, Line(r)) /\ appended' = Append(appended, r)
        \/ UNCHANGED <<lines, appended>>
    BY <1>6 DEF AppendFails
  <2>3. DiskInv'
    BY <1>2, <2>1, <2>2, LineOnDisk
  <2> QED BY <1>1, <2>1, <2>3
<1>7. ASSUME NEW r \in JournalRecords, NEW replaced \in BOOLEAN, CompactionFails(r, replaced)
      PROVE  JournalInv'
  <2> DEFINE held == Append(records, r)
  <2>1. opened /\ ~opened' /\ appended' = Append(appended, r)
    BY <1>7 DEF CompactionFails
  <2>2. lines' = Append(lines, Line(r)) \/ lines' = Encoded(CompactedFrom(held))
    BY <1>7 DEF CompactionFails
  <2>3. DiskInv'
    BY <1>3, <2>1, <2>2, LineOnDisk, RewriteOnDisk
  <2> QED BY <1>1, <2>1, <2>3
<1>8. ASSUME NEW r \in JournalRecords, NEW torn \in BOOLEAN, JournalCrash(r, torn)
      PROVE  JournalInv'
  <2>1. opened /\ ~opened'
    BY <1>8 DEF JournalCrash
  <2>2. \/ lines' = Append(lines, Line(r)) /\ appended' = Append(appended, r)
        \/ UNCHANGED <<lines, appended>>
    BY <1>8 DEF JournalCrash
  <2>3. DiskInv'
    BY <1>2, <2>1, <2>2, LineOnDisk
  <2> QED BY <1>1, <2>1, <2>3
<1>9. CASE UNCHANGED journalVars
  BY <1>1, <1>2, <1>9 DEF journalVars, JournalInv
<1> QED BY <1>4, <1>5, <1>6, <1>7, <1>8, <1>9 DEF JournalNext

\* Wherever an append or a compaction fails or the process dies, the journal opens
\* again with the newest records in order, for any limits and any number of
\* faults.  The hypothesis excludes a process that goes on after a failed append:
\* its next line follows a chain the state does not know of.
THEOREM JournalSurvives ==
  ASSUME JournalAssumption, GoesOn = FALSE
  PROVE  JournalSpec => []JournalReopens
<1>1. JournalInit => JournalInv
  <2> SUFFICES ASSUME JournalInit PROVE JournalInv
    OBVIOUS
  <2>1. lines = <<>> /\ appended = <<>> /\ opened = FALSE
    BY DEF JournalInit
  <2>2. RecordsOf(lines) = <<>> /\ Loadable(lines)
    BY <2>1 DEF RecordsOf, Loadable
  <2>3. IsSuffix(RecordsOf(lines), appended)
    <3>1. appended \in Seq(JournalRecords) /\ Len(appended) = 0
      BY <2>1
    <3>2. Len(Reverse(appended)) \in Nat
      BY <3>1 DEF Reverse
    <3>3. IsSuffix(appended, appended)
      BY <3>2 DEF IsSuffix, IsPrefix
    <3> QED BY <2>1, <2>2, <3>3
  <2>4. lines \in Seq([previous : Seq(JournalRecords), record : JournalRecords])
    BY <2>1
  <2>5. RecordsOf(lines) \in Seq(JournalRecords) /\ appended \in Seq(JournalRecords)
    <3>1. <<>> \in Seq(JournalRecords)
      OBVIOUS
    <3> QED BY <2>1, <2>2, <3>1
  <2> QED BY <2>1, <2>2, <2>3, <2>4, <2>5 DEF JournalInv, DiskInv, JournalReopens
<1>2. JournalInv /\ [JournalNext]_journalVars => JournalInv'
  BY JournalStep
<1>3. JournalInv => JournalReopens
  BY DEF JournalInv, DiskInv
<1> QED BY <1>1, <1>2, <1>3, PTL DEF JournalSpec
=============================================================================
