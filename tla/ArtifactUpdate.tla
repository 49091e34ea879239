--------------------------- MODULE ArtifactUpdate ---------------------------
(***************************************************************************)
(* Replacing the active artifact of an application (appcore-update):       *)
(* UpdateCoordinator (coordinator.rs) and FileArtifactStore (store.rs).    *)
(*                                                                         *)
(* The store is a directory: active.json, previous.json and                *)
(* pending-activation.json, a staged file and an installed file per build. *)
(* Each is replaced or removed atomically, one operation a step; an        *)
(* operation that reports an error may have had its effect (the rename is  *)
(* done before the directory is synced), and the process may die between   *)
(* any two.  One process updates at a time: the store has no lock.         *)
(*                                                                         *)
(* An artifact stands for its descriptor and for the bytes the descriptor  *)
(* names; Damaged stands for other bytes.                                  *)
(***************************************************************************)
EXTENDS Naturals, FiniteSets

CONSTANTS
  Artifacts, BuildIds,
  BuildOf,      \* [Artifacts -> BuildIds]; a provider may use a build id twice
  VersionOf,    \* [Artifacts -> Nat]
  Compatible,   \* artifacts of this application, channel, runtime and protocol
  Genuine,      \* artifacts whose bytes arrive as described, with a trusted signature
  None, Damaged,
  MaxFaults     \* bound on failed operations, damaged files and crashes

ASSUME UpdateAssumption ==
  /\ BuildOf \in [Artifacts -> BuildIds]
  /\ VersionOf \in [Artifacts -> Nat]
  /\ Compatible \subseteq Artifacts /\ Genuine \subseteq Artifacts
  /\ None \notin Artifacts /\ Damaged \notin Artifacts /\ None # Damaged
  /\ MaxFaults \in Nat

VARIABLES
  disk,     \* the store's directory
  proc,     \* the call in progress
  healthy,  \* history: artifacts that passed a health check (None: the bare install)
  applied,  \* history: artifacts that were reported as applied or committed
  faults

vars == <<disk, proc, healthy, applied, faults>>

Maybe(S) == S \cup {None}
Receipts == [activated : Artifacts, previous : Maybe(Artifacts)]

ASSUME NoReceiptAssumption == None \notin Receipts

Contents == Artifacts \cup {None, Damaged}
Modes == {"apply", "prepare", "stage", "parent"}
Pcs == {"idle", "recover", "select", "fetch", "stage", "smoke", "install", "unstage",
        "savePrevious", "savePending", "switch", "health", "commit", "restore",
        "dropPrevious", "dropPending"}

TypeOK ==
  /\ disk \in [active : Maybe(Artifacts), previous : Maybe(Artifacts),
               pending : Maybe(Receipts), staged : [BuildIds -> Contents],
               installed : [BuildIds -> Maybe(Artifacts)]]
  /\ proc \in [pc : Pcs, mode : Modes, goal : {"select", "applied", "rolledBack"},
               candidate : Maybe(Artifacts), receipt : Maybe(Receipts)]
  /\ healthy \in SUBSET Maybe(Artifacts)
  /\ applied \in SUBSET Artifacts
  /\ faults \in 0..MaxFaults

Idle == [pc |-> "idle", mode |-> "apply", goal |-> "select", candidate |-> None,
         receipt |-> None]

Init ==
  /\ disk = [active |-> None, previous |-> None, pending |-> None,
             staged |-> [b \in BuildIds |-> None],
             installed |-> [b \in BuildIds |-> None]]
  /\ proc = Idle
  /\ healthy = {None}
  /\ applied = {}
  /\ faults = 0

-----------------------------------------------------------------------------
At(pc) == proc.pc = pc
To(pc) == [proc EXCEPT !.pc = pc]

Fault == faults < MaxFaults /\ faults' = faults + 1

\* One operation on the directory: it leads to disk `new` and goes on as `next`,
\* or reports an error, with or without its effect, which goes on as `failed`.
Operation(new, next, failed) ==
  \/ disk' = new /\ proc' = next /\ UNCHANGED faults
  \/ disk' \in {disk, new} /\ proc' = failed /\ Fault

\* A step of the process that only reads the directory.
Proceed(next) == proc' = next /\ UNCHANGED <<disk, healthy, applied, faults>>

Same(a, b) == a # None /\ BuildOf[a] = BuildOf[b]

-----------------------------------------------------------------------------
(* recover, the tail it shares with rollback and commit, and rollback.     *)

\* apply_with_faults, prepare and stage_candidate call recover first.
Begin(mode) ==
  /\ At("idle")
  /\ Proceed([Idle EXCEPT !.pc = "recover", !.mode = mode])

\* Slip: what an interrupted activation left is removed, and nothing undone.
RecoverTrusts ==
  /\ At("recover")
  /\ Proceed([proc EXCEPT !.pc = "dropPrevious", !.receipt = disk.pending])

\* Only an activation that reached the active pointer is rolled back; what is
\* left of any other is removed.
Recover ==
  /\ At("recover")
  /\ IF disk.pending # None /\ Same(disk.active, disk.pending.activated)
     THEN Proceed([proc EXCEPT !.pc = "restore", !.receipt = disk.pending])
     ELSE Proceed([proc EXCEPT !.pc = "dropPrevious", !.receipt = disk.pending])

\* Where an error of the call leaves it: apply rolls a failed commit back, every
\* other error is returned.
Failed ==
  IF proc.goal = "applied" /\ proc.mode = "apply"
  THEN [proc EXCEPT !.pc = "restore", !.goal = "rolledBack"] ELSE Idle

\* rollback: point back, or to nothing, if the activated build is still active.
Restore ==
  /\ At("restore")
  /\ IF Same(disk.active, proc.receipt.activated)
     THEN Operation([disk EXCEPT !.active = proc.receipt.previous],
                    To("dropPrevious"), Idle)
     ELSE proc' = Idle /\ UNCHANGED <<disk, faults>>
  /\ UNCHANGED <<healthy, applied>>

DropPrevious ==
  /\ At("dropPrevious")
  /\ Operation([disk EXCEPT !.previous = None],
               IF proc.receipt = None THEN To("select") ELSE To("dropPending"), Failed)
  /\ UNCHANGED <<healthy, applied>>

\* The activation is over: recover goes on to select, commit and rollback report.
DropPending ==
  /\ At("dropPending")
  /\ Operation([disk EXCEPT !.pending = None],
               IF proc.goal = "select" THEN To("select") ELSE Idle, Failed)
  /\ applied' = IF proc.goal = "applied" /\ faults' = faults
                THEN applied \cup {proc.receipt.activated} ELSE applied
  /\ UNCHANGED healthy

-----------------------------------------------------------------------------
(* Selection and staging.                                                  *)

\* Slip: the version is compared with the request only.
EligibleForRequest(a) == a \in Compatible

\* select_candidate and ensure_upgrade.
Eligible(a) ==
  /\ a \in Compatible
  /\ disk.active # None =>
       /\ BuildOf[a] # BuildOf[disk.active]
       /\ VersionOf[a] > VersionOf[disk.active]

Select(a) ==
  /\ At("select")
  /\ Eligible(a)
  /\ Proceed([proc EXCEPT !.pc = "fetch", !.candidate = a])

\* No update, or none that is eligible.
SelectNothing ==
  /\ At("select")
  /\ Proceed(Idle)

\* fetch_verified: size, checksum and authenticity.
Fetch ==
  /\ At("fetch")
  /\ \/ proc.candidate \in Genuine /\ Proceed(To("stage"))
     \/ Proceed(Idle)

Stage ==
  /\ At("stage")
  /\ Operation([disk EXCEPT !.staged[BuildOf[proc.candidate]] = proc.candidate],
               IF proc.mode = "stage" THEN To("smoke") ELSE To("install"), Idle)
  /\ UNCHANGED <<healthy, applied>>

\* The host of stage_candidate activates what was staged, or discards it.
SmokeTestPasses ==
  /\ At("smoke")
  /\ Proceed(To("install"))

DiscardStaged ==
  /\ At("smoke")
  /\ Operation([disk EXCEPT !.staged[BuildOf[proc.candidate]] = None], Idle, Idle)
  /\ UNCHANGED <<healthy, applied>>

-----------------------------------------------------------------------------
(* activate_inner.                                                         *)

InstalledAs(a) == disk.installed[BuildOf[a]]

StagedAs(a) == disk.staged[BuildOf[a]]

\* Slip: a file that exists is taken for the right one.
InstallableOnto(a) == StagedAs(a) = a

\* verify_artifact and install_artifact: the staged bytes are the ones described,
\* and the build's file does not exist or has the same bytes.
Installable(a) == StagedAs(a) = a /\ InstalledAs(a) \in {None, a}

\* hard_link leaves a file that exists alone.
Linked(a) == IF InstalledAs(a) = None THEN StagedAs(a) ELSE InstalledAs(a)

\* The active pointer is read first, for the receipt.
Install ==
  /\ At("install")
  /\ IF Installable(proc.candidate)
     THEN Operation([disk EXCEPT !.installed[BuildOf[proc.candidate]] =
                                   Linked(proc.candidate)],
                    [proc EXCEPT !.pc = "unstage",
                                 !.receipt = [activated |-> proc.candidate,
                                              previous |-> disk.active]],
                    Idle)
     ELSE proc' = Idle /\ UNCHANGED <<disk, faults>>
  /\ UNCHANGED <<healthy, applied>>

Unstage ==
  /\ At("unstage")
  /\ Operation([disk EXCEPT !.staged[BuildOf[proc.candidate]] = None],
               To("savePrevious"), Idle)
  /\ UNCHANGED <<healthy, applied>>

SavePrevious ==
  /\ At("savePrevious")
  /\ Operation([disk EXCEPT !.previous = proc.receipt.previous], To("savePending"), Idle)
  /\ UNCHANGED <<healthy, applied>>

SavePending ==
  /\ At("savePending")
  /\ Operation([disk EXCEPT !.pending = proc.receipt], To("switch"), Idle)
  /\ UNCHANGED <<healthy, applied>>

\* prepare returns AwaitingHealth here.
Switch ==
  /\ At("switch")
  /\ Operation([disk EXCEPT !.active = proc.candidate],
               IF proc.mode = "apply" THEN To("health") ELSE Idle, Idle)
  /\ UNCHANGED <<healthy, applied>>

-----------------------------------------------------------------------------
(* Health, commit and rollback, in this call or by the application parent. *)

\* The parent takes the receipt from pending_activation_receipt.
ParentChecks ==
  /\ At("idle")
  /\ disk.pending # None
  /\ Proceed([Idle EXCEPT !.pc = "health", !.mode = "parent", !.receipt = disk.pending])

\* finish_activation: commit if the activated application is healthy.
HealthPasses ==
  /\ At("health")
  /\ proc' = [proc EXCEPT !.pc = "commit", !.goal = "applied"]
  /\ healthy' = IF Same(disk.active, proc.receipt.activated)
                THEN healthy \cup {disk.active} ELSE healthy
  /\ UNCHANGED <<disk, applied, faults>>

HealthFails ==
  /\ At("health")
  /\ Proceed([proc EXCEPT !.pc = "restore", !.goal = "rolledBack"])

\* commit: only what is still active is committed.
Commit ==
  /\ At("commit")
  /\ Proceed(IF Same(disk.active, proc.receipt.activated) THEN To("dropPrevious")
             ELSE Failed)

-----------------------------------------------------------------------------
\* The process dies; a staged file is damaged.
Crash ==
  /\ ~At("idle")
  /\ proc' = Idle
  /\ Fault
  /\ UNCHANGED <<disk, healthy, applied>>

DamageStaged(b) ==
  /\ disk.staged[b] \in Artifacts
  /\ disk' = [disk EXCEPT !.staged[b] = Damaged]
  /\ Fault
  /\ UNCHANGED <<proc, healthy, applied>>

Next ==
  \/ \E mode \in Modes \ {"parent"} : Begin(mode)
  \/ Recover \/ Restore \/ DropPrevious \/ DropPending
  \/ \E a \in Artifacts : Select(a)
  \/ SelectNothing \/ Fetch \/ Stage \/ SmokeTestPasses \/ DiscardStaged
  \/ Install \/ Unstage \/ SavePrevious \/ SavePending \/ Switch
  \/ ParentChecks \/ HealthPasses \/ HealthFails \/ Commit
  \/ Crash \/ \E b \in BuildIds : DamageStaged(b)

Spec == Init /\ [][Next]_vars

-----------------------------------------------------------------------------
(* Properties.                                                             *)

Resolves(a) == a # None => disk.installed[BuildOf[a]] = a

\* The active pointer, and every pointer a rollback may restore, names a file that
\* is installed with exactly the bytes described, whatever operation failed, and
\* although a provider may offer a build id twice or a staged file be damaged.
PointersResolve ==
  /\ Resolves(disk.active)
  /\ Resolves(disk.previous)
  /\ disk.pending # None => Resolves(disk.pending.previous)
  /\ proc.receipt # None => Resolves(proc.receipt.previous)

\* "installs immutable build artifacts without replacing an existing build path"
\* (appcore-update README): an installed file never changes.
InstalledIsImmutable ==
  [][\A b \in BuildIds :
       disk.installed[b] # None => disk'.installed[b] = disk.installed[b]]_vars

\* When recover has returned, the active artifact has passed a health check: an
\* activation that was interrupted at any point is undone.
RecoversToHealthy == At("select") => disk.active \in healthy

\* No update that is refused, fails or is interrupted takes the application behind
\* a version that was reported as applied: when recover has returned, the active
\* artifact is the newest of them or a newer one.
AppliedIsKept ==
  At("select") =>
    \A a \in applied : disk.active # None /\ VersionOf[disk.active] >= VersionOf[a]
=============================================================================
