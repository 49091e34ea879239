------------------------------ MODULE Placement -----------------------------
(***************************************************************************)
(* PlacementEngine::select (appcore-scheduler, placement.rs) over cores    *)
(* whose state changes: the runtime manifest of a core (appcore-contracts, *)
(* runtime.rs), the leases it holds, the work it has.  The engine is a     *)
(* pure function of the request and the candidates it is given, in any     *)
(* order; whoever placed the work starts it on the core selected.          *)
(***************************************************************************)
EXTENDS Integers, Sequences, FiniteSets, Functions

CONSTANTS
  CoreOrder,        \* the core ids, in their order
  CoreProfile,      \* per core: see ProfileIsValid
  RuntimeModeOf,    \* per core: "standalone" or "cluster"
  PlacementAsks,    \* PlacementRequest: capability, service, runtime, write, leader,
                    \* workload, affinity, cpu, memory, gpu
  NoValue,          \* None
  MaxLoad           \* bound on the work of a core

VARIABLES
  facts,      \* per core: [health, mode, loaded, load, leads]
  decision    \* the last PlacementDecision, with what it was made from

placementVars == <<facts, decision>>

Cores == Range(CoreOrder)
IdBefore(c, d) == \E i, j \in DOMAIN CoreOrder : i < j /\ CoreOrder[i] = c /\ CoreOrder[j] = d

PlacementRejection ==
  {"CapabilityUnavailable", "RuntimeModeMismatch", "Unhealthy", "OperationalMode", "Unavailable",
   "LeadershipRequired", "AtCapacity", "AffinityMismatch", "InsufficientCpu",
   "InsufficientMemory", "InsufficientGpu"}

\* What the types of the code say of profiles and requests, and ids are unique.
ASSUME PlacementAssumption ==
  /\ CoreOrder \in Seq(Cores)
  /\ \A i, j \in DOMAIN CoreOrder : CoreOrder[i] = CoreOrder[j] => i = j
  /\ NoValue \notin Cores /\ NoValue \notin PlacementRejection
  /\ \A c \in Cores : LET p == CoreProfile[c] IN
       /\ {p.weight, p.maxConcurrency, p.gpu} \subseteq Nat /\ p.priority \in Int
       /\ {p.cpu, p.memory} \subseteq Nat \cup {NoValue}
  /\ \A ask \in PlacementAsks :
       /\ {ask.cpu, ask.memory} \subseteq Nat \cup {NoValue} /\ ask.gpu \in Nat
       /\ IsFiniteSet(ask.affinity)
  /\ MaxLoad \in Nat

HealthStatus == {"healthy", "degraded", "unhealthy"}
\* Modes that allow neither, queries only, and queries and writes.
RuntimeModes == {"starting", "degraded", "read_write"}
AllowsLocalQueries(m) == m \in {"read_only", "read_write", "degraded", "isolated"}
AllowsWrites(m) == m = "read_write"

-----------------------------------------------------------------------------
(* The profile and the manifest of a core.                                 *)

LeadershipIsValid(l) == l.mode # "disabled" => l.lease > 0

ResourcesAreValid(p) == p.cpu # 0 /\ p.memory # 0

SchedulingIsValid(p) == p.weight > 0 /\ p.maxConcurrency > 0

\* CoreProfile::new and validate: no core is without a valid one.
ProfileIsValid(p) ==
  /\ p.leadership.service = p.service
  /\ LeadershipIsValid(p.leadership) /\ ResourcesAreValid(p) /\ SchedulingIsValid(p)

\* RuntimeManifestV1::new: starting, nothing loaded (and here in good health).
NewManifest ==
  [health |-> "healthy", mode |-> "starting", loaded |-> {}, load |-> 0, leads |-> {}]

PlacementInit ==
  /\ \A c \in Cores : ProfileIsValid(CoreProfile[c])
  /\ facts = [c \in Cores |-> NewManifest]
  /\ decision = NoValue

Changes(c, new) == facts' = [facts EXCEPT ![c] = new] /\ UNCHANGED decision

\* Only what the profile declares can be loaded.
WithLoadedCapability(c, k) ==
  /\ k \in CoreProfile[c].capabilities
  /\ Changes(c, [facts[c] EXCEPT !.loaded = @ \cup {k}])

\* A snapshot with a sensitive detail is refused, and the old one stays.
WithHealth(c, status, sensitive) ==
  /\ ~sensitive
  /\ Changes(c, [facts[c] EXCEPT !.health = status])

WithOperationalMode(c, m) == Changes(c, [facts[c] EXCEPT !.mode = m])

\* A lease of the control plane is won or lost (one holder per service).
LeaseMoves(c) ==
  LET s == CoreProfile[c].service IN
  /\ CoreProfile[c].leadership.mode # "disabled"
  /\ UNCHANGED decision
  /\ \/ facts' = [d \in Cores |-> [facts[d] EXCEPT !.leads = IF d = c THEN @ \cup {s} ELSE @ \ {s}]]
     \/ s \in facts[c].leads /\ facts' = [facts EXCEPT ![c].leads = @ \ {s}]

\* Work that came to the core without placement, and the end of work.
LocalWork(c) ==
  \/ facts[c].load < MaxLoad /\ Changes(c, [facts[c] EXCEPT !.load = @ + 1])
  \/ facts[c].load > 0 /\ Changes(c, [facts[c] EXCEPT !.load = @ - 1])

-----------------------------------------------------------------------------
(* The engine.                                                             *)

\* A candidate of unknown CPU or memory does not satisfy a request for some.
Lacks(required, available) == required # NoValue /\ (available = NoValue \/ available < required)

\* The constraints, in the order they are looked at.
Constraints(ask, c) ==
  LET p == CoreProfile[c]
      f == facts[c] IN
  << <<ask.capability \notin p.capabilities, "CapabilityUnavailable">>,
     <<RuntimeModeOf[c] # ask.runtime, "RuntimeModeMismatch">>,
     <<f.health = "unhealthy", "Unhealthy">>,
     <<~AllowsLocalQueries(f.mode) \/ (ask.write /\ ~AllowsWrites(f.mode)), "OperationalMode">>,
     <<~p.available, "Unavailable">>,
     <<ask.leader /\ ask.service \notin f.leads, "LeadershipRequired">>,
     <<f.load >= p.maxConcurrency, "AtCapacity">>,
     <<~(ask.affinity \subseteq p.affinity), "AffinityMismatch">>,
     <<Lacks(ask.cpu, p.cpu), "InsufficientCpu">>,
     <<Lacks(ask.memory, p.memory), "InsufficientMemory">>,
     <<p.gpu < ask.gpu, "InsufficientGpu">> >>

\* The first constraint that fails is the reason.
RejectionReason(ask, c) ==
  LET all == Constraints(ask, c)
      failing == {i \in 1..11 : all[i][1]} IN
  IF failing = {} THEN NoValue ELSE all[CHOOSE i \in failing : \A j \in failing : i <= j][2]

Score(ask, c) ==
  LET p == CoreProfile[c]
      spare == IF p.maxConcurrency > facts[c].load THEN p.maxConcurrency - facts[c].load ELSE 0 IN
  p.priority * 10000 + p.weight * 100 + spare * 10
    + (IF facts[c].health = "healthy" THEN 2000 ELSE IF facts[c].health = "degraded" THEN 250 ELSE 0)
    + (IF p.workload = ask.workload THEN 1000 ELSE 0)
    + Cardinality(ask.affinity) * 100

EvaluateCandidate(ask, c) ==
  LET reason == RejectionReason(ask, c) IN
  [core |-> c, eligible |-> reason = NoValue, rejection |-> reason,
   score |-> IF reason = NoValue THEN Score(ask, c) ELSE 0]

\* Slip: equal scores go to the last core.
AtLeastAnyTie(e, f) == e.score >= f.score

\* The order of max_by: by score, then the smaller id is the greater.
AtLeast(e, f) == e.score > f.score \/ (e.score = f.score /\ ~IdBefore(f.core, e.core))

\* max_by over the eligible ones keeps the last of the greatest: its place, 0 for none.
Greatest(evaluations) ==
  LET best[i \in 0..Len(evaluations)] ==
        IF i = 0 THEN 0
        ELSE IF /\ evaluations[i].eligible
                /\ best[i - 1] = 0 \/ AtLeast(evaluations[i], evaluations[best[i - 1]])
             THEN i ELSE best[i - 1]
  IN best[Len(evaluations)]

\* sort_by: the same elements, the ids ascending.
SortedById(given) ==
  CHOOSE sorted \in {[i \in DOMAIN given |-> given[place[i]]] :
                        place \in Bijection(DOMAIN given, DOMAIN given)} :
    \A i, j \in DOMAIN given : i < j => ~IdBefore(sorted[j], sorted[i])

\* Every candidate is evaluated, they are sorted by core id, the best eligible one is taken.
SelectCore(ask, candidates) ==
  LET sorted == SortedById(candidates)
      evaluations == [i \in DOMAIN sorted |-> EvaluateCandidate(ask, sorted[i])]
      best == Greatest(evaluations) IN
  [selected |-> IF best = 0 THEN NoValue ELSE evaluations[best].core,
   evaluations |-> evaluations, given |-> Range(candidates), ask |-> ask, seen |-> facts]

\* Some of the cores, in any order.
CandidateLists == UNION {Injection(1..n, Cores) : n \in 0..Len(CoreOrder)}

\* The work is placed and starts; without a core it is not placed.
Place(ask, candidates) ==
  LET d == SelectCore(ask, candidates) IN
  /\ decision' = d
  /\ facts' = IF d.selected = NoValue THEN facts ELSE [facts EXCEPT ![d.selected].load = @ + 1]

\* The caller has acted on the decision.
Acted == decision # NoValue /\ decision' = NoValue /\ UNCHANGED facts

PlacementNext ==
  \/ Acted
  \/ /\ decision = NoValue
     /\ \E ask \in PlacementAsks, candidates \in CandidateLists : Place(ask, candidates)
  \/ decision = NoValue /\ \E c \in Cores :
       \/ \E k \in UNION {CoreProfile[d].capabilities : d \in Cores} : WithLoadedCapability(c, k)
       \/ \E h \in HealthStatus, sensitive \in BOOLEAN : WithHealth(c, h, sensitive)
       \/ \E m \in RuntimeModes : WithOperationalMode(c, m)
       \/ LeaseMoves(c)
       \/ LocalWork(c)

PlacementSpec == PlacementInit /\ [][PlacementNext]_placementVars

-----------------------------------------------------------------------------
\* What a core must be and have, as things were seen, to do what is asked: a mode that
\* allows it, a lease that nobody else holds, room for one more, the resources.
Fits(ask, seen, c) ==
  LET p == CoreProfile[c] IN
  /\ ask.capability \in p.capabilities /\ ask.runtime = RuntimeModeOf[c]
  /\ p.available /\ seen[c].health # "unhealthy"
  /\ seen[c].mode \in (IF ask.write THEN {"read_write"} ELSE {"degraded", "read_write"})
  /\ ask.leader => /\ ask.service \in seen[c].leads
                   /\ \A d \in Cores \ {c} : ask.service \notin seen[d].leads
  /\ seen[c].load + 1 <= p.maxConcurrency
  /\ ask.affinity \subseteq p.affinity
  /\ ask.cpu = NoValue \/ (p.cpu # NoValue /\ p.cpu >= ask.cpu)
  /\ ask.memory = NoValue \/ (p.memory # NoValue /\ p.memory >= ask.memory)
  /\ ask.gpu <= p.gpu

\* Work goes to a core that can do it as things are (reachable mode, a lease the
\* work needs, room for one more, the resources), the best such core whatever
\* the order of the candidates, the smallest id among equals; it goes nowhere
\* only when no candidate can, and the candidates told so are those that cannot:
\* every candidate is told, and nobody else.
PlacedWhereItFits ==
  decision # NoValue =>
    LET Can(c) == Fits(decision.ask, decision.seen, c)
        told == Range(decision.evaluations) IN
    /\ {e.core : e \in told} = decision.given
    /\ \A e \in told : e.eligible <=> Can(e.core)
    /\ (decision.selected = NoValue) <=> (\A e \in told : ~Can(e.core))
    /\ \A e, f \in told : e.core = decision.selected /\ f.eligible /\ f # e =>
         e.score > f.score \/ (e.score = f.score /\ IdBefore(e.core, f.core))
=============================================================================
