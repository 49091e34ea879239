------------------------------ MODULE Manifests -----------------------------
(***************************************************************************)
(* The manifests of appcore-contracts: an application's (application.rs),  *)
(* built by calls that consume and return it, and an installation's        *)
(* (deployment/manifest.rs), checked only when its builder is done; both   *)
(* written to a file and read back, as are files someone else wrote.  A    *)
(* caller may hold parts that were decoded on their own, which checks      *)
(* nothing.  From a manifest come the capabilities a core advertises       *)
(* (appcore-types) and the providers a host creates (appcore-provider).    *)
(*                                                                         *)
(* Texts and keys are the classes the checks tell apart: "malformed" is    *)
(* empty, too long or with control characters.                             *)
(***************************************************************************)
EXTENDS Naturals, Sequences, FiniteSets, Functions

CONSTANTS
  Declarations,     \* CapabilityDeclaration: [id, class, version, mode, visibility, leader, keyed]
  Requirements,     \* LeadershipRequirement: [service, mode, lease]
  Jobs, Schedulers, Healths,   \* [enabled, limit], [required, limit], [interval, threshold]
  Listed,           \* ApplicationDependency and ModuleDeclaration: [id, version]
  PrimaryService,
  ProviderConfigs,  \* [id, endpoint, settings, refs]
  Watchdogs,        \* [enabled, check, stall]
  Tls,              \* [enabled, certificate, key]
  ForeignFiles,     \* files written by others: [kind, data]
  NoValue,
  MaxCalls          \* bound on the calls made on one manifest

VARIABLES
  hand,     \* what the caller holds: [kind, data, calls], or nothing
  file      \* a manifest on disk and whether this program wrote it, or NoValue

manifestVars == <<hand, file>>

Nil == [kind |-> "none"]
Texts == {"plain", "malformed"}
Keys == {"plain", "sensitive", "path", "location", "malformed"}
Values == {"plain", "path", "location", "malformed"}
Distributed == {"control_plane", "coordination_store", "peer_discovery", "job_provider"}
Roles == Distributed \cup {"secret_provider", "database", "update_provider"}

ApplicationFields ==
  {"schema", "texts", "runtime", "update", "capabilities", "leadership", "dependencies", "modules",
   "jobs", "scheduler", "health", "metadata", "free"}
DeploymentFields ==
  {"schema", "mode", "storage", "tls", "watchdog", "providers", "adapters", "paths", "environment",
   "volumes", "secrets"}

\* What serde makes of a file has all the fields, and the capabilities are a list.
Decoded(f) ==
  \/ /\ f.kind = "application" /\ ApplicationFields \subseteq DOMAIN f.data
     /\ f.data.capabilities \in Seq(Range(f.data.capabilities))
  \/ /\ f.kind = "deployment" /\ DeploymentFields \subseteq DOMAIN f.data
     /\ f.data.mode \in {"standalone", "cluster"}

ManifestAssumption == \A f \in ForeignFiles : Decoded(f)

ManifestInit == hand = Nil /\ file = NoValue

-----------------------------------------------------------------------------
(* What is checked.                                                        *)

ValidText(t) == t # "malformed"
IsSensitiveKey(k) == k = "sensitive"

ValidMetadata(k, v) ==
  /\ ValidText(k) /\ ValidText(v)
  /\ ~IsSensitiveKey(k)
  /\ k # "path" /\ v # "path"
  /\ k # "location" /\ v # "location"

ValidRequirement(r) == r.mode # "disabled" => r.lease > 0
ValidJobs(j) == j.enabled => j.limit > 0
ValidScheduler(s) == s.required => s.limit > 0
ValidHealth(h) == h.interval > 0 /\ h.threshold > 0
ValidRuntime(r) == ValidText(r)
ValidUpdate(channel) == ValidText(channel)
ValidDependency(d) == ValidText(d.version)
ValidModule(m) == ValidText(m.version)

EnsureUnique(s, field) == \A i, j \in DOMAIN s : i # j => s[i][field] # s[j][field]

\* The reserved namespaces of the Runtime.
Reserved(id) == id = "appcore.run"

ValidDeclaration(d) ==
  ValidText(d.version) /\ ~Reserved(d.id) /\ d.class = "functional"

\* ApplicationManifestV1::validate.
ValidApplication(m) ==
  /\ m.schema = 1
  /\ ValidText(m.texts) /\ ValidRuntime(m.runtime) /\ ValidUpdate(m.update)
  /\ ValidJobs(m.jobs) /\ ValidScheduler(m.scheduler) /\ ValidHealth(m.health)
  /\ EnsureUnique(m.capabilities, "id")
  /\ \A d \in Range(m.capabilities) : ValidDeclaration(d)
  /\ EnsureUnique(m.leadership, "service")
  /\ \A r \in Range(m.leadership) : ValidRequirement(r)
  /\ (\E d \in Range(m.capabilities) : d.leader) =>
       \E r \in Range(m.leadership) : r.service = PrimaryService /\ r.mode # "disabled"
  /\ EnsureUnique(m.dependencies, "id") /\ EnsureUnique(m.modules, "id")
  /\ \A d \in Range(m.dependencies) : ValidDependency(d)
  /\ \A p \in Range(m.modules) : ValidModule(p)
  /\ \A k \in DOMAIN m.metadata : ValidMetadata(k, m.metadata[k])

ValidSetting(k, v) == ValidText(k) /\ ValidText(v) /\ ~IsSensitiveKey(k)

ValidProvider(p) ==
  /\ p.endpoint = NoValue \/ ValidText(p.endpoint)
  /\ \A k \in DOMAIN p.settings : ValidSetting(k, p.settings[k])
  /\ \A r \in p.refs : ValidText(r)

ValidWatchdog(w) ==
  /\ w.check > 0 /\ w.stall > 0
  /\ w.enabled => w.stall > w.check

\* Enabled with both references, or disabled with neither.
ValidTls(t) ==
  IF t.enabled THEN t.certificate /\ t.key ELSE ~t.certificate /\ ~t.key

\* Upper case, digits and underscores: "path" stands for a name that is not.
ValidEnvironmentName(n) == ValidText(n) /\ n # "path"

ValidBinding(n, b) ==
  /\ ValidEnvironmentName(n)
  /\ b.kind = "literal" => ~IsSensitiveKey(n) /\ ValidText(b.value)

ValidMount(v) == ValidText(v)

\* A reference names where the secret is kept: no other text becomes one.
IsSecretRef(scheme) == scheme \in {"env", "file", "vault", "provider"}

\* DeploymentManifestV1::validate.
ValidDeployment(m) ==
  /\ m.schema = 1
  /\ IF m.mode = "standalone" THEN Distributed \cap DOMAIN m.providers = {}
     ELSE {"control_plane", "peer_discovery"} \subseteq DOMAIN m.providers
  /\ ValidProvider(m.storage) /\ ValidTls(m.tls) /\ ValidWatchdog(m.watchdog)
  /\ \A r \in DOMAIN m.providers : ValidProvider(m.providers[r])
  /\ \A n \in DOMAIN m.adapters : ValidProvider(m.adapters[n])
  /\ \A n \in DOMAIN m.paths : ValidText(n) /\ ValidText(m.paths[n])
  /\ \A v \in m.volumes : ValidMount(v)
  /\ \A n \in m.secrets : ValidText(n)
  /\ \A n \in DOMAIN m.environment : ValidBinding(n, m.environment[n])

-----------------------------------------------------------------------------
(* Building.  A call that fails takes the manifest with it.                *)

Set(f, k, v) == [x \in DOMAIN f \cup {k} |-> IF x = k THEN v ELSE f[x]]

Has(kind) == hand.kind = kind
May(kind) == Has(kind) /\ hand.calls < MaxCalls

Becomes(data, ok) ==
  /\ hand' = IF ok THEN [hand EXCEPT !.data = data, !.calls = @ + 1] ELSE Nil
  /\ UNCHANGED file

NewApplication(texts, runtime) ==
  LET m == [schema |-> 1, texts |-> texts, runtime |-> runtime, update |-> "plain",
            capabilities |-> <<>>, leadership |-> <<>>, dependencies |-> <<>>, modules |-> <<>>,
            jobs |-> [enabled |-> FALSE, limit |-> 0],
            scheduler |-> [required |-> FALSE, limit |-> 0],
            health |-> [interval |-> 1, threshold |-> 1],
            metadata |-> <<>>, free |-> "default"] IN
  /\ hand = Nil /\ file = NoValue
  /\ hand' = IF ValidApplication(m) THEN [kind |-> "application", data |-> m, calls |-> 0] ELSE Nil
  /\ UNCHANGED file

\* Slip: only the new declaration is looked at.
WithCapabilityAlone(d) ==
  LET m == [hand.data EXCEPT !.capabilities = Append(@, d)] IN
  /\ May("application")
  /\ Becomes(m, EnsureUnique(m.capabilities, "id") /\ ValidDeclaration(d))

\* The duplicate first, then the whole manifest: one that needs the leader is
\* refused until the leadership of the primary service was added.
WithCapability(d) ==
  LET m == [hand.data EXCEPT !.capabilities = Append(@, d)] IN
  /\ May("application")
  /\ Becomes(m, EnsureUnique(m.capabilities, "id") /\ ValidApplication(m))

\* Leadership once given is never replaced: disabled, it stays so.
WithLeadership(r) ==
  LET m == [hand.data EXCEPT !.leadership = Append(@, r)] IN
  May("application") /\ Becomes(m, ValidApplication(m))

WithListed(field, p) ==
  LET m == [hand.data EXCEPT ![field] = Append(@, p)] IN
  May("application") /\ Becomes(m, ValidApplication(m))

WithPolicy(field, policy) ==
  LET m == [hand.data EXCEPT ![field] = policy] IN
  May("application") /\ Becomes(m, ValidApplication(m))

\* Storage requirements and feature flags are taken as they are.
WithFree == May("application") /\ Becomes([hand.data EXCEPT !.free = "given"], TRUE)

\* Only the entry is checked, and it replaces one of its key.
WithMetadata(k, v) ==
  /\ May("application")
  /\ Becomes([hand.data EXCEPT !.metadata = Set(@, k, v)], ValidMetadata(k, v))

-----------------------------------------------------------------------------
(* The builder of a deployment.                                            *)

NewDeployment(mode, storage, tls) ==
  /\ hand = Nil /\ file = NoValue
  /\ hand' = [kind |-> "builder", calls |-> 0,
              data |-> [schema |-> 1, mode |-> mode, storage |-> storage, tls |-> tls,
                        watchdog |-> [enabled |-> TRUE, check |-> 1, stall |-> 15],
                        providers |-> <<>>, adapters |-> <<>>, paths |-> <<>>,
                        environment |-> <<>>, volumes |-> {}, secrets |-> {}]]
  /\ UNCHANGED file

\* with_control_plane, with_database and so on: the last one counts.
WithProvider(role, p) ==
  May("builder") /\ Becomes([hand.data EXCEPT !.providers = Set(@, role, p)], TRUE)

WithSupervisor(w) == May("builder") /\ Becomes([hand.data EXCEPT !.watchdog = w], TRUE)

WithVolume(v) == May("builder") /\ Becomes([hand.data EXCEPT !.volumes = @ \cup {v}], TRUE)

WithAdapter(n, p) ==
  May("builder") /\ Becomes([hand.data EXCEPT !.adapters = Set(@, n, p)], ValidText(n))

WithSecret(n, scheme) ==
  /\ May("builder") /\ IsSecretRef(scheme)
  /\ Becomes([hand.data EXCEPT !.secrets = @ \cup {n}], ValidText(n))

WithPath(n, path) ==
  /\ May("builder")
  /\ Becomes([hand.data EXCEPT !.paths = Set(@, n, path)], ValidText(n) /\ ValidText(path))

\* A binding replaces one of its name, of either kind.
WithEnvironment(n, b) ==
  May("builder") /\ Becomes([hand.data EXCEPT !.environment = Set(@, n, b)], ValidBinding(n, b))

Build ==
  /\ Has("builder")
  /\ hand' = IF ValidDeployment(hand.data) THEN [hand EXCEPT !.kind = "deployment"] ELSE Nil
  /\ UNCHANGED file

-----------------------------------------------------------------------------
(* Files.                                                                  *)

Encode ==
  /\ hand.kind \in {"application", "deployment"}
  /\ file' = [kind |-> hand.kind, data |-> hand.data, own |-> TRUE]
  /\ hand' = Nil

FromElsewhere(f) ==
  /\ hand = Nil /\ file = NoValue
  /\ file' = [kind |-> f.kind, data |-> f.data, own |-> FALSE]
  /\ UNCHANGED hand

AcceptsManifest(f) ==
  IF f.kind = "application" THEN ValidApplication(f.data) ELSE ValidDeployment(f.data)

\* TryFrom the decoded data: all of validate.
Decode ==
  /\ hand = Nil /\ file # NoValue
  /\ hand' = IF AcceptsManifest(file)
             THEN [kind |-> file.kind, data |-> file.data, calls |-> 0] ELSE Nil
  /\ file' = NoValue

-----------------------------------------------------------------------------
(* What is made of a manifest.                                             *)

\* CapabilityDescriptor::from_application_declaration.
Descriptor(d) ==
  [name |-> d.id, mode |-> d.mode, visibility |-> d.visibility, leader |-> d.leader,
   readOnly |-> d.mode = "query", keyed |-> d.keyed]

\* DistributedCoreManifest::from_application_manifest.
AdvertiseCore ==
  /\ Has("application")
  /\ hand' = [kind |-> "core", from |-> hand.data,
              data |-> [i \in DOMAIN hand.data.capabilities |-> Descriptor(hand.data.capabilities[i])]]
  /\ UNCHANGED file

\* DeploymentProviderPlan::from_manifest, with an empty registry of factories.
Plan ==
  /\ Has("deployment")
  /\ hand' = [kind |-> "host", from |-> hand.data, factories |-> {}, created |-> {},
              data |-> [mode |-> hand.data.mode, providers |-> hand.data.providers]]
  /\ UNCHANGED file

\* One factory per role and provider.
RegisterFactory(role, id) ==
  /\ Has("host") /\ <<role, id>> \notin hand.factories
  /\ hand' = [hand EXCEPT !.factories = @ \cup {<<role, id>>}]
  /\ UNCHANGED file

\* ProviderRegistry::create for a role the plan selects; the factory gets the
\* settings, and references instead of secrets.
Create(role) ==
  /\ Has("host") /\ role \in DOMAIN hand.data.providers
  /\ <<role, hand.data.providers[role].id>> \in hand.factories
  /\ hand' = [hand EXCEPT !.created = @ \cup {<<role, hand.data.providers[role]>>}]
  /\ UNCHANGED file

PutDown ==
  /\ hand.kind \in {"core", "host"}
  /\ hand' = Nil /\ UNCHANGED file

ManifestNext ==
  \/ \E texts, runtime \in Texts : NewApplication(texts, runtime)
  \/ \E d \in Declarations : WithCapability(d)
  \/ \E r \in Requirements : WithLeadership(r)
  \/ \E p \in Listed, field \in {"dependencies", "modules"} : WithListed(field, p)
  \/ \E j \in Jobs : WithPolicy("jobs", j)
  \/ \E s \in Schedulers : WithPolicy("scheduler", s)
  \/ \E h \in Healths : WithPolicy("health", h)
  \/ \E channel \in Texts : WithPolicy("update", channel)
  \/ WithFree
  \/ \E k \in Keys, v \in Values : WithMetadata(k, v)
  \/ \E mode \in {"standalone", "cluster"}, p \in ProviderConfigs, t \in Tls : NewDeployment(mode, p, t)
  \/ \E p \in ProviderConfigs :
       (\E role \in Roles : WithProvider(role, p)) \/ (\E n \in Texts : WithAdapter(n, p))
  \/ \E w \in Watchdogs : WithSupervisor(w)
  \/ \E n \in Texts : WithVolume(n) \/ WithSecret(n, "env") \/ \E path \in Texts : WithPath(n, path)
  \/ \E n \in Keys \ {"location"} :
       \/ \E v \in Texts : WithEnvironment(n, [kind |-> "literal", value |-> v])
       \/ WithEnvironment(n, [kind |-> "secret"])
  \/ Build \/ Encode \/ Decode
  \/ \E f \in ForeignFiles : FromElsewhere(f)
  \/ AdvertiseCore \/ Plan
  \/ \E role \in Roles, id \in {p.id : p \in ProviderConfigs} : RegisterFactory(role, id)
  \/ \E role \in Roles : Create(role)
  \/ PutDown

ManifestSpec == ManifestInit /\ [][ManifestNext]_manifestVars

-----------------------------------------------------------------------------
\* Whatever the order of the calls and wherever its parts and files come from, a
\* manifest in hand can be written and read back; the capabilities advertised
\* from it have names of their own, and the leadership one needs is enabled for
\* the primary service; a standalone host creates no distributed provider, and
\* no provider is created with a literal under a sensitive key.
ManifestsKeepTheirContract ==
  /\ hand.kind \in {"application", "deployment"} => AcceptsManifest(hand)
  /\ file # NoValue /\ file.own => AcceptsManifest(file)
  /\ hand.kind = "core" =>
       /\ Cardinality({d.name : d \in Range(hand.data)}) = Len(hand.data)
       /\ (\E d \in Range(hand.data) : d.leader) =>
            \E r \in Range(hand.from.leadership) :
              r.service = PrimaryService /\ r.mode # "disabled" /\ r.lease > 0
  /\ hand.kind = "host" => \A c \in hand.created :
       /\ c[1] \in Distributed => hand.from.mode = "cluster"
       /\ "sensitive" \notin DOMAIN c[2].settings
=============================================================================
