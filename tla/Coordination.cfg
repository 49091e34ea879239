\* Two processes with a skew of one tick and two faults; two cores with one lost answer and one
\* restore; four cores, one of which resolves; a store with two faults; manifests of three calls.
CONSTANTS
  o1 = o1  o2 = o2
  Owners = {o1, o2}
  NoOwner = NoOwner
  NoLease = NoLease
  Ttl = 2
  HeartbeatMs = 1
  ClockSkew = 1
  MaxDrift = 1
  MaxTime = 7
  MaxEpoch = 4
  MaxFaults = 2
  c1 = c1  c2 = c2
  Cores = {c1, c2}
  NoBackup = NoBackup
  MaxAttempts = 2
  NoServiceLease = NoServiceLease
  LeaseTtl = 2
  MaxLeadershipTime = 4
  MaxLeadershipEpoch = 3
  MaxTimeouts = 1
  MaxRestores = 1
  Nothing = Nothing
  NoMetadata = NoMetadata  NoValue = NoValue
  Here = "h"
  KeyOrder <- ThisFirst
  CoreIdentity <- Identities
  Advertised <- AdvertisedByEach
  Offered <- OfferedHere
  CapabilityAsks <- EachKind
  Selection <- LocalFirst
  Retention = 1
  MaxRegistered = 1
  LeaseTerm = 1
  MaxPresenceTime = 2
  StoreThreads = {"a", "b"}
  LatestSchema = 2
  MaxStoreFaults = 2
  FoundMetadata <- Found
  FoundBackups <- FoundAside
  Declarations <- DeclarationsMade
  Requirements <- Required
  Jobs <- JobPolicies
  Schedulers <- SchedulerPolicies
  Healths <- HealthPolicies
  Listed <- Modules
  PrimaryService = "s"
  ProviderConfigs <- Providers
  Watchdogs <- WatchdogPolicies
  Tls <- TlsPolicies
  ForeignFiles <- FilesOfOthers
  MaxCalls = 3
SPECIFICATION MCSpec
INVARIANTS OneBeliever ExclusiveLeader EpochIdentifiesHolder CompletedByTheProvider CoordinationReopens ManifestsKeepTheirContract
PROPERTY EpochsGrow
SYMMETRY Symmetry
CHECK_DEADLOCK FALSE
