--------------------------- MODULE MCCoordination ---------------------------
(***************************************************************************)
(* What nodes agree on through shared files and the control plane: one     *)
(* holder (two processes over the shared lease file, two cores over the    *)
(* control plane), who is present and provides what, the schema of the     *)
(* coordination store, and the manifests all of it is configured by.  A    *)
(* behaviour shows one of them; the others rest.                           *)
(***************************************************************************)
EXTENDS SharedLease, ServiceLeadership, CapabilityRouting, CoordinationStore, Manifests, TLC

CONSTANTS o1, o2, c1, c2
VARIABLE focus

-----------------------------------------------------------------------------
(* Routing: this host, two peers of its cluster (one preferred, one        *)
(* without an endpoint) and one of another; a command for the leader, a    *)
(* query the peer keeps to itself, and a stream.                           *)

Capability(name, kind, visibility) ==
  [name |-> name, mode |-> kind, visibility |-> visibility, leader |-> kind = "command",
   readOnly |-> kind = "query", keyed |-> kind = "query"]
Lead == Capability("run", "command", "cluster")
Identity(cluster, core) ==
  [tenant |-> "t", cluster |-> cluster, core |-> core, protocol |-> 1, runtime |-> "r"]
Provides(capabilities, endpoint) ==
  [capabilities |-> capabilities, endpoint |-> endpoint, preferred |-> endpoint]
Ask(name, kind) == [capability |-> name, mode |-> kind, key |-> kind = "query"]

ThisFirst == <<"h", "p", "q", "r">>
Identities ==
  [h |-> Identity("c", "kh"), p |-> Identity("c", "kp"), q |-> Identity("d", "kq"),
   r |-> Identity("c", "kr")]
AdvertisedByEach ==
  [h |-> Provides(<<Lead>>, TRUE),
   p |-> Provides(<<Lead, Capability("own", "query", "local"),
                    Capability("watch", "stream", "tenant")>>, TRUE),
   q |-> Provides(<<Lead>>, TRUE),
   r |-> Provides(<<Capability("watch", "stream", "tenant")>>, FALSE)]
OfferedHere == {Lead, Capability("run", "query", "local")}
EachKind == {Ask("run", "command"), Ask("own", "query"), Ask("watch", "stream")}
LocalFirst == [preferLocal |-> TRUE, allowRemote |-> TRUE]

Schema(version, tables) == [version |-> version, tables |-> tables]
Found == {NoMetadata, Schema(1, FALSE), Schema(2, TRUE)}
FoundAside == Found \cup {Schema(1, TRUE), Schema(3, TRUE)}

-----------------------------------------------------------------------------
(* Manifests: a capability for the leader, one of the Runtime's and one of *)
(* its own; leadership of the service, enabled, disabled and without a     *)
(* lease; providers with and without a secret among their settings.        *)

Declares(id, leader, class) ==
  [id |-> id, class |-> class, version |-> "plain", mode |-> IF leader THEN "command" ELSE "query",
   visibility |-> "cluster", leader |-> leader, keyed |-> leader]
Requires(service, kind, term) == [service |-> service, mode |-> kind, lease |-> term]
Provider(settings) ==
  [id |-> "x", endpoint |-> NoValue, settings |-> settings, refs |-> {"plain"}]
Safe == Provider([plain |-> "plain"])
WatchdogOf(enabled, check, stall) == [enabled |-> enabled, check |-> check, stall |-> stall]
TlsOf(enabled, certificate, key) == [enabled |-> enabled, certificate |-> certificate, key |-> key]

FileOf(kind, data) == [kind |-> kind, data |-> data]
AnApplication(capabilities, schema) ==
  [schema |-> schema, texts |-> "plain", runtime |-> "plain", update |-> "plain",
   capabilities |-> capabilities, leadership |-> <<>>, dependencies |-> <<>>, modules |-> <<>>,
   jobs |-> [enabled |-> FALSE, limit |-> 0], scheduler |-> [required |-> FALSE, limit |-> 0],
   health |-> [interval |-> 1, threshold |-> 1], metadata |-> <<>>, free |-> "default"]
ADeployment(providers, environment) ==
  [schema |-> 1, mode |-> "cluster", storage |-> Safe, tls |-> TlsOf(FALSE, FALSE, FALSE),
   watchdog |-> WatchdogOf(TRUE, 1, 2), providers |-> providers, adapters |-> <<>>, paths |-> <<>>,
   environment |-> environment, volumes |-> {}, secrets |-> {}]

DeclarationsMade ==
  {Declares("run", TRUE, "functional"), Declares("run", FALSE, "functional"),
   Declares("own", FALSE, "functional"), Declares("own", FALSE, "infrastructure"),
   Declares("appcore.run", FALSE, "functional")}
Required ==
  {Requires("s", "required", 1), Requires("s", "disabled", 0), Requires("o", "preferred", 1),
   Requires("s", "required", 0)}
JobPolicies == {[enabled |-> TRUE, limit |-> 1], [enabled |-> TRUE, limit |-> 0]}
SchedulerPolicies == {[required |-> TRUE, limit |-> 0]}
HealthPolicies == {[interval |-> 1, threshold |-> 0]}
Modules == {[id |-> "a", version |-> "plain"], [id |-> "a", version |-> "malformed"]}
Providers == {Safe, Provider([sensitive |-> "plain"])}
WatchdogPolicies == {WatchdogOf(TRUE, 1, 1), WatchdogOf(FALSE, 1, 1)}
TlsPolicies == {TlsOf(TRUE, TRUE, TRUE), TlsOf(TRUE, TRUE, FALSE), TlsOf(FALSE, FALSE, FALSE)}
FilesOfOthers ==
  {FileOf("application", AnApplication(<<Declares("run", TRUE, "functional")>>, 1)),
   FileOf("application", AnApplication(<<Declares("own", FALSE, "functional")>>, 1)),
   FileOf("application", AnApplication(<<>>, 2)),
   FileOf("deployment", ADeployment([control_plane |-> Safe], <<>>)),
   FileOf("deployment", ADeployment([control_plane |-> Safe, peer_discovery |-> Safe],
                                    [sensitive |-> [kind |-> "literal", value |-> "plain"]]))}

-----------------------------------------------------------------------------
\* The hypotheses of the theorems about the parts hold of this instance.
ASSUME PartsAssumption ==
  LeadershipAssumption /\ StoreAssumption /\ RoutingAssumption /\ ManifestAssumption

leaseVars == vars

MCInit ==
  /\ focus \in {"lease", "leadership", "routing", "store", "manifests"}
  /\ Init /\ LeadershipInit /\ RoutingInit /\ ManifestInit
  /\ StoreInit /\ (focus # "store" => metadataFile = NoMetadata /\ backupFile = NoMetadata)

MCNext ==
  \/ focus = "lease" /\ Next /\ UNCHANGED <<focus, leadershipVars, routingVars, storeVars, manifestVars>>
  \/ focus = "leadership" /\ LeadershipNext /\ UNCHANGED <<focus, leaseVars, routingVars, storeVars, manifestVars>>
  \/ focus = "routing" /\ RoutingNext /\ UNCHANGED <<focus, leaseVars, leadershipVars, storeVars, manifestVars>>
  \/ focus = "store" /\ StoreNext /\ UNCHANGED <<focus, leaseVars, leadershipVars, routingVars, manifestVars>>
  \/ focus = "manifests" /\ ManifestNext
     /\ UNCHANGED <<focus, leaseVars, leadershipVars, routingVars, storeVars>>

MCSpec == MCInit /\ [][MCNext]_<<focus, leaseVars, leadershipVars, routingVars, storeVars, manifestVars>>

Symmetry == Permutations(Owners) \cup Permutations(Cores)
=============================================================================
