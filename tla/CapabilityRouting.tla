-------------------------- MODULE CapabilityRouting -------------------------
(***************************************************************************)
(* Presence and routing: the registrations of the control plane (memory.rs *)
(* behind the file of file.rs), the directory of peers a core discovers,   *)
(* and the resolver of appcore-capabilities, which picks a provider from   *)
(* that snapshot and its own handlers, asks the leadership guard about it  *)
(* and invokes it, here or over peer RPC.                                  *)
(*                                                                         *)
(* Each operation of FileControlPlane locks, loads, applies and saves: one *)
(* step.  A resolver reads its snapshot, the guard and the health of the   *)
(* handler in one step and invokes in a later one: the peer may be gone,   *)
(* or the lease over, by then.  A core is named by its instance; payloads  *)
(* and traces are left out.                                                *)
(***************************************************************************)
EXTENDS Naturals, Sequences, FiniteSets, FiniteSetsExt

CONSTANTS
  Here,            \* the instance whose resolver is followed
  KeyOrder,        \* all instances, in the order of instance_key
  CoreIdentity,    \* per instance: [tenant, cluster, core, protocol, runtime]
  Advertised,      \* per instance: [capabilities, endpoint, preferred]
  Offered,         \* descriptors of the handlers the host may register
  CapabilityAsks,  \* requests: [capability, mode, key]
  Selection,       \* ResolutionPolicy: [preferLocal, allowRemote]
  Retention,       \* retention_ms
  MaxRegistered,   \* registrations that fit MAX_CONTROL_PLANE_STATE_BYTES
  LeaseTerm,
  MaxPresenceTime, \* bound on the clock
  Nothing

VARIABLES
  presenceClock,
  registered,  \* InMemoryState.registrations: [at, mode] of some instances
  mode,        \* the operational mode of this host
  directory,   \* the resolver's peers, some instances, and when they were discovered
  handlers,    \* descriptors in the CapabilityRegistry
  leading,     \* the lease the guard knows: [holder, expires] or Nothing
  invocation,  \* the call in progress
  completed    \* history: instances that completed the current request

routingVars == <<presenceClock, registered, mode, directory, handlers, leading,
                 invocation, completed>>

Instances == Range(KeyOrder)

RoutingAssumption == KeyOrder \in Seq(Instances) /\ Retention \in Nat

\* A mode that is routable and one that is not.
OperationalModes == {"read_write", "degraded"}
NoCall == [step |-> "idle"]

\* What the caller gets, and the call it answers (history).
Answer(result, provider) ==
  [step |-> "answered", result |-> result, provider |-> provider, call |-> invocation]

RoutingInit ==
  /\ presenceClock = 0
  /\ registered = <<>>
  /\ mode = "read_write"
  /\ directory = [peers |-> <<>>, at |-> 0]
  /\ handlers = {}
  /\ leading = Nothing
  /\ invocation = NoCall /\ completed = <<>>

-----------------------------------------------------------------------------
(* Presence.                                                               *)

IsRoutable(m) == m \in {"read_write", "read_only", "syncing"}

Put(f, i, v) == [j \in DOMAIN f \cup {i} |-> IF j = i THEN v ELSE f[j]]

\* Registrations not refreshed since the retention began are dropped.
Prune(r) ==
  LET cutoff == IF presenceClock > Retention THEN presenceClock - Retention ELSE 0
      kept == {i \in DOMAIN r : r[i].at >= cutoff} IN
  [i \in kept |-> r[i]]

\* A state beyond the size limit is refused before it is written.
RoutingFits(r) == Cardinality(DOMAIN r) <= MaxRegistered

\* The state file is replaced; the caller may see an error although it was
\* (the directory's sync), or because it was not (anything before).
Persist(r) == registered' \in {r, registered} /\ (~RoutingFits(r) => registered' = registered)

\* The server's clock, not the client's, dates a report.
Report(m) == [at |-> presenceClock, mode |-> m]

\* This host reports its mode, the others whatever theirs is.
Reports(i) == IF i = Here THEN {mode} ELSE OperationalModes

Register(i) ==
  /\ \E m \in Reports(i) : Persist(Put(Prune(registered), i, Report(m)))
  /\ UNCHANGED <<presenceClock, mode, directory, handlers, leading, invocation, completed>>

\* A heartbeat of an instance that is not (or no longer) registered is
\* accepted and changes nothing.  heartbeat_once keeps the mode the server
\* answers, which is the one it was sent.
Heartbeats(i) ==
  LET r == Prune(registered) IN
  /\ \E m \in Reports(i) : Persist(IF i \in DOMAIN r THEN Put(r, i, Report(m)) ELSE r)
  /\ UNCHANGED <<presenceClock, mode, directory, handlers, leading, invocation, completed>>

\* No control plane: the offline client, under the coordinator's policy,
\* leaves the host degraded.
HeartbeatOffline ==
  /\ mode' = "degraded"
  /\ UNCHANGED <<presenceClock, registered, directory, handlers, leading, invocation, completed>>

Recovers ==
  /\ mode = "degraded" /\ mode' = "read_write"
  /\ UNCHANGED <<presenceClock, registered, directory, handlers, leading, invocation, completed>>

PeerRecord(report) == [healthy |-> IsRoutable(report.mode), lastSeen |-> report.at]

\* Discovery prunes and saves too; only the cluster of the one who asks.
DiscoverPeers ==
  LET r == Prune(registered)
      mine == CoreIdentity[Here]
      scope == {i \in DOMAIN r \ {Here} :
                  CoreIdentity[i].tenant = mine.tenant /\ CoreIdentity[i].cluster = mine.cluster} IN
  /\ Persist(r)
  /\ directory' \in {directory, [peers |-> [i \in scope |-> PeerRecord(r[i])], at |-> presenceClock]}
  /\ UNCHANGED <<presenceClock, mode, handlers, leading, invocation, completed>>

-----------------------------------------------------------------------------
(* Resolution.                                                             *)

\* One handler per capability name.
RegisterHandler(d) ==
  /\ \A h \in handlers : h.name # d.name
  /\ handlers' = handlers \cup {d}
  /\ UNCHANGED <<presenceClock, registered, mode, directory, leading, invocation,
                 completed>>

\* The catalogue of a host: refused when two descriptors share a name.
Declared(name) == {d \in Range(Advertised[Here].capabilities) : d.name = name}

SameRuntime(a, b) == a.protocol = b.protocol /\ a.runtime = b.runtime

\* A Local capability is never remote; a Cluster one stays in the cluster.
RemoteDescriptorIsCompatible(i, d) ==
  /\ d.visibility # "local"
  /\ CoreIdentity[i].tenant = CoreIdentity[Here].tenant
  /\ d.visibility = "cluster" => CoreIdentity[i].cluster = CoreIdentity[Here].cluster
  /\ SameRuntime(CoreIdentity[Here], CoreIdentity[i])

\* The registered handler of the name, if it has the mode: there is one at most.
LocalHandlers(ask) == {h \in handlers : h.name = ask.capability /\ h.mode = ask.mode}

Matches(i, ask) ==
  {n \in DOMAIN Advertised[i].capabilities :
     Advertised[i].capabilities[n].name = ask.capability /\ Advertised[i].capabilities[n].mode = ask.mode}
FirstMatch(i, ask) == Advertised[i].capabilities[Min(Matches(i, ask))]

\* The peers that advertise the capability and may be asked for it.
RemoteCandidates(ask) ==
  {i \in DOMAIN directory.peers :
     /\ directory.peers[i].healthy
     /\ Matches(i, ask) # {}
     /\ RemoteDescriptorIsCompatible(i, FirstMatch(i, ask))}

\* Provider: the instance that would serve, and the descriptor it advertises.
LocalProvider(ask) ==
  [instance |-> Here, descriptor |-> CHOOSE h \in LocalHandlers(ask) : TRUE, seen |-> directory.at]
RemoteProvider(i, ask) ==
  [instance |-> i, descriptor |-> FirstMatch(i, ask), seen |-> directory.peers[i].lastSeen]

\* The control plane lists peers in the order of instance_key.
FirstOf(instances) == KeyOrder[Min({n \in DOMAIN KeyOrder : KeyOrder[n] \in instances})]

\* Local first if preferred, then a preferred remote, then any remote, then
\* the local one: the first that is there.  healthy: what is_healthy of the
\* local handler says.
Select(ask, healthy) ==
  LET local == healthy /\ LocalHandlers(ask) # {}
      remote == IF Selection.allowRemote THEN RemoteCandidates(ask) ELSE {}
      preferred == {i \in remote : Advertised[i].preferred} IN
  IF Selection.preferLocal /\ local THEN LocalProvider(ask)
  ELSE IF preferred # {} THEN RemoteProvider(FirstOf(preferred), ask)
  ELSE IF remote # {} THEN RemoteProvider(FirstOf(remote), ask)
  ELSE IF local THEN LocalProvider(ask)
  ELSE Nothing

RequestFault(ask, d) ==
  IF d.mode # ask.mode \/ (d.readOnly /\ ask.mode # "query") \/ (d.keyed /\ ~ask.key)
  THEN "HandlerRejected" ELSE "none"

\* The guard's verdict on a core, mapped to an error of the resolver.
LeadershipFault(i) ==
  IF leading = Nothing THEN "RequiresLeader"
  ELSE IF leading.expires <= presenceClock THEN "LeaseExpired"
  ELSE IF leading.holder # CoreIdentity[i].core THEN "RequiresLeader"
  ELSE "none"

\* Slip: the guard is asked about the caller's own core.
FaultOfCaller(ask, d, i, writes) ==
  IF RequestFault(ask, d) # "none" THEN RequestFault(ask, d)
  ELSE IF ask.mode = "command" /\ ~writes THEN "WritesDisabled"
  ELSE IF ~d.leader THEN "none"
  ELSE LeadershipFault(Here)

\* enforce_requirements: the request, then the host's mode, then the lease.
RoutingFault(ask, d, i, writes) ==
  IF RequestFault(ask, d) # "none" THEN RequestFault(ask, d)
  ELSE IF ask.mode = "command" /\ ~writes THEN "WritesDisabled"
  ELSE IF ~d.leader THEN "none"
  ELSE LeadershipFault(i)

\* A request comes in to handle or handle_local.  leads: whether the guard
\* allowed the provider; recent: whether the provider had spoken to the server
\* within the retention when it was discovered (both history).
Resolve(ask, operation, healthy) ==
  LET provider == Select(ask, healthy)
      fault == RoutingFault(ask, provider.descriptor, provider.instance, TRUE) IN
  /\ invocation = NoCall
  /\ invocation' =
       IF provider = Nothing THEN Answer("ProviderUnavailable", Nothing)
       ELSE IF fault # "none" THEN Answer(fault, Nothing)
       ELSE [step |-> "resolved", operation |-> operation, ask |-> ask, provider |-> provider.instance,
             descriptor |-> provider.descriptor, leads |-> LeadershipFault(provider.instance) = "none",
             recent |-> provider.seen + Retention >= directory.at]
  /\ completed' = <<>>
  /\ UNCHANGED <<presenceClock, registered, mode, directory, handlers, leading>>

\* authorize_local of the host's catalogue: what is declared, in a mode that
\* allows writes, by this core.
AuthorizeLocal(ask) ==
  LET declared == Declared(ask.capability) IN
  /\ invocation = NoCall
  /\ invocation' =
       Answer(IF Cardinality(declared) # 1 THEN "CapabilityNotDeclared"
              ELSE LET fault == RoutingFault(ask, CHOOSE d \in declared : TRUE, Here, mode = "read_write") IN
                   IF fault = "none" THEN "authorized" ELSE fault,
              Nothing)
  /\ completed' = <<>>
  /\ UNCHANGED <<presenceClock, registered, mode, directory, handlers, leading>>

Ends(result, provider, by) ==
  /\ invocation' = Answer(result, provider)
  /\ completed' = completed \o by
  /\ UNCHANGED <<presenceClock, registered, mode, directory, handlers, leading>>

\* The registered handler takes the request, or turns it down.
HandleHere ==
  /\ invocation.step = "resolved" /\ invocation.provider = Here
  /\ \/ Ends("accepted", Here, <<Here>>)
     \/ Ends("rejected", Nothing, <<>>)

\* handle_local of a remote provider answers for it, and calls nobody.
AnswerForRemote ==
  /\ invocation.step = "resolved" /\ invocation.provider # Here
  /\ invocation.operation = "handle_local"
  /\ Ends("accepted", invocation.provider, <<>>)

\* The host has no invoker, the record no peer-rpc endpoint, or the request is
\* a stream, which has no remote form.
InvokeUnsupported ==
  /\ invocation.step = "resolved" /\ invocation.provider # Here
  /\ invocation.operation = "handle"
  /\ \/ Ends("RemoteEndpointUnavailable", Nothing, <<>>)
     \/ /\ Advertised[invocation.provider].endpoint /\ invocation.ask.mode = "stream"
        /\ Ends("HandlerRejected", Nothing, <<>>)

\* Peer RPC: completed, refused, or failed before or after the peer did it.
InvokeRemote ==
  /\ invocation.step = "resolved" /\ invocation.provider # Here
  /\ invocation.operation = "handle"
  /\ Advertised[invocation.provider].endpoint /\ invocation.ask.mode # "stream"
  /\ LET p == invocation.provider IN
     \/ Ends("accepted", p, <<p>>)
     \/ Ends("rejected", Nothing, <<>>)
     \/ \E by \in {<<>>, <<p>>} : Ends("RemoteInvocationFailed", Nothing, by)

Return ==
  /\ invocation.step = "answered"
  /\ invocation' = NoCall /\ completed' = <<>>
  /\ UNCHANGED <<presenceClock, registered, mode, directory, handlers, leading>>

-----------------------------------------------------------------------------
(* The environment: the guard's lease (granted as in ServiceLeadership:   *)
(* nobody else's while it runs) and the clock.                             *)

LeaseGranted(i) ==
  LET core == CoreIdentity[i].core IN
  /\ leading # Nothing /\ leading.expires > presenceClock => leading.holder = core
  /\ CoreIdentity[i].cluster = CoreIdentity[Here].cluster
  /\ leading' = [holder |-> core, expires |-> presenceClock + LeaseTerm]
  /\ UNCHANGED <<presenceClock, registered, mode, directory, handlers, invocation, completed>>

PresenceTick ==
  /\ presenceClock < MaxPresenceTime
  /\ presenceClock' = presenceClock + 1
  /\ UNCHANGED <<registered, mode, directory, handlers, leading, invocation, completed>>

RoutingNext ==
  \/ \E i \in Instances : Register(i) \/ Heartbeats(i) \/ LeaseGranted(i)
  \/ HeartbeatOffline \/ Recovers
  \/ DiscoverPeers
  \/ \E d \in Offered : RegisterHandler(d)
  \/ \E ask \in CapabilityAsks : AuthorizeLocal(ask)
  \/ \E ask \in CapabilityAsks, operation \in {"handle", "handle_local"}, healthy \in BOOLEAN :
       Resolve(ask, operation, healthy)
  \/ HandleHere \/ AnswerForRemote \/ InvokeUnsupported \/ InvokeRemote \/ Return
  \/ PresenceTick

RoutingSpec == RoutingInit /\ [][RoutingNext]_routingVars

-----------------------------------------------------------------------------
\* Whoever handle answers for completed the request, once, and nobody else
\* did: a core of the tenant and cluster that the server had heard of lately,
\* the host itself for a Local capability, the leader for one that needs the
\* leader.  Only a failed invocation leaves open whether the provider did it.
CompletedByTheProvider ==
  invocation.step = "answered" /\ invocation.call.step = "resolved" =>
    LET call == invocation.call
        who == CoreIdentity[call.provider] IN
    /\ invocation.result = "accepted" /\ ~(call.operation = "handle_local" /\ call.provider # Here)
         => completed = <<invocation.provider>>
    /\ invocation.result \notin {"accepted", "RemoteInvocationFailed"} => completed = <<>>
    /\ completed # <<>> =>
         /\ completed = <<call.provider>>
         /\ call.recent
         /\ who.tenant = CoreIdentity[Here].tenant
         /\ call.descriptor.visibility = "local" => call.provider = Here
         /\ call.descriptor.visibility = "cluster" => who.cluster = CoreIdentity[Here].cluster
         /\ call.descriptor.leader => call.leads
=============================================================================
