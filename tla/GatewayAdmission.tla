-------------------------- MODULE GatewayAdmission --------------------------
(***************************************************************************)
(* Who gets a session at the gateway (appcore-gateway/src: config.rs,      *)
(* service.rs, authorization.rs, mesh.rs): the configuration of the        *)
(* deployment adapter, the identity read from a request, the credential    *)
(* bound to it and the replay store that makes the credential one-use.     *)
(*                                                                         *)
(* An identity is the tuple its connection hash covers; the framing of the *)
(* hash gives every tuple a hash of its own.  The signature is             *)
(* RuntimeTokens'.  The issuer's clock is the gateway's.                   *)
(***************************************************************************)
EXTENDS Naturals, Sequences, FiniteSets, Functions

CONSTANTS
  Adapters,        \* provider configurations: [provider, endpoint, secrets, settings,
                   \*   bind, suffix, interval, timeout, testing]; bind is "loopback" or "public"
  Attempts,        \* requests: [route, host, tenant, cluster, installation, core, device,
                   \*   capabilities, query, bearer, body, limit, timeout, mesh]
  Credentials,     \* by name: [bound, jti, lifetime]; bound is an identity or NoIdentity
  MaxCapabilities, MaxBody, MaxTimeout, CredentialTtl, StoreTtl,
  NoIdentity, None,
  MaxAdmissionTime, MaxTries   \* bounds

VARIABLES
  config,      \* GatewayConfig of the running gateway, or None
  issuedAt,    \* credential -> when it was issued
  replay,      \* jti -> when the replay store forgets it
  sessions,    \* history: [identity, credential] of the sessions opened, in order
  gatewayClock,
  tries

admissionVars == <<config, issuedAt, replay, sessions, gatewayClock, tries>>

Supported == {"bind_address", "domain_suffix", "heartbeat_interval_ms", "heartbeat_timeout_ms"}

\* validate_provider_shape and the required settings.
ShapeFits(a) ==
  /\ a.provider = "appcore-gateway" /\ ~a.endpoint /\ a.secrets = {}
  /\ a.settings \subseteq Supported
  /\ {"bind_address", "domain_suffix"} \subseteq a.settings

\* from_provider_config: heartbeats that are not set keep their defaults of 30 and 90 seconds.
Configured(a) ==
  [bind |-> a.bind, suffix |-> a.suffix, auth |-> TRUE,
   interval |-> IF "heartbeat_interval_ms" \in a.settings THEN a.interval ELSE 30,
   timeout |-> IF "heartbeat_timeout_ms" \in a.settings THEN a.timeout ELSE 90]

\* insecure_local_for_testing refuses any other address.
Insecure(c) == [c EXCEPT !.auth = c.bind # "loopback"]

\* GatewayConfig::validate.
ConfigHolds(c) ==
  /\ c.suffix # "malformed"
  /\ c.interval > 0 /\ c.timeout > c.interval
  /\ c.auth \/ c.bind = "loopback"

AdmissionInit ==
  /\ config = None
  /\ issuedAt = <<>> /\ replay = <<>> /\ sessions = <<>>
  /\ gatewayClock = 0 /\ tries = 0

Configure(a) ==
  /\ config = None /\ ShapeFits(a)
  /\ LET c == IF a.testing THEN Insecure(Configured(a)) ELSE Configured(a) IN
       ConfigHolds(c) /\ config' = c
  /\ UNCHANGED <<issuedAt, replay, sessions, gatewayClock, tries>>

-----------------------------------------------------------------------------
(* The identity a request claims.                                          *)

\* resolve_request_tenant: the label before the suffix, the query on loopback only.
TenantOf(r) ==
  IF r.host # None /\ r.host.suffix = config.suffix /\ r.host.label # None THEN r.host.label
  ELSE IF config.bind = "loopback" THEN r.tenant
  ELSE None

\* parse_capabilities: the count before duplicates go, and no malformed name.
CapabilitiesHold(r) == Len(r.capabilities) <= MaxCapabilities /\ "malformed" \notin Range(r.capabilities)

\* worker_connection_hash, client_connection_hash: NoIdentity when a part is missing.
WorkerIdentity(r) ==
  IF None \in {TenantOf(r), r.cluster, r.installation, r.core} \/ ~CapabilitiesHold(r) THEN NoIdentity
  ELSE <<"gateway.worker.v2", TenantOf(r), r.installation, Range(r.capabilities), r.core, r.cluster>>
ClientIdentity(r) ==
  IF None \in {TenantOf(r), r.cluster, r.device} THEN NoIdentity
  ELSE <<"gateway.client.v2", TenantOf(r), r.device, r.cluster>>

\* peer_envelope: the envelope inside names the request's id, tenant and core, and its
\* digest is its payload's.
EnvelopeFits(r) == r.mesh.names = <<r.mesh.id, r.tenant, r.core>> /\ r.mesh.digest

\* validate_schema and expected_request_hash: health and manifest carry no body.
MeshRoutes(r) ==
  /\ r.mesh.schema = 1 /\ r.mesh.id # None
  /\ r.body <= MaxBody /\ r.timeout \in 1..MaxTimeout /\ r.limit \in 1..MaxBody
  /\ \/ r.mesh.call \in {"GET health", "GET manifest"} /\ r.body = 0
     \/ r.mesh.call \in {"POST query", "POST command"} /\ EnvelopeFits(r)
MeshHash(r) ==
  IF r.mesh.call \in {"POST query", "POST command"} THEN <<"envelope", r.mesh.names>> ELSE NoIdentity

-----------------------------------------------------------------------------
(* Credentials.                                                            *)

\* A credential verifies until it expires; one bound to an identity needs that identity.
Verifies(token, identity) ==
  /\ token \in DOMAIN issuedAt
  /\ issuedAt[token] + Credentials[token].lifetime > gatewayClock
  /\ Credentials[token].bound \in {NoIdentity, identity}

Known(jti) == jti \in DOMAIN replay /\ replay[jti] > gatewayClock

\* Slip: a credential that is bound to nothing opens any session.
OpensAnything(token, identity) ==
  /\ Verifies(token, identity)
  /\ Credentials[token].jti # None
  /\ Credentials[token].lifetime \in 1..CredentialTtl
  /\ ~Known(Credentials[token].jti)

\* authenticate_connection, up to the record in the replay store.
Opens(token, identity) ==
  /\ Verifies(token, identity)
  /\ Credentials[token].jti # None
  /\ Credentials[token].bound = identity
  /\ Credentials[token].lifetime \in 1..CredentialTtl
  /\ ~Known(Credentials[token].jti)

\* The store keeps an identity until its expiry, for StoreTtl at most.
Recorded(token) ==
  LET expiry == issuedAt[token] + Credentials[token].lifetime
      kept == IF expiry < gatewayClock + StoreTtl THEN expiry ELSE gatewayClock + StoreTtl
  IN [j \in DOMAIN replay \cup {Credentials[token].jti} |->
        IF j = Credentials[token].jti THEN kept ELSE replay[j]]

Issue(token) ==
  /\ token \notin DOMAIN issuedAt
  /\ issuedAt' = [t \in DOMAIN issuedAt \cup {token} |-> IF t = token THEN gatewayClock ELSE issuedAt[t]]
  /\ UNCHANGED <<config, replay, sessions, gatewayClock, tries>>

-----------------------------------------------------------------------------
(* Requests.                                                               *)

Try == config # None /\ tries < MaxTries /\ tries' = tries + 1
NewSession(identity, token) == sessions' = Append(sessions, [identity |-> identity, credential |-> token])

\* worker_connect_handler and client_connect_handler with authenticate_upgrade: a credential
\* in the query is refused; without authentication anybody on the loopback gets a session.
Connect(r) ==
  LET identity == IF r.route = "worker" THEN WorkerIdentity(r) ELSE ClientIdentity(r) IN
  /\ Try /\ r.route \in {"worker", "client"}
  /\ identity # NoIdentity /\ r.query = None
  /\ \/ ~config.auth /\ NewSession(identity, None) /\ UNCHANGED replay
     \/ /\ config.auth /\ r.bearer # None /\ Opens(r.bearer, identity)
        /\ NewSession(identity, r.bearer)
        /\ replay' = Recorded(r.bearer)
  /\ UNCHANGED <<config, issuedAt, gatewayClock>>

\* mesh_peer_relay_handler with authenticate_mesh_request: the credential in the header is the
\* one that travels on; it may be used for every request it is bound to.
Relay(r) ==
  /\ Try /\ r.route = "mesh" /\ MeshRoutes(r)
  /\ config.auth =>
       /\ r.bearer # None /\ Verifies(r.bearer, MeshHash(r))
       /\ MeshHash(r) # NoIdentity => Credentials[r.bearer].bound = MeshHash(r)
       /\ r.mesh.forwarded = r.bearer
  /\ NewSession(MeshHash(r), IF config.auth THEN r.bearer ELSE None)
  /\ UNCHANGED <<config, issuedAt, replay, gatewayClock>>

GatewayTick ==
  /\ gatewayClock < MaxAdmissionTime
  /\ gatewayClock' = gatewayClock + 1
  /\ UNCHANGED <<config, issuedAt, replay, sessions, tries>>

AdmissionNext ==
  \/ \E a \in Adapters : Configure(a)
  \/ \E token \in DOMAIN Credentials : Issue(token)
  \/ \E r \in Attempts : Connect(r) \/ Relay(r)
  \/ GatewayTick

AdmissionSpec == AdmissionInit /\ [][AdmissionNext]_admissionVars

-----------------------------------------------------------------------------
(* Properties.                                                             *)

\* The replay store keeps an identity as long as a credential may live, a minute each
\* (GATEWAY_CONNECTION_TOKEN_TTL_MS, ReplayStoreConfig::default).
AdmissionAssumption == CredentialTtl \in Nat /\ StoreTtl \in Nat /\ CredentialTtl <= StoreTtl

Connections == {i \in DOMAIN sessions : sessions[i].identity # NoIdentity /\ sessions[i].identity[1] # "envelope"}

\* A gateway without authentication serves the loopback only; with it, every connection has
\* the identity its credential was bound to, and a credential opens one, though the store
\* forgets identities after StoreTtl (authenticate_connection, check_and_record).
AdmittedAsIssued ==
  /\ config # None => config.auth \/ config.bind = "loopback"
  /\ config # None /\ config.auth =>
       /\ \A i \in Connections : Credentials[sessions[i].credential].bound = sessions[i].identity
       /\ \A i, j \in Connections : sessions[i].credential = sessions[j].credential => i = j
=============================================================================
