------------------------------ MODULE MCNetwork -----------------------------
(***************************************************************************)
(* The network's side of a node: the gateway, its owner and its admission  *)
(* of sessions, peer RPC over the three nonce stores, and the HTTP API     *)
(* over the keyring.  A behaviour exercises the part its focus names; the  *)
(* others rest.                                                            *)
(***************************************************************************)
EXTENDS Gateway, GatewayRuntime, GatewayAdmission, PeerRpc, HttpApi, TLC

VARIABLE focus

-----------------------------------------------------------------------------
(* The gateway: two connections of one worker, one client, two requests    *)
(* that may use the same id.                                               *)

Workers ==
  [s \in {"s1", "s2"} |->
     [tenant |-> "t", cluster |-> "c", installation |-> "i", core |-> "k",
      capabilities |-> IF s = "s1" THEN {"run"} ELSE {"run", "stop"}, token |-> s]]
Client == [tenant |-> "t", cluster |-> "c", token |-> "client"]
ByClient ==
  [kind |-> "client", client |-> "u", path |-> "envelope", tenant |-> "t", cluster |-> "c",
   core |-> "k", capability |-> "run", id |-> 1, version |-> 1, lapsed |-> FALSE,
   digestMatches |-> TRUE, size |-> 1, limit |-> 1]
ByMesh == [ByClient EXCEPT !.kind = "mesh", !.client = Nobody]
Pairs ==
  { [q1 |-> ByClient, q2 |-> ByClient],
    [q1 |-> ByClient, q2 |-> [ByMesh EXCEPT !.path = "health", !.id = 2]],
    [q1 |-> [ByMesh EXCEPT !.capability = "stop"], q2 |-> [ByClient EXCEPT !.lapsed = TRUE]] }

Sessions == [u |-> Client]
OfSizeOne == [q1 |-> 1, q2 |-> 1]

-----------------------------------------------------------------------------
(* Admission: a worker, a client and a relayed request, right and wrong.   *)

Adapter ==
  [provider |-> "appcore-gateway", endpoint |-> FALSE, secrets |-> {},
   settings |-> {"bind_address", "domain_suffix"}, bind |-> "public", suffix |-> "gw.test",
   interval |-> 1, timeout |-> 2, testing |-> FALSE]
Deployments ==
  { Adapter, [Adapter EXCEPT !.bind = "loopback", !.testing = TRUE], [Adapter EXCEPT !.testing = TRUE],
    [Adapter EXCEPT !.bind = "loopback", !.settings = @ \cup {"heartbeat_timeout_ms"}],
    [Adapter EXCEPT !.provider = "other"], [Adapter EXCEPT !.suffix = "malformed"] }
Hosted(label) == [label |-> label, suffix |-> "gw.test"]
Plain ==
  [route |-> "worker", host |-> Hosted("t"), tenant |-> "t", cluster |-> "c", installation |-> "i",
   core |-> "k", device |-> None, capabilities |-> <<"run", "run">>, query |-> None,
   bearer |-> "worker", body |-> 0, limit |-> 1, timeout |-> 1,
   mesh |-> [schema |-> 1, id |-> "m", call |-> "POST query", names |-> <<"m", "t", "k">>,
             digest |-> TRUE, forwarded |-> "mesh"]]
Relayed == [Plain EXCEPT !.route = "mesh", !.bearer = "mesh", !.body = 1]
Arrivals ==
  { Plain, [Plain EXCEPT !.host = None], [Plain EXCEPT !.cluster = "d"], [Plain EXCEPT !.query = "worker"],
    [Plain EXCEPT !.bearer = "free"],
    [Plain EXCEPT !.capabilities = <<"run", "run", "stop">>], [Plain EXCEPT !.bearer = None],
    [Plain EXCEPT !.route = "client", !.device = "d", !.bearer = "client"],
    Relayed, [Relayed EXCEPT !.mesh.digest = FALSE], [Relayed EXCEPT !.tenant = "other"],
    [Relayed EXCEPT !.mesh.call = "GET health", !.body = 0, !.bearer = "free", !.mesh.forwarded = "free"] }
Issued ==
  [worker |-> [bound |-> <<"gateway.worker.v2", "t", "i", {"run"}, "k", "c">>, jti |-> "j1", lifetime |-> 2],
   client |-> [bound |-> <<"gateway.client.v2", "t", "d", "c">>, jti |-> "j2", lifetime |-> 2],
   mesh |-> [bound |-> <<"envelope", <<"m", "t", "k">>>>, jti |-> None, lifetime |-> 1],
   free |-> [bound |-> NoIdentity, jti |-> "j3", lifetime |-> 2]]

-----------------------------------------------------------------------------
(* Peer RPC: a command without an idempotency key, and one with.           *)

Command ==
  [probe |-> FALSE, command |-> TRUE, keyed |-> FALSE, encoding |-> "plain", identifiers |-> TRUE,
   tenant |-> "t", cluster |-> "c", target |-> "k", protocol |-> 1, payload |-> 1, digest |-> TRUE,
   trace |-> TRUE]
Health == [Command EXCEPT !.probe = TRUE, !.command = FALSE]
PairsOfCalls ==
  { [x |-> Command, y |-> [Command EXCEPT !.keyed = TRUE]],
    [x |-> [Command EXCEPT !.tenant = "u"], y |-> Health],
    [x |-> [Command EXCEPT !.protocol = 2], y |-> [Command EXCEPT !.trace = FALSE]] }
ThisPeer == [tenant |-> "t", cluster |-> "c", target |-> "k", protocol |-> 1, maxPayload |-> 1]

-----------------------------------------------------------------------------
(* The API: a command, a query and one of the other routes, three keys of  *)
(* which one expires and one is too short.                                 *)

Asked ==
  [route |-> "command", name |-> "do", id |-> "1", key |-> "idem", payload |-> 1, size |-> 1,
   token |-> "command", trace |-> TRUE]
AskedFor(route, name) == [Asked EXCEPT !.route = route, !.name = name, !.token = "query"]
Keys ==
  [k1 |-> [length |-> 1, expiry |-> 0], k2 |-> [length |-> 1, expiry |-> 2],
   k3 |-> [length |-> 0, expiry |-> 0]]
PairsOfRoutes ==
  { [r1 |-> Asked, r2 |-> AskedFor("query", "runtime.audit")],
    [r1 |-> AskedFor("query", "app.list"), r2 |-> [AskedFor("query", "runtime.status") EXCEPT !.size = 2]],
    [r1 |-> AskedFor("status", "-"), r2 |-> AskedFor("public", "-")],
    [r1 |-> AskedFor("diagnostics", "-"), r2 |-> AskedFor("retired", "-")] }
Granted ==
  [command |-> [purpose |-> "command", name |-> "do", scope |-> "-", subject |-> "-",
                ttl |-> 1, jti |-> "-", audience |-> "runtime",
                hash |-> <<"command", "do", "1", "idem", 1, "-", "-">>],
   query |-> [purpose |-> "query", name |-> "-", scope |-> "*", subject |-> "local-admin",
              ttl |-> 1, jti |-> "-", audience |-> "runtime", hash |-> <<>>]]
GuardedAndOpen ==
  { [auth |-> TRUE, public |-> FALSE, verifier |-> TRUE, controller |-> TRUE, policy |-> "none"],
    [auth |-> FALSE, public |-> TRUE, verifier |-> FALSE, controller |-> TRUE,
     policy |-> "requires_leader"] }

-----------------------------------------------------------------------------
\* The hypotheses of the theorems about the parts hold of this instance.
ASSUME PartsAssumption ==
  GatewayAssumption /\ RuntimeAssumption /\ AdmissionAssumption /\ KeyringAssumption /\ PeerAssumption

all == <<focus, gatewayVars, runtimeVars, admissionVars, peerVars, apiVars>>

\* A part that rests keeps the first of its initial states.
MCInit ==
  /\ focus \in {"gateway", "owner", "admission", "peer", "api"}
  /\ GatewayInit /\ (focus # "gateway" => call = CHOOSE c \in Pairs : TRUE)
  /\ RuntimeInit
  /\ AdmissionInit
  /\ PeerInit /\ (focus # "peer" => storeKind = "memory" /\ kind.x = Command)
  /\ ApiInit /\ (focus # "api" => host.auth /\ ask.r1 = Asked)

MCNext ==
  \/ /\ focus = "gateway" /\ GatewayNext
     /\ UNCHANGED <<focus, runtimeVars, admissionVars, peerVars, apiVars>>
  \/ /\ focus = "owner" /\ RuntimeNext
     /\ UNCHANGED <<focus, gatewayVars, admissionVars, peerVars, apiVars>>
  \/ /\ focus = "admission" /\ AdmissionNext
     /\ UNCHANGED <<focus, gatewayVars, runtimeVars, peerVars, apiVars>>
  \/ /\ focus = "peer" /\ PeerNext
     /\ UNCHANGED <<focus, gatewayVars, runtimeVars, admissionVars, apiVars>>
  \/ /\ focus = "api" /\ ApiNext
     /\ UNCHANGED <<focus, gatewayVars, runtimeVars, admissionVars, peerVars>>

MCSpec == MCInit /\ [][MCNext]_all
=============================================================================
