------------------------------- MODULE Gateway ------------------------------
(***************************************************************************)
(* The gateway (appcore-gateway/src): worker and client sockets            *)
(* (service.rs, authorization.rs, socket.rs, tenant.rs, registry.rs), the  *)
(* pruner (heartbeat.rs) and the routing of requests to workers and of     *)
(* their answers back (router.rs, mesh.rs).                                *)
(*                                                                         *)
(* A socket stands for one connection and its generation; a request for    *)
(* one task, of a client's socket or of the mesh relay.  What runs between *)
(* two awaits or under the tenants' lock is a step.  Messages between a    *)
(* worker and its socket keep their order; a worker may answer late,       *)
(* twice, or never.                                                        *)
(***************************************************************************)
EXTENDS Integers, Sequences, FiniteSets, Functions

CONSTANTS
  Sockets, Profile,   \* worker connections: [tenant, cluster, installation, core,
                      \*   capabilities, token]
  Clients, Session,   \* client connections: [tenant, cluster, token]
  Requests, Calls,    \* what requests may ask: functions to [kind, client, path, tenant, cluster, core, capability, id,
                      \*   version, lapsed, digestMatches, size, limit]
  MaxWorkers, MaxConnections, MaxPending, MaxSlots, MaxBytes, Buffer,
  AnswerSize,         \* per request: the size of the worker's answer
  Nobody

\* Each connection is one of finitely many, and no value for none of them.
GatewayAssumption == IsFiniteSet(Sockets) /\ Nobody \notin Sockets

VARIABLES
  socket,      \* per worker connection: its place in the connection's life
  clientSocket,
  workers,     \* the sockets in TenantState.workers
  registry,    \* CapabilityRegistry: set of <<key, capability>>
  spent,       \* connection credentials the replay store has recorded
  activeWorkers, \* GatewayMetrics
  silent,      \* sockets whose last message is older than heartbeat_timeout
  task,        \* per request: [at, worker]
  reply,       \* per request: what its caller gets
  pending,     \* key -> the request whose channel waits under it
  metadata,    \* key -> PendingMetadata: [generation, limit]
  outbox,      \* per socket: the writer's channel
  todo,        \* per socket: requests its worker has received
  inbox,       \* per socket: answers on their way to the gateway
  stopping,    \* the shutdown flag
  call         \* per request: what it asks, chosen at the start

socketVars == <<socket, clientSocket, workers, registry, spent, activeWorkers, silent>>
routeVars == <<task, reply, pending, metadata>>
wireVars == <<outbox, todo, inbox>>
gatewayVars == <<socketVars, routeVars, wireVars, stopping, call>>

Key(s) == <<Profile[s].tenant, Profile[s].installation, Profile[s].core>>
Slot(q) == <<call[q].tenant, call[q].id, call[q].kind>>

NoReply == [outcome |-> "none", from |-> Nobody, of |-> Nobody]
Rejected(reason) == [outcome |-> reason, from |-> Nobody, of |-> Nobody]
Finished == {"done", "aborted"}

GatewayInit ==
  /\ socket = [s \in Sockets |-> "new"]
  /\ clientSocket = [c \in Clients |-> "new"]
  /\ workers = {} /\ registry = {} /\ spent = {}
  /\ activeWorkers = 0
  /\ silent = {}
  /\ task = [q \in Requests |-> [at |-> "new", worker |-> Nobody]]
  /\ reply = [q \in Requests |-> NoReply]
  /\ pending = <<>> /\ metadata = <<>>
  /\ outbox = [s \in Sockets |-> <<>>]
  /\ todo = [s \in Sockets |-> {}]
  /\ inbox = [s \in Sockets |-> <<>>]
  /\ stopping = FALSE
  /\ call \in Calls

-----------------------------------------------------------------------------
(* Connections.                                                            *)

\* authenticate_connection: a credential opens one connection.
Authenticates(token) == ~stopping /\ token \notin spent

OpenClients == {c \in Clients : clientSocket[c] = "open"}
ConnectionCount == Cardinality(workers) + Cardinality(OpenClients)

\* add_worker replaces the connection under its key.
Replaced(s) == {r \in workers : Key(r) = Key(s)}
WorkerFits(s) ==
  /\ ConnectionCount < MaxConnections
  /\ \/ Replaced(s) # {}
     \/ Cardinality({r \in workers : Profile[r].tenant = Profile[s].tenant}) < MaxWorkers

Deregistered(key) == {entry \in registry : entry[1] # key}
Advertised(s) == {<<Key(s), capability>> : capability \in Profile[s].capabilities}

WorkerConnects(s) ==
  /\ socket[s] = "new"
  /\ Authenticates(Profile[s].token)
  /\ spent' = spent \cup {Profile[s].token}
  /\ IF WorkerFits(s)
     THEN /\ socket' = [socket EXCEPT ![s] = "open"]
          /\ workers' = (workers \ Replaced(s)) \cup {s}
          /\ registry' = Deregistered(Key(s)) \cup Advertised(s)
          /\ activeWorkers' = IF Replaced(s) = {} THEN activeWorkers + 1 ELSE activeWorkers
     ELSE /\ socket' = [socket EXCEPT ![s] = "closed"]
          /\ UNCHANGED <<workers, registry, activeWorkers>>
  /\ UNCHANGED <<clientSocket, silent, routeVars, wireVars, stopping, call>>

Refuse(s) == socket' = [socket EXCEPT ![s] = "closed"]

\* A spent credential, or the gateway is stopping: the upgrade is refused.
WorkerRefused(s) ==
  /\ socket[s] = "new"
  /\ ~Authenticates(Profile[s].token)
  /\ Refuse(s)
  /\ UNCHANGED <<clientSocket, workers, registry, spent, activeWorkers, silent, routeVars,
                 wireVars, stopping, call>>

\* Slip: whichever connection is under the key is removed.
RemoveAny(s) ==
  /\ workers' = workers \ Replaced(s)
  /\ registry' = Deregistered(Key(s))
  /\ activeWorkers' = IF activeWorkers > 0 THEN activeWorkers - 1 ELSE 0

\* remove_worker_if_current, and the count only if it was.
RemoveIfCurrent(s) ==
  IF s \in workers
  THEN /\ workers' = workers \ {s}
       /\ registry' = Deregistered(Key(s))
       /\ activeWorkers' = IF activeWorkers > 0 THEN activeWorkers - 1 ELSE 0
  ELSE UNCHANGED <<workers, registry, activeWorkers>>

\* The socket's loop ends: its channel closes, and nothing more is read.
Closes(s) ==
  /\ socket' = [socket EXCEPT ![s] = "closed"]
  /\ RemoveIfCurrent(s)
  /\ outbox' = [outbox EXCEPT ![s] = <<>>]
  /\ inbox' = [inbox EXCEPT ![s] = <<>>]
  /\ silent' = silent \ {s}

\* The worker hangs up, its session expires, the gateway stops, or nothing came
\* for heartbeat_timeout.
SocketEnds(s) ==
  /\ socket[s] = "open"
  /\ Closes(s)
  /\ UNCHANGED <<clientSocket, spent, routeVars, todo, stopping, call>>

GoesSilent(s) ==
  /\ socket[s] = "open" /\ s \notin silent
  /\ silent' = silent \cup {s}
  /\ UNCHANGED <<socket, clientSocket, workers, registry, spent, activeWorkers, routeVars,
                 wireVars, stopping, call>>

\* A heartbeat or a ping that was read in time.
Heartbeat(s) ==
  /\ socket[s] = "open" /\ s \in silent
  /\ silent' = silent \ {s}
  /\ UNCHANGED <<socket, clientSocket, workers, registry, spent, activeWorkers, routeVars,
                 wireVars, stopping, call>>

\* The pruner takes the worker out of the tenant; its socket stays as it is.
Prune(s) ==
  /\ ~stopping
  /\ s \in workers \cap silent
  /\ RemoveIfCurrent(s)
  /\ UNCHANGED <<socket, clientSocket, spent, silent, routeVars, wireVars, stopping, call>>

ClientConnects(c) ==
  /\ clientSocket[c] = "new"
  /\ LET admitted == Authenticates(Session[c].token)
     IN /\ spent' = IF admitted THEN spent \cup {Session[c].token} ELSE spent
        /\ clientSocket' = [clientSocket EXCEPT
             ![c] = IF admitted /\ ConnectionCount < MaxConnections THEN "open" ELSE "closed"]
  /\ UNCHANGED <<socket, workers, registry, activeWorkers, silent, routeVars, wireVars, stopping, call>>

-----------------------------------------------------------------------------
(* Requests.                                                               *)

\* A health or manifest request of the relay carries no envelope.
HasEnvelope(q) == call[q].path = "envelope"

\* validate_routing_envelope; for the relay validate_schema.
RequestFault(q) ==
  IF call[q].version # 1 THEN "protocol_version_unsupported"
  ELSE IF call[q].kind = "client" /\ call[q].lapsed THEN "envelope_expired"
  ELSE IF HasEnvelope(q) /\ ~call[q].digestMatches THEN "body_hash_invalid"
  ELSE IF call[q].size > MaxBytes THEN "payload_too_large"
  ELSE IF call[q].kind = "mesh" /\ call[q].limit \notin 1..MaxBytes THEN "payload_too_large"
  ELSE "none"

\* handle_client_message: the session's boundary and the process's slots.
InFlight == {q \in Requests : call[q].kind = "client" /\ task[q].at \notin {"new"} \cup Finished}
ClientFault(q) ==
  LET session == Session[call[q].client] IN
  IF call[q].kind = "mesh" THEN "none"
  ELSE IF call[q].tenant # session.tenant \/ call[q].cluster # session.cluster
  THEN "session_boundary_violation"
  ELSE IF Cardinality(InFlight) >= MaxSlots THEN "gateway_overloaded"
  ELSE "none"

Arrives(q) ==
  /\ task[q].at = "new"
  /\ IF call[q].kind = "client" THEN clientSocket[call[q].client] = "open" ELSE ~stopping

\* The worker found by its core serves the request's cluster and capability.
Compatible(s, q) ==
  HasEnvelope(q) =>
    /\ Profile[s].cluster = call[q].cluster
    /\ <<Key(s), call[q].capability>> \in registry

OfCore(q) == {s \in workers : Profile[s].tenant = call[q].tenant /\ Profile[s].core = call[q].core}

PendingCount(q) ==
  Cardinality({k \in DOMAIN pending : k[1] = call[q].tenant /\ k[3] = call[q].kind})

Refusal(q, s) ==
  IF RequestFault(q) # "none" THEN RequestFault(q)
  ELSE IF s = Nobody THEN "worker_unavailable"
  ELSE IF ~Compatible(s, q) THEN "worker_unavailable"
  ELSE IF PendingCount(q) >= MaxPending \/ Slot(q) \in DOMAIN pending
  THEN "pending_request_rejected"
  ELSE "none"

Done(q, outcome) ==
  /\ task' = [task EXCEPT ![q].at = "done"]
  /\ reply' = [reply EXCEPT ![q] = Rejected(outcome)]

Entered(table, key, v) ==
  [k \in DOMAIN table \cup {key} |-> IF k = key THEN v ELSE table[k]]

\* The section under the tenants' lock; any worker of the core may be found.
RouteRequest(q) ==
  /\ Arrives(q)
  /\ \E s \in IF OfCore(q) = {} THEN {Nobody} ELSE OfCore(q) :
       IF ClientFault(q) # "none" \/ Refusal(q, s) # "none"
       THEN /\ Done(q, IF ClientFault(q) # "none" THEN ClientFault(q) ELSE Refusal(q, s))
            /\ UNCHANGED <<pending, metadata>>
       ELSE /\ task' = [task EXCEPT ![q] = [at |-> "forward", worker |-> s]]
            /\ pending' = Entered(pending, Slot(q), q)
            /\ metadata' = Entered(metadata, Slot(q), [generation |-> s, limit |-> call[q].limit])
            /\ UNCHANGED reply
  /\ UNCHANGED <<socketVars, wireVars, stopping, call>>

\* cleanup_pending_request removes what is under the id, whoever put it there.
Cleanup(q) ==
  /\ pending' = Restrict(pending, DOMAIN pending \ {Slot(q)})
  /\ metadata' = Restrict(metadata, DOMAIN metadata \ {Slot(q)})

\* try_send: refused when the socket is gone or its buffer is full; a first
\* cleanup then, and PendingCleanup's when the task returns.
Forward(q) ==
  LET s == task[q].worker IN
  /\ task[q].at = "forward"
  /\ IF socket[s] = "open" /\ Len(outbox[s]) < Buffer
     THEN /\ outbox' = [outbox EXCEPT ![s] = Append(@, q)]
          /\ task' = [task EXCEPT ![q].at = "waiting"]
          /\ UNCHANGED <<reply, pending, metadata>>
     ELSE /\ Cleanup(q)
          /\ task' = [task EXCEPT ![q].at = "returning"]
          /\ reply' = [reply EXCEPT ![q] = Rejected("forward_failed")]
          /\ UNCHANGED outbox
  /\ UNCHANGED <<socketVars, todo, inbox, stopping, call>>

Returns(q) ==
  /\ task[q].at = "returning"
  /\ Cleanup(q)
  /\ task' = [task EXCEPT ![q].at = "done"]
  /\ UNCHANGED <<socketVars, reply, wireVars, stopping, call>>

\* The timeout, or the shutdown.
GivesUp(q) ==
  /\ task[q].at = "waiting"
  /\ Done(q, IF stopping THEN "gateway_shutting_down" ELSE "worker_response_timeout")
  /\ Cleanup(q)
  /\ UNCHANGED <<socketVars, wireVars, stopping, call>>

HoldsChannel(q) == Slot(q) \in DOMAIN pending /\ pending[Slot(q)] = q

\* The channel was dropped by another's cleanup.
LosesChannel(q) ==
  /\ task[q].at = "waiting"
  /\ ~HoldsChannel(q)
  /\ Done(q, "worker_connection_lost")
  /\ Cleanup(q)
  /\ UNCHANGED <<socketVars, wireVars, stopping, call>>

\* The answer is in the channel; the task resumes and cleans up.
Resumes(q) ==
  /\ task[q].at = "answered"
  /\ task' = [task EXCEPT ![q].at = "done"]
  /\ Cleanup(q)
  /\ UNCHANGED <<socketVars, reply, wireVars, stopping, call>>

\* The client's socket ends: its tasks are aborted, PendingCleanup runs for each.
ClientEnds(c) ==
  LET aborted == {q \in Requests : /\ call[q].kind = "client" /\ call[q].client = c
                                   /\ task[q].at \notin {"new"} \cup Finished}
      gone == {Slot(q) : q \in aborted}
  IN /\ clientSocket[c] = "open"
     /\ clientSocket' = [clientSocket EXCEPT ![c] = "closed"]
     /\ task' = [q \in Requests |->
                   IF q \in aborted THEN [task[q] EXCEPT !.at = "aborted"] ELSE task[q]]
     /\ pending' = Restrict(pending, DOMAIN pending \ gone)
     /\ metadata' = Restrict(metadata, DOMAIN metadata \ gone)
     /\ UNCHANGED <<socket, workers, registry, spent, activeWorkers, silent, reply, wireVars,
                    stopping, call>>

-----------------------------------------------------------------------------
(* Workers.                                                                *)

\* The writer's task puts a message on the wire.
Delivered(s) ==
  /\ outbox[s] # <<>>
  /\ todo' = [todo EXCEPT ![s] = @ \cup {Head(outbox[s])}]
  /\ outbox' = [outbox EXCEPT ![s] = Tail(@)]
  /\ UNCHANGED <<socketVars, routeVars, inbox, stopping, call>>

\* A worker answers a request it has received, and may answer it again.
WorkerAnswers(s, q, again) ==
  /\ q \in todo[s] /\ socket[s] = "open" /\ inbox[s] = <<>>
  /\ inbox' = [inbox EXCEPT ![s] = Append(@, q)]
  /\ todo' = [todo EXCEPT ![s] = IF again THEN @ ELSE @ \ {q}]
  /\ UNCHANGED <<socketVars, routeVars, outbox, stopping, call>>

\* Slip: any connection may answer.
AcceptsFromAnyone(s, q) == Slot(q) \in DOMAIN metadata

\* dispatch_worker_response, dispatch_worker_mesh_response: the answer to q, from s.
Accepts(s, q) ==
  /\ Slot(q) \in DOMAIN metadata
  /\ metadata[Slot(q)].generation = s
  /\ call[q].kind = "mesh" => AnswerSize[q] <= metadata[Slot(q)].limit

\* An answer nobody waits for ends the worker's socket.
HandleAnswer(s) ==
  /\ socket[s] = "open" /\ inbox[s] # <<>>
  /\ LET q == Head(inbox[s]) IN
     IF Accepts(s, q)
     THEN /\ LET owner == pending[Slot(q)] IN
               /\ task' = [task EXCEPT ![owner].at = "answered"]
               /\ reply' = [reply EXCEPT ![owner] = [outcome |-> "ok", from |-> s, of |-> q]]
          /\ Cleanup(q)
          /\ inbox' = [inbox EXCEPT ![s] = Tail(@)]
          /\ silent' = silent \ {s}
          /\ UNCHANGED <<socket, workers, registry, activeWorkers, outbox>>
     ELSE Closes(s) /\ UNCHANGED routeVars
  /\ UNCHANGED <<clientSocket, spent, todo, stopping, call>>

RequestShutdown ==
  /\ ~stopping
  /\ stopping' = TRUE
  /\ UNCHANGED <<socketVars, routeVars, wireVars, call>>

TaskStep(q) == Forward(q) \/ Returns(q) \/ GivesUp(q) \/ LosesChannel(q) \/ Resumes(q)

GatewayNext ==
  \/ \E s \in Sockets : \/ WorkerConnects(s) \/ WorkerRefused(s) \/ SocketEnds(s)
                        \/ GoesSilent(s) \/ Heartbeat(s) \/ Prune(s)
                        \/ Delivered(s) \/ HandleAnswer(s)
  \/ \E s \in Sockets, q \in Requests, again \in BOOLEAN : WorkerAnswers(s, q, again)
  \/ \E c \in Clients : ClientConnects(c) \/ ClientEnds(c)
  \/ \E q \in Requests : RouteRequest(q) \/ TaskStep(q)
  \/ RequestShutdown

GatewaySpec == GatewayInit /\ [][GatewayNext]_gatewayVars

-----------------------------------------------------------------------------
(* Properties.                                                             *)

\* "A worker response is accepted only from the selected connection generation"
\* (the guide): a caller is answered by the very connection its request was sent
\* to, under its own id and tenant, whatever was replaced, pruned or answered late.
AnswersComeFromTheWorkerAsked ==
  \A q \in Requests : reply[q].outcome = "ok" =>
    /\ reply[q].from = task[q].worker
    /\ Slot(reply[q].of) = Slot(q)

(* One connection per key, the capabilities those of the connections, and  *)
(* nothing pending without a task that waits for it.                       *)
TablesAgree ==
  /\ DOMAIN pending = DOMAIN metadata
  /\ \A k \in DOMAIN pending : task[pending[k]].at \in {"forward", "waiting"}
  /\ activeWorkers = Cardinality(workers)
  /\ registry = UNION {Advertised(s) : s \in workers}
  /\ \A r, s \in workers : Key(r) = Key(s) => r = s

\* Replacement, the late end of a replaced socket and the pruner leave the table of
\* workers, the capabilities and the count agreeing; a worker leaves the table only
\* when its own socket closes, it is silent, or a connection of its key takes its
\* place (remove_worker_if_current); and nothing stays in the tables of a tenant once
\* its task is gone, failed sends and ids used twice included (PendingCleanup).
TablesAreAccounted ==
  /\ []TablesAgree
  /\ [][\A s \in workers \ workers' :
          \/ socket'[s] = "closed" \/ s \in silent
          \/ \E r \in workers' \ workers : Key(r) = Key(s)]_gatewayVars
=============================================================================
