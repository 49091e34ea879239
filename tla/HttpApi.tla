------------------------------- MODULE HttpApi ------------------------------
(***************************************************************************)
(* The HTTP API (appcore-api/src/http): status, query and command routes   *)
(* behind bearer tokens (auth.rs, handlers.rs, query.rs, command.rs),      *)
(* over the keyring whose keys sign them.  A request is authorised, then   *)
(* dispatched on a blocking thread, then audited: keys may be rotated and  *)
(* revoked in between.  What the controller does with a command is         *)
(* CommandDispatch's.                                                      *)
(***************************************************************************)
EXTENDS SecretKeyring, RuntimeTokens

CONSTANTS
  ApiRequests, Asks, \* what requests may ask: functions to [route, name, id, key, payload, size, token, trace]
  Grants,            \* what tokens are issued for, by name of the token
  HostKinds,         \* ways the host is set up: [auth, public, verifier, controller, policy]
  QueryRoutes,       \* names the application's router knows
  MaxPayload

VARIABLES
  host,       \* one of HostKinds
  ask,        \* one of Asks
  tokens,     \* name -> token, once issued
  exchange,   \* per request: [at, status, grant]; grant is the token it was admitted with
  audited     \* per request: its audit entries' outcomes

apiVars == <<keyringVars, host, ask, tokens, exchange, audited>>

ApiInit ==
  /\ KeyringInit
  /\ host \in HostKinds /\ ask \in Asks
  /\ tokens = <<>>
  /\ exchange = [r \in ApiRequests |-> [at |-> "new", status |-> 0, grant |-> Absent]]
  /\ audited = [r \in ApiRequests |-> <<>>]

RuntimeQueries == {"runtime.status", "runtime.sync", "runtime.idempotency", "runtime.audit",
                   "runtime.events"}

\* A token is issued with the key that is active then.
IssueToken(t) ==
  /\ t \notin DOMAIN tokens /\ ActiveKey # NoKey
  /\ Generable(Grants[t].purpose, Grants[t].name, Grants[t].scope, Grants[t].subject)
  /\ tokens' = [u \in DOMAIN tokens \cup {t} |->
                  IF u = t THEN Token(Grants[t], ActiveKey, keyClock) ELSE tokens[u]]
  /\ UNCHANGED <<keyringVars, host, ask, exchange, audited>>

-----------------------------------------------------------------------------
(* Authorisation.                                                          *)

\* extract_bearer_token; a token nobody issued does not verify.
Presented(r) == ask[r].token
Verify(r, purpose, name, expected) ==
  IF Presented(r) \notin DOMAIN tokens THEN "unauthorized"
  ELSE LET token == tokens[Presented(r)]
       IN TokenVerdict(token, Validates(token.key), "runtime", purpose, name, keyClock, expected)

Status(verdict) ==
  CASE verdict = "ok" -> 200 [] verdict = "forbidden" -> 403 [] OTHER -> 401

\* authorize_command, authorize_query.
BoundTo(r) ==
  RequestHash(ask[r].route, ask[r].name, ask[r].id,
              IF ask[r].route = "command" THEN ask[r].key ELSE Absent, ask[r].payload, Absent, Absent)
Authorize(r) ==
  IF ~host.auth THEN 200
  ELSE IF Presented(r) = Absent \/ ~host.verifier THEN 401
  ELSE Status(Verify(r, ask[r].route, ask[r].name, BoundTo(r)))

\* authorize_status: TRUE is the private answer, FALSE the public one.
StatusAnswer(r) ==
  LET verdict == IF Presented(r) = Absent \/ ~host.verifier THEN "unauthorized"
                 ELSE Verify(r, "query", "runtime.status", NoHash)
  IN IF verdict = "ok" THEN "private"
     ELSE IF host.public THEN "public"
     ELSE "refused"

\* authorize_private_status.
PrivateStatus(r, name) ==
  IF Presented(r) = Absent \/ ~host.verifier THEN 401
  ELSE Status(Verify(r, "query", name, NoHash))

-----------------------------------------------------------------------------
(* Requests.                                                               *)

\* CommandRequest::validate, QueryRequest::validate.
CommandFault(r) ==
  IF ask[r].name = Absent \/ ask[r].id = Absent THEN 400
  ELSE IF ask[r].name # "runtime.ping" /\ ask[r].key = Absent THEN 400
  ELSE IF ask[r].size > MaxPayload THEN 413
  ELSE 200
QueryFault(r) ==
  IF ask[r].name = Absent \/ ask[r].id = Absent THEN 400
  ELSE IF ask[r].size > MaxPayload THEN 413
  ELSE 200

\* map_policy_error, map_query_policy_error: the capability policy's refusals.
PolicyStatus(refusal) ==
  CASE refusal = "none" -> 200
    [] refusal = "missing_idempotency_key" -> 400
    [] refusal \in {"requires_leader", "leader_lease_expired", "leader_lease_stale_epoch"} -> 409
    [] OTHER -> 403

\* parse_limit: of runtime.audit and runtime.events; -1 is a limit that is no number.
LimitStatus(limit) == IF limit <= 0 THEN 400 ELSE 200

Audit(r, outcome) ==
  audited' = IF host.controller THEN [audited EXCEPT ![r] = Append(@, outcome)] ELSE audited

Answered(r, status) ==
  exchange' = [exchange EXCEPT ![r].at = "answered", ![r].status = status]
Admitted(r) ==
  exchange' = [exchange EXCEPT ![r].at = "dispatch", ![r].grant = Presented(r)]

\* command_handler up to spawn_blocking.
ReceiveCommand(r) ==
  /\ ask[r].route = "command" /\ exchange[r].at = "new"
  /\ CASE Authorize(r) # 200 -> Answered(r, Authorize(r)) /\ Audit(r, "rejected")
       [] Authorize(r) = 200 /\ ~host.controller -> Answered(r, 501) /\ UNCHANGED audited
       [] Authorize(r) = 200 /\ host.controller /\ ~ask[r].trace ->
            Answered(r, 400) /\ UNCHANGED audited
       [] OTHER -> Admitted(r) /\ UNCHANGED audited
  /\ UNCHANGED <<keyringVars, host, ask, tokens>>

\* dispatch_command_request: the contract, the policy, and the controller's answer.
DispatchCommand(r, outcome) ==
  /\ ask[r].route = "command" /\ exchange[r].at = "dispatch"
  /\ Answered(r, IF CommandFault(r) # 200 THEN CommandFault(r)
                 ELSE IF PolicyStatus(host.policy) # 200 THEN PolicyStatus(host.policy)
                 ELSE outcome)
  /\ UNCHANGED <<keyringVars, host, ask, tokens, audited>>

\* query_handler up to spawn_blocking: contract, trace, token, capability.
ReceiveQuery(r) ==
  /\ ask[r].route = "query" /\ exchange[r].at = "new"
  /\ LET application == ask[r].name \notin RuntimeQueries
         policy == IF application THEN PolicyStatus(host.policy) ELSE 200
     IN CASE QueryFault(r) # 200 -> Answered(r, QueryFault(r)) /\ UNCHANGED audited
          [] QueryFault(r) = 200 /\ ~ask[r].trace -> Answered(r, 400) /\ UNCHANGED audited
          [] QueryFault(r) = 200 /\ ask[r].trace /\ Authorize(r) # 200 ->
               Answered(r, Authorize(r)) /\ Audit(r, "rejected")
          [] QueryFault(r) = 200 /\ ask[r].trace /\ Authorize(r) = 200 /\ policy # 200 ->
               Answered(r, policy) /\ Audit(r, "rejected")
          [] OTHER -> Admitted(r) /\ UNCHANGED audited
  /\ UNCHANGED <<keyringVars, host, ask, tokens>>

\* dispatch_query_request: an unknown query is an answer that says so.
QueryOutcome(r) ==
  IF ask[r].name \in {"runtime.audit", "runtime.events"} THEN LimitStatus(ask[r].payload) ELSE 200

\* Slip: a dispatch that panics is not audited.
DispatchQueryUnaudited(r, panics) ==
  /\ ask[r].route = "query" /\ exchange[r].at = "dispatch"
  /\ Answered(r, IF panics THEN 500 ELSE QueryOutcome(r))
  /\ IF panics THEN UNCHANGED audited
     ELSE Audit(r, IF QueryOutcome(r) # 200 THEN "error"
                   ELSE IF ask[r].name \in RuntimeQueries \cup QueryRoutes
                        THEN "accepted" ELSE "rejected")
  /\ UNCHANGED <<keyringVars, host, ask, tokens>>

DispatchQuery(r, panics) ==
  /\ ask[r].route = "query" /\ exchange[r].at = "dispatch"
  /\ Answered(r, IF panics THEN 500 ELSE QueryOutcome(r))
  /\ Audit(r, IF panics \/ QueryOutcome(r) # 200 THEN "error"
              ELSE IF ask[r].name \in RuntimeQueries \cup QueryRoutes
                   THEN "accepted" ELSE "rejected")
  /\ UNCHANGED <<keyringVars, host, ask, tokens>>

\* status_handler, public_status_handler, private_status_handler, diagnostics_handler,
\* and the routes that were retired.
StatusCode(r) ==
  CASE ask[r].route = "status" ->
         IF StatusAnswer(r) # "refused" THEN 200
         ELSE IF Presented(r) # Absent /\ host.verifier
              THEN Status(Verify(r, "query", "runtime.status", NoHash)) ELSE 401
    [] ask[r].route = "public" -> IF host.public THEN 200 ELSE 401
    [] ask[r].route = "diagnostics" -> PrivateStatus(r, "runtime.diagnostics")
    [] ask[r].route = "retired" -> 426

ReadStatus(r) ==
  /\ exchange[r].at = "new"
  /\ ask[r].route \notin {"command", "query"}
  /\ Answered(r, StatusCode(r))
  /\ UNCHANGED <<keyringVars, host, ask, tokens, audited>>

ApiNext ==
  \/ KeyringNext /\ UNCHANGED <<host, ask, tokens, exchange, audited>>
  \/ \E t \in DOMAIN Grants : IssueToken(t)
  \/ \E r \in ApiRequests :
       \/ ReceiveCommand(r) \/ ReceiveQuery(r) \/ ReadStatus(r)
       \/ \E outcome \in {200, 409, 500} : DispatchCommand(r, outcome)
       \/ \E panics \in BOOLEAN : DispatchQuery(r, panics)

ApiSpec == ApiInit /\ [][ApiNext]_apiVars

-----------------------------------------------------------------------------
(* Properties.                                                             *)

\* What is dispatched behind authentication was granted: by a token for that very
\* route and name, or the local administrator's, and for that very request when the
\* token is bound to one; and every query past its contract is audited once, a
\* panic of its dispatch included.
DispatchedAsGranted ==
  \A r \in ApiRequests :
    /\ exchange[r].at = "dispatch" /\ host.auth =>
         LET grant == Grants[exchange[r].grant] IN
           /\ grant.purpose = ask[r].route
           /\ Wildcard(grant.scope, grant.subject) \/ grant.name = ask[r].name
           /\ grant.hash \in {NoHash, BoundTo(r)}
    /\ ask[r].route = "query" /\ exchange[r].at = "answered" /\ host.controller =>
         Len(audited[r]) = IF QueryFault(r) = 200 /\ ask[r].trace THEN 1 ELSE 0
=============================================================================
