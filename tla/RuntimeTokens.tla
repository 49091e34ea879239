---------------------------- MODULE RuntimeTokens ---------------------------
(***************************************************************************)
(* Runtime tokens (appcore-security/src/token.rs, hashtoken.rs,            *)
(* request_hash.rs).  A token is a record                                  *)
(*   [purpose, name, scope, subject, expires, jti, hash,                   *)
(*    key, audience, intact]                                               *)
(* of its claims, the key and audience it was signed under, and whether    *)
(* the bytes presented are still those that were signed.  "-" is an absent *)
(* field.  A request hash is the tuple of what it covers: the framing      *)
(* gives every tuple a hash of its own.                                    *)
(***************************************************************************)
EXTENDS Naturals, Sequences

Absent == "-"
NoHash == <<>>
LocalAdmin == "local-admin"
Wildcard(scope, subject) == scope = "*" /\ subject = LocalAdmin

\* validate_generated_claims: the combinations the factory issues.
Generable(purpose, name, scope, subject) ==
  CASE purpose \in {"command", "query"} ->
         Wildcard(scope, subject) \/ (name # Absent /\ scope = Absent)
    [] purpose = "sync" -> name = Absent /\ scope = Absent
    [] purpose = "peer" -> Wildcard(scope, subject) \/ (name = Absent /\ scope = Absent)
    [] OTHER -> FALSE

\* create_v1_with_jti_and_hash, signed with the active key.
Token(grant, key, now) ==
  [purpose |-> grant.purpose, name |-> grant.name, scope |-> grant.scope,
   subject |-> grant.subject, expires |-> now + grant.ttl, jti |-> grant.jti,
   hash |-> grant.hash, key |-> key, audience |-> grant.audience, intact |-> TRUE]

\* compute_request_hash.
RequestHash(purpose, name, id, key, payload, subject, audience) ==
  <<purpose, name, id, key, payload, subject, audience>>

\* verify: the signature names its key, and carries payload, issuer and audience.
SignatureHolds(token, validates, audience) ==
  token.intact /\ validates /\ token.audience = audience

\* validate_claim_scope.
ScopeVerdict(token, name) ==
  LET named == token.purpose \in {"command", "query"} IN
  IF token.scope = "*" /\ token.purpose # "sync"
  THEN IF token.subject = LocalAdmin THEN "ok" ELSE "unauthorized"
  ELSE IF token.scope # Absent THEN "unauthorized"
  ELSE IF named /\ (token.name = Absent \/ name = Absent) THEN "unauthorized"
  ELSE IF named /\ token.name # name THEN "forbidden"
  ELSE IF ~named /\ token.name # Absent THEN "unauthorized"
  ELSE "ok"

\* A bound token needs the request it is bound to.
HashVerdict(token, expected) ==
  IF token.hash = NoHash THEN "ok"
  ELSE IF expected = NoHash THEN "unauthorized"
  ELSE IF token.hash # expected THEN "forbidden"
  ELSE "ok"

\* validate_and_get_claims.
TokenVerdict(token, validates, audience, purpose, name, now, expected) ==
  IF ~SignatureHolds(token, validates, audience) THEN "unauthorized"
  ELSE IF token.purpose # purpose \/ token.expires <= now THEN "unauthorized"
  ELSE IF ScopeVerdict(token, name) # "ok" THEN ScopeVerdict(token, name)
  ELSE HashVerdict(token, expected)
=============================================================================
