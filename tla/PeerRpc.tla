------------------------------- MODULE PeerRpc ------------------------------
(***************************************************************************)
(* Peer RPC (appcore-peer-rpc/src): a client that signs and retries calls  *)
(* (client.rs, authentication.rs, transport.rs), a network that loses,     *)
(* repeats and delays, and a host that authenticates, validates, records   *)
(* the nonce and dispatches (host.rs, validation.rs), over one of the      *)
(* three nonce stores (nonce.rs, replay.rs).                               *)
(*                                                                         *)
(* A nonce is a call and an attempt.  Times are ticks of the host's clock; *)
(* the client's runs Skew ahead.                                           *)
(***************************************************************************)
EXTENDS Integers, Sequences, FiniteSets

CONSTANTS
  PeerCalls, Kinds,   \* what the calls may be: functions to [probe, command, keyed, encoding,
                      \*   identifiers, tenant, cluster, target, protocol, payload, digest, trace]
  Here,               \* the host: [tenant, cluster, target, protocol, maxPayload]
  Stores,             \* kinds of nonce store to consider: memory, file, bounded
  MaxPeerTries, EnvelopeTtl, NonceWindow, NonceStoreTtl, CleanupInterval, MaxNonces,
  Skew, MaxClock      \* MaxClock bounds the behaviours

VARIABLES
  clock,
  kind,        \* one of Kinds
  attempt,     \* per call: [at, number]; at is idle, waiting, backoff, done
  cancelled,   \* the client's cancellation token
  wire,        \* envelopes on the network; they may arrive any number of times
  answers,     \* responses a waiting client may still receive: [nonce, status]
  storeKind, lastCleanup,
  nonces,      \* the host's store: known nonces and their expiry
  order,       \* MemoryState.order: the memory store's nonces as they came in
  accepted,    \* recorded envelopes waiting for the dispatcher
  dispatched   \* history: per nonce, how often the dispatcher ran

peerVars == <<clock, kind, attempt, cancelled, wire, answers, storeKind, nonces, order,
              lastCleanup, accepted, dispatched>>
hostVars == <<storeKind, nonces, order, lastCleanup, accepted, dispatched>>

\* Clocks agree, a call is tried at least once, and an envelope lives no longer
\* than the window and the bounded store's ttl (a minute: the defaults of client
\* and store, and the window the host's tests configure).
PeerAssumption ==
  /\ Skew = 0
  /\ MaxPeerTries \in Nat \ {0}
  /\ {EnvelopeTtl, NonceWindow, NonceStoreTtl} \subseteq Nat
  /\ EnvelopeTtl <= NonceWindow /\ EnvelopeTtl <= NonceStoreTtl

AllNonces == PeerCalls \X (1..MaxPeerTries)
Min2(a, b) == IF a < b THEN a ELSE b

PeerInit ==
  /\ clock = 0 /\ kind \in Kinds
  /\ attempt = [c \in PeerCalls |-> [at |-> "idle", number |-> 0]]
  /\ cancelled = FALSE
  /\ wire = {} /\ answers = {}
  /\ storeKind \in Stores /\ nonces = <<>> /\ order = <<>> /\ lastCleanup = 0
  /\ accepted = {}
  /\ dispatched = [n \in AllNonces |-> 0]

-----------------------------------------------------------------------------
(* The client.                                                             *)

\* A command without an idempotency key is tried once.
AttemptsOf(c) == IF kind[c].command /\ ~kind[c].keyed THEN 1 ELSE MaxPeerTries

Nonce(c) == <<c, attempt[c].number>>

\* build_envelope: every attempt is stamped and signed anew, under a new nonce.
\* health and advertisement repeat the request they built, with its token.
Envelope(c) ==
  LET repeated == {e \in wire : e.call = c /\ kind[c].probe}
      issued == IF repeated = {} THEN clock + Skew ELSE (CHOOSE e \in repeated : TRUE).issued
  IN [nonce |-> <<c, attempt[c].number + 1>>, issued |-> issued,
      expires |-> issued + EnvelopeTtl, call |-> c]

Finish(c) == attempt' = [attempt EXCEPT ![c].at = "done"]

\* The connection of the attempt is closed: nobody reads its answers any more.
HangUp(c) == answers' = {a \in answers : a.nonce[1] # c}

\* call_peer_once, after the backoff of an earlier attempt.
SendAttempt(c) ==
  /\ attempt[c].at \in {"idle", "backoff"}
  /\ IF cancelled
     THEN Finish(c) /\ UNCHANGED wire
     ELSE /\ wire' = wire \cup {Envelope(c)}
          /\ attempt' = [attempt EXCEPT ![c].at = "waiting", ![c].number = @ + 1]
  /\ UNCHANGED <<clock, kind, cancelled, answers, hostVars>>

\* http_status_error and peer_error_is_retryable.
Retryable(status) == status \in {"unavailable", "timeout"}

\* call_peer; send_with_retry tries again whatever the error was.
Conclude(c, status) ==
  IF status = "ok" \/ ~(Retryable(status) \/ kind[c].probe) \/ attempt[c].number = AttemptsOf(c)
  THEN Finish(c)
  ELSE attempt' = [attempt EXCEPT ![c].at = "backoff"]

ReceiveAnswer(c) ==
  /\ attempt[c].at = "waiting"
  /\ \E a \in answers : a.nonce = Nonce(c) /\ Conclude(c, a.status)
  /\ HangUp(c)
  /\ UNCHANGED <<clock, kind, cancelled, wire, hostVars>>

\* The request or its answer is lost, late, or the client is cancelled.
TransportFails(c) ==
  /\ attempt[c].at = "waiting"
  /\ Conclude(c, "timeout")
  /\ HangUp(c)
  /\ UNCHANGED <<clock, kind, cancelled, wire, hostVars>>

CancelClient ==
  /\ ~cancelled
  /\ cancelled' = TRUE
  /\ UNCHANGED <<clock, kind, attempt, wire, answers, hostVars>>

-----------------------------------------------------------------------------
(* The nonce stores.                                                       *)

Live(n) == n \in DOMAIN nonces /\ nonces[n] > clock

\* retain_memory: expired nonces go from the front only, up to the first live one.
ExpiredFront == {i \in DOMAIN order : \A j \in 1..i : ~Live(order[j])}

Due == clock - lastCleanup >= CleanupInterval

\* The bounded store looks at its entries every cleanup interval, and when it is full.
CleansUp(n) == Due \/ (n \notin DOMAIN nonces /\ Cardinality(DOMAIN nonces) >= MaxNonces)

\* What the store keeps when a nonce is presented.
Retained(n) ==
  CASE storeKind = "memory" -> DOMAIN nonces \ {order[i] : i \in ExpiredFront}
    [] storeKind = "bounded" /\ ~CleansUp(n) -> DOMAIN nonces
    [] OTHER -> {m \in DOMAIN nonces : Live(m)}

RetainedOrder ==
  IF storeKind = "memory" THEN SubSeq(order, Cardinality(ExpiredFront) + 1, Len(order)) ELSE order

\* The expiry under which a nonce is stored.
StoredUntil(until) == IF storeKind = "bounded" THEN Min2(until, clock + NonceStoreTtl) ELSE until

\* The bounded store refuses what has expired before it looks.
Invalid(until) == storeKind = "bounded" /\ until <= clock

\* check_and_record.
Verdict(n, until) ==
  IF Invalid(until) THEN "bad_request"
  ELSE IF n \in Retained(n) THEN "bad_request"
  ELSE IF Cardinality(Retained(n)) >= MaxNonces THEN "unavailable"
  ELSE "ok"

RecordedNonce(n, until) == [m \in Retained(n) \cup {n} |-> IF m = n THEN until ELSE nonces[m]]

LastCleanup(n) == IF storeKind = "bounded" /\ CleansUp(n) THEN clock ELSE lastCleanup

\* The nonce is recorded behind what the store keeps.
RecordNonce(n, until) ==
  /\ nonces' = RecordedNonce(n, until)
  /\ order' = IF storeKind = "memory" THEN Append(RetainedOrder, n) ELSE order
  /\ lastCleanup' = LastCleanup(n)

\* The nonce is refused; the file store does not write what it dropped.
RefuseNonce(n, until) ==
  /\ nonces' = IF storeKind = "file" \/ Invalid(until) THEN nonces ELSE [m \in Retained(n) |-> nonces[m]]
  /\ order' = RetainedOrder
  /\ lastCleanup' = IF Invalid(until) THEN lastCleanup ELSE LastCleanup(n)

-----------------------------------------------------------------------------
(* The host.                                                               *)

\* authenticate: the credential is bound to the envelope and lives as long.
Authentic(e) == e.expires > clock

\* validate: the envelope's lifetime, and the window around its timestamp.
FreshNonce(e) ==
  /\ e.issued < e.expires /\ e.expires > clock
  /\ e.issued <= clock + NonceWindow
  /\ clock <= e.issued + NonceWindow

\* decode_peer_envelope, authenticate and validate, up to the nonce; the identifiers, the
\* digest of the payload and the trace are right or not.
PeerRefusal(e) ==
  LET k == kind[e.call] IN
  IF k.encoding \notin {"plain", "gzip"} THEN "bad_request"
  ELSE IF ~Authentic(e) THEN "unauthorized"
  ELSE IF k.probe THEN "ok"
  ELSE IF ~k.identifiers THEN "bad_request"
  ELSE IF k.payload > Here.maxPayload THEN "too_large"
  ELSE IF <<k.tenant, k.cluster, k.target>> # <<Here.tenant, Here.cluster, Here.target>>
  THEN "bad_request"
  ELSE IF k.protocol # Here.protocol THEN "conflict"
  ELSE IF ~FreshNonce(e) \/ ~k.digest \/ ~k.trace THEN "bad_request"
  ELSE "ok"

\* Slip: a nonce is kept for the envelope's age instead of the window.
KeptUntilShort(e) == Min2(e.expires, e.issued + 1)

\* The nonce is kept until the envelope expires, for a window at most.
KeptUntil(e) == Min2(e.expires, clock + NonceWindow)

Answer(n, status) ==
  answers' = IF attempt[n[1]].at = "waiting" /\ Nonce(n[1]) = n
             THEN answers \cup {[nonce |-> n, status |-> status]}
             ELSE answers

\* handle_peer_envelope up to the dispatcher, one envelope.
Arrive(e) ==
  /\ e \in wire
  /\ IF PeerRefusal(e) # "ok" \/ kind[e.call].probe
     THEN Answer(e.nonce, PeerRefusal(e)) /\ UNCHANGED hostVars
     ELSE LET verdict == Verdict(e.nonce, KeptUntil(e)) IN
       IF verdict = "ok"
       THEN /\ RecordNonce(e.nonce, StoredUntil(KeptUntil(e)))
            /\ accepted' = accepted \cup {e.nonce}
            /\ UNCHANGED <<answers, storeKind, dispatched>>
       ELSE /\ Answer(e.nonce, verdict)
            /\ RefuseNonce(e.nonce, KeptUntil(e))
            /\ UNCHANGED <<storeKind, accepted, dispatched>>
  /\ UNCHANGED <<clock, kind, attempt, cancelled, wire>>

\* persist fails: before the rename nothing is recorded, after it the nonce is.
PersistFails(e, renamed) ==
  /\ e \in wire /\ storeKind = "file" /\ ~kind[e.call].probe
  /\ PeerRefusal(e) = "ok" /\ Verdict(e.nonce, KeptUntil(e)) = "ok"
  /\ nonces' = IF renamed THEN RecordedNonce(e.nonce, KeptUntil(e)) ELSE nonces
  /\ Answer(e.nonce, "bad_request")
  /\ UNCHANGED <<clock, kind, attempt, cancelled, wire, storeKind, order, lastCleanup, accepted,
                 dispatched>>

\* spawn_blocking: the application's dispatcher answers, refuses or panics.
DispatchPeer(n, status) ==
  /\ n \in accepted
  /\ accepted' = accepted \ {n}
  /\ dispatched' = [dispatched EXCEPT ![n] = @ + 1]
  /\ Answer(n, status)
  /\ UNCHANGED <<clock, kind, attempt, cancelled, wire, storeKind, nonces, order, lastCleanup>>

\* A restarted host has the file store's nonces; the others live in the process.
HostRestarts ==
  /\ storeKind = "file" /\ accepted # {}
  /\ accepted' = {}
  /\ UNCHANGED <<clock, kind, attempt, cancelled, wire, answers, storeKind, nonces, order,
                 lastCleanup, dispatched>>

\* ReplayStore::cleanup.
CleanupStore ==
  /\ storeKind = "bounded" /\ \E n \in DOMAIN nonces : ~Live(n)
  /\ nonces' = [n \in {m \in DOMAIN nonces : Live(m)} |-> nonces[n]] /\ lastCleanup' = clock
  /\ UNCHANGED <<clock, kind, attempt, cancelled, wire, answers, storeKind, order, accepted,
                 dispatched>>

Advance ==
  /\ clock < MaxClock
  /\ clock' = clock + 1
  /\ UNCHANGED <<kind, attempt, cancelled, wire, answers, hostVars>>

PeerClientStep(c) == SendAttempt(c) \/ ReceiveAnswer(c) \/ TransportFails(c)

PeerNext ==
  \/ \E c \in PeerCalls : PeerClientStep(c)
  \/ CancelClient
  \/ \E e \in wire : Arrive(e) \/ \E renamed \in BOOLEAN : PersistFails(e, renamed)
  \/ \E n \in accepted, status \in {"ok", "bad_request", "unavailable"} : DispatchPeer(n, status)
  \/ HostRestarts \/ CleanupStore
  \/ Advance

PeerSpec == PeerInit /\ [][PeerNext]_peerVars

-----------------------------------------------------------------------------
(* Properties.                                                             *)

DispatchesOf(c) == Cardinality({k \in 1..MaxPeerTries : dispatched[<<c, k>>] > 0})

\* However often the network repeats an envelope and however late, the dispatcher
\* sees it once while clocks agree (Skew = 0), and a command without an
\* idempotency key runs once in all, whichever store remembers and though stores
\* drop what has expired (validation.rs, nonce.rs, replay.rs).
DispatchedAtMostOnce ==
  \A c \in PeerCalls :
    /\ \A k \in 1..MaxPeerTries : dispatched[<<c, k>>] <= 1
    /\ kind[c].command /\ ~kind[c].keyed => DispatchesOf(c) <= 1
=============================================================================
