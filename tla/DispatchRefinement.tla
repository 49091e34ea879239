------------------------- MODULE DispatchRefinement -------------------------
(***************************************************************************)
(* CommandDispatch implements IdempotentKeys when completed records are    *)
(* kept (no ttl, and a file if the process can restart).  A key's slot is  *)
(* what the running process holds for it or, when the process is down,     *)
(* what the next one will load.                                            *)
(***************************************************************************)
EXTENDS CommandDispatch

CONSTANTS Free, Busy, NoAnswer

ASSUME SlotAssumption ==
  /\ Free # Busy
  /\ {Free, Busy} \cap
     [by : Requests, kind : ResultKinds, hash : Payloads] = {}
  /\ NoAnswer \notin [by : Requests, kind : ResultKinds]

Held(k) == IF up THEN seen[k] ELSE durable[k]

SlotOf(k) ==
  IF Held(k) = NoRecord THEN Free
  ELSE IF Held(k).status = "Pending" THEN Busy
  ELSE [by |-> Held(k).by, kind |-> Held(k).kind, hash |-> Held(k).hash]

AnswerOf(r) ==
  IF Keyed(r) /\ Answered(r) THEN [by |-> reply[r].by, kind |-> reply[r].kind]
                             ELSE NoAnswer

\* The process is down and load_entries refuses the file.
Halted == ~up /\ fileState = "corrupt"

Abstract == INSTANCE IdempotentKeys WITH
  slot <- [k \in Keys |-> SlotOf(k)],
  answer <- [r \in Requests |-> AnswerOf(r)],
  halted <- Halted

\* Dispatch through controller, store and file keeps the promise of
\* IdempotentKeys: a key that is done stays done with the same result, and every
\* client that is served a result for it is served that one.
KeepsPromise == Abstract!Spec
=============================================================================
