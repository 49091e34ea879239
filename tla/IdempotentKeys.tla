--------------------------- MODULE IdempotentKeys ---------------------------
(***************************************************************************)
(* What idempotent dispatch promises its clients, without stores, locks,   *)
(* files or crashes.  A key is free, busy, or done with one result; done   *)
(* is forever, and the only results ever served for a key are the one it   *)
(* is done with, to requests that carry the same payload.  The service may *)
(* halt, and then answers nobody.                                          *)
(***************************************************************************)
CONSTANTS Keys, Requests, Payloads, KeyOf, PayloadOf, Free, Busy, NoAnswer

VARIABLES slot, answer, halted

Done == [by : Requests, kind : {"accepted", "rejected"}, hash : Payloads]

Init ==
  /\ slot = [k \in Keys |-> Free]
  /\ answer = [r \in Requests |-> NoAnswer]
  /\ halted = FALSE

\* A key is done only after having been busy, and never again anything else.
SlotStep(k) ==
  \/ slot'[k] = slot[k]
  \/ slot[k] = Free /\ slot'[k] = Busy
  \/ slot[k] = Busy /\ slot'[k] \in {Free} \cup Done

\* A request is answered once, with the result its key is done with.
AnswerStep(r) ==
  \/ answer'[r] = answer[r]
  \/ /\ answer[r] = NoAnswer
     /\ KeyOf[r] \in Keys
     /\ slot'[KeyOf[r]] \in Done
     /\ slot'[KeyOf[r]].hash = PayloadOf[r]
     /\ answer'[r] = [by |-> slot'[KeyOf[r]].by, kind |-> slot'[KeyOf[r]].kind]

Work ==
  /\ ~halted
  /\ halted' = FALSE
  /\ \A k \in Keys : SlotStep(k)
  /\ \A r \in Requests : AnswerStep(r)

Halt ==
  /\ halted' = TRUE
  /\ answer' = answer

Next == Work \/ Halt

Spec == Init /\ [][Next]_<<slot, answer, halted>>
=============================================================================
