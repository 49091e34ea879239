-------------------------- MODULE ReplicationProofs -------------------------
(***************************************************************************)
(* Theorems about Replication for any number of leader processes and of    *)
(* requests served at once, any batches validate_message lets pass, any    *)
(* bound of the outbox and of the processed table, and any number of lost  *)
(* messages, failed writes and crashes; and about PeerRpc, which carries   *)
(* calls between nodes, for any calls, attempts, stores and delays.        *)
(***************************************************************************)
EXTENDS Replication, PeerRpc, FiniteSetTheorems, TLAPS

\* The log has an event for every sequence of the batch.
Covered(b) == \A s \in RangeOf(b) : log[s] # NoEvent

\* What Locate established, of the checkpoint it read, stays true of the log.
Placed(h) ==
  handler[h].pc \in {"located", "apply"} =>
    /\ StartOf[handler[h].batch] <= handler[h].last + 1
    /\ \A s \in Seqs : s <= handler[h].last => log[s] # NoEvent

Accepted(h) == handler[h].pc = "record" \/ (handler[h].pc = "replying" /\ handler[h].ok)

FollowerInv ==
  /\ CheckpointBacked
  /\ \A h \in Handlers : handler[h].pc # "free" => handler[h].batch \in Batches
  /\ \A h \in Handlers : Placed(h)
  /\ \A h \in Handlers : Accepted(h) => Covered(handler[h].batch)

\* Every event of the log comes from a batch the leader built.
Sourced ==
  \A s \in Seqs : log[s] # NoEvent =>
    \E b \in offered : s \in RangeOf(b) /\ log[s] = EventOf[b][s]

InFlight(c) == client[c].pc \in {"sending", "waiting", "acking"}

\* Nothing travels that the leader did not build.
Offered ==
  /\ enqueued \subseteq offered
  /\ \A i \in 1..Len(outbox) : outbox[i] \in offered
  /\ \A c \in Clients : InFlight(c) => client[c].batch \in offered
  /\ \A h \in Handlers : handler[h].pc # "free" => handler[h].batch \in offered

WaitsFor(c, h) == client[c].pc = "waiting" /\ client[c].via = h

\* A client waits for a handler that works on its batch, and for one of its own.
Exchanges ==
  \A c \in Clients, h \in Handlers : WaitsFor(c, h) =>
    /\ handler[h].pc # "free"
    /\ handler[h].batch = client[c].batch
    /\ \A d \in Clients : WaitsFor(d, h) => d = c

\* What is about to be acknowledged, and what was, is in the log.
Kept ==
  /\ \A c \in Clients : client[c].pc = "acking" => Covered(client[c].batch)
  /\ \A b \in enqueued : Queued(b) \/ Covered(b)

Inv == TypeOK /\ FollowerInv /\ Sourced /\ Offered /\ Exchanges /\ Kept

-----------------------------------------------------------------------------
(* With one request at a time.                                             *)

OneHandler == \A g, h \in Handlers : g = h

\* The checkpoint does not move between Locate and Apply, and covers what is
\* answered with success.
Advances ==
  /\ \A h \in Handlers :
       handler[h].pc \in {"located", "apply"} =>
         checkpoint.seq = handler[h].last /\ handler[h].last < EndOf[handler[h].batch]
  /\ \A h \in Handlers : Accepted(h) => EndOf[handler[h].batch] <= checkpoint.seq
  /\ \A c \in Clients : client[c].pc = "acking" => EndOf[client[c].batch] <= checkpoint.seq
  /\ CheckpointCoversAcknowledged

-----------------------------------------------------------------------------
(* Types.                                                                  *)

\* What a client's flush in progress is.
ClientStates ==
  [pc : ClientPcs, batch : Batches \cup {NoBatch}, attempt : Nat,
   via : Handlers \cup {NoHandler}]

\* What a request at the follower is.
HandlerStates ==
  [pc : HandlerPcs, batch : Batches \cup {NoBatch}, last : 0..MaxSeq, ok : BOOLEAN]

\* The type of the clients, under one name.
LEMMA ClientTypes == TypeOK <=> TypeOK /\ client \in [Clients -> ClientStates]
  BY DEF TypeOK, ClientStates

\* Moving within a flush, and returning from it, keep the type and the other clients.
LEMMA EnterFacts ==
  ASSUME TypeOK, NEW c \in Clients, NEW pc \in ClientPcs, Enter(c, pc)
  PROVE  /\ client' \in [Clients -> ClientStates]
         /\ \A d \in Clients : d # c => client'[d] = client[d]
         /\ client'[c].pc = pc
         /\ client'[c].batch = client[c].batch
  BY ClientTypes DEF Enter, ClientStates

\* A flush that returns leaves its client idle.
LEMMA ReturnFacts ==
  ASSUME TypeOK, NEW c \in Clients, Return(c)
  PROVE  /\ client' \in [Clients -> ClientStates]
         /\ \A d \in Clients : d # c => client'[d] = client[d]
         /\ client'[c].pc = "idle"
  BY ClientTypes DEF Return, Idle, ClientPcs, ClientStates

\* A failed attempt leaves the other clients alone, and this one idle or about to
\* send the same batch again.
LEMMA AttemptFailedFacts ==
  ASSUME TypeOK, NEW c \in Clients, AttemptFailed(c)
  PROVE  /\ client' \in [Clients -> ClientStates]
         /\ \A d \in Clients : d # c => client'[d] = client[d]
         /\ client'[c].pc \in {"idle", "sending"}
         /\ client'[c].pc = "sending" => client'[c].batch = client[c].batch
<1>1. client[c].attempt + 1 \in Nat /\ client[c].batch \in Batches \cup {NoBatch}
  BY ClientTypes DEF ClientStates
<1>2. CASE Return(c)
  BY <1>2, ReturnFacts
<1>3. CASE ~Return(c)
  BY <1>1, <1>3, ClientTypes DEF AttemptFailed, ClientPcs, ClientStates
<1> QED  BY <1>2, <1>3

\* The type of the requests, under one name.
LEMMA HandlerTypes == TypeOK <=> TypeOK /\ handler \in [Handlers -> HandlerStates]
  BY DEF TypeOK, HandlerStates

\* Moving on with a request keeps the type and the other requests.
LEMMA GotoFacts ==
  ASSUME TypeOK, NEW h \in Handlers, NEW pc \in HandlerPcs, Goto(h, pc)
  PROVE  /\ handler' \in [Handlers -> HandlerStates]
         /\ \A g \in Handlers : g # h => handler'[g] = handler[g]
         /\ handler'[h].pc = pc
         /\ handler'[h].batch = handler[h].batch
         /\ handler'[h].last = handler[h].last
  BY HandlerTypes DEF Goto, HandlerStates

\* So does answering it.
LEMMA ReplyFacts ==
  ASSUME TypeOK, NEW h \in Handlers, NEW ok \in BOOLEAN, Reply(h, ok)
  PROVE  /\ handler' \in [Handlers -> HandlerStates]
         /\ \A g \in Handlers : g # h => handler'[g] = handler[g]
         /\ handler'[h].pc = "replying"
         /\ handler'[h].ok = ok
         /\ handler'[h].batch = handler[h].batch
<1>1. /\ handler \in [Handlers -> HandlerStates]
      /\ handler[h].batch \in Batches \cup {NoBatch} /\ handler[h].last \in 0..MaxSeq
  BY HandlerTypes DEF HandlerStates
<1>2. [pc |-> "replying", batch |-> handler[h].batch, last |-> handler[h].last, ok |-> ok]
        \in HandlerStates
  BY <1>1 DEF HandlerStates, HandlerPcs
<1> QED  BY <1>1, <1>2, Zenon DEF Reply

\* Replacing events of the log by events of a batch keeps its type.
LEMMA AppendedType ==
  ASSUME TypeOK, NEW h \in Handlers, NEW done \in SUBSET RangeOf(handler[h].batch),
         handler[h].batch \in Batches
  PROVE  /\ Appended(h, done) \in [Seqs -> Events \cup {NoEvent}]
         /\ CheckpointOf(h) \in [seq : 0..MaxSeq, hash : Batches \cup {NoHash}]
<1>1. Appended(h, done) \in [Seqs -> Events \cup {NoEvent}]
  BY BatchAssumption DEF TypeOK, Appended
<1>2. EndOf[handler[h].batch] \in 0..MaxSeq
  BY BatchAssumption DEF Seqs
<1> QED  BY <1>1, <1>2 DEF CheckpointOf

\* So does a part of the loop of append_events_to_log.
LEMMA PartOfApplyType ==
  ASSUME TypeOK, NEW h \in Handlers, PartOfApply(h), handler[h].batch \in Batches
  PROVE  /\ log' \in [Seqs -> Events \cup {NoEvent}]
         /\ checkpoint' \in [seq : 0..MaxSeq, hash : Batches \cup {NoHash}]
<1>1. checkpoint \in [seq : 0..MaxSeq, hash : Batches \cup {NoHash}]
  BY DEF TypeOK
<1>2. \A n \in Seqs : {s \in Reached(h) : s < n} \in SUBSET RangeOf(handler[h].batch)
  BY DEF Reached
<1>3. Reached(h) \in SUBSET RangeOf(handler[h].batch)
  BY DEF Reached
<1> QED  BY <1>1, <1>2, <1>3, AppendedType DEF PartOfApply

\* Types hold when both sides start with nothing.
LEMMA TypeInit == Init => TypeOK
  BY BatchAssumption
     DEF Init, TypeOK, Idle, Free, NothingProcessed, ClientPcs, HandlerPcs

\* A step of a leader process keeps the types.
LEMMA TypeClient ==
  ASSUME TypeOK, NEW c \in Clients, ClientStep(c)
  PROVE  TypeOK'
<1> USE DEF sender, receiver, budget, ClientPcs
<1>1. CASE StartFlush(c)
  <2>1. client' \in [Clients -> ClientStates]
    BY <1>1, EnterFacts DEF StartFlush
  <2>2. calls' \in [Clients -> Nat]
    BY <1>1 DEF StartFlush, TypeOK
  <2> QED  BY <1>1, <2>1, <2>2 DEF StartFlush, TypeOK, ClientStates
<1>2. CASE ReadFront(c)
  <2>1. CASE Return(c)
    BY <1>2, <2>1, ReturnFacts DEF ReadFront, TypeOK, ClientStates
  <2>2. CASE ~Return(c)
    <3>1. Head(outbox) \in Batches
      BY <1>2, <2>2 DEF ReadFront, TypeOK
    <3>2. client' \in [Clients -> ClientStates]
      BY <1>2, <2>2, <3>1, ClientTypes DEF ReadFront, ClientStates
    <3> QED  BY <1>2, <3>2 DEF ReadFront, TypeOK, ClientStates
  <2> QED  BY <2>1, <2>2
<1>3. ASSUME NEW h \in Handlers, Send(c, h)  PROVE TypeOK'
  <2>1. client' \in [Clients -> ClientStates]
    <3> DEFINE next == [client[c] EXCEPT !.pc = "waiting", !.via = h]
    <3>1. client \in [Clients -> ClientStates]
      BY ClientTypes
    <3>2. client' = [client EXCEPT ![c] = next]
      BY <1>3, <3>1 DEF Send
    <3>3. next \in ClientStates
      BY <3>1 DEF ClientStates, ClientPcs
    <3> HIDE DEF next
    <3> QED  BY <3>1, <3>2, <3>3
  <2>2. client[c].batch \in Batches \cup {NoBatch}
    BY ClientTypes DEF ClientStates
  <2>3. handler' \in [Handlers -> HandlerStates]
    BY <1>3, <2>2, BatchAssumption DEF Send, TypeOK, HandlerPcs, HandlerStates
  <2> QED  BY <1>3, <2>1, <2>3 DEF Send, TypeOK, ClientStates, HandlerStates
<1>4. CASE ConnectionReset(c)
  BY <1>4, AttemptFailedFacts DEF ConnectionReset, TypeOK, ClientStates
<1>5. CASE Acknowledge(c)
  <2>1. client' \in [Clients -> ClientStates]
    BY <1>5, EnterFacts, ReturnFacts DEF Acknowledge
  <2>2. outbox' \in Seq(Batches)
    <3>1. outbox \in Seq(Batches)
      BY DEF TypeOK
    <3>2. outbox # <<>> => Tail(outbox) \in Seq(Batches)
      BY <3>1
    <3> QED  BY <1>5, <3>1, <3>2 DEF Acknowledge
  <2> QED  BY <1>5, <2>1, <2>2 DEF Acknowledge, TypeOK, ClientStates
<1> QED  BY <1>1, <1>2, <1>3, <1>4, <1>5 DEF ClientStep

\* A step of a request at the follower keeps the types.
LEMMA TypeHandler ==
  ASSUME TypeOK, NEW h \in Handlers, HandlerStep(h),
         handler[h].pc # "free" => handler[h].batch \in Batches
  PROVE  TypeOK'
<1> USE DEF sender, receiver, budget
<1>0. /\ handler \in [Handlers -> HandlerStates]
      /\ handler[h].batch \in Batches \cup {NoBatch} /\ handler[h].last \in 0..MaxSeq
      /\ checkpoint.seq \in 0..MaxSeq
  BY DEF TypeOK, HandlerStates
<1>1. CASE Validate(h)
  <2>1. handler' \in [Handlers -> HandlerStates]
    BY <1>1, GotoFacts, ReplyFacts DEF Validate, HandlerPcs
  <2> QED  BY <1>1, <2>1 DEF Validate, TypeOK, HandlerStates
<1>2. CASE Locate(h)
  <2>1. handler' \in [Handlers -> HandlerStates]
    <3>1. CASE \E ok \in BOOLEAN : Reply(h, ok)
      BY <3>1, ReplyFacts
    <3>2. CASE ~\E ok \in BOOLEAN : Reply(h, ok)
      <4>1. [pc |-> "located", batch |-> handler[h].batch, last |-> checkpoint.seq, ok |-> FALSE]
              \in HandlerStates
        BY <1>0 DEF HandlerPcs, HandlerStates
      <4> QED  BY <1>0, <1>2, <3>2, <4>1, Zenon DEF Locate
    <3> QED  BY <3>1, <3>2
  <2> QED  BY <1>2, <2>1 DEF Locate, TypeOK, HandlerStates
<1>3. CASE CheckChain(h)
  <2>1. handler' \in [Handlers -> HandlerStates]
    BY <1>3, GotoFacts, ReplyFacts DEF CheckChain, HandlerPcs
  <2> QED  BY <1>3, <2>1 DEF CheckChain, TypeOK, HandlerStates
<1>4. CASE Apply(h)
  <2>1. handler' \in [Handlers -> HandlerStates]
    BY <1>4, GotoFacts, ReplyFacts DEF Apply, HandlerPcs
  <2>2. /\ log' \in [Seqs -> Events \cup {NoEvent}]
        /\ checkpoint' \in [seq : 0..MaxSeq, hash : Batches \cup {NoHash}]
    <3>1. Reached(h) \in SUBSET RangeOf(handler[h].batch) /\ handler[h].batch \in Batches
      BY <1>4 DEF Apply, Reached
    <3>2. checkpoint \in [seq : 0..MaxSeq, hash : Batches \cup {NoHash}]
      BY DEF TypeOK
    <3> QED  BY <1>4, <3>1, <3>2, AppendedType DEF Apply
  <2> QED  BY <1>4, <2>1, <2>2 DEF Apply, TypeOK, HandlerStates
<1>5. CASE Record(h)
  <2>1. handler' \in [Handlers -> HandlerStates]
    BY <1>5, ReplyFacts DEF Record
  <2>2. processed' \in [set : SUBSET Batches, queue : Seq(Batches)]
    <3>1. /\ processed.set \in SUBSET Batches /\ processed.queue \in Seq(Batches)
          /\ handler[h].batch \in Batches
      BY <1>5 DEF Record, TypeOK
    <3>2. /\ Append(processed.queue, handler[h].batch) \in Seq(Batches)
          /\ Append(processed.queue, handler[h].batch) # <<>>
      BY <3>1
    <3>3. Tail(Append(processed.queue, handler[h].batch)) \in Seq(Batches)
      BY <3>2
    <3> QED  BY <1>5, <3>1, <3>2, <3>3 DEF Record, WithProcessed
  <2> QED  BY <1>5, <2>1, <2>2 DEF Record, TypeOK, HandlerStates
<1>6. CASE Respond(h)
  <2>1. handler' \in [Handlers -> HandlerStates]
    BY <1>0, <1>6, BatchAssumption DEF Respond, Free, HandlerPcs, HandlerStates
  <2>2. client' \in [Clients -> ClientStates]
    BY <1>6, ClientTypes, EnterFacts, AttemptFailedFacts DEF Respond, ClientPcs
  <2> QED  BY <1>6, <2>1, <2>2 DEF Respond, TypeOK, ClientStates, HandlerStates
<1> QED  BY <1>1, <1>2, <1>3, <1>4, <1>5, <1>6 DEF HandlerStep

\* A fault, on either side or between them, keeps the types.
LEMMA TypeDisturbance ==
  ASSUME TypeOK, Disturbance,
         \A h \in Handlers : handler[h].pc # "free" => handler[h].batch \in Batches
  PROVE  TypeOK'
<1> USE DEF sender, receiver, budget
<1>1. ASSUME NEW c \in Clients, LoseRequest(c)  PROVE TypeOK'
  BY <1>1, AttemptFailedFacts DEF LoseRequest, TypeOK, ClientStates
<1>2. ASSUME NEW c \in Clients, Timeout(c)  PROVE TypeOK'
  BY <1>2, AttemptFailedFacts DEF Timeout, TypeOK, ClientStates
<1>3. ASSUME NEW c \in Clients, AcknowledgeFails(c)  PROVE TypeOK'
  <2>1. outbox' \in Seq(Batches)
    <3>1. outbox \in Seq(Batches)
      BY DEF TypeOK
    <3>2. outbox # <<>> => Tail(outbox) \in Seq(Batches)
      BY <3>1
    <3>3. outbox' = outbox \/ (outbox # <<>> /\ outbox' = Tail(outbox))
      BY <1>3 DEF AcknowledgeFails
    <3> QED  BY <3>1, <3>2, <3>3
  <2> QED  BY <1>3, <2>1, ReturnFacts DEF AcknowledgeFails, FailIo, TypeOK, ClientStates
<1>4. ASSUME NEW c \in Clients, CrashClient(c)  PROVE TypeOK'
  <2>1. Return(c)
    BY <1>4 DEF CrashClient, Return
  <2>2. calls' \in [Clients -> Nat]
    BY <1>4 DEF CrashClient, TypeOK
  <2> QED  BY <1>4, <2>1, <2>2, ReturnFacts DEF CrashClient, TypeOK, ClientStates
<1>5. ASSUME NEW h \in Handlers, ApplyFails(h)  PROVE TypeOK'
  <2>1. /\ log' \in [Seqs -> Events \cup {NoEvent}]
        /\ checkpoint' \in [seq : 0..MaxSeq, hash : Batches \cup {NoHash}]
    BY <1>5, PartOfApplyType DEF ApplyFails
  <2>2. handler' \in [Handlers -> HandlerStates]
    BY <1>5, ReplyFacts DEF ApplyFails
  <2>3. ioFailures' \in Nat
    BY <1>5 DEF ApplyFails, FailIo, TypeOK
  <2> QED  BY <1>5, <2>1, <2>2, <2>3 DEF ApplyFails, TypeOK, HandlerStates
<1>6. CASE CrashReceiver
  <2>1. /\ log' \in [Seqs -> Events \cup {NoEvent}]
        /\ checkpoint' \in [seq : 0..MaxSeq, hash : Batches \cup {NoHash}]
    <3>1. CASE UNCHANGED <<log, checkpoint>>
      BY <3>1 DEF TypeOK
    <3>2. CASE \E h \in Handlers : handler[h].pc = "apply" /\ PartOfApply(h)
      BY <3>2, PartOfApplyType
    <3> QED  BY <1>6, <3>1, <3>2 DEF CrashReceiver
  <2>2. handler' \in [Handlers -> HandlerStates]
    BY <1>6, BatchAssumption DEF CrashReceiver, Free, HandlerPcs, HandlerStates
  <2>3. client' \in [Clients -> ClientStates]
    BY <1>6, ClientTypes DEF CrashReceiver, ClientStates
  <2>4. processed' \in [set : SUBSET Batches, queue : Seq(Batches)]
    BY <1>6 DEF CrashReceiver, NothingProcessed
  <2> QED  BY <1>6, <2>1, <2>2, <2>3, <2>4 DEF CrashReceiver, TypeOK, ClientStates, HandlerStates
<1> QED  BY <1>1, <1>2, <1>3, <1>4, <1>5, <1>6 DEF Disturbance

\* A call of the host keeps the types.
LEMMA TypeDemand == ASSUME TypeOK, Demand PROVE TypeOK'
<1> USE DEF sender, receiver, budget
<1>1. \A b \in Batches : Append(outbox, b) \in Seq(Batches)
  BY DEF TypeOK
<1>2. \A c \in Clients : [calls EXCEPT ![c] = @ + 1] \in [Clients -> Nat]
  BY DEF TypeOK
<1>3. ASSUME NEW c \in Clients, FlushPending(c)  PROVE TypeOK'
  BY <1>2, <1>3 DEF FlushPending, TypeOK
<1>4. ASSUME NEW c \in Clients, NEW b \in Batches, Push(c, b)  PROVE TypeOK'
  BY <1>1, <1>2, <1>4 DEF Push, TypeOK
<1>5. ASSUME NEW c \in Clients, NEW b \in Batches, PushFails(c, b)  PROVE TypeOK'
  <2>1. ioFailures' \in Nat
    BY <1>5 DEF PushFails, FailIo, TypeOK
  <2>2. /\ outbox' \in Seq(Batches)
        /\ offered' \in SUBSET Batches /\ enqueued' \in SUBSET Batches
    BY <1>1, <1>5 DEF PushFails, TypeOK
  <2> QED  BY <1>5, <2>1, <2>2 DEF PushFails, TypeOK
<1> QED  BY <1>3, <1>4, <1>5 DEF Demand

-----------------------------------------------------------------------------
(* What append_events_to_log does to the log.                              *)

\* The loop wrote the events before some point, and the checkpoint only after the
\* last of them.
Writes(h, done) ==
  /\ done \in SUBSET Reached(h)
  /\ \A s \in done, q \in RangeOf(handler[h].batch) : q < s => q \in done
  /\ log' = Appended(h, done)
  /\ \/ UNCHANGED checkpoint
     \/ checkpoint' = CheckpointOf(h) /\ done = RangeOf(handler[h].batch)

\* Apply, and what is left of it after a failure or a crash, is such a write.
LEMMA ApplyWrites ==
  ASSUME NEW h \in Handlers, Apply(h) \/ PartOfApply(h)
  PROVE  \E done : Writes(h, done)
<1>1. \A s \in Reached(h), q \in RangeOf(handler[h].batch) : q < s => q \in Reached(h)
  BY DEF Reached, Obstacles, RangeOf, Seqs
<1>2. Obstacles(h) = {} => Reached(h) = RangeOf(handler[h].batch)
  BY DEF Reached
<1>3. CASE Apply(h)
  <2>1. Writes(h, Reached(h))
    BY <1>1, <1>2, <1>3 DEF Apply, Writes
  <2> QED  BY <2>1
<1>4. ASSUME NEW n \in Seqs,
             log' = Appended(h, {s \in Reached(h) : s < n}), UNCHANGED checkpoint
      PROVE  \E done : Writes(h, done)
  <2>1. Writes(h, {s \in Reached(h) : s < n})
    <3>1. \A s \in Reached(h), q \in RangeOf(handler[h].batch) : q < s /\ s < n => q < n
      BY DEF Reached, RangeOf, Seqs
    <3> QED  BY <1>1, <1>4, <3>1 DEF Writes
  <2> QED  BY <2>1
<1>5. CASE /\ Obstacles(h) = {}
           /\ log' = Appended(h, Reached(h))
           /\ checkpoint' \in {checkpoint, CheckpointOf(h)}
  <2>1. Writes(h, Reached(h))
    BY <1>1, <1>2, <1>5 DEF Writes
  <2> QED  BY <2>1
<1> QED  BY <1>3, <1>4, <1>5 DEF PartOfApply

\* The log after a step has every event it had before.
LogGrows == \A s \in Seqs : log[s] # NoEvent => log'[s] = log[s]

\* A write of a batch placed by a checkpoint the log still backs adds events of the
\* batch to the end of the log.
LEMMA WriteFacts ==
  ASSUME TypeOK, CheckpointBacked, NEW h \in Handlers, Placed(h),
         handler[h].pc = "apply", handler[h].batch \in Batches,
         NEW done, Writes(h, done)
  PROVE  /\ LogGrows
         /\ \A s \in done : log'[s] # NoEvent
         /\ \A s \in Seqs : log'[s] # NoEvent /\ log[s] = NoEvent =>
              s \in RangeOf(handler[h].batch) /\ log'[s] = EventOf[handler[h].batch][s]
         /\ CheckpointBacked'
<1> DEFINE b == handler[h].batch
<1>0. /\ StartOf[b] \in Seqs /\ EndOf[b] \in Seqs /\ StartOf[b] <= EndOf[b]
      /\ \A s \in Seqs : EventOf[b][s] \in Events /\ EventOf[b][s] # NoEvent
      /\ RangeOf(b) \in SUBSET Seqs
      /\ MaxSeq \in Nat /\ StartOf[b] \in Nat /\ EndOf[b] \in Nat
      /\ \A s \in Seqs : s \in Nat
      /\ done \in SUBSET RangeOf(b) /\ done \in SUBSET Reached(h)
  <2>1. StartOf[b] \in Seqs /\ EndOf[b] \in Seqs /\ StartOf[b] <= EndOf[b]
    BY BatchAssumption
  <2>2. \A s \in Seqs : EventOf[b][s] \in Events /\ EventOf[b][s] # NoEvent
    BY BatchAssumption
  <2>3. MaxSeq \in Nat /\ \A s \in Seqs : s \in Nat
    BY BatchAssumption DEF Seqs
  <2>4. done \in SUBSET RangeOf(b) /\ done \in SUBSET Reached(h) /\ RangeOf(b) \in SUBSET Seqs
    BY DEF RangeOf, Writes, Reached
  <2> QED  BY <2>1, <2>2, <2>3, <2>4
<1>1. /\ handler[h].last \in 0..MaxSeq
      /\ StartOf[b] <= handler[h].last + 1
      /\ \A s \in Seqs : s <= handler[h].last => log[s] # NoEvent
      /\ checkpoint.seq \in 0..MaxSeq
  BY DEF TypeOK, Placed
<1>2. \A s \in Seqs : log'[s] = IF s \in done THEN EventOf[b][s] ELSE log[s]
  BY DEF Writes, Appended
<1>3. \A s \in done : log[s] = NoEvent \/ log[s] = EventOf[b][s]
  <2>1. \A s \in done : s \in RangeOf(b) /\ s \in Nat /\ s \notin Obstacles(h)
    <3>1. \A s \in done : s \in RangeOf(b) /\ s \in Nat /\ \A o \in Obstacles(h) : s < o
      BY <1>0 DEF Reached
    <3>2. \A s \in Nat : ~(s < s)
      OBVIOUS
    <3> QED  BY <3>1, <3>2
  <2> QED  BY <2>1 DEF Obstacles
<1>4. /\ LogGrows
      /\ \A s \in done : log'[s] # NoEvent
      /\ \A s \in Seqs : log'[s] # NoEvent /\ log[s] = NoEvent =>
           s \in RangeOf(b) /\ log'[s] = EventOf[b][s]
  BY <1>0, <1>2, <1>3 DEF LogGrows
<1>5. ASSUME NEW s \in Seqs, NEW q \in Seqs, log'[s] # NoEvent, q < s
      PROVE  log'[q] # NoEvent
  <2>1. CASE log[s] # NoEvent
    BY <1>4, <1>5, <2>1 DEF CheckpointBacked, LogGrows
  <2>2. CASE s \in done /\ q < StartOf[b]
    <3>1. q <= handler[h].last
      BY <1>0, <1>1, <2>2 DEF Seqs
    <3> QED  BY <1>1, <1>4, <3>1 DEF LogGrows
  <2>3. CASE s \in done /\ StartOf[b] <= q
    <3>1. q \in RangeOf(b)
      BY <1>0, <1>5, <2>3 DEF RangeOf, Seqs
    <3> QED  BY <1>4, <1>5, <2>3, <3>1 DEF Writes
  <2> QED  BY <1>0, <1>2, <1>5, <2>1, <2>2, <2>3 DEF Seqs
<1>6. ASSUME NEW s \in Seqs, s <= checkpoint'.seq
      PROVE  log'[s] # NoEvent
  <2>1. CASE UNCHANGED checkpoint
    BY <1>4, <1>6, <2>1 DEF CheckpointBacked, LogGrows
  <2>2. CASE checkpoint' = CheckpointOf(h) /\ done = RangeOf(b)
    <3>1. s <= EndOf[b]
      BY <1>6, <2>2 DEF CheckpointOf
    <3>2. CASE StartOf[b] <= s
      BY <1>4, <2>2, <3>1, <3>2 DEF RangeOf
    <3>3. CASE s < StartOf[b]
      <4>1. s <= handler[h].last
        BY <1>0, <1>1, <3>3 DEF Seqs
      <4> QED  BY <1>1, <1>4, <4>1 DEF LogGrows
    <3> QED  BY <1>0, <3>2, <3>3 DEF Seqs
  <2> QED  BY <2>1, <2>2 DEF Writes
<1> QED  BY <1>4, <1>5, <1>6 DEF CheckpointBacked

-----------------------------------------------------------------------------
(* The follower.                                                           *)

\* A step either leaves the log and the checkpoint alone or is a write of one
\* request.
LEMMA LogSteps ==
  ASSUME Next
  PROVE  \/ UNCHANGED <<log, checkpoint>>
         \/ \E h \in Handlers : handler[h].pc = "apply" /\ \E done : Writes(h, done)
<1> USE DEF sender, receiver, budget
<1>1. ASSUME NEW c \in Clients, ClientStep(c)  PROVE UNCHANGED <<log, checkpoint>>
  BY <1>1 DEF ClientStep, StartFlush, ReadFront, Send, ConnectionReset, Acknowledge
<1>2. CASE Demand
  BY <1>2 DEF Demand, FlushPending, Push, PushFails
<1>3. ASSUME NEW h \in Handlers, HandlerStep(h), ~Apply(h)
      PROVE UNCHANGED <<log, checkpoint>>
  BY <1>3 DEF HandlerStep, Validate, Locate, CheckChain, Record, Respond
<1>4. ASSUME NEW c \in Clients,
             LoseRequest(c) \/ Timeout(c) \/ AcknowledgeFails(c) \/ CrashClient(c)
      PROVE  UNCHANGED <<log, checkpoint>>
  BY <1>4 DEF LoseRequest, Timeout, AcknowledgeFails, CrashClient
<1>5. ASSUME NEW h \in Handlers, Apply(h) \/ ApplyFails(h)
      PROVE  handler[h].pc = "apply" /\ \E done : Writes(h, done)
  BY <1>5, ApplyWrites DEF Apply, ApplyFails
<1>6. CASE CrashReceiver
  BY <1>6, ApplyWrites DEF CrashReceiver
<1> QED  BY <1>1, <1>2, <1>3, <1>4, <1>5, <1>6 DEF Next, Disturbance

\* The log only grows, keeps having no holes, and backs the checkpoint.
LEMMA LogInv ==
  ASSUME TypeOK, FollowerInv, Next
  PROVE  LogGrows /\ CheckpointBacked'
<1>1. CASE UNCHANGED <<log, checkpoint>>
  BY <1>1 DEF LogGrows, FollowerInv, CheckpointBacked
<1>2. ASSUME NEW h \in Handlers, handler[h].pc = "apply", NEW done, Writes(h, done)
      PROVE  LogGrows /\ CheckpointBacked'
  BY <1>2, WriteFacts DEF FollowerInv
<1> QED  BY <1>1, <1>2, LogSteps

\* What the log covers it goes on covering.
LEMMA CoveredStays ==
  ASSUME TypeOK, FollowerInv, Next, NEW b, Covered(b)
  PROVE  Covered(b)'
  BY LogInv DEF Covered, LogGrows, RangeOf

\* An entry of the log that is there stays there.
LEMMA PrefixStays ==
  ASSUME TypeOK, FollowerInv, Next, NEW n, \A s \in Seqs : s <= n => log[s] # NoEvent
  PROVE  \A s \in Seqs : s <= n => log'[s] # NoEvent
  BY LogInv DEF LogGrows

\* One request's part of the invariant.
RequestInv(h) ==
  /\ handler[h].pc # "free" => handler[h].batch \in Batches
  /\ Placed(h)
  /\ Accepted(h) => Covered(handler[h].batch)

\* A request that a step does not touch, or frees, keeps its part of the invariant.
LEMMA RequestStays ==
  ASSUME TypeOK, FollowerInv, Next, NEW h \in Handlers,
         handler'[h] = handler[h] \/ handler'[h].pc = "free"
  PROVE  RequestInv(h)'
<1>1. CASE handler'[h].pc = "free"
  BY <1>1 DEF RequestInv, Placed, Accepted
<1>2. CASE handler'[h] = handler[h]
  <2>1. Placed(h)'
    BY <1>2, PrefixStays DEF FollowerInv, Placed
  <2>2. Accepted(h)' => Covered(handler[h].batch)'
    BY <1>2, CoveredStays DEF FollowerInv, Accepted
  <2> QED  BY <1>2, <2>1, <2>2 DEF RequestInv, FollowerInv, Covered
<1> QED  BY <1>1, <1>2

\* Locate accepts a range the checkpoint covers, and otherwise lets only one pass
\* that joins it.
LEMMA LocateFacts ==
  ASSUME TypeOK, FollowerInv, NEW h \in Handlers, Locate(h)
  PROVE  /\ handler'[h].batch = handler[h].batch
         /\ handler'[h].pc \in {"replying", "located"}
         /\ handler'[h].pc = "replying" /\ handler'[h].ok =>
              /\ EndOf[handler[h].batch] <= checkpoint.seq
              /\ Covered(handler[h].batch)'
         /\ handler'[h].pc = "located" =>
              /\ EndOf[handler[h].batch] > checkpoint.seq
              /\ handler'[h].last = checkpoint.seq
              /\ StartOf[handler[h].batch] <= handler'[h].last + 1
              /\ \A s \in Seqs : s <= handler'[h].last => log'[s] # NoEvent
<1>0. /\ handler[h].batch \in Batches /\ checkpoint.seq \in Nat
      /\ StartOf[handler[h].batch] \in Nat /\ EndOf[handler[h].batch] \in Nat
      /\ \A s \in RangeOf(handler[h].batch) :
           s \in Seqs /\ s \in Nat /\ s <= EndOf[handler[h].batch]
  <2>1. handler[h].batch \in Batches
    BY DEF Locate, FollowerInv
  <2>2. checkpoint.seq \in Nat
    BY BatchAssumption DEF TypeOK
  <2>3. StartOf[handler[h].batch] \in Nat /\ EndOf[handler[h].batch] \in Nat
    BY <2>1, BatchAssumption DEF Seqs
  <2>4. \A s \in RangeOf(handler[h].batch) :
          s \in Seqs /\ s \in Nat /\ s <= EndOf[handler[h].batch]
    BY DEF Seqs, RangeOf
  <2> QED  BY <2>1, <2>2, <2>3, <2>4
<1>1. UNCHANGED <<log, checkpoint>>
  BY DEF Locate
<1>2. CASE EndOf[handler[h].batch] <= checkpoint.seq
  <2>1. Reply(h, TRUE)
    BY <1>2 DEF Locate
  <2>2. \A s \in RangeOf(handler[h].batch) : s <= checkpoint.seq
    BY <1>0, <1>2
  <2>3. \A s \in RangeOf(handler[h].batch) : log'[s] # NoEvent
    BY <1>0, <1>1, <2>2 DEF FollowerInv, CheckpointBacked
  <2> QED  BY <1>2, <2>1, <2>3, ReplyFacts DEF Covered
<1>3. CASE /\ ~(EndOf[handler[h].batch] <= checkpoint.seq)
           /\ StartOf[handler[h].batch] > checkpoint.seq + 1
  BY <1>3, ReplyFacts DEF Locate
<1>4. CASE /\ ~(EndOf[handler[h].batch] <= checkpoint.seq)
           /\ ~(StartOf[handler[h].batch] > checkpoint.seq + 1)
  <2>1. /\ handler'[h].pc = "located" /\ handler'[h].batch = handler[h].batch
        /\ handler'[h].last = checkpoint.seq
    BY <1>4 DEF Locate, TypeOK
  <2> QED  BY <1>0, <1>1, <1>4, <2>1 DEF FollowerInv, CheckpointBacked
<1> QED  BY <1>2, <1>3, <1>4

\* The requests of the follower keep what they established, also the ones another
\* request overtakes.
LEMMA FollowerStep ==
  ASSUME TypeOK, FollowerInv, Offered, Next
  PROVE  FollowerInv'
<1> USE DEF sender, receiver, budget
<1>0. SUFFICES ASSUME NEW h \in Handlers PROVE RequestInv(h)'
  BY LogInv DEF FollowerInv, RequestInv
<1>1. ASSUME NEW c \in Clients, ClientStep(c), \A g \in Handlers : ~Send(c, g)
      PROVE  RequestInv(h)'
  BY <1>1, RequestStays DEF ClientStep, StartFlush, ReadFront, ConnectionReset, Acknowledge
<1>2. ASSUME NEW c \in Clients, NEW g \in Handlers, Send(c, g)
      PROVE  RequestInv(h)'
  <2>1. CASE g # h
    BY <1>2, <2>1, RequestStays DEF Send, TypeOK
  <2>2. CASE g = h
    <3>1. handler'[h].pc = "received" /\ handler'[h].batch = client[c].batch
      BY <1>2, <2>2 DEF Send, TypeOK
    <3>2. client[c].batch \in Batches
      BY <1>2 DEF Send, Offered, InFlight, TypeOK
    <3> QED  BY <3>1, <3>2 DEF RequestInv, Placed, Accepted
  <2> QED  BY <2>1, <2>2
<1>3. ASSUME NEW g \in Handlers, HandlerStep(g) \/ ApplyFails(g)
      PROVE  RequestInv(h)'
  <2>1. CASE g # h
    <3>1. handler'[h] = handler[h]
      <4>1. CASE Locate(g)
        BY <2>1, <4>1, ReplyFacts DEF Locate, TypeOK
      <4>2. CASE Respond(g)
        BY <2>1, <4>2 DEF Respond, TypeOK
      <4> QED  BY <1>3, <2>1, <4>1, <4>2, GotoFacts, ReplyFacts
               DEF HandlerStep, Validate, CheckChain, Apply, Record, ApplyFails, HandlerPcs
    <3> QED  BY <3>1, RequestStays
  <2>2. CASE g = h
    <3>0. handler[h].pc # "free" => handler[h].batch \in Batches
      BY DEF FollowerInv
    <3>1. CASE Validate(h)
      BY <3>0, <3>1, GotoFacts, ReplyFacts
         DEF Validate, HandlerPcs, RequestInv, Placed, Accepted
    <3>2. CASE Locate(h)
      BY <3>0, <3>2, LocateFacts DEF Locate, RequestInv, Placed, Accepted
    <3>3. CASE CheckChain(h)
      <4>1. Placed(h)'
        <5>1. /\ StartOf[handler[h].batch] <= handler[h].last + 1
              /\ \A s \in Seqs : s <= handler[h].last => log'[s] # NoEvent
          BY <3>3, PrefixStays DEF CheckChain, FollowerInv, Placed
        <5> QED  BY <3>3, <5>1, GotoFacts, ReplyFacts DEF CheckChain, HandlerPcs, Placed
      <4> QED  BY <3>0, <3>3, <4>1, GotoFacts, ReplyFacts
               DEF CheckChain, HandlerPcs, RequestInv, Accepted
    <3>4. CASE Apply(h)
      <4>1. CASE Obstacles(h) = {}
        <5>1. Goto(h, "record") /\ log' = Appended(h, RangeOf(handler[h].batch))
          BY <3>4, <4>1 DEF Apply, Reached
        <5>2. Covered(handler[h].batch)'
          <6>1. \A s \in RangeOf(handler[h].batch) :
                  s \in Seqs /\ EventOf[handler[h].batch][s] # NoEvent
            BY <3>0, <3>4, BatchAssumption DEF Apply, RangeOf
          <6>2. \A s \in RangeOf(handler[h].batch) : log'[s] # NoEvent
            BY <5>1, <6>1 DEF Appended
          <6> QED  BY <5>1, <6>2, GotoFacts DEF Covered, HandlerPcs
        <5> QED  BY <3>0, <3>4, <5>1, <5>2, GotoFacts
                 DEF Apply, HandlerPcs, RequestInv, Placed, Accepted
      <4>2. CASE Obstacles(h) # {}
        BY <3>0, <3>4, <4>2, ReplyFacts DEF Apply, RequestInv, Placed, Accepted
      <4> QED  BY <4>1, <4>2
    <3>5. CASE ApplyFails(h)
      BY <3>0, <3>5, ReplyFacts DEF ApplyFails, RequestInv, Placed, Accepted
    <3>6. CASE Record(h)
      <4>1. Covered(handler[h].batch)'
        BY <3>6, CoveredStays, ReplyFacts DEF Record, FollowerInv, Accepted
      <4> QED  BY <3>0, <3>6, <4>1, ReplyFacts DEF Record, RequestInv, Placed, Accepted
    <3>7. CASE Respond(h)
      <4>1. handler'[h].pc = "free"
        BY <3>7 DEF Respond, TypeOK, Free
      <4> QED  BY <4>1, RequestStays
    <3> QED  BY <1>3, <2>2, <3>1, <3>2, <3>3, <3>4, <3>5, <3>6, <3>7 DEF HandlerStep
  <2> QED  BY <2>1, <2>2
<1>4. ASSUME NEW c \in Clients,
             LoseRequest(c) \/ Timeout(c) \/ AcknowledgeFails(c) \/ CrashClient(c)
      PROVE  RequestInv(h)'
  BY <1>4, RequestStays DEF LoseRequest, Timeout, AcknowledgeFails, CrashClient
<1>5. CASE CrashReceiver
  BY <1>5, RequestStays DEF CrashReceiver, Free
<1>6. CASE Demand
  BY <1>6, RequestStays DEF Demand, FlushPending, Push, PushFails
<1> QED  BY <1>1, <1>2, <1>3, <1>4, <1>5, <1>6 DEF Next, ClientStep, Disturbance

-----------------------------------------------------------------------------
(* The leader and the exchanges.                                           *)

\* The leader never takes a batch back that it built.
LEMMA OfferedGrows == ASSUME Next PROVE offered \subseteq offered'
<1> USE DEF sender, receiver, budget
<1>1. ASSUME NEW c \in Clients, ClientStep(c)  PROVE UNCHANGED offered
  BY <1>1 DEF ClientStep, StartFlush, ReadFront, Send, ConnectionReset, Acknowledge
<1>2. CASE Demand
  BY <1>2 DEF Demand, FlushPending, Push, PushFails
<1>3. ASSUME NEW h \in Handlers, HandlerStep(h) \/ ApplyFails(h)  PROVE UNCHANGED offered
  BY <1>3 DEF HandlerStep, Validate, Locate, CheckChain, Apply, Record, Respond, ApplyFails
<1>4. ASSUME NEW c \in Clients,
             LoseRequest(c) \/ Timeout(c) \/ AcknowledgeFails(c) \/ CrashClient(c)
      PROVE  UNCHANGED offered
  BY <1>4 DEF LoseRequest, Timeout, AcknowledgeFails, CrashClient
<1>5. CASE CrashReceiver
  BY <1>5 DEF CrashReceiver
<1> QED  BY <1>1, <1>2, <1>3, <1>4, <1>5 DEF Next, Disturbance

\* The log goes on holding only events of batches the leader built.
LEMMA SourcedStep ==
  ASSUME TypeOK, FollowerInv, Offered, Sourced, Next
  PROVE  Sourced'
<1>1. CASE UNCHANGED <<log, checkpoint>>
  BY <1>1, OfferedGrows DEF Sourced, RangeOf
<1>2. ASSUME NEW h \in Handlers, handler[h].pc = "apply", NEW done, Writes(h, done)
      PROVE  Sourced'
  <2>1. handler[h].batch \in offered
    BY <1>2 DEF Offered
  <2>2. SUFFICES ASSUME NEW s \in Seqs, log'[s] # NoEvent
                 PROVE  \E b \in offered' : s \in RangeOf(b) /\ log'[s] = EventOf[b][s]
    BY DEF Sourced, RangeOf
  <2>3. CASE log[s] # NoEvent
    BY <1>2, <2>3, LogInv, OfferedGrows DEF Sourced, LogGrows
  <2>4. CASE log[s] = NoEvent
    BY <1>2, <2>1, <2>2, <2>4, WriteFacts, OfferedGrows DEF FollowerInv
  <2> QED  BY <2>3, <2>4
<1> QED  BY <1>1, <1>2, LogSteps

\* One client's step, in the terms the invariants need: what becomes of its flush.
ClientMoves(c) ==
  /\ \A d \in Clients : d # c => client'[d] = client[d]
  /\ \/ client'[c].pc \in {"idle", "front"}
     \/ client'[c].pc = "sending" /\ client'[c].batch = client[c].batch /\ InFlight(c)
     \/ /\ client'[c].pc = "sending" /\ outbox # <<>>
        /\ client'[c].batch = Head(outbox)

\* Every step of a client but sending is of that kind.
LEMMA ClientMovesFacts ==
  ASSUME TypeOK, NEW c \in Clients,
         \/ StartFlush(c) \/ ReadFront(c) \/ ConnectionReset(c) \/ Acknowledge(c)
         \/ LoseRequest(c) \/ Timeout(c) \/ AcknowledgeFails(c) \/ CrashClient(c)
  PROVE  ClientMoves(c)
<1>1. CASE StartFlush(c)
  BY <1>1, EnterFacts DEF StartFlush, ClientMoves, ClientPcs
<1>2. CASE ReadFront(c)
  BY <1>2, ReturnFacts DEF ReadFront, ClientMoves, TypeOK
<1>3. CASE ConnectionReset(c) \/ LoseRequest(c) \/ Timeout(c)
  BY <1>3, AttemptFailedFacts DEF ConnectionReset, LoseRequest, Timeout, ClientMoves, InFlight
<1>4. CASE Acknowledge(c) \/ AcknowledgeFails(c)
  BY <1>4, EnterFacts, ReturnFacts DEF Acknowledge, AcknowledgeFails, ClientMoves, ClientPcs
<1>5. CASE CrashClient(c)
  BY <1>5, ReturnFacts DEF CrashClient, Return, ClientMoves
<1> QED  BY <1>1, <1>2, <1>3, <1>4, <1>5

\* What such a step leaves of the outbox.
LEMMA OutboxMoves ==
  ASSUME TypeOK, NEW c \in Clients,
         \/ StartFlush(c) \/ ReadFront(c) \/ ConnectionReset(c) \/ Acknowledge(c)
         \/ LoseRequest(c) \/ Timeout(c) \/ AcknowledgeFails(c) \/ CrashClient(c)
  PROVE  /\ UNCHANGED <<offered, enqueued, handler, log, checkpoint>>
         /\ \/ UNCHANGED outbox
            \/ /\ client[c].pc = "acking" /\ outbox # <<>>
               /\ Head(outbox) = client[c].batch
               /\ outbox' = Tail(outbox)
  BY DEF sender, receiver, budget, StartFlush, ReadFront, ConnectionReset, Acknowledge,
         LoseRequest, Timeout, AcknowledgeFails, CrashClient

\* Removing the head of the outbox removes nothing else.
LEMMA TailFacts ==
  ASSUME outbox \in Seq(Batches), outbox # <<>>
  PROVE  /\ Head(outbox) = outbox[1] /\ 1 \in 1..Len(outbox)
         /\ \A i \in 1..Len(Tail(outbox)) :
              i + 1 \in 1..Len(outbox) /\ Tail(outbox)[i] = outbox[i + 1]
         /\ \A i \in 1..Len(outbox) :
              i = 1 \/ (i - 1 \in 1..Len(Tail(outbox)) /\ Tail(outbox)[i - 1] = outbox[i])
  OBVIOUS

\* Adding a batch to the outbox keeps what is there.
LEMMA AppendFacts ==
  ASSUME outbox \in Seq(Batches), NEW b \in Batches, outbox' = Append(outbox, b)
  PROVE  /\ \A i \in 1..Len(outbox') : (i \in 1..Len(outbox) /\ outbox'[i] = outbox[i])
                                       \/ outbox'[i] = b
         /\ \A i \in 1..Len(outbox) : i \in 1..Len(outbox') /\ outbox'[i] = outbox[i]
         /\ \E i \in 1..Len(outbox') : outbox'[i] = b
<1>1. /\ Len(outbox) \in Nat /\ Len(outbox') = Len(outbox) + 1
      /\ \A i \in 1..Len(outbox) : outbox'[i] = outbox[i]
      /\ outbox'[Len(outbox) + 1] = b
  OBVIOUS
<1> QED  BY <1>1

\* A request that is worked on keeps its batch, and its client goes on waiting.
LEMMA HandlerMoves ==
  ASSUME TypeOK, FollowerInv, NEW h \in Handlers,
         \/ Validate(h) \/ Locate(h) \/ CheckChain(h) \/ Apply(h) \/ Record(h) \/ ApplyFails(h)
  PROVE  /\ UNCHANGED <<outbox, offered, enqueued, client>>
         /\ \A g \in Handlers : g # h => handler'[g] = handler[g]
         /\ handler[h].pc # "free" /\ handler'[h].pc # "free"
         /\ handler'[h].batch = handler[h].batch
<1>1. CASE Locate(h)
  BY <1>1, LocateFacts, ReplyFacts DEF Locate, TypeOK, sender
<1>2. CASE ~Locate(h)
  BY <1>2, GotoFacts, ReplyFacts
     DEF Validate, CheckChain, Apply, Record, ApplyFails, HandlerPcs, sender
<1> QED  BY <1>1, <1>2

\* The answer goes to the client that waits for it, if one still does.
LEMMA RespondMoves ==
  ASSUME TypeOK, NEW h \in Handlers, Respond(h)
  PROVE  /\ UNCHANGED <<outbox, offered, enqueued, log, checkpoint>>
         /\ handler[h].pc = "replying" /\ handler'[h].pc = "free"
         /\ \A g \in Handlers : g # h => handler'[g] = handler[g]
         /\ \/ UNCHANGED client /\ \A c \in Clients : ~WaitsFor(c, h)
            \/ \E c \in Clients :
                 /\ WaitsFor(c, h)
                 /\ \A d \in Clients : d # c => client'[d] = client[d]
                 /\ \/ client'[c].pc = "idle"
                    \/ /\ client'[c].pc \in {"sending", "acking"}
                       /\ client'[c].batch = client[c].batch
                       /\ client'[c].pc = "acking" => handler[h].ok
<1>1. /\ UNCHANGED <<outbox, offered, enqueued, log, checkpoint>>
      /\ handler[h].pc = "replying" /\ handler'[h].pc = "free"
      /\ \A g \in Handlers : g # h => handler'[g] = handler[g]
  BY DEF Respond, TypeOK, Free
<1>2. ASSUME NEW c \in Clients, WaitsFor(c, h),
             IF handler[h].ok THEN Enter(c, "acking") ELSE AttemptFailed(c)
      PROVE  /\ \A d \in Clients : d # c => client'[d] = client[d]
             /\ \/ client'[c].pc = "idle"
                \/ /\ client'[c].pc \in {"sending", "acking"}
                   /\ client'[c].batch = client[c].batch
                   /\ client'[c].pc = "acking" => handler[h].ok
  BY <1>2, EnterFacts, AttemptFailedFacts DEF ClientPcs
<1> QED  BY <1>1, <1>2 DEF Respond, WaitsFor

\* Sending puts the batch into a free handler the client then waits for.
LEMMA SendMoves ==
  ASSUME TypeOK, NEW c \in Clients, NEW h \in Handlers, Send(c, h)
  PROVE  /\ UNCHANGED <<outbox, offered, enqueued, log, checkpoint>>
         /\ client[c].pc = "sending" /\ WaitsFor(c, h)'
         /\ client'[c].batch = client[c].batch
         /\ \A d \in Clients : d # c => client'[d] = client[d]
         /\ handler[h].pc = "free" /\ handler'[h].pc = "received"
         /\ handler'[h].batch = client[c].batch
         /\ \A g \in Handlers : g # h => handler'[g] = handler[g]
  BY DEF Send, TypeOK, WaitsFor

\* A crash of the follower frees every handler and leaves nobody waiting for one.
LEMMA CrashMoves ==
  ASSUME TypeOK, CrashReceiver
  PROVE  /\ UNCHANGED <<outbox, offered, enqueued>>
         /\ \A h \in Handlers : handler'[h].pc = "free"
         /\ \A c \in Clients : client'[c].pc = client[c].pc /\ client'[c].batch = client[c].batch
         /\ \A c \in Clients, h \in Handlers : ~WaitsFor(c, h)'
<1>1. \A c \in Clients :
        /\ client'[c].pc = client[c].pc /\ client'[c].batch = client[c].batch
        /\ client[c].pc = "waiting" => client'[c].via = NoHandler
  BY DEF CrashReceiver, TypeOK
<1> QED  BY <1>1, BatchAssumption DEF CrashReceiver, Free, WaitsFor

\* A call of the host adds to the outbox what it adds to the accepted batches.
LEMMA DemandMoves ==
  ASSUME TypeOK, Demand
  PROVE  /\ UNCHANGED <<client, handler, log, checkpoint>>
         /\ \/ UNCHANGED <<outbox, enqueued>>
            \/ \E b \in Batches : /\ outbox' = Append(outbox, b)
                                  /\ enqueued' = enqueued \cup {b}
                                  /\ b \in offered'
  BY DEF Demand, FlushPending, Push, PushFails, sender, receiver, budget

\* Nothing travels that the leader did not build.
LEMMA OfferedStep ==
  ASSUME TypeOK, FollowerInv, Offered, Exchanges, Next
  PROVE  Offered'
<1>0. offered \subseteq offered'
  BY OfferedGrows
<1>1. ASSUME NEW c \in Clients,
             \/ StartFlush(c) \/ ReadFront(c) \/ ConnectionReset(c) \/ Acknowledge(c)
             \/ LoseRequest(c) \/ Timeout(c) \/ AcknowledgeFails(c) \/ CrashClient(c)
      PROVE  Offered'
  <2>1. ClientMoves(c) /\ UNCHANGED <<offered, enqueued, handler, log, checkpoint>>
    BY <1>1, ClientMovesFacts, OutboxMoves
  <2>2. outbox \in Seq(Batches)
    BY DEF TypeOK
  <2>3. outbox # <<>> => Head(outbox) \in offered
    BY <2>2, TailFacts DEF Offered
  <2>4. \A i \in 1..Len(outbox') : outbox'[i] \in offered
    BY <1>1, <2>2, OutboxMoves, TailFacts DEF Offered
  <2> QED  BY <2>1, <2>3, <2>4 DEF Offered, ClientMoves, InFlight
<1>2. ASSUME NEW c \in Clients, NEW h \in Handlers, Send(c, h)  PROVE Offered'
  BY <1>2, SendMoves DEF Offered, InFlight, WaitsFor
<1>3. ASSUME NEW h \in Handlers,
             \/ Validate(h) \/ Locate(h) \/ CheckChain(h) \/ Apply(h) \/ Record(h) \/ ApplyFails(h)
      PROVE  Offered'
  BY <1>3, HandlerMoves DEF Offered, InFlight
<1>4. ASSUME NEW h \in Handlers, Respond(h)  PROVE Offered'
  BY <1>4, RespondMoves DEF Offered, InFlight, WaitsFor
<1>5. CASE CrashReceiver
  BY <1>5, CrashMoves DEF Offered, InFlight
<1>6. CASE Demand
  <2>1. \A i \in 1..Len(outbox') : outbox'[i] \in offered'
    BY <1>0, <1>6, DemandMoves, AppendFacts DEF Offered, TypeOK
  <2> QED  BY <1>0, <1>6, <2>1, DemandMoves DEF Offered, InFlight
<1> QED  BY <1>1, <1>2, <1>3, <1>4, <1>5, <1>6
         DEF Next, ClientStep, HandlerStep, Disturbance

\* A handler answers the client that sent it what it works on, and nobody else.
LEMMA ExchangesStep ==
  ASSUME TypeOK, FollowerInv, Exchanges, Next
  PROVE  Exchanges'
<1>1. ASSUME NEW c \in Clients,
             \/ StartFlush(c) \/ ReadFront(c) \/ ConnectionReset(c) \/ Acknowledge(c)
             \/ LoseRequest(c) \/ Timeout(c) \/ AcknowledgeFails(c) \/ CrashClient(c)
      PROVE  Exchanges'
  BY <1>1, ClientMovesFacts, OutboxMoves DEF Exchanges, ClientMoves, WaitsFor
<1>2. ASSUME NEW c \in Clients, NEW h \in Handlers, Send(c, h)  PROVE Exchanges'
  <2>1. \A d \in Clients, g \in Handlers : d # c => (WaitsFor(d, g)' <=> WaitsFor(d, g))
    BY <1>2, SendMoves DEF WaitsFor
  <2>2. \A g \in Handlers : WaitsFor(c, g)' => g = h
    BY <1>2, SendMoves DEF WaitsFor
  <2>3. \A d \in Clients : ~WaitsFor(d, h)
    BY <1>2, SendMoves DEF Exchanges
  <2> QED  BY <1>2, <2>1, <2>2, <2>3, SendMoves DEF Exchanges
<1>3. ASSUME NEW h \in Handlers,
             \/ Validate(h) \/ Locate(h) \/ CheckChain(h) \/ Apply(h) \/ Record(h) \/ ApplyFails(h)
      PROVE  Exchanges'
  BY <1>3, HandlerMoves DEF Exchanges, WaitsFor
<1>4. ASSUME NEW h \in Handlers, Respond(h)  PROVE Exchanges'
  BY <1>4, RespondMoves DEF Exchanges, WaitsFor
<1>5. CASE CrashReceiver
  BY <1>5, CrashMoves DEF Exchanges
<1>6. CASE Demand
  BY <1>6, DemandMoves DEF Exchanges, WaitsFor
<1> QED  BY <1>1, <1>2, <1>3, <1>4, <1>5, <1>6
         DEF Next, ClientStep, HandlerStep, Disturbance

\* What leaves the outbox, and what is about to, is in the log.
LEMMA KeptStep ==
  ASSUME TypeOK, FollowerInv, Exchanges, Kept, Next
  PROVE  Kept'
<1>0. \A b : Covered(b) => Covered(b)'
  BY CoveredStays
<1>q. UNCHANGED outbox => \A b : Queued(b) => Queued(b)'
  BY DEF Queued
<1>1. ASSUME NEW c \in Clients,
             \/ StartFlush(c) \/ ReadFront(c) \/ ConnectionReset(c) \/ Acknowledge(c)
             \/ LoseRequest(c) \/ Timeout(c) \/ AcknowledgeFails(c) \/ CrashClient(c)
      PROVE  Kept'
  <2>1. \A d \in Clients : client'[d].pc = "acking" => client'[d] = client[d]
    BY <1>1, ClientMovesFacts DEF ClientMoves
  <2>2. \A b : Queued(b) => Queued(b)' \/ Covered(b)
    <3>1. CASE UNCHANGED outbox
      BY <1>q, <3>1
    <3>2. CASE /\ client[c].pc = "acking" /\ outbox # <<>>
               /\ Head(outbox) = client[c].batch
               /\ outbox' = Tail(outbox)
      <4>1. Covered(Head(outbox))
        BY <3>2 DEF Kept
      <4>2. outbox \in Seq(Batches)
        BY DEF TypeOK
      <4> QED  BY <3>2, <4>1, <4>2, TailFacts DEF Queued
    <3> QED  BY <1>1, <3>1, <3>2, OutboxMoves
  <2>3. UNCHANGED enqueued
    BY <1>1, OutboxMoves
  <2>4. \A d \in Clients : client'[d].pc = "acking" => Covered(client[d].batch)'
    BY <1>0, <2>1 DEF Kept
  <2>5. \A b \in enqueued : Queued(b)' \/ Covered(b)'
    BY <1>0, <2>2 DEF Kept
  <2> QED  BY <2>1, <2>3, <2>4, <2>5 DEF Kept, Covered
<1>2. ASSUME UNCHANGED <<outbox, enqueued>>,
             \A d \in Clients : client'[d].pc = "acking" =>
               Covered(client'[d].batch)
      PROVE  Kept'
  BY <1>0, <1>q, <1>2 DEF Kept, Covered
<1>3. ASSUME NEW c \in Clients, NEW h \in Handlers, Send(c, h)  PROVE Kept'
  BY <1>2, <1>3, SendMoves DEF Kept, WaitsFor
<1>4. ASSUME NEW h \in Handlers,
             \/ Validate(h) \/ Locate(h) \/ CheckChain(h) \/ Apply(h) \/ Record(h) \/ ApplyFails(h)
      PROVE  Kept'
  BY <1>2, <1>4, HandlerMoves DEF Kept
<1>5. ASSUME NEW h \in Handlers, Respond(h)  PROVE Kept'
  <2>1. handler[h].ok => Covered(handler[h].batch)
    BY <1>5, RespondMoves DEF FollowerInv, Accepted
  <2>2. \A c \in Clients : WaitsFor(c, h) => client[c].batch = handler[h].batch
    BY DEF Exchanges
  <2> QED  BY <1>2, <1>5, <2>1, <2>2, RespondMoves DEF Kept
<1>6. CASE CrashReceiver
  BY <1>2, <1>6, CrashMoves DEF Kept
<1>7. CASE Demand
  <2>1. CASE UNCHANGED <<outbox, enqueued>>
    BY <1>2, <1>7, <2>1, DemandMoves DEF Kept
  <2>2. ASSUME NEW b \in Batches, outbox' = Append(outbox, b), enqueued' = enqueued \cup {b}
        PROVE  Kept'
    <3>1. Queued(b)' /\ \A d : Queued(d) => Queued(d)'
      BY <2>2, AppendFacts DEF TypeOK, Queued
    <3> QED  BY <1>0, <1>7, <2>2, <3>1, DemandMoves DEF Kept, Covered
  <2> QED  BY <1>7, <2>1, <2>2, DemandMoves
<1> QED  BY <1>1, <1>3, <1>4, <1>5, <1>6, <1>7
         DEF Next, ClientStep, HandlerStep, Disturbance

-----------------------------------------------------------------------------
(* The theorems.                                                           *)

\* The invariant holds when both sides start with nothing.
LEMMA InitInv == Init => Inv
<1> SUFFICES ASSUME Init PROVE Inv
  OBVIOUS
<1>1. TypeOK
  BY TypeInit
<1>2. \A s \in Seqs : log[s] = NoEvent
  BY DEF Init
<1>3. checkpoint.seq = 0 /\ \A s \in Seqs : ~(s <= 0)
  BY BatchAssumption DEF Init, Seqs
<1>4. \A h \in Handlers : handler[h].pc = "free"
  BY DEF Init, Free
<1>5. \A c \in Clients : client[c].pc = "idle"
  BY DEF Init, Idle
<1>6. outbox = <<>> /\ enqueued = {} /\ offered = {}
  BY DEF Init
<1> QED  BY <1>1, <1>2, <1>3, <1>4, <1>5, <1>6
         DEF Inv, FollowerInv, CheckpointBacked, Placed, Accepted, Sourced, Offered, InFlight,
             Exchanges, WaitsFor, Kept

\* Every step keeps the types.
LEMMA TypeStep == ASSUME TypeOK, FollowerInv, Next PROVE TypeOK'
<1>1. \A h \in Handlers : handler[h].pc # "free" => handler[h].batch \in Batches
  BY DEF FollowerInv
<1> QED  BY <1>1, TypeClient, TypeHandler, TypeDisturbance, TypeDemand DEF Next

\* Every step keeps the invariant.
LEMMA InvStep == Inv /\ [Next]_vars => Inv'
<1>1. ASSUME Inv, Next PROVE Inv'
  BY <1>1, TypeStep, FollowerStep, SourcedStep, OfferedStep, ExchangesStep, KeptStep DEF Inv
<1>2. ASSUME Inv, UNCHANGED vars PROVE Inv'
  BY <1>2 DEF vars, sender, receiver, budget, Inv, TypeOK, FollowerInv, CheckpointBacked,
     Placed, Accepted, Covered, Sourced, Offered, InFlight, Exchanges, WaitsFor, Kept, Queued
<1> QED  BY <1>1, <1>2

\* Every behaviour keeps the invariant.
THEOREM Invariant == Spec => []Inv
  BY InitInv, InvStep, PTL DEF Spec

\* append_events_to_log: the follower's log never has a hole and backs the
\* checkpoint, whatever requests overlap, fail or are cut short.
THEOREM LogBacksCheckpoint == Spec => []CheckpointBacked
<1>1. Inv => CheckpointBacked
  BY DEF Inv, FollowerInv
<1> QED  BY <1>1, Invariant, PTL

\* The agreement of the batches makes covering a range holding the batch.
LEMMA CoveredHolds ==
  ASSUME Inv, OneStream, NEW b \in offered, Covered(b)
  PROVE  Holds(b)
<1> SUFFICES ASSUME NEW s \in RangeOf(b) PROVE log[s] = EventOf[b][s]
  BY DEF Holds
<1>1. PICK d \in offered : s \in RangeOf(d) /\ log[s] = EventOf[d][s]
  BY DEF Inv, Sourced, Covered, RangeOf
<1> QED  BY <1>1 DEF OneStream

\* flush_queue and acknowledge_front: a batch leaves the outbox only once the
\* follower's log holds its events.
THEOREM OutboxIsDurable == Spec => []NothingLost
<1>1. Inv => NothingLost
  BY CoveredHolds DEF Inv, Kept, Offered, NothingLost
<1> QED  BY <1>1, Invariant, PTL

\* A batch that cannot be placed as a whole adds nothing: before an obstacle the
\* log has every event already, since it has no holes.
LEMMA ObstructedAddsNothing ==
  ASSUME Inv, NEW h \in Handlers, Apply(h), Obstacles(h) # {}
  PROVE  log' = log
<1> DEFINE b == handler[h].batch
<1>0. /\ b \in Batches /\ handler[h].last \in Nat
      /\ log \in [Seqs -> Events \cup {NoEvent}]
      /\ \A s \in RangeOf(b) : s \in Seqs
      /\ \A s \in Seqs : s \in Nat
  <2>1. b \in Batches
    BY DEF Apply, Inv, FollowerInv
  <2>2. handler[h].last \in Nat /\ log \in [Seqs -> Events \cup {NoEvent}]
    BY BatchAssumption DEF Inv, TypeOK
  <2> HIDE DEF b
  <2> QED  BY <2>1, <2>2, BatchAssumption DEF RangeOf, Seqs
<1>1. PICK o \in Obstacles(h) : TRUE
  OBVIOUS
<1>2. ASSUME NEW s \in Reached(h) PROVE log[s] = EventOf[b][s]
  <2>1. s \in RangeOf(b) /\ s < o /\ o \in RangeOf(b) /\ s \in Nat /\ o \in Nat
    BY <1>0, <1>1 DEF Reached, Obstacles
  <2>2. s \notin Obstacles(h)
    <3>1. s \in Obstacles(h) => s < s
      BY <1>2 DEF Reached
    <3> QED  BY <2>1, <3>1
  <2>3. log[s] = EventOf[b][s] \/ (log[s] = NoEvent /\ ~(s <= handler[h].last))
    BY <2>1, <2>2 DEF Obstacles
  <2>4. log[s] # NoEvent
    <3> SUFFICES ASSUME log[s] = NoEvent PROVE FALSE
      OBVIOUS
    <3>1. ~(o <= handler[h].last)
      BY <1>0, <2>1, <2>3, BatchAssumption DEF Apply, Inv, FollowerInv, Placed
    <3>2. log[o] # NoEvent
      BY <1>1, <3>1 DEF Obstacles
    <3> QED  BY <1>0, <2>1, <3>2 DEF Inv, FollowerInv, CheckpointBacked
  <2> QED  BY <2>3, <2>4
<1> QED  BY <1>0, <1>2 DEF Apply, Appended

\* apply_sync_message: unless a write fails or the follower dies, the log changes
\* only for a batch that is accepted as a whole.
THEOREM BatchesApplyWhole == Spec => AppendsWholeBatches
<1>1. ASSUME Inv, Next, log' # log, crashes' = crashes, ioFailures' = ioFailures
      PROVE  \E h \in Handlers : handler[h].pc = "apply" /\ handler'[h].pc = "record"
  <2>0. crashes \in Nat /\ ioFailures \in Nat
    BY <1>1 DEF Inv, TypeOK
  <2>1. ASSUME NEW h \in Handlers, Apply(h)
        PROVE  handler[h].pc = "apply" /\ handler'[h].pc = "record"
    <3>1. Obstacles(h) = {}
      BY <1>1, <2>1, ObstructedAddsNothing
    <3> QED  BY <1>1, <2>1, <3>1, GotoFacts DEF Apply, Inv, HandlerPcs
  <2>2. \A h \in Handlers : ~ApplyFails(h)
    <3>1. ioFailures + 1 # ioFailures
      BY <2>0
    <3> QED  BY <1>1, <3>1, Zenon DEF ApplyFails, FailIo
  <2>3. ~CrashReceiver
    <3>1. crashes + 1 # crashes
      BY <2>0
    <3> QED  BY <1>1, <3>1, Zenon DEF CrashReceiver
  <2>4. \A c \in Clients :
          ~(ClientStep(c) \/ LoseRequest(c) \/ Timeout(c) \/ AcknowledgeFails(c) \/ CrashClient(c))
    BY <1>1 DEF ClientStep, StartFlush, ReadFront, Send, ConnectionReset, Acknowledge,
       LoseRequest, Timeout, AcknowledgeFails, CrashClient, sender, receiver, budget
  <2>5. ~Demand
    BY <1>1 DEF Demand, FlushPending, Push, PushFails, sender, receiver, budget
  <2>6. \A h \in Handlers :
          ~(Validate(h) \/ Locate(h) \/ CheckChain(h) \/ Record(h) \/ Respond(h))
    BY <1>1 DEF Validate, Locate, CheckChain, Record, Respond
  <2> QED  BY <1>1, <2>1, <2>2, <2>3, <2>4, <2>5, <2>6 DEF Next, HandlerStep, Disturbance
<1>2. Inv /\ [Next]_vars =>
        [log' # log /\ crashes' = crashes /\ ioFailures' = ioFailures
           => \E h \in Handlers : handler[h].pc = "apply" /\ handler'[h].pc = "record"]_vars
  BY <1>1
<1> QED  BY <1>2, Invariant, PTL DEF Spec, AppendsWholeBatches

-----------------------------------------------------------------------------
(* One request at a time.                                                  *)

\* With one handler the checkpoint never goes back.
LEMMA CheckpointGrows ==
  ASSUME OneHandler, Inv, Advances, Next
  PROVE  checkpoint'.seq >= checkpoint.seq
<1>0. checkpoint.seq \in Nat
  BY DEF Inv, TypeOK
<1>1. ASSUME NEW h \in Handlers, handler[h].pc = "apply", checkpoint' = CheckpointOf(h)
      PROVE  checkpoint'.seq >= checkpoint.seq
  <2>1. handler[h].batch \in Batches
    BY <1>1 DEF Inv, FollowerInv
  <2>2. EndOf[handler[h].batch] \in Nat
    BY <2>1, BatchAssumption DEF Seqs
  <2> QED  BY <1>0, <1>1, <2>2 DEF Advances, CheckpointOf
<1> QED  BY <1>0, <1>1, LogSteps DEF Writes

\* What the checkpoint covers it goes on covering.
LEMMA AdvancesStep ==
  ASSUME OneHandler, Inv, Advances, Next, Inv'
  PROVE  Advances'
<1>0. /\ checkpoint'.seq >= checkpoint.seq
      /\ checkpoint.seq \in Nat /\ checkpoint'.seq \in Nat
      /\ \A b \in Batches : EndOf[b] \in Nat
  <2>1. checkpoint'.seq >= checkpoint.seq
    BY CheckpointGrows
  <2>2. checkpoint.seq \in Nat /\ checkpoint'.seq \in Nat
    BY DEF Inv, TypeOK
  <2>3. \A b \in Batches : EndOf[b] \in Nat
    BY BatchAssumption DEF Seqs
  <2> QED  BY <2>1, <2>2, <2>3
<1>s. \A b \in Batches : EndOf[b] <= checkpoint.seq => EndOf[b] <= checkpoint'.seq
  BY <1>0
<1>t. /\ TypeOK /\ FollowerInv /\ Exchanges
      /\ offered \in SUBSET Batches /\ enqueued \in SUBSET Batches
      /\ \A h \in Handlers : handler[h].pc # "free" => handler[h].batch \in Batches
      /\ \A c \in Clients : InFlight(c) => client[c].batch \in Batches
  BY DEF Inv, TypeOK, FollowerInv, Offered
<1>q. UNCHANGED outbox => \A b : Queued(b) => Queued(b)'
  BY DEF Queued
<1>1. ASSUME NEW c \in Clients,
             \/ StartFlush(c) \/ ReadFront(c) \/ ConnectionReset(c) \/ Acknowledge(c)
             \/ LoseRequest(c) \/ Timeout(c) \/ AcknowledgeFails(c) \/ CrashClient(c)
      PROVE  Advances'
  <2>1. \A d \in Clients : client'[d].pc = "acking" => client'[d] = client[d]
    BY <1>t, <1>1, ClientMovesFacts DEF ClientMoves
  <2>2. \A b : Queued(b) => Queued(b)' \/ EndOf[b] <= checkpoint.seq
    <3>1. CASE UNCHANGED outbox
      BY <1>q, <3>1
    <3>2. CASE /\ client[c].pc = "acking" /\ outbox # <<>>
               /\ Head(outbox) = client[c].batch
               /\ outbox' = Tail(outbox)
      <4>1. EndOf[Head(outbox)] <= checkpoint.seq
        BY <3>2 DEF Advances
      <4>2. outbox \in Seq(Batches)
        BY <1>t DEF TypeOK
      <4> QED  BY <3>2, <4>1, <4>2, TailFacts DEF Queued
    <3> QED  BY <1>t, <1>1, <3>1, <3>2, OutboxMoves
  <2>3. UNCHANGED <<enqueued, handler, checkpoint>>
    BY <1>t, <1>1, OutboxMoves
  <2>4. CheckpointCoversAcknowledged'
    BY <2>2, <2>3 DEF Advances, CheckpointCoversAcknowledged
  <2> QED  BY <2>1, <2>3, <2>4 DEF Advances, Accepted
<1>2. ASSUME UNCHANGED <<outbox, enqueued>>
      PROVE  CheckpointCoversAcknowledged'
  BY <1>s, <1>t, <1>q, <1>2 DEF Advances, CheckpointCoversAcknowledged
<1>3. ASSUME NEW c \in Clients, NEW h \in Handlers, Send(c, h)  PROVE Advances'
  BY <1>t, <1>2, <1>3, SendMoves DEF Advances, Accepted, WaitsFor
<1>4. ASSUME NEW h \in Handlers, HandlerStep(h) \/ ApplyFails(h)
      PROVE  Advances'
  <2>0. \A g \in Handlers : g = h
    BY DEF OneHandler
  <2>1. CASE Validate(h)
    <3>1. handler'[h].pc \in {"replying", "validated"} /\ ~Accepted(h)'
      BY <1>t, <2>1, GotoFacts, ReplyFacts DEF Validate, HandlerPcs, Accepted
    <3> QED  BY <1>t, <1>2, <2>0, <2>1, <3>1, HandlerMoves DEF Validate, Advances
  <2>2. CASE Locate(h)
    <3>1. /\ handler'[h].batch = handler[h].batch /\ checkpoint' = checkpoint
          /\ handler'[h].pc \in {"replying", "located"}
          /\ handler'[h].pc = "replying" /\ handler'[h].ok => EndOf[handler[h].batch] <= checkpoint.seq
          /\ handler'[h].pc = "located" =>
               EndOf[handler[h].batch] > checkpoint.seq /\ handler'[h].last = checkpoint.seq
      BY <1>t, <1>0, <2>2, LocateFacts DEF Locate
    <3>2. UNCHANGED <<client, outbox, enqueued>>
      BY <2>2 DEF Locate, sender
    <3> QED  BY <1>t, <1>0, <1>2, <2>0, <3>1, <3>2 DEF Advances, Accepted
  <2>3. CASE CheckChain(h)
    <3>1. /\ handler'[h].pc \in {"replying", "apply"} /\ ~Accepted(h)'
          /\ handler'[h].pc = "apply" => handler'[h].last = handler[h].last
      BY <1>t, <2>3, GotoFacts, ReplyFacts DEF CheckChain, HandlerPcs, Accepted
    <3> QED  BY <1>t, <1>2, <2>0, <2>3, <3>1, HandlerMoves DEF CheckChain, Advances
  <2>4. CASE Apply(h) \/ ApplyFails(h)
    <3>1. /\ handler'[h].pc \in {"replying", "record"}
          /\ Accepted(h)' => EndOf[handler'[h].batch] <= checkpoint'.seq
      <4>1. CASE Apply(h) /\ Obstacles(h) = {}
        BY <1>t, <1>0, <4>1, GotoFacts DEF Apply, CheckpointOf, HandlerPcs
      <4>2. CASE (Apply(h) /\ Obstacles(h) # {}) \/ ApplyFails(h)
        BY <1>t, <4>2, ReplyFacts DEF Apply, ApplyFails, Accepted
      <4> QED  BY <2>4, <4>1, <4>2
    <3>2. UNCHANGED <<outbox, enqueued, client>>
      BY <1>t, <2>4, HandlerMoves
    <3>3. \A c \in Clients : client'[c].pc = "acking" => EndOf[client'[c].batch] <= checkpoint'.seq
      BY <1>s, <1>t, <3>2 DEF Advances, InFlight
    <3> QED  BY <1>2, <2>0, <3>1, <3>2, <3>3 DEF Advances
  <2>5. CASE Record(h)
    <3>1. /\ handler'[h].pc = "replying" /\ handler'[h].batch = handler[h].batch
          /\ EndOf[handler[h].batch] <= checkpoint.seq
      BY <1>t, <2>5, ReplyFacts DEF Record, Advances, Accepted
    <3> QED  BY <1>t, <1>2, <2>0, <2>5, <3>1, HandlerMoves DEF Record, Advances
  <2>6. CASE Respond(h)
    <3>1. handler[h].ok => EndOf[handler[h].batch] <= checkpoint.seq
      BY <1>t, <2>6, RespondMoves DEF Advances, Accepted
    <3>2. \A c \in Clients : WaitsFor(c, h) => client[c].batch = handler[h].batch
      BY <1>t DEF Exchanges
    <3> QED  BY <1>t, <1>2, <2>0, <2>6, <3>1, <3>2, RespondMoves DEF Advances, Accepted
  <2> QED  BY <1>4, <2>1, <2>2, <2>3, <2>4, <2>5, <2>6 DEF HandlerStep
<1>5. CASE CrashReceiver
  <2>1. \A c \in Clients : client'[c].pc = "acking" => EndOf[client'[c].batch] <= checkpoint'.seq
    BY <1>s, <1>t, <1>5, CrashMoves DEF Advances, InFlight
  <2> QED  BY <1>t, <1>2, <1>5, <2>1, CrashMoves DEF Advances, Accepted
<1>6. CASE Demand
  <2>1. CheckpointCoversAcknowledged'
    <3>1. CASE UNCHANGED <<outbox, enqueued>>
      BY <1>2, <3>1
    <3>2. ASSUME NEW b \in Batches, outbox' = Append(outbox, b), enqueued' = enqueued \cup {b}
          PROVE  CheckpointCoversAcknowledged'
      <4>1. Queued(b)' /\ \A d : Queued(d) => Queued(d)'
        BY <1>t, <3>2, AppendFacts DEF TypeOK, Queued
      <4> QED  BY <1>s, <1>t, <3>2, <4>1 DEF Advances, CheckpointCoversAcknowledged
    <3> QED  BY <1>t, <1>6, <3>1, <3>2, DemandMoves
  <2> QED  BY <1>t, <1>6, <2>1, DemandMoves DEF Advances, Accepted
<1> QED  BY <1>1, <1>3, <1>4, <1>5, <1>6
         DEF Next, ClientStep, HandlerStep, Disturbance

\* set_checkpoint: while the follower serves one request at a time, the checkpoint
\* covers every batch the leader removed from its outbox.  (With two, the later of
\* two overlapping requests may write an older checkpoint.)
THEOREM CheckpointIsLastAccepted ==
  ASSUME OneHandler PROVE Spec => []CheckpointCoversAcknowledged
<1>1. Init => Advances
  BY DEF Init, Advances, CheckpointCoversAcknowledged, Accepted, Idle, Free
<1>2. Inv /\ Inv' /\ Advances /\ [Next]_vars => Advances'
  <2>1. ASSUME Inv, Inv', Advances, Next PROVE Advances'
    BY <2>1, AdvancesStep
  <2>2. ASSUME Advances, UNCHANGED vars PROVE Advances'
    BY <2>2 DEF vars, sender, receiver, budget, Advances, Accepted,
       CheckpointCoversAcknowledged, Queued
  <2> QED  BY <2>1, <2>2
<1>3. Advances => CheckpointCoversAcknowledged
  BY DEF Advances
<1> QED  BY <1>1, <1>2, <1>3, Invariant, PTL DEF Spec

-----------------------------------------------------------------------------
(* Peer RPC: the nonce of an envelope that was accepted is known for as    *)
(* long as the envelope could be accepted again.                           *)

\* The dispatcher has run for the nonce, or is about to.
Spent(n) == n \in accepted \/ dispatched[n] > 0

PeerTypes ==
  /\ clock \in Nat
  /\ attempt \in [PeerCalls -> [at : {"idle", "waiting", "backoff", "done"}, number : Nat]]
  /\ accepted \in SUBSET AllNonces
  /\ dispatched \in [AllNonces -> Nat]
  /\ order \in Seq(AllNonces)
  /\ \A n \in DOMAIN nonces : nonces[n] \in Int

\* A call waits to be tried only while it has tries left.
TriesLeft ==
  \A c \in PeerCalls :
    /\ attempt[c].number <= AttemptsOf(c)
    /\ attempt[c].at \in {"idle", "backoff"} => attempt[c].number < AttemptsOf(c)

\* An envelope stands for one attempt that was made, stamped no later than now.
Stamped(e) ==
  /\ e.call \in PeerCalls /\ e.nonce \in AllNonces /\ e.nonce[1] = e.call
  /\ e.nonce[2] <= attempt[e.call].number
  /\ e.issued \in Nat /\ e.issued <= clock
  /\ e.expires = e.issued + EnvelopeTtl

OneEnvelopeEach == \A e, f \in wire : e.nonce = f.nonce => e = f

\* The dispatcher has not run yet for what is accepted, and ran once for the rest.
DispatchedOnce ==
  \A n \in AllNonces :
    /\ dispatched[n] <= 1
    /\ n \in accepted => dispatched[n] = 0

\* The store knows every spent nonce until its envelope has expired.
Remembered(n) ==
  \A e \in wire : e.nonce = n /\ e.expires > clock =>
    n \in DOMAIN nonces /\ nonces[n] >= e.expires

SpentKnown ==
  \A n \in AllNonces : Spent(n) => n[2] <= attempt[n[1]].number /\ Remembered(n)

PeerInv ==
  /\ PeerTypes /\ TriesLeft
  /\ \A e \in wire : Stamped(e)
  /\ OneEnvelopeEach /\ DispatchedOnce /\ SpentKnown

\* AttemptsOf: how often a call may be tried.
LEMMA AttemptsBound ==
  ASSUME PeerAssumption, NEW c \in PeerCalls
  PROVE  AttemptsOf(c) \in 1..MaxPeerTries
BY DEF PeerAssumption, AttemptsOf

\* retain_memory and retain drop no live nonce (nonce.rs, replay.rs).
LEMMA LiveIsRetained ==
  ASSUME PeerTypes, NEW n, NEW m, m \in DOMAIN nonces, nonces[m] > clock
  PROVE  m \in Retained(n)
<1>1. Live(m)
  BY DEF Live
<1>2. \A i \in ExpiredFront : order[i] # m
  <2>. SUFFICES ASSUME NEW i \in ExpiredFront, order[i] = m PROVE FALSE
    OBVIOUS
  <2>1. i \in 1..i
    BY DEF ExpiredFront, PeerTypes
  <2>. QED
    BY <2>1, <1>1 DEF ExpiredFront
<1>. QED
  BY <1>1, <1>2 DEF Retained

\* The order that retain_memory leaves is the order of what stays.
LEMMA RetainedOrderType ==
  ASSUME PeerTypes
  PROVE  RetainedOrder \in Seq(AllNonces)
<1>1. Len(order) \in Nat /\ DOMAIN order = 1..Len(order) /\ order \in Seq(AllNonces)
  BY DEF PeerTypes
<1>2. IsFiniteSet(ExpiredFront)
  <2>1. IsFiniteSet(1..Len(order))
    BY <1>1, FS_Interval
  <2>. QED
    BY <2>1, <1>1, FS_Subset DEF ExpiredFront
<1>3. Cardinality(ExpiredFront) \in Nat
  BY <1>2, FS_CardinalityType
<1>. DEFINE k == Cardinality(ExpiredFront) + 1
<1>4. k \in Nat /\ k >= 1
  BY <1>3
<1>5. SubSeq(order, k, Len(order)) \in Seq(AllNonces)
  <2>. HIDE DEF k
  <2>. QED
    BY <1>1, <1>4
<1>. QED
  BY <1>1, <1>5 DEF RetainedOrder

\* An envelope that passes the host's checks and is not known has not been accepted before.
LEMMA OnlyOnceFresh ==
  ASSUME PeerAssumption, PeerInv, NEW e \in wire,
         PeerRefusal(e) = "ok", Verdict(e.nonce, KeptUntil(e)) = "ok"
  PROVE  /\ ~Spent(e.nonce)
         /\ KeptUntil(e) = e.expires
         /\ StoredUntil(KeptUntil(e)) = e.expires
<1>1. Stamped(e) /\ clock \in Nat
  BY DEF PeerInv, PeerTypes
<1>2. e.expires > clock
  BY DEF PeerRefusal, Authentic
<1>3. KeptUntil(e) = e.expires
  BY <1>1 DEF KeptUntil, Min2, Stamped, PeerAssumption
<1>4. StoredUntil(e.expires) = e.expires
  BY <1>1 DEF StoredUntil, Min2, Stamped, PeerAssumption
<1>5. ASSUME Spent(e.nonce) PROVE FALSE
  <2>1. e.nonce \in DOMAIN nonces /\ nonces[e.nonce] >= e.expires
    BY <1>1, <1>2, <1>5 DEF PeerInv, SpentKnown, Remembered, Stamped
  <2>2. nonces[e.nonce] > clock
    BY <2>1, <1>1, <1>2 DEF PeerInv, PeerTypes, Stamped, PeerAssumption
  <2>3. e.nonce \in Retained(e.nonce)
    BY <2>1, <2>2, LiveIsRetained DEF PeerInv
  <2>. QED
    BY <2>3 DEF Verdict
<1>. QED
  BY <1>3, <1>4, <1>5

\* Whatever check_and_record and cleanup do, a spent nonce stays known.
LEMMA KnownStays ==
  ASSUME PeerAssumption, PeerInv, NEW n \in AllNonces, Spent(n), NEW keep,
         clock' = clock, wire' = wire,
         \A m \in DOMAIN nonces : nonces[m] > clock => m \in keep,
         keep \subseteq DOMAIN nonces',
         \A m \in keep \cap DOMAIN nonces : nonces'[m] = nonces[m]
  PROVE  Remembered(n)'
<1>. SUFFICES ASSUME NEW e \in wire, e.nonce = n, e.expires > clock
              PROVE  n \in DOMAIN nonces' /\ nonces'[n] >= e.expires
  BY DEF Remembered
<1>1. n \in DOMAIN nonces /\ nonces[n] >= e.expires
  BY DEF PeerInv, SpentKnown, Remembered
<1>2. nonces[n] > clock
  BY <1>1 DEF PeerInv, Stamped, PeerAssumption, PeerTypes
<1>. QED
  BY <1>1, <1>2

\* The client's and the clock's steps: the store keeps what it has.
LEMMA ClientKeepsPeerInv ==
  ASSUME PeerAssumption, PeerInv, NEW c \in PeerCalls, PeerClientStep(c)
  PROVE  PeerInv'
<1>. USE DEF PeerInv
<1>0. AttemptsOf(c) \in 1..MaxPeerTries /\ MaxPeerTries \in Nat
  BY AttemptsBound DEF PeerAssumption
<1>1. kind' = kind /\ clock' = clock /\ UNCHANGED hostVars
  BY DEF PeerClientStep, SendAttempt, ReceiveAnswer, TransportFails, hostVars
<1>2. \E row \in [at : {"idle", "waiting", "backoff", "done"}, number : Nat] :
        /\ attempt' = [attempt EXCEPT ![c] = row]
        /\ attempt[c].number <= row.number /\ row.number <= AttemptsOf(c)
        /\ row.at \in {"idle", "backoff"} => row.number < AttemptsOf(c)
        /\ wire' = wire \/ (wire' = wire \cup {Envelope(c)} /\ row.number = attempt[c].number + 1)
  <2>0. attempt[c] \in [at : {"idle", "waiting", "backoff", "done"}, number : Nat]
    BY DEF PeerTypes
  <2>1. CASE Finish(c) /\ wire' = wire
    <3>. DEFINE new == [attempt[c] EXCEPT !.at = "done"]
    <3>1. new \in [at : {"idle", "waiting", "backoff", "done"}, number : Nat]
      BY <2>0
    <3>2. attempt' = [attempt EXCEPT ![c] = new]
      BY <2>1 DEF Finish
    <3>3. new.number = attempt[c].number /\ new.at = "done"
      BY <2>0
    <3>4. attempt[c].number <= AttemptsOf(c)
      BY DEF TriesLeft
    <3>. HIDE DEF new
    <3>. WITNESS new \in [at : {"idle", "waiting", "backoff", "done"}, number : Nat]
    <3>. QED
      BY <3>1, <3>2, <3>3, <3>4, <2>0, <2>1
  <2>2. CASE /\ attempt' = [attempt EXCEPT ![c].at = "backoff"]
             /\ attempt[c].number # AttemptsOf(c) /\ wire' = wire
    <3>. DEFINE new == [attempt[c] EXCEPT !.at = "backoff"]
    <3>1. new \in [at : {"idle", "waiting", "backoff", "done"}, number : Nat]
      BY <2>0
    <3>2. attempt' = [attempt EXCEPT ![c] = new]
      BY <2>2
    <3>3. new.number = attempt[c].number /\ new.at = "backoff"
      BY <2>0
    <3>4. attempt[c].number < AttemptsOf(c)
      BY <2>0, <2>2, <1>0 DEF TriesLeft
    <3>. HIDE DEF new
    <3>. WITNESS new \in [at : {"idle", "waiting", "backoff", "done"}, number : Nat]
    <3>. QED
      BY <3>1, <3>2, <3>3, <3>4, <2>0, <2>2, <1>0
  <2>3. CASE /\ attempt[c].at \in {"idle", "backoff"}
             /\ wire' = wire \cup {Envelope(c)}
             /\ attempt' = [attempt EXCEPT ![c].at = "waiting", ![c].number = @ + 1]
    <3>. DEFINE sent == [attempt[c] EXCEPT !.at = "waiting"]
                new == [sent EXCEPT !.number = @ + 1]
    <3>1. new \in [at : {"idle", "waiting", "backoff", "done"}, number : Nat]
      <4>1. sent \in [at : {"idle", "waiting", "backoff", "done"}, number : Nat]
        BY <2>0
      <4>2. \A r \in [at : {"idle", "waiting", "backoff", "done"}, number : Nat] :
              [r EXCEPT !.number = @ + 1] \in
                [at : {"idle", "waiting", "backoff", "done"}, number : Nat]
        OBVIOUS
      <4>. HIDE DEF sent
      <4>. QED
        BY <4>1, <4>2
    <3>2. new.number = attempt[c].number + 1 /\ new.at = "waiting"
      BY <2>0
    <3>3. attempt' = [attempt EXCEPT ![c] = new]
      <4>. DEFINE first == [attempt EXCEPT ![c].at = "waiting"]
      <4>1. /\ DOMAIN first = PeerCalls /\ first[c] = [attempt[c] EXCEPT !.at = "waiting"]
            /\ \A d \in PeerCalls \ {c} : first[d] = attempt[d]
        BY DEF PeerTypes
      <4>2. attempt' = [first EXCEPT ![c] = [first[c] EXCEPT !.number = @ + 1]]
        BY <2>3
      <4>. HIDE DEF first
      <4>3. attempt' = [first EXCEPT ![c] = new]
        BY <4>1, <4>2
      <4>. HIDE DEF new
      <4>4. attempt' = [d \in PeerCalls |-> IF d = c THEN new ELSE attempt[d]]
        BY <4>1, <4>3
      <4>. QED
        BY <4>4 DEF PeerTypes
    <3>4. attempt[c].number < AttemptsOf(c)
      BY <2>3 DEF TriesLeft
    <3>. HIDE DEF new
    <3>. WITNESS new \in [at : {"idle", "waiting", "backoff", "done"}, number : Nat]
    <3>. QED
      BY <3>1, <3>2, <3>3, <3>4, <2>0, <2>3, <1>0
  <2>. QED
    BY <2>1, <2>2, <2>3 DEF PeerClientStep, SendAttempt, ReceiveAnswer, TransportFails, Conclude
<1>3. PICK row \in [at : {"idle", "waiting", "backoff", "done"}, number : Nat] :
        /\ attempt' = [attempt EXCEPT ![c] = row]
        /\ attempt[c].number <= row.number /\ row.number <= AttemptsOf(c)
        /\ row.at \in {"idle", "backoff"} => row.number < AttemptsOf(c)
        /\ wire' = wire \/ (wire' = wire \cup {Envelope(c)} /\ row.number = attempt[c].number + 1)
  BY <1>2
<1>4. PeerTypes'
  <2>1. attempt' \in [PeerCalls -> [at : {"idle", "waiting", "backoff", "done"}, number : Nat]]
    BY <1>3 DEF PeerTypes
  <2>. QED
    BY <1>1, <2>1 DEF PeerTypes, hostVars
<1>5. \A d \in PeerCalls : /\ attempt[d].number \in Nat /\ attempt'[d].number \in Nat
                           /\ attempt[d].number <= attempt'[d].number
  BY <1>3 DEF PeerTypes
<1>6. TriesLeft'
  <2>. SUFFICES ASSUME NEW d \in PeerCalls
                PROVE  /\ attempt'[d].number <= AttemptsOf(d)
                       /\ attempt'[d].at \in {"idle", "backoff"} => attempt'[d].number < AttemptsOf(d)
    BY <1>1 DEF TriesLeft, AttemptsOf
  <2>1. CASE d = c
    BY <2>1, <1>3 DEF PeerTypes
  <2>2. CASE d # c
    BY <2>2, <1>3 DEF PeerTypes, TriesLeft
  <2>. QED
    BY <2>1, <2>2
<1>7. ASSUME NEW e \in wire PROVE Stamped(e)'
  <2>1. Stamped(e) /\ clock' = clock
    BY <1>1
  <2>2. e.nonce[2] \in Nat /\ e.call \in PeerCalls
    BY <2>1 DEF Stamped, AllNonces
  <2>3. e.nonce[2] <= attempt'[e.call].number
    BY <2>1, <2>2, <1>5 DEF Stamped
  <2>. QED
    BY <2>1, <2>3 DEF Stamped
<1>8. ASSUME wire' = wire \cup {Envelope(c)}, row.number = attempt[c].number + 1
      PROVE  \A new : new = Envelope(c) => Stamped(new)' /\ new.nonce = <<c, attempt[c].number + 1>>
  <2>. DEFINE repeated == {e \in wire : e.call = c /\ kind[c].probe}
              issued == IF repeated = {} THEN clock + Skew
                        ELSE (CHOOSE e \in repeated : TRUE).issued
  <2>1. Envelope(c) = [nonce |-> <<c, attempt[c].number + 1>>, issued |-> issued,
                       expires |-> issued + EnvelopeTtl, call |-> c]
    BY DEF Envelope
  <2>2. issued \in Nat /\ issued <= clock
    <3>1. CASE repeated = {}
      BY <3>1 DEF PeerAssumption, PeerTypes
    <3>2. CASE repeated # {}
      <4>1. (CHOOSE e \in repeated : TRUE) \in repeated
        BY <3>2
      <4>. QED
        BY <4>1, <3>2 DEF Stamped
    <3>. QED
      BY <3>1, <3>2
  <2>3. attempt'[c].number = attempt[c].number + 1
    BY <1>3, <1>8 DEF PeerTypes
  <2>4. attempt[c].number + 1 \in 1..MaxPeerTries
    BY <1>0, <1>3, <1>8, <1>5
  <2>. HIDE DEF issued
  <2>. SUFFICES ASSUME NEW new, new = Envelope(c)
                PROVE  Stamped(new)' /\ new.nonce = <<c, attempt[c].number + 1>>
    OBVIOUS
  <2>5. /\ new.nonce = <<c, attempt[c].number + 1>> /\ new.issued = issued
        /\ new.expires = issued + EnvelopeTtl /\ new.call = c
    BY <2>1
  <2>. QED
    BY <2>2, <2>3, <2>4, <2>5, <1>1, <1>5 DEF Stamped, AllNonces
<1>9. \A e \in wire' : Stamped(e)'
  BY <1>3, <1>7, <1>8
<1>10. \A e \in wire : e.nonce # <<c, attempt[c].number + 1>>
  BY <1>5 DEF Stamped, AllNonces
<1>11. OneEnvelopeEach'
  BY <1>3, <1>8, <1>10 DEF OneEnvelopeEach
<1>12. DispatchedOnce'
  BY <1>1 DEF DispatchedOnce, hostVars
<1>13. SpentKnown'
  <2>. SUFFICES ASSUME NEW n \in AllNonces, Spent(n)
                PROVE  n[2] <= attempt'[n[1]].number /\ Remembered(n)'
    BY <1>1 DEF SpentKnown, Spent, hostVars
  <2>1. n[1] \in PeerCalls /\ n[2] \in Nat /\ n[2] <= attempt[n[1]].number /\ Remembered(n)
    BY DEF SpentKnown, AllNonces
  <2>2. n[2] <= attempt'[n[1]].number
    BY <2>1, <1>5
  <2>3. n # <<c, attempt[c].number + 1>>
    BY <2>1, <1>5
  <2>. QED
    BY <1>1, <1>3, <1>8, <2>1, <2>2, <2>3 DEF Remembered, hostVars
<1>. QED
  BY <1>4, <1>6, <1>9, <1>11, <1>12, <1>13

\* Steps that leave the client, the network and what was dispatched alone, and drop
\* no live nonce: the rest of the invariant follows.
LEMMA StoreKeepsPeerInv ==
  ASSUME PeerAssumption, PeerInv, NEW keep,
         UNCHANGED <<clock, kind, attempt, wire, dispatched>>,
         accepted' \subseteq accepted, order' \in Seq(AllNonces),
         \A m \in DOMAIN nonces : nonces[m] > clock => m \in keep,
         keep \subseteq DOMAIN nonces',
         \A m \in keep \cap DOMAIN nonces : nonces'[m] = nonces[m],
         \A m \in DOMAIN nonces' : nonces'[m] \in Int
  PROVE  PeerInv'
<1>. USE DEF PeerInv
<1>1. PeerTypes'
  BY DEF PeerTypes
<1>2. TriesLeft'
  BY DEF TriesLeft, AttemptsOf
<1>3. \A e \in wire' : Stamped(e)'
  BY DEF Stamped
<1>4. OneEnvelopeEach'
  BY DEF OneEnvelopeEach
<1>5. DispatchedOnce'
  BY DEF DispatchedOnce
<1>6. SpentKnown'
  <2>. SUFFICES ASSUME NEW n \in AllNonces, Spent(n)'
                PROVE  n[2] <= attempt'[n[1]].number /\ Remembered(n)'
    BY DEF SpentKnown
  <2>1. Spent(n)
    BY DEF Spent
  <2>2. Remembered(n)'
    BY <2>1, KnownStays
  <2>. QED
    BY <2>1, <2>2 DEF SpentKnown
<1>. QED
  BY <1>1, <1>2, <1>3, <1>4, <1>5, <1>6

\* check_and_record accepts: the envelope's nonce is known until the envelope expires.
LEMMA AcceptKeepsPeerInv ==
  ASSUME PeerAssumption, PeerInv, NEW e \in wire,
         PeerRefusal(e) = "ok", Verdict(e.nonce, KeptUntil(e)) = "ok",
         UNCHANGED <<clock, kind, attempt, wire, dispatched>>,
         accepted' = accepted \cup {e.nonce}, order' \in Seq(AllNonces),
         nonces' = RecordedNonce(e.nonce, e.expires)
  PROVE  PeerInv'
<1>. USE DEF PeerInv
<1>0. Stamped(e) /\ e.nonce \in AllNonces /\ ~Spent(e.nonce)
  BY OnlyOnceFresh DEF Stamped
<1>1. /\ DOMAIN nonces' = Retained(e.nonce) \cup {e.nonce}
      /\ nonces'[e.nonce] = e.expires
      /\ \A m \in Retained(e.nonce) \ {e.nonce} : nonces'[m] = nonces[m]
  BY DEF RecordedNonce
<1>2. e.expires \in Nat
  BY <1>0 DEF Stamped, PeerAssumption
<1>3. Retained(e.nonce) \subseteq DOMAIN nonces
  BY DEF Retained
<1>4. PeerTypes'
  BY <1>0, <1>1, <1>2, <1>3 DEF PeerTypes
<1>5. TriesLeft'
  BY DEF TriesLeft, AttemptsOf
<1>6. \A f \in wire' : Stamped(f)'
  BY DEF Stamped
<1>7. OneEnvelopeEach'
  BY DEF OneEnvelopeEach
<1>8. DispatchedOnce'
  <2>1. dispatched[e.nonce] = 0
    BY <1>0 DEF Spent, PeerTypes
  <2>. QED
    BY <2>1 DEF DispatchedOnce
<1>9. SpentKnown'
  <2>. SUFFICES ASSUME NEW n \in AllNonces, Spent(n)'
                PROVE  n[2] <= attempt'[n[1]].number /\ Remembered(n)'
    BY DEF SpentKnown
  <2>1. CASE n = e.nonce
    <3>1. Remembered(n)'
      BY <2>1, <1>1, <1>2 DEF Remembered, OneEnvelopeEach
    <3>. QED
      BY <2>1, <3>1, <1>0 DEF Stamped
  <2>2. CASE n # e.nonce
    <3>1. Spent(n)
      BY <2>2 DEF Spent
    <3>2. \A m \in DOMAIN nonces : nonces[m] > clock => m \in Retained(e.nonce)
      BY LiveIsRetained
    <3>. SUFFICES ASSUME NEW f \in wire, f.nonce = n, f.expires > clock
                  PROVE  n \in DOMAIN nonces' /\ nonces'[n] >= f.expires
      BY <3>1 DEF Remembered, SpentKnown
    <3>3. n \in DOMAIN nonces /\ nonces[n] >= f.expires
      BY <3>1 DEF SpentKnown, Remembered
    <3>4. nonces[n] > clock
      <4>0. Stamped(f)
        OBVIOUS
      <4>1. f.expires \in Nat
        BY <4>0 DEF Stamped, PeerAssumption
      <4>2. clock \in Nat /\ nonces[n] \in Int
        BY <3>3 DEF PeerTypes
      <4>. QED
        BY <3>3, <4>1, <4>2
    <3>. QED
      BY <2>2, <3>2, <3>3, <3>4, <1>1
  <2>. QED
    BY <2>1, <2>2
<1>. QED
  BY <1>4, <1>5, <1>6, <1>7, <1>8, <1>9

\* The dispatcher runs for a nonce that was accepted and leaves the set.
LEMMA DispatchKeepsPeerInv ==
  ASSUME PeerInv, NEW n \in accepted, NEW status, DispatchPeer(n, status)
  PROVE  PeerInv'
<1>. USE DEF PeerInv
<1>1. /\ UNCHANGED <<clock, kind, attempt, wire, nonces, order>>
      /\ accepted' = accepted \ {n} /\ dispatched' = [dispatched EXCEPT ![n] = @ + 1]
      /\ n \in AllNonces /\ dispatched[n] = 0
  BY DEF DispatchPeer, PeerTypes, DispatchedOnce
<1>2. PeerTypes'
  BY <1>1 DEF PeerTypes
<1>3. TriesLeft'
  BY <1>1 DEF TriesLeft, AttemptsOf
<1>4. \A e \in wire' : Stamped(e)'
  BY <1>1 DEF Stamped
<1>5. OneEnvelopeEach'
  BY <1>1 DEF OneEnvelopeEach
<1>6. DispatchedOnce'
  BY <1>1 DEF DispatchedOnce, PeerTypes
<1>7. SpentKnown'
  <2>. SUFFICES ASSUME NEW m \in AllNonces, Spent(m)'
                PROVE  m[2] <= attempt'[m[1]].number /\ Remembered(m)'
    BY DEF SpentKnown
  <2>1. Spent(m)
    BY <1>1 DEF Spent, PeerTypes
  <2>. QED
    BY <2>1, <1>1 DEF SpentKnown, Remembered
<1>. QED
  BY <1>2, <1>3, <1>4, <1>5, <1>6, <1>7

\* No step of client, network, host or clock lets the store forget a spent nonce.
LEMMA PeerStep ==
  ASSUME PeerAssumption, PeerInv, [PeerNext]_peerVars
  PROVE  PeerInv'
<1>. USE DEF PeerInv
<1>0. order \in Seq(AllNonces) /\ \A m \in DOMAIN nonces : nonces[m] \in Int
  BY DEF PeerTypes
<1>1. ASSUME NEW c \in PeerCalls, PeerClientStep(c) PROVE PeerInv'
  BY <1>1, ClientKeepsPeerInv
<1>2. CASE CancelClient
  <2>. DEFINE keep == DOMAIN nonces
  <2>. QED
    BY <1>2, <1>0, StoreKeepsPeerInv DEF CancelClient, hostVars
<1>3. ASSUME NEW e \in wire, Arrive(e) PROVE PeerInv'
  <2>0. /\ UNCHANGED <<clock, kind, attempt, wire, dispatched>>
        /\ e.nonce \in AllNonces
    BY <1>3 DEF Arrive, hostVars, Stamped
  <2>1. CASE PeerRefusal(e) # "ok" \/ kind[e.call].probe
    BY <2>0, <2>1, <1>0, <1>3, StoreKeepsPeerInv DEF Arrive, hostVars
  <2>2. CASE ~(PeerRefusal(e) # "ok" \/ kind[e.call].probe) /\ Verdict(e.nonce, KeptUntil(e)) = "ok"
    <3>1. /\ RecordNonce(e.nonce, StoredUntil(KeptUntil(e)))
          /\ accepted' = accepted \cup {e.nonce}
      BY <2>2, <1>3 DEF Arrive
    <3>2. nonces' = RecordedNonce(e.nonce, e.expires)
      BY <3>1, <2>2, OnlyOnceFresh DEF RecordNonce
    <3>3. order' \in Seq(AllNonces)
      BY <3>1, <2>0, <1>0, RetainedOrderType DEF RecordNonce
    <3>. QED
      BY <2>0, <2>2, <3>1, <3>2, <3>3, AcceptKeepsPeerInv
  <2>3. CASE ~(PeerRefusal(e) # "ok" \/ kind[e.call].probe) /\ Verdict(e.nonce, KeptUntil(e)) # "ok"
    <3>. DEFINE keep == Retained(e.nonce)
    <3>1. RefuseNonce(e.nonce, KeptUntil(e)) /\ accepted' = accepted
      BY <2>3, <1>3 DEF Arrive
    <3>2. order' \in Seq(AllNonces)
      BY <3>1, RetainedOrderType DEF RefuseNonce
    <3>3. \A m \in DOMAIN nonces : nonces[m] > clock => m \in keep
      BY LiveIsRetained
    <3>4. keep \subseteq DOMAIN nonces
      BY DEF Retained
    <3>5. nonces' = nonces \/ nonces' = [m \in keep |-> nonces[m]]
      BY <3>1 DEF RefuseNonce
    <3>. HIDE DEF keep
    <3>. QED
      BY <2>0, <3>1, <3>2, <3>3, <3>4, <3>5, <1>0, StoreKeepsPeerInv
  <2>. QED
    BY <2>1, <2>2, <2>3
<1>4. ASSUME NEW e \in wire, NEW renamed \in BOOLEAN, PersistFails(e, renamed) PROVE PeerInv'
  <2>. DEFINE keep == Retained(e.nonce)
  <2>0. /\ UNCHANGED <<clock, kind, attempt, wire, dispatched, accepted, order>>
        /\ PeerRefusal(e) = "ok" /\ Verdict(e.nonce, KeptUntil(e)) = "ok"
    BY <1>4 DEF PersistFails
  <2>1. KeptUntil(e) = e.expires /\ e.expires \in Int
    BY <2>0, OnlyOnceFresh DEF Stamped, PeerAssumption
  <2>2. nonces' = nonces \/ nonces' = [m \in keep \cup {e.nonce} |->
                                      IF m = e.nonce THEN e.expires ELSE nonces[m]]
    BY <1>4, <2>1 DEF PersistFails, RecordedNonce
  <2>3. e.nonce \notin keep /\ keep \subseteq DOMAIN nonces
    BY <2>0 DEF Verdict, Retained
  <2>4. \A m \in DOMAIN nonces : nonces[m] > clock => m \in keep
    BY LiveIsRetained
  <2>. HIDE DEF keep
  <2>5. CASE nonces' = nonces
    BY <2>0, <2>3, <2>4, <2>5, <1>0, StoreKeepsPeerInv
  <2>6. CASE nonces' = [m \in keep \cup {e.nonce} |-> IF m = e.nonce THEN e.expires ELSE nonces[m]]
    BY <2>0, <2>1, <2>3, <2>4, <2>6, <1>0, StoreKeepsPeerInv
  <2>. QED
    BY <2>2, <2>5, <2>6
<1>5. ASSUME NEW n \in accepted, NEW status, DispatchPeer(n, status) PROVE PeerInv'
  BY <1>5, DispatchKeepsPeerInv
<1>6. CASE HostRestarts
  BY <1>6, <1>0, StoreKeepsPeerInv DEF HostRestarts
<1>7. CASE CleanupStore
  <2>. DEFINE keep == {m \in DOMAIN nonces : Live(m)}
  <2>1. nonces' = [m \in keep |-> nonces[m]] /\ keep \subseteq DOMAIN nonces
    BY <1>7 DEF CleanupStore
  <2>2. \A m \in DOMAIN nonces : nonces[m] > clock => m \in keep
    BY DEF Live
  <2>. HIDE DEF keep
  <2>. QED
    BY <1>7, <1>0, <2>1, <2>2, StoreKeepsPeerInv DEF CleanupStore
<1>8. CASE Advance
  <2>1. clock' = clock + 1 /\ UNCHANGED <<kind, attempt, wire, hostVars>>
    BY <1>8 DEF Advance
  <2>2. PeerTypes'
    BY <2>1 DEF PeerTypes, hostVars
  <2>3. TriesLeft'
    BY <2>1 DEF TriesLeft, AttemptsOf
  <2>4. \A e \in wire' : Stamped(e)'
    BY <2>1 DEF Stamped, PeerTypes
  <2>5. OneEnvelopeEach' /\ DispatchedOnce'
    BY <2>1 DEF OneEnvelopeEach, DispatchedOnce, hostVars
  <2>6. SpentKnown'
    BY <2>1 DEF SpentKnown, Spent, Remembered, Stamped, PeerTypes, PeerAssumption, hostVars
  <2>. QED
    BY <2>2, <2>3, <2>4, <2>5, <2>6
<1>9. CASE UNCHANGED peerVars
  BY <1>9, <1>0, StoreKeepsPeerInv DEF peerVars
<1>. QED
  BY <1>1, <1>2, <1>3, <1>4, <1>5, <1>6, <1>7, <1>8, <1>9 DEF PeerNext

\* However often the network repeats an envelope, whichever store remembers, whenever
\* the client retries, the host restarts or a write fails: while clocks agree, the
\* dispatcher sees an envelope once, and a command without a key once in all
\* (host.rs, validation.rs, nonce.rs, replay.rs).
THEOREM EnvelopesDispatchedOnce ==
  ASSUME PeerAssumption
  PROVE  PeerSpec => []DispatchedAtMostOnce
<1>1. PeerInit => PeerInv
  <2>. SUFFICES ASSUME PeerInit PROVE PeerInv
    OBVIOUS
  <2>1. PeerTypes
    BY DEF PeerInit, PeerTypes
  <2>2. TriesLeft
    <3>. SUFFICES ASSUME NEW c \in PeerCalls
                  PROVE  /\ attempt[c].number <= AttemptsOf(c)
                         /\ attempt[c].at \in {"idle", "backoff"} =>
                              attempt[c].number < AttemptsOf(c)
      BY DEF TriesLeft
    <3>1. AttemptsOf(c) \in 1..MaxPeerTries /\ MaxPeerTries \in Nat
      BY AttemptsBound DEF PeerAssumption
    <3>2. attempt[c].number = 0
      BY DEF PeerInit
    <3>. QED
      BY <3>1, <3>2
  <2>3. wire = {} /\ accepted = {} /\ \A n \in AllNonces : dispatched[n] = 0
    BY DEF PeerInit
  <2>. QED
    BY <2>1, <2>2, <2>3
    DEF PeerInv, OneEnvelopeEach, DispatchedOnce, SpentKnown, Spent
<1>2. PeerInv /\ [PeerNext]_peerVars => PeerInv'
  BY PeerStep
<1>3. PeerInv => DispatchedAtMostOnce
  <2>. SUFFICES ASSUME PeerInv, NEW c \in PeerCalls
                PROVE  /\ \A k \in 1..MaxPeerTries : dispatched[<<c, k>>] <= 1
                       /\ kind[c].command /\ ~kind[c].keyed => DispatchesOf(c) <= 1
    BY DEF DispatchedAtMostOnce
  <2>1. \A k \in 1..MaxPeerTries : <<c, k>> \in AllNonces
    BY DEF AllNonces
  <2>2. \A k \in 1..MaxPeerTries : dispatched[<<c, k>>] <= 1
    BY <2>1 DEF PeerInv, DispatchedOnce
  <2>3. ASSUME kind[c].command, ~kind[c].keyed PROVE DispatchesOf(c) <= 1
    <3>1. attempt[c].number <= 1 /\ attempt[c].number \in Nat
      BY <2>3 DEF PeerInv, TriesLeft, AttemptsOf, PeerTypes
    <3>. DEFINE ran == {k \in 1..MaxPeerTries : dispatched[<<c, k>>] > 0}
    <3>2. ran \subseteq {1}
      <4>. SUFFICES ASSUME NEW k \in 1..MaxPeerTries, dispatched[<<c, k>>] > 0 PROVE k = 1
        OBVIOUS
      <4>1. <<c, k>>[2] <= attempt[<<c, k>>[1]].number
        BY <2>1 DEF PeerInv, SpentKnown, Spent
      <4>. QED
        BY <4>1, <3>1 DEF PeerAssumption
    <3>3. IsFiniteSet({1}) /\ Cardinality({1}) = 1
      BY FS_Singleton
    <3>. HIDE DEF ran
    <3>4. Cardinality(ran) <= 1
      BY <3>2, <3>3, FS_Subset
    <3>. QED
      BY <3>4 DEF DispatchesOf, ran
  <2>. QED
    BY <2>2, <2>3
<1>. QED
  BY <1>1, <1>2, <1>3, PTL DEF PeerSpec
=============================================================================
