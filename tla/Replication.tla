---------------------------- MODULE Replication -----------------------------
(***************************************************************************)
(* Leader-to-follower replication of one source (appcore-sync): the outbox *)
(* and FollowerSyncClient on the leader, an unreliable HTTP exchange, and  *)
(* SyncReceiverState with its replication log, checkpoint and table of     *)
(* processed batches on the follower.                                      *)
(*                                                                         *)
(* A Client is a leader process with its flush lock; several may share one *)
(* outbox file.  A Handler is a request being served by the follower.  The *)
(* follower takes a lock of its own for each of: the processed table, the  *)
(* checkpoint, and the log with the checkpoint write at its end; those are *)
(* the steps between which handlers interleave.                            *)
(*                                                                         *)
(* A batch stands for its metadata, and for events_hash, which covers all  *)
(* of it.  FileReplicationLog reloads its file before each append, so one  *)
(* variable stands for file and memory; atomic_write makes outbox and      *)
(* checkpoint all or nothing.                                              *)
(***************************************************************************)
EXTENDS Naturals, Sequences, FiniteSets

CONSTANTS
  Clients, Handlers, Batches, Events,
  StartOf, EndOf,      \* [Batches -> Nat], sequence_start and sequence_end
  EventOf,             \* [Batches -> [Seqs -> Events]], read inside the range
  PrevOf,              \* [Batches -> Batches \cup {NoHash}], previous_batch_hash
  MaxSeq,              \* bound on sequence numbers
  NoHash, NoEvent, NoBatch, NoHandler,
  MaxQueue,            \* SyncRetryPolicy.max_queue_len
  MaxAttempts,         \* SyncRetryPolicy.max_attempts.max(1)
  MaxProcessed,        \* 10_000 in record_processed_batch
  MaxFlushes,          \* bound on flush_pending calls
  MaxLostRequests,     \* bound on requests that never arrive
  MaxTimeouts,         \* bound on answers that come too late
  MaxCrashes,          \* bound on crashes, of either side
  MaxIoFailures        \* bound on failing file writes

Seqs == 1..MaxSeq
RangeOf(b) == {s \in Seqs : StartOf[b] <= s /\ s <= EndOf[b]}

\* What validate_message demands of a batch, and markers that are no values.
ASSUME BatchAssumption ==
  /\ {MaxSeq, MaxQueue, MaxAttempts, MaxProcessed, MaxFlushes, MaxLostRequests,
      MaxTimeouts, MaxCrashes, MaxIoFailures} \subseteq Nat
  /\ MaxAttempts > 0 /\ MaxProcessed > 0
  /\ StartOf \in [Batches -> Seqs] /\ EndOf \in [Batches -> Seqs]
  /\ \A b \in Batches : StartOf[b] <= EndOf[b]
  /\ EventOf \in [Batches -> [Seqs -> Events]]
  /\ PrevOf \in [Batches -> Batches \cup {NoHash}]
  /\ NoHash \notin Batches /\ NoBatch \notin Batches
  /\ NoEvent \notin Events /\ NoHandler \notin Handlers

VARIABLES
  outbox,     \* pending batches, oldest first
  offered,    \* batches push_events was called with
  enqueued,   \* history: batches try_enqueue accepted
  client,     \* per client: the flush in progress
  calls,      \* per client: threads waiting for the flush lock
  handler,    \* per handler: the request being applied
  log,        \* replication log by sequence
  checkpoint, \* [seq, hash] of the source in the checkpoint store
  processed,  \* ProcessedBatches: set and queue
  flushes, lostRequests, timeouts, crashes, ioFailures

sender == <<outbox, offered, enqueued, client, calls>>
receiver == <<handler, log, checkpoint, processed>>
budget == <<flushes, lostRequests, timeouts, crashes, ioFailures>>
vars == <<sender, receiver, budget>>

ClientPcs == {"idle", "front", "sending", "waiting", "acking"}
HandlerPcs == {"free", "received", "validated", "located", "apply", "record", "replying"}

TypeOK ==
  /\ outbox \in Seq(Batches)
  /\ offered \in SUBSET Batches
  /\ enqueued \in SUBSET Batches
  /\ client \in [Clients -> [pc : ClientPcs, batch : Batches \cup {NoBatch},
                             attempt : Nat, via : Handlers \cup {NoHandler}]]
  /\ calls \in [Clients -> Nat]
  /\ handler \in [Handlers -> [pc : HandlerPcs, batch : Batches \cup {NoBatch},
                               last : 0..MaxSeq, ok : BOOLEAN]]
  /\ log \in [Seqs -> Events \cup {NoEvent}]
  /\ checkpoint \in [seq : 0..MaxSeq, hash : Batches \cup {NoHash}]
  /\ processed \in [set : SUBSET Batches, queue : Seq(Batches)]
  /\ flushes \in Nat /\ lostRequests \in Nat /\ timeouts \in Nat
  /\ crashes \in Nat /\ ioFailures \in Nat

Idle == [pc |-> "idle", batch |-> NoBatch, attempt |-> 0, via |-> NoHandler]
Free == [pc |-> "free", batch |-> NoBatch, last |-> 0, ok |-> FALSE]
NothingProcessed == [set |-> {}, queue |-> <<>>]

Init ==
  /\ outbox = <<>>
  /\ offered = {}
  /\ enqueued = {}
  /\ client = [c \in Clients |-> Idle]
  /\ calls = [c \in Clients |-> 0]
  /\ handler = [h \in Handlers |-> Free]
  /\ log = [s \in Seqs |-> NoEvent]
  /\ checkpoint = [seq |-> 0, hash |-> NoHash]
  /\ processed = NothingProcessed
  /\ flushes = 0 /\ lostRequests = 0 /\ timeouts = 0 /\ crashes = 0 /\ ioFailures = 0

FailIo == ioFailures < MaxIoFailures /\ ioFailures' = ioFailures + 1

-----------------------------------------------------------------------------
(* The leader: push_events, flush_pending, flush_queue.                    *)

\* The leader can build a batch once its predecessor's hash exists.
Buildable(b) == b \notin offered /\ PrevOf[b] \in offered \cup {NoHash}

\* push_events: enqueue durably, then wait for the flush lock.
Push(c, b) ==
  /\ Buildable(b)
  /\ offered' = offered \cup {b}
  /\ IF Len(outbox) < MaxQueue
     THEN /\ outbox' = Append(outbox, b)
          /\ enqueued' = enqueued \cup {b}
          /\ calls' = [calls EXCEPT ![c] = @ + 1]
     ELSE UNCHANGED <<outbox, enqueued, calls>>   \* "sync queue full"
  /\ UNCHANGED <<client, receiver, budget>>

\* try_enqueue fails writing the file, before or after the rename.
PushFails(c, b) ==
  /\ Buildable(b)
  /\ Len(outbox) < MaxQueue
  /\ offered' = offered \cup {b}
  /\ \/ UNCHANGED <<outbox, enqueued>>
     \/ outbox' = Append(outbox, b) /\ enqueued' = enqueued \cup {b}
  /\ FailIo
  /\ UNCHANGED <<client, calls, receiver, flushes, lostRequests, timeouts, crashes>>

FlushPending(c) ==
  /\ flushes < MaxFlushes
  /\ flushes' = flushes + 1
  /\ calls' = [calls EXCEPT ![c] = @ + 1]
  /\ UNCHANGED <<outbox, offered, enqueued, client, receiver, lostRequests, timeouts,
                 crashes, ioFailures>>

Enter(c, pc) == client' = [client EXCEPT ![c].pc = pc]
Return(c) == client' = [client EXCEPT ![c] = Idle]

\* flush_queue takes the flush lock.
StartFlush(c) ==
  /\ client[c].pc = "idle"
  /\ calls[c] > 0
  /\ calls' = [calls EXCEPT ![c] = @ - 1]
  /\ Enter(c, "front")
  /\ UNCHANGED <<outbox, offered, enqueued, receiver, budget>>

\* outbox.front(), and Ok(()) when there is nothing left.
ReadFront(c) ==
  /\ client[c].pc = "front"
  /\ IF outbox = <<>>
     THEN Return(c)
     ELSE client' = [client EXCEPT ![c] = [pc |-> "sending", batch |-> Head(outbox),
                                           attempt |-> 1, via |-> NoHandler]]
  /\ UNCHANGED <<outbox, offered, enqueued, calls, receiver, budget>>

AttemptFailedOnce(c) == Return(c)

\* An attempt failed: the next one, or "sync push retry exhausted".
AttemptFailed(c) ==
  IF client[c].attempt < MaxAttempts
  THEN client' = [client EXCEPT ![c] = [pc |-> "sending", batch |-> client[c].batch,
                                        attempt |-> client[c].attempt + 1,
                                        via |-> NoHandler]]
  ELSE Return(c)

\* post_sync_events reaches the follower.
Send(c, h) ==
  /\ client[c].pc = "sending"
  /\ handler[h].pc = "free"
  /\ client' = [client EXCEPT ![c].pc = "waiting", ![c].via = h]
  /\ handler' = [handler EXCEPT ![h] = [pc |-> "received", batch |-> client[c].batch,
                                        last |-> 0, ok |-> FALSE]]
  /\ UNCHANGED <<outbox, offered, enqueued, calls, log, checkpoint, processed, budget>>

LoseRequest(c) ==
  /\ client[c].pc = "sending"
  /\ lostRequests < MaxLostRequests
  /\ lostRequests' = lostRequests + 1
  /\ AttemptFailed(c)
  /\ UNCHANGED <<outbox, offered, enqueued, calls, receiver, flushes, timeouts, crashes,
                 ioFailures>>

\* The answer does not come in time; the follower still works on the request.
Timeout(c) ==
  /\ client[c].pc = "waiting"
  /\ timeouts < MaxTimeouts
  /\ timeouts' = timeouts + 1
  /\ AttemptFailed(c)
  /\ UNCHANGED <<outbox, offered, enqueued, calls, receiver, flushes, lostRequests,
                 crashes, ioFailures>>

\* The follower died on the request.
ConnectionReset(c) ==
  /\ client[c].pc = "waiting"
  /\ client[c].via = NoHandler
  /\ AttemptFailed(c)
  /\ UNCHANGED <<outbox, offered, enqueued, calls, receiver, budget>>

\* Slip: the head is removed without comparing its id.
AcknowledgeAny(c) ==
  /\ client[c].pc = "acking"
  /\ outbox # <<>>
  /\ outbox' = Tail(outbox)
  /\ Enter(c, "front")
  /\ UNCHANGED <<offered, enqueued, calls, receiver, budget>>

\* acknowledge_front: the head goes only if it is still the batch that was sent.
Acknowledge(c) ==
  /\ client[c].pc = "acking"
  /\ IF outbox # <<>> /\ Head(outbox) = client[c].batch
     THEN outbox' = Tail(outbox) /\ Enter(c, "front")
     ELSE UNCHANGED outbox /\ Return(c)
  /\ UNCHANGED <<offered, enqueued, calls, receiver, budget>>

AcknowledgeFails(c) ==
  /\ client[c].pc = "acking"
  /\ outbox # <<>> /\ Head(outbox) = client[c].batch
  /\ outbox' \in {outbox, Tail(outbox)}
  /\ Return(c)
  /\ FailIo
  /\ UNCHANGED <<offered, enqueued, calls, receiver, flushes, lostRequests, timeouts,
                 crashes>>

\* A leader process dies; the outbox file stays, and flushing starts over when
\* somebody calls it.
CrashClient(c) ==
  /\ crashes < MaxCrashes
  /\ crashes' = crashes + 1
  /\ client' = [client EXCEPT ![c] = Idle]
  /\ calls' = [calls EXCEPT ![c] = 0]
  /\ UNCHANGED <<outbox, offered, enqueued, receiver, flushes, lostRequests, timeouts,
                 ioFailures>>

-----------------------------------------------------------------------------
(* The follower: apply_sync_message, one step per lock it takes.           *)

Goto(h, pc) == handler' = [handler EXCEPT ![h].pc = pc]
Reply(h, ok) ==
  handler' = [handler EXCEPT ![h] = [pc |-> "replying", batch |-> handler[h].batch,
                                     last |-> handler[h].last, ok |-> ok]]

\* validate_message: the rest of it is BatchAssumption.
Validate(h) ==
  /\ handler[h].pc = "received"
  /\ IF handler[h].batch \in processed.set THEN Reply(h, FALSE) ELSE Goto(h, "validated")
  /\ UNCHANGED <<sender, log, checkpoint, processed, budget>>

\* get_last_sequence and the two decisions that depend on it: an old range is
\* accepted unread, a range that leaves a gap is refused.
Locate(h) ==
  /\ handler[h].pc = "validated"
  /\ IF EndOf[handler[h].batch] <= checkpoint.seq THEN Reply(h, TRUE)
     ELSE IF StartOf[handler[h].batch] > checkpoint.seq + 1 THEN Reply(h, FALSE)
     ELSE handler' = [handler EXCEPT ![h] = [pc |-> "located", batch |-> handler[h].batch,
                                             last |-> checkpoint.seq, ok |-> FALSE]]
  /\ UNCHANGED <<sender, log, checkpoint, processed, budget>>

\* A batch that follows its predecessor directly must name its hash.  This reads
\* the checkpoint a second time.
CheckChain(h) ==
  /\ handler[h].pc = "located"
  /\ IF /\ handler[h].last > 0
        /\ StartOf[handler[h].batch] = handler[h].last + 1
        /\ checkpoint.hash # NoHash
        /\ checkpoint.hash # PrevOf[handler[h].batch]
     THEN Reply(h, FALSE)
     ELSE Goto(h, "apply")
  /\ UNCHANGED <<sender, log, checkpoint, processed, budget>>

\* Where the loop of append_events_to_log stops: a different event at that
\* sequence, or none although the checkpoint seen earlier covers it.
Obstacles(h) ==
  {s \in RangeOf(handler[h].batch) :
     \/ log[s] # NoEvent /\ log[s] # EventOf[handler[h].batch][s]
     \/ log[s] = NoEvent /\ s <= handler[h].last}

\* Slip: the loop goes on past an event it cannot place.
ReachedPastObstacles(h) == RangeOf(handler[h].batch) \ Obstacles(h)

\* The sequences of the loop before the first obstacle.
Reached(h) ==
  {s \in RangeOf(handler[h].batch) : \A o \in Obstacles(h) : s < o}

\* The log after the loop appended what is missing in `done`.
Appended(h, done) ==
  [s \in Seqs |-> IF s \in done THEN EventOf[handler[h].batch][s] ELSE log[s]]

CheckpointOf(h) == [seq |-> EndOf[handler[h].batch], hash |-> handler[h].batch]

\* Slip: the checkpoint is left to somebody else.
ApplyWithoutCheckpoint(h) ==
  /\ handler[h].pc = "apply"
  /\ log' = Appended(h, Reached(h))
  /\ IF Obstacles(h) = {} THEN Goto(h, "record") ELSE Reply(h, FALSE)
  /\ UNCHANGED <<sender, checkpoint, processed, budget>>

\* append_events_to_log: under the log lock, every event and then set_checkpoint,
\* whatever the checkpoint has become since it was read.
Apply(h) ==
  /\ handler[h].pc = "apply"
  /\ log' = Appended(h, Reached(h))
  /\ IF Obstacles(h) = {}
     THEN checkpoint' = CheckpointOf(h) /\ Goto(h, "record")
     ELSE UNCHANGED checkpoint /\ Reply(h, FALSE)
  /\ UNCHANGED <<sender, processed, budget>>

\* Slip: the checkpoint is written before the events.
PartOfApplyCheckpointFirst(h) ==
  \E n \in Seqs :
    /\ log' = Appended(h, {s \in Reached(h) : s < n})
    /\ checkpoint' \in {checkpoint, CheckpointOf(h)}

\* A part of the loop: the events before some sequence, and the checkpoint only
\* after all of them.
PartOfApply(h) ==
  \/ \E n \in Seqs :
       /\ log' = Appended(h, {s \in Reached(h) : s < n})
       /\ UNCHANGED checkpoint
  \/ /\ Obstacles(h) = {}
     /\ log' = Appended(h, Reached(h))
     /\ checkpoint' \in {checkpoint, CheckpointOf(h)}

\* An append or the checkpoint write reports an error.
ApplyFails(h) ==
  /\ handler[h].pc = "apply"
  /\ PartOfApply(h)
  /\ Reply(h, FALSE)
  /\ FailIo
  /\ UNCHANGED <<sender, processed, flushes, lostRequests, timeouts, crashes>>

\* record_processed_batch: at the bound the oldest id is forgotten.
WithProcessed(b) ==
  LET set == processed.set \cup {b}
      queue == Append(processed.queue, b)
  IN IF Cardinality(set) > MaxProcessed
     THEN [set |-> set \ {Head(queue)}, queue |-> Tail(queue)]
     ELSE [set |-> set, queue |-> queue]

Record(h) ==
  /\ handler[h].pc = "record"
  /\ processed' = WithProcessed(handler[h].batch)
  /\ Reply(h, TRUE)
  /\ UNCHANGED <<sender, log, checkpoint, budget>>

\* The answer reaches the client that still waits for it, or nobody.
Respond(h) ==
  /\ handler[h].pc = "replying"
  /\ handler' = [handler EXCEPT ![h] = Free]
  /\ \/ \E c \in Clients :
          /\ client[c].pc = "waiting" /\ client[c].via = h
          /\ IF handler[h].ok THEN Enter(c, "acking") ELSE AttemptFailed(c)
     \/ /\ \A c \in Clients : ~(client[c].pc = "waiting" /\ client[c].via = h)
        /\ UNCHANGED client
  /\ UNCHANGED <<outbox, offered, enqueued, calls, log, checkpoint, processed, budget>>

\* The follower dies, perhaps inside append_events_to_log, and comes back with
\* its files and an empty processed table.
CrashReceiver ==
  /\ crashes < MaxCrashes
  /\ crashes' = crashes + 1
  /\ \/ UNCHANGED <<log, checkpoint>>
     \/ \E h \in Handlers : handler[h].pc = "apply" /\ PartOfApply(h)
  /\ handler' = [h \in Handlers |-> Free]
  /\ processed' = NothingProcessed
  /\ client' = [c \in Clients |->
                  IF client[c].pc = "waiting" THEN [client[c] EXCEPT !.via = NoHandler]
                                              ELSE client[c]]
  /\ UNCHANGED <<outbox, offered, enqueued, calls, flushes, lostRequests, timeouts,
                 ioFailures>>

-----------------------------------------------------------------------------

\* Steps a client thread takes by itself once it is flushing.
ClientStep(c) ==
  \/ StartFlush(c)
  \/ ReadFront(c)
  \/ \E h \in Handlers : Send(c, h)
  \/ ConnectionReset(c)
  \/ Acknowledge(c)

HandlerStep(h) ==
  \/ Validate(h) \/ Locate(h) \/ CheckChain(h)
  \/ Apply(h) \/ Record(h) \/ Respond(h)

Disturbance ==
  \/ \E c \in Clients :
       LoseRequest(c) \/ Timeout(c) \/ AcknowledgeFails(c) \/ CrashClient(c)
  \/ \E h \in Handlers : ApplyFails(h)
  \/ CrashReceiver

Demand ==
  \E c \in Clients :
    FlushPending(c) \/ \E b \in Batches : Push(c, b) \/ PushFails(c, b)

Next ==
  \/ \E c \in Clients : ClientStep(c)
  \/ \E h \in Handlers : HandlerStep(h)
  \/ Disturbance
  \/ Demand

Spec == Init /\ [][Next]_vars

\* Threads that can run do run; nobody has to call push_events or flush_pending.
FairSpec ==
  /\ Spec
  /\ \A c \in Clients : WF_vars(ClientStep(c))
  /\ \A h \in Handlers : WF_vars(HandlerStep(h))

-----------------------------------------------------------------------------
(* Properties.                                                             *)

Queued(b) == \E i \in 1..Len(outbox) : outbox[i] = b
Holds(b) == \A s \in RangeOf(b) : log[s] = EventOf[b][s]

\* The batches built so far agree wherever they overlap: the leader has not
\* renumbered its events.
OneStream ==
  \A b, d \in offered : \A s \in RangeOf(b) \cap RangeOf(d) :
    EventOf[b][s] = EventOf[d][s]

\* The follower's log has no holes and the checkpoint never claims an event the
\* log does not have, across crashes and failures inside append_events_to_log,
\* although each batch is placed by a checkpoint that may be stale by the time
\* its events are appended.
CheckpointBacked ==
  /\ \A s, q \in Seqs : log[s] # NoEvent /\ q < s => log[q] # NoEvent
  /\ \A s \in Seqs : s <= checkpoint.seq => log[s] # NoEvent

\* A batch that entered the outbox is still there or the follower's log holds all
\* of its events: nothing is acknowledged that is not durable, with lost answers,
\* several leader processes on one outbox file, and crashes on either side.
NothingLost ==
  OneStream => \A b \in enqueued : Queued(b) \/ Holds(b)

\* "A late invalid event cannot leave a partial append" (appcore-sync
\* wiki/guide.en.md): unless a write fails or the follower dies, the log changes
\* only for a batch that is accepted as a whole.
AppendsWholeBatches ==
  [][log' # log /\ crashes' = crashes /\ ioFailures' = ioFailures
       => \E h \in Handlers : handler[h].pc = "apply" /\ handler'[h].pc = "record"]_vars

\* The checkpoint is "the last accepted sequence" (checkpoint.rs): it covers every
\* batch the leader has removed from its outbox as acknowledged.
CheckpointCoversAcknowledged ==
  \A b \in enqueued : Queued(b) \/ EndOf[b] <= checkpoint.seq

\* apply_sync_message "idempotently applies one already-authenticated batch"
\* (receiver.rs): a batch whose events and checkpoint are in place is not refused.
AppliesIdempotently ==
  \A h \in Handlers :
    handler[h].pc = "replying" /\ ~handler[h].ok =>
      ~(Holds(handler[h].batch) /\ checkpoint = CheckpointOf(h))

\* With fewer lost requests than attempts, and unless an answer comes late or a
\* process dies, every batch that was enqueued leaves the outbox by itself:
\* push_events flushes what it enqueued, and what other threads and processes did.
OutboxDrains ==
  \A b \in Batches :
    b \in enqueued ~> ~Queued(b) \/ timeouts > 0 \/ crashes > 0
=============================================================================
