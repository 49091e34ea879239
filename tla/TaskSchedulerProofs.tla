------------------------- MODULE TaskSchedulerProofs ------------------------
(***************************************************************************)
(* Theorems about TaskScheduler for any number of callers, worker threads  *)
(* and tasks: what a running mark means, how many callbacks run, and what  *)
(* holds once shutdown returned.  And about Placement, for any cores,      *)
(* profiles and requests: where work is placed.                            *)
(***************************************************************************)
EXTENDS TaskScheduler, Placement, DataInduction, FiniteSetTheorems, TLAPS

Marked(t) == entry[t] # Absent /\ entry[t].running
Busy == {w \in Threads : worker[w] # Free}

\* A marked task has its callback: on one thread, or selected and not yet started.
MarksOK ==
  /\ finished \subseteq Busy
  /\ \A w \in Busy \ finished : Marked(worker[w])
  /\ \A v, w \in Busy \ finished : worker[v] = worker[w] => v = w
  /\ \A t \in coord.due : Marked(t) /\ \A w \in Threads \ finished : worker[w] # t
  /\ \A t \in TaskIds : Marked(t) => t \in coord.due \/ \E w \in Threads \ finished : worker[w] = t
  /\ coord.pc # "spawn" => coord.due = {}

\* No two registered tasks have the same place in the order of registration.
OrderOK ==
  /\ \A t \in Registered : entry[t].order < sequence
  /\ \A s, t \in Registered : entry[s].order = entry[t].order => s = t

\* The counter is right, and what the coordinator may start fits beside what runs,
\* though `available` is older than the selection.
CountOK ==
  /\ Cardinality(Busy) = active
  /\ active <= MaxConcurrent
  /\ coord.pc \in {"scan", "select"} => active + coord.available <= MaxConcurrent
  /\ coord.pc = "spawn" => active + Cardinality(coord.due) <= MaxConcurrent

\* The coordinator leaves for good, with nothing behind, before a shutdown returns.
StopOK ==
  /\ coord.pc \in {"join", "exited"} => shutdown
  /\ coord.pc = "exited" => Registered = {} /\ Busy = {}
  /\ \A c \in Callers : caller[c].pc = "returned" => coord.pc = "exited"

SchedulerInv == TypeOK /\ MarksOK /\ OrderOK /\ CountOK /\ StopOK

Tables == [TaskIds -> Entry \cup {Absent}]
Coordinators ==
  [pc : {"loop", "scan", "select", "spawn", "wait", "join", "exited"},
   available : 0..MaxConcurrent, due : SUBSET TaskIds]
CallerStates ==
  [pc : {"idle", "schedule", "flagged", "joining", "returned"},
   task : TaskIds \cup {Free}, next : 0..MaxTime]

-----------------------------------------------------------------------------
(* The constants, and what an operation does to one entry.                 *)

\* The configuration's numbers.
LEMMA Numbers ==
  /\ Every \in Nat /\ MaxTasks \in Nat /\ MaxConcurrent \in Nat /\ MaxTime \in Nat
  /\ MaxSchedules \in Nat /\ Starts \subseteq 0..MaxTime /\ RetryDelays \subseteq Nat
  /\ IsFiniteSet(Threads) /\ IsFiniteSet(TaskIds) /\ Free \notin TaskIds
  /\ Cardinality(Threads) > MaxConcurrent
  /\ Absent \notin Entry
BY SchedulerAssumption, AbsentAssumption

\* A cancelled entry keeps its mark and its place.
LEMMA EntryCancelled ==
  ASSUME NEW e \in Entry
  PROVE  LET f == [e EXCEPT !.cancelled = TRUE] IN
         f \in Entry /\ f # Absent /\ f.running = e.running /\ f.order = e.order
<1>1. [e EXCEPT !.cancelled = TRUE] \in Entry
  BY DEF Entry
<1>2. [e EXCEPT !.cancelled = TRUE].running = e.running /\ [e EXCEPT !.cancelled = TRUE].order = e.order
  BY DEF Entry
<1> QED BY <1>1, <1>2, Numbers

\* A selected entry is marked and keeps its place.
LEMMA EntrySelected ==
  ASSUME NEW e \in Entry
  PROVE  LET f == [e EXCEPT !.running = TRUE, !.attempts = @ + 1] IN
         f \in Entry /\ f # Absent /\ f.running /\ f.order = e.order
<1>1. [e EXCEPT !.running = TRUE, !.attempts = @ + 1] \in Entry
  <2>1. e.attempts + 1 \in Nat
    BY DEF Entry
  <2>2. \A n \in Nat : [e EXCEPT !.running = TRUE, !.attempts = n] \in Entry
    BY DEF Entry
  <2>3. [e EXCEPT !.running = TRUE, !.attempts = @ + 1]
          = [e EXCEPT !.running = TRUE, !.attempts = e.attempts + 1]
    BY DEF Entry
  <2> QED BY <2>1, <2>2, <2>3
<1>2. [e EXCEPT !.running = TRUE, !.attempts = @ + 1].order = e.order
  BY DEF Entry
<1>3. [e EXCEPT !.running = TRUE, !.attempts = @ + 1].running
  BY DEF Entry
<1> QED BY <1>1, <1>2, <1>3, Numbers

\* The next executions are within the clock's range.
LEMMA OccurrencesInRange ==
  ASSUME NEW t \in TaskIds, now \in 0..MaxTime
  PROVE  Occurrences(t) \subseteq 0..MaxTime
<1>1. now \in Nat /\ MaxTime \in Nat /\ Every \in Nat
  BY Numbers
<1>2. Kind[t] \in {"once", "interval", "cron"}
  BY SchedulerAssumption
<1>3. CASE Kind[t] = "once"
  BY <1>3 DEF Occurrences, Representable
<1>4. CASE Kind[t] = "interval"
  BY <1>1, <1>4 DEF Occurrences, Representable
<1>5. CASE Kind[t] = "cron"
  BY <1>1, <1>5 DEF Occurrences, Representable
<1> QED BY <1>2, <1>3, <1>4, <1>5

\* complete_task clears the mark or removes the entry.
LEMMA EntryCompleted ==
  ASSUME TypeOK, NEW t \in TaskIds, NEW ok \in BOOLEAN, NEW f \in Outcomes(t, ok)
  PROVE  /\ f \in Entry \cup {Absent}
         /\ f # Absent => entry[t] # Absent /\ ~f.running /\ f.order = entry[t].order
<1>1. CASE f = Absent
  BY <1>1
<1>2. CASE f # Absent
  <2>1. entry[t] \in Entry
    BY <1>2 DEF Outcomes, TypeOK
  <2>2. entry[t] # Absent
    BY <2>1, Numbers
  <2>3. now \in Nat /\ MaxTime \in Nat
    BY Numbers DEF TypeOK
  <2>4. ASSUME NEW n \in 0..MaxTime, f = [entry[t] EXCEPT !.running = FALSE, !.next = n]
        PROVE  f \in Entry /\ f.running = FALSE /\ f.order = entry[t].order
    BY <2>1, <2>4 DEF Entry
  <2>5. ASSUME NEW n \in 0..MaxTime, f = [entry[t] EXCEPT !.running = FALSE, !.attempts = 0, !.next = n]
        PROVE  f \in Entry /\ f.running = FALSE /\ f.order = entry[t].order
    BY <2>1, <2>5 DEF Entry
  <2>6. \/ \E d \in RetryDelays : now + d <= MaxTime /\
             f = [entry[t] EXCEPT !.running = FALSE, !.next = now + d]
        \/ \E n \in Occurrences(t) :
             f = [entry[t] EXCEPT !.running = FALSE, !.attempts = 0, !.next = n]
    BY <1>2 DEF Outcomes
  <2>7. CASE \E d \in RetryDelays : now + d <= MaxTime /\
               f = [entry[t] EXCEPT !.running = FALSE, !.next = now + d]
    <3>1. PICK d \in RetryDelays : now + d <= MaxTime /\
               f = [entry[t] EXCEPT !.running = FALSE, !.next = now + d]
      BY <2>7
    <3>2. now + d \in 0..MaxTime
      BY <2>3, <3>1, Numbers
    <3> QED BY <2>2, <2>4, <3>1, <3>2
  <2>8. CASE \E n \in Occurrences(t) :
               f = [entry[t] EXCEPT !.running = FALSE, !.attempts = 0, !.next = n]
    <3>1. now \in 0..MaxTime
      BY DEF TypeOK
    <3> QED BY <2>2, <2>5, <2>8, <3>1, OccurrencesInRange
  <2> QED BY <2>6, <2>7, <2>8
<1> QED BY <1>1, <1>2

-----------------------------------------------------------------------------
(* What several actions leave alone.                                       *)

\* Entries that only go or change otherwise keep the table's bound and its order.
LEMMA EntriesKept ==
  ASSUME SchedulerInv, entry' \in Tables, sequence' = sequence,
         \A t \in TaskIds : entry'[t] # Absent => entry[t] # Absent /\ entry'[t].order = entry[t].order
  PROVE  Registered' \subseteq Registered /\ Cardinality(Registered') <= MaxTasks /\ OrderOK'
<1>1. Registered' \subseteq Registered
  BY DEF Registered
<1>2. IsFiniteSet(Registered)
  BY Numbers, FS_Subset DEF Registered
<1>3. Cardinality(Registered') <= Cardinality(Registered)
  BY <1>1, <1>2, FS_Subset
<1>4. Cardinality(Registered) \in Nat /\ Cardinality(Registered') \in Nat
  BY <1>1, <1>2, FS_Subset, FS_CardinalityType
<1>5. Cardinality(Registered') <= MaxTasks
  BY <1>3, <1>4, Numbers DEF SchedulerInv, TypeOK
<1>6. OrderOK'
  BY <1>1 DEF SchedulerInv, OrderOK, Registered
<1> QED BY <1>1, <1>5, <1>6

\* Marks that stay, over workers and a selection that stay.
LEMMA MarksKept ==
  ASSUME SchedulerInv, worker' = worker, finished' = finished, coord'.due = coord.due,
         coord'.pc # "spawn" => coord.due = {},
         \A t \in TaskIds : Marked(t)' <=> Marked(t)
  PROVE  MarksOK'
<1>1. Busy' = Busy /\ \A w \in Busy : worker[w] \in TaskIds
  BY DEF Busy, SchedulerInv, TypeOK
<1>2. coord.due \subseteq TaskIds
  BY DEF SchedulerInv, TypeOK
<1> QED BY <1>1, <1>2 DEF SchedulerInv, MarksOK

\* The threads that are busy are finitely many.
LEMMA BusyFinite ==
  IsFiniteSet(Busy) /\ Cardinality(Busy) \in Nat
BY Numbers, FS_Subset, FS_CardinalityType DEF Busy

-----------------------------------------------------------------------------
(* The selection: the first `available` tasks of a strict order, and so no *)
(* more than that.                                                         *)

\* Priority, deadline and registration order any two due tasks.
LEMMA BeforeIsStrictOrder ==
  ASSUME SchedulerInv
  PROVE  /\ \A s, t \in Due : s # t => Before(s, t) \/ Before(t, s)
         /\ \A r, s, t \in Due : Before(r, s) /\ Before(s, t) => Before(r, t)
         /\ \A t \in Due : ~Before(t, t)
<1>1. \A t \in Due : /\ t \in Registered /\ Priority[t] \in Nat
                     /\ entry[t].next \in Nat /\ entry[t].order \in Nat
  BY SchedulerAssumption, Numbers DEF Due, Registered, SchedulerInv, TypeOK, Entry
<1>2. \A s, t \in Due : s # t => entry[s].order # entry[t].order
  BY <1>1 DEF SchedulerInv, OrderOK
<1>3. \A s, t \in Due : s # t => Before(s, t) \/ Before(t, s)
  BY <1>1, <1>2 DEF Before
<1>4. \A r, s, t \in Due : Before(r, s) /\ Before(s, t) => Before(r, t)
  BY <1>1 DEF Before
<1>5. \A t \in Due : ~Before(t, t)
  BY <1>1 DEF Before
<1> QED BY <1>3, <1>4, <1>5

\* No more tasks are selected than were available.
LEMMA SelectionFits ==
  ASSUME SchedulerInv
  PROVE  Selection \subseteq Due /\ Due \subseteq TaskIds /\ Cardinality(Selection) <= coord.available
<1> DEFINE Earlier(t) == {s \in Due : Before(s, t)}
           rank == [t \in Due |-> Cardinality(Earlier(t))]
           slots == 0..(coord.available - 1)
<1>1. Selection \subseteq Due /\ Due \subseteq TaskIds
  BY DEF Selection, Due, Registered
<1>2. IsFiniteSet(Due)
  BY <1>1, Numbers, FS_Subset
<1>3. \A t \in Due : IsFiniteSet(Earlier(t)) /\ rank[t] \in Nat
  <2> SUFFICES ASSUME NEW t \in Due PROVE IsFiniteSet(Earlier(t)) /\ Cardinality(Earlier(t)) \in Nat
    OBVIOUS
  <2>1. Earlier(t) \in SUBSET Due
    OBVIOUS
  <2> QED BY <1>2, <2>1, FS_Subset, FS_CardinalityType
<1>4. ASSUME NEW s \in Due, NEW t \in Due, Before(s, t) PROVE rank[s] < rank[t]
  <2>1. Earlier(s) \subseteq Earlier(t) /\ s \in Earlier(t) /\ s \notin Earlier(s)
    BY <1>4, BeforeIsStrictOrder
  <2>2. rank[s] <= rank[t] /\ rank[s] # rank[t]
    BY <1>3, <2>1, FS_Subset
  <2> QED BY <1>3, <2>2
<1>5. coord.available \in Nat
  BY Numbers DEF SchedulerInv, TypeOK
<1>6. \A t \in Selection : t \in Due /\ rank[t] \in Nat /\ rank[t] < coord.available
  BY <1>3 DEF Selection
<1> HIDE DEF rank
<1>7. \A t \in Selection : rank[t] \in slots
  BY <1>5, <1>6
<1>8. \A s, t \in Selection : rank[s] = rank[t] => s = t
  <2> SUFFICES ASSUME NEW s \in Selection, NEW t \in Selection, rank[s] = rank[t], s # t PROVE FALSE
    OBVIOUS
  <2>1. rank[s] < rank[t] \/ rank[t] < rank[s]
    BY <1>1, <1>4, BeforeIsStrictOrder
  <2> QED BY <1>6, <2>1
<1>9. [t \in Selection |-> rank[t]] \in Injection(Selection, slots)
  <2> HIDE DEF slots
  <2> QED BY <1>7, <1>8 DEF Injection, IsInjective
<1>10. IsFiniteSet(slots) /\ Cardinality(slots) = coord.available
  <2> DEFINE last == coord.available - 1
  <2>1. last \in Int /\ 0 \in Int /\ (IF 0 > last THEN 0 ELSE last - 0 + 1) = coord.available
    BY <1>5
  <2> HIDE DEF last
  <2>2. IsFiniteSet(0..last) /\ Cardinality(0..last) = coord.available
    BY <2>1, FS_Interval
  <2> QED BY <2>2 DEF last
<1>11. Cardinality(Selection) <= coord.available
  <2> HIDE DEF slots
  <2> QED BY <1>9, <1>10, FS_Injection
<1> QED BY <1>1, <1>11

-----------------------------------------------------------------------------
(* One lemma per group of actions.                                         *)

\* Callers that only change where they are, and time.
LEMMA CallersKeep ==
  ASSUME SchedulerInv,
         \/ \E c \in Callers : Shutdown(c) \/ ShutdownReturns(c) \/ \E t \in TaskIds : Schedule(c, t)
         \/ Tick
  PROVE  SchedulerInv'
<1> USE DEF SchedulerInv
<1>1. UNCHANGED <<entry, active, sequence, coord, worker, finished>>
  BY DEF Shutdown, ShutdownReturns, Schedule, Tick
<1>2. shutdown' \in BOOLEAN /\ (shutdown => shutdown')
  BY DEF Shutdown, ShutdownReturns, Schedule, Tick, TypeOK
<1>3. now' \in 0..MaxTime
  BY Numbers DEF Shutdown, ShutdownReturns, Schedule, Tick, TypeOK
<1> DEFINE Moved ==
       /\ caller' \in [Callers -> CallerStates]
       /\ \A c \in Callers : caller'[c].pc = "returned" => coord.pc = "exited"
<1>4. Moved
  <2> USE DEF CallerStates
  <2>1. caller \in [Callers -> CallerStates] /\ now \in 0..MaxTime
    BY DEF TypeOK
  <2>2. ASSUME NEW c \in Callers, Shutdown(c) PROVE Moved
    BY <2>1, <2>2 DEF Shutdown, StopOK
  <2>3. ASSUME NEW c \in Callers, ShutdownReturns(c) PROVE Moved
    BY <2>1, <2>3 DEF ShutdownReturns, StopOK
  <2>4. ASSUME NEW c \in Callers, NEW t \in TaskIds, Schedule(c, t) PROVE Moved
    <3>1. FirstRuns(t) \subseteq 0..MaxTime
      BY <2>1, OccurrencesInRange, Numbers DEF FirstRuns
    <3>2. PICK next \in 0..MaxTime :
            caller' = [caller EXCEPT ![c] = [pc |-> "schedule", task |-> t, next |-> next]]
      BY <2>4, <3>1 DEF Schedule
    <3> QED BY <2>1, <3>2 DEF StopOK
  <2>5. CASE Tick
    BY <2>1, <2>5 DEF Tick, StopOK
  <2> QED BY <2>2, <2>3, <2>4, <2>5
<1>5. TypeOK'
  BY <1>1, <1>2, <1>3, <1>4 DEF TypeOK, CallerStates, Registered
<1>6. MarksOK' /\ OrderOK' /\ CountOK'
  BY <1>1 DEF MarksOK, Marked, Busy, OrderOK, Registered, CountOK
<1>7. StopOK'
  BY <1>1, <1>2, <1>4 DEF StopOK, Registered, Busy
<1> QED BY <1>5, <1>6, <1>7

\* schedule, under the lock.
LEMMA RegisterKeeps ==
  ASSUME SchedulerInv, NEW c \in Callers, Register(c)
  PROVE  SchedulerInv'
<1> USE DEF SchedulerInv
<1>1. UNCHANGED <<shutdown, active, coord, worker, finished, now>>
  BY DEF Register
<1>2. /\ caller' \in [Callers -> CallerStates]
      /\ \A d \in Callers : caller'[d].pc = "returned" => caller[d].pc = "returned"
  BY Numbers DEF Register, TypeOK, CallerStates
<1>3. CASE UNCHANGED <<entry, sequence>>
  BY <1>1, <1>2, <1>3 DEF TypeOK, CallerStates, Registered, MarksOK, Marked, Busy, OrderOK,
                          CountOK, StopOK
<1>4. CASE ~UNCHANGED <<entry, sequence>>
  <2> DEFINE t == caller[c].task
             new == [next |-> caller[c].next, running |-> FALSE, attempts |-> 0,
                     cancelled |-> FALSE, order |-> sequence]
  <2>1. Admits(t) /\ entry' = [entry EXCEPT ![t] = new] /\ sequence' = sequence + 1
    BY <1>4 DEF Register
  <2>2. /\ t \in TaskIds \cup {Free} /\ caller[c].next \in 0..MaxTime /\ sequence \in Nat
        /\ entry \in Tables
    BY DEF TypeOK, Tables
  <2>3. new \in Entry /\ new # Absent /\ new.running = FALSE /\ new.order = sequence
    <3>1. new \in Entry
      BY <2>2, Numbers DEF Entry
    <3>2. new.running = FALSE /\ new.order = sequence
      OBVIOUS
    <3> HIDE DEF new
    <3> QED BY <3>1, <3>2, Numbers
  <2>4. ~shutdown /\ entry[t] = Absent /\ Cardinality(Registered) < MaxTasks
    BY <2>1 DEF Admits
  <2> HIDE DEF new
  <2>5. entry' \in Tables
    BY <2>1, <2>2, <2>3 DEF Tables
  <2>6. \A u \in TaskIds : entry'[u] = IF u = t THEN new ELSE entry[u]
    BY <2>1, <2>2 DEF Tables
  <2>7. Registered' \subseteq Registered \cup {t}
    BY <2>6 DEF Registered
  <2>8. Cardinality(Registered') <= MaxTasks
    <3>1. IsFiniteSet(Registered) /\ Cardinality(Registered) \in Nat
      BY Numbers, FS_Subset, FS_CardinalityType DEF Registered
    <3>2. /\ IsFiniteSet(Registered \cup {t})
          /\ Cardinality(Registered \cup {t}) <= Cardinality(Registered) + 1
      BY <3>1, FS_AddElement
    <3>3. Cardinality(Registered') <= Cardinality(Registered \cup {t})
      BY <2>7, <3>2, FS_Subset
    <3>4. Cardinality(Registered') \in Nat /\ Cardinality(Registered \cup {t}) \in Nat
      BY <2>7, <3>2, FS_Subset, FS_CardinalityType
    <3> QED BY <2>4, <3>1, <3>2, <3>3, <3>4, Numbers
  <2>9. TypeOK'
    BY <1>1, <1>2, <2>1, <2>2, <2>5, <2>8 DEF TypeOK, Tables, CallerStates
  <2>10. \A u \in TaskIds : Marked(u)' <=> Marked(u)
    BY <2>3, <2>4, <2>6 DEF Marked
  <2>11. MarksOK'
    BY <1>1, <2>10, MarksKept DEF MarksOK
  <2>12. OrderOK'
    <3>1. \A u \in Registered : entry[u].order \in Nat /\ entry[u].order < sequence
      BY DEF Registered, TypeOK, Entry, OrderOK
    <3> QED BY <2>1, <2>2, <2>3, <2>6, <2>7, <3>1 DEF OrderOK, Registered
  <2>13. CountOK' /\ StopOK'
    BY <1>1, <1>2, <2>4 DEF CountOK, StopOK, Busy
  <2> QED BY <2>9, <2>11, <2>12, <2>13
<1> QED BY <1>3, <1>4

\* cancel, and the cancellation of everything in shutdown.
LEMMA CancelKeeps ==
  ASSUME SchedulerInv, (\E t \in TaskIds : Cancel(t)) \/ (\E c \in Callers : CancelAll(c))
  PROVE  SchedulerInv'
<1> USE DEF SchedulerInv
<1>1. UNCHANGED <<shutdown, active, sequence, coord, worker, finished, now>>
  BY DEF Cancel, CancelAll
<1>2. /\ caller' \in [Callers -> CallerStates]
      /\ \A d \in Callers : caller'[d].pc = "returned" => caller[d].pc = "returned"
  BY DEF Cancel, CancelAll, TypeOK, CallerStates
<1>3. entry \in Tables
  BY DEF TypeOK, Tables
<1> DEFINE Replaced ==
       /\ entry' = [t \in TaskIds |-> entry'[t]]
       /\ \A t \in TaskIds :
            \/ entry'[t] = entry[t]
            \/ entry[t] # Absent /\ entry'[t] = [entry[t] EXCEPT !.cancelled = TRUE]
<1>4. Replaced
  <2>1. ASSUME NEW t \in TaskIds, Cancel(t) PROVE Replaced
    BY <1>3, <2>1 DEF Cancel, Tables
  <2>2. ASSUME NEW c \in Callers, CancelAll(c) PROVE Replaced
    BY <1>3, <2>2 DEF CancelAll, Tables
  <2> QED BY <2>1, <2>2
<1>5. \A t \in TaskIds :
        /\ entry'[t] \in Entry \cup {Absent}
        /\ entry'[t] # Absent <=> entry[t] # Absent
        /\ entry[t] # Absent => entry'[t].running = entry[t].running /\ entry'[t].order = entry[t].order
  <2> SUFFICES ASSUME NEW t \in TaskIds, entry[t] # Absent,
                      entry'[t] = [entry[t] EXCEPT !.cancelled = TRUE]
               PROVE  /\ entry'[t] \in Entry /\ entry'[t] # Absent
                      /\ entry'[t].running = entry[t].running /\ entry'[t].order = entry[t].order
    BY <1>3, <1>4 DEF Tables
  <2>1. entry[t] \in Entry
    BY <1>3 DEF Tables
  <2> QED BY <2>1, EntryCancelled, Zenon
<1>6. entry' \in Tables
  BY <1>4, <1>5 DEF Tables
<1>7. Registered' \subseteq Registered /\ Cardinality(Registered') <= MaxTasks /\ OrderOK'
  BY <1>1, <1>5, <1>6, EntriesKept
<1>8. TypeOK'
  BY <1>1, <1>2, <1>6, <1>7 DEF TypeOK, Tables, CallerStates
<1>9. \A t \in TaskIds : Marked(t)' <=> Marked(t)
  BY <1>5 DEF Marked
<1>10. MarksOK'
  BY <1>1, <1>9, MarksKept DEF MarksOK
<1>11. CountOK' /\ StopOK'
  BY <1>1, <1>2, <1>7 DEF CountOK, StopOK, Busy
<1> QED BY <1>7, <1>8, <1>10, <1>11

\* The coordinator's steps that change only where it is.
LEMMA LoopKeeps ==
  ASSUME SchedulerInv, Loop \/ Wait \/ Wake
  PROVE  SchedulerInv'
<1> USE DEF SchedulerInv
<1>1. UNCHANGED <<entry, shutdown, active, sequence, worker, finished, caller, now>>
  BY DEF Loop, Wait, Wake
<1>2. coord \in Coordinators /\ active \in Nat /\ active <= MaxConcurrent
  BY DEF TypeOK, Coordinators, CountOK
<1>3. Available \in 0..MaxConcurrent /\ active + Available <= MaxConcurrent
  BY <1>2, Numbers DEF Available, Minus
<1>4. coord' \in Coordinators
  BY <1>2, <1>3 DEF Loop, Wait, Wake, Coordinators
<1>5. /\ coord.pc \in {"loop", "spawn", "wait"} /\ coord.due = {}
      /\ coord'.pc \in {"loop", "scan", "wait", "join"} /\ coord'.due = {}
      /\ coord'.pc = "join" => shutdown
      /\ coord'.pc = "scan" => coord'.available = Available
  BY <1>2 DEF Loop, Wait, Wake, Coordinators, MarksOK
<1>6. TypeOK'
  BY <1>1, <1>4 DEF TypeOK, Coordinators, Registered
<1>7. MarksOK'
  BY <1>1, <1>5, MarksKept DEF Marked
<1>8. OrderOK' /\ CountOK'
  BY <1>1, <1>3, <1>5 DEF OrderOK, Registered, CountOK, Busy
<1>9. StopOK'
  BY <1>1, <1>5 DEF StopOK, Registered, Busy
<1> QED BY <1>6, <1>7, <1>8, <1>9

\* retain drops no task that runs.
LEMMA ScanKeeps ==
  ASSUME SchedulerInv, Scan
  PROVE  SchedulerInv'
<1> USE DEF SchedulerInv
<1>1. /\ UNCHANGED <<shutdown, active, sequence, worker, finished, caller, now>>
      /\ entry \in Tables /\ coord \in Coordinators
  BY DEF Scan, TypeOK, Tables, Coordinators
<1>2. /\ coord' \in Coordinators /\ coord.pc = "scan" /\ coord'.pc = "select"
      /\ coord'.due = coord.due /\ coord'.available = coord.available
  BY <1>1 DEF Scan, Coordinators
<1>3. \A t \in TaskIds : entry'[t] = IF entry[t] # Absent /\ Retain(t) THEN entry[t] ELSE Absent
  BY DEF Scan
<1>4. entry' \in Tables
  BY <1>1 DEF Scan, Tables
<1>5. Registered' \subseteq Registered /\ Cardinality(Registered') <= MaxTasks /\ OrderOK'
  BY <1>1, <1>3, <1>4, EntriesKept
<1>6. TypeOK'
  BY <1>1, <1>2, <1>4, <1>5 DEF TypeOK, Tables, Coordinators
<1>7. \A t \in TaskIds : Marked(t)' <=> Marked(t)
  BY <1>3 DEF Marked, Retain
<1>8. MarksOK'
  BY <1>1, <1>2, <1>7, MarksKept DEF MarksOK
<1>9. CountOK' /\ StopOK'
  BY <1>1, <1>2 DEF CountOK, StopOK, Busy
<1> QED BY <1>5, <1>6, <1>8, <1>9

\* The selection marks tasks that nobody runs.
LEMMA SelectKeeps ==
  ASSUME SchedulerInv, Select
  PROVE  SchedulerInv'
<1> USE DEF SchedulerInv
<1>1. /\ UNCHANGED <<shutdown, active, sequence, worker, finished, caller, now>>
      /\ entry \in Tables /\ coord \in Coordinators
  BY DEF Select, TypeOK, Tables, Coordinators
<1>2. Selection \subseteq Due /\ Due \subseteq TaskIds /\ Cardinality(Selection) <= coord.available
  BY SelectionFits
<1>3. /\ coord' \in Coordinators /\ coord.pc = "select" /\ coord'.pc = "spawn"
      /\ coord'.due = Selection
  BY <1>1, <1>2 DEF Select, Coordinators
<1>4. \A t \in Selection : entry[t] \in Entry /\ ~Marked(t)
  BY <1>1, <1>2 DEF Due, Registered, Tables, Marked
<1>5. \A t \in TaskIds :
        /\ t \notin Selection => entry'[t] = entry[t]
        /\ t \in Selection => entry'[t] = [entry[t] EXCEPT !.running = TRUE, !.attempts = @ + 1]
  BY DEF Select
<1>6. ASSUME NEW t \in Selection
      PROVE  entry'[t] \in Entry /\ entry'[t] # Absent /\ entry'[t].running /\ entry'[t].order = entry[t].order
  <2>1. entry'[t] = [entry[t] EXCEPT !.running = TRUE, !.attempts = @ + 1]
    BY <1>2, <1>5
  <2> QED BY <1>4, <2>1, EntrySelected, Zenon
<1>7. entry' \in Tables
  <2>1. entry' = [t \in TaskIds |-> entry'[t]]
    BY DEF Select
  <2>2. \A t \in TaskIds : entry'[t] \in Entry \cup {Absent}
    BY <1>1, <1>5, <1>6 DEF Tables
  <2> QED BY <2>1, <2>2 DEF Tables
<1>8. Registered' \subseteq Registered /\ Cardinality(Registered') <= MaxTasks /\ OrderOK'
  <2>1. \A t \in Selection : entry[t] # Absent
    BY <1>4, Numbers
  <2> QED BY <1>1, <1>5, <1>6, <1>7, <2>1, EntriesKept
<1>9. TypeOK'
  BY <1>1, <1>3, <1>7, <1>8 DEF TypeOK, Tables, Coordinators
<1>10. \A t \in TaskIds : Marked(t)' <=> Marked(t) \/ t \in Selection
  BY <1>5, <1>6 DEF Marked
<1>11. MarksOK'
  <2>1. Busy' = Busy /\ coord.due = {} /\ \A w \in Busy : worker[w] \in TaskIds
    BY <1>1, <1>3 DEF Busy, MarksOK, TypeOK
  <2>2. \A t \in Selection : t \in TaskIds /\ \A w \in Threads \ finished : worker[w] # t
    BY <1>2, <1>4, Numbers DEF MarksOK, Busy
  <2> QED BY <1>1, <1>3, <1>10, <2>1, <2>2 DEF MarksOK
<1>12. CountOK'
  <2>1. active \in Nat /\ coord.available \in Nat /\ MaxConcurrent \in Nat
    BY Numbers DEF TypeOK
  <2>2. Cardinality(Selection) \in Nat
    BY <1>2, Numbers, FS_Subset, FS_CardinalityType
  <2>3. active + Cardinality(Selection) <= MaxConcurrent
    BY <1>2, <1>3, <2>1, <2>2 DEF CountOK
  <2> QED BY <1>1, <1>3, <2>3 DEF CountOK, Busy
<1>13. StopOK'
  BY <1>1, <1>3 DEF StopOK, Busy
<1> QED BY <1>8, <1>9, <1>11, <1>12, <1>13

\* Taking a task from the selection frees its share of the bound.
LEMMA OneLess ==
  ASSUME SchedulerInv, NEW t \in coord.due
  PROVE  /\ Cardinality(coord.due) \in Nat /\ Cardinality(coord.due \ {t}) \in Nat
         /\ Cardinality(coord.due \ {t}) + 1 = Cardinality(coord.due)
<1>1. IsFiniteSet(coord.due)
  BY Numbers, FS_Subset DEF SchedulerInv, TypeOK
<1>2. /\ IsFiniteSet(coord.due \ {t})
      /\ Cardinality(coord.due \ {t}) = Cardinality(coord.due) - 1
  BY <1>1, FS_RemoveElement
<1> QED BY <1>1, <1>2, FS_CardinalityType

\* A started callback has a thread of its own.
LEMMA SpawnKeeps ==
  ASSUME SchedulerInv, NEW t \in TaskIds, Spawn(t)
  PROVE  SchedulerInv'
<1> USE DEF SchedulerInv
<1>1. /\ UNCHANGED <<entry, shutdown, sequence, finished, caller, now>>
      /\ coord.pc = "spawn" /\ t \in coord.due /\ active' = active + 1
  BY DEF Spawn, First
<1>2. /\ coord \in Coordinators /\ worker \in [Threads -> TaskIds \cup {Free}]
      /\ active \in Nat /\ MaxConcurrent \in Nat
  BY Numbers DEF TypeOK, Coordinators
<1>3. coord' \in Coordinators /\ coord'.pc = "spawn" /\ coord'.due = coord.due \ {t}
  BY <1>1, <1>2 DEF Spawn, Coordinators
<1>4. active + Cardinality(coord.due) <= MaxConcurrent
  BY <1>1 DEF CountOK
<1>5. active + 1 + Cardinality(coord.due \ {t}) <= MaxConcurrent /\ active + 1 <= MaxConcurrent
  BY <1>1, <1>2, <1>4, OneLess
<1>6. \E w \in Threads : worker[w] = Free
  <2> SUFFICES ASSUME \A w \in Threads : worker[w] # Free PROVE FALSE
    OBVIOUS
  <2>1. Busy = Threads
    BY DEF Busy
  <2>2. Cardinality(Threads) = active
    BY <2>1 DEF CountOK
  <2> QED BY <1>2, <1>5, <2>2, Numbers
<1>7. PICK w \in Threads : worker[w] = Free /\ worker' = [worker EXCEPT ![w] = t]
  BY <1>6 DEF Spawn
<1>8. \A v \in Threads : worker'[v] = IF v = w THEN t ELSE worker[v]
  BY <1>2, <1>7
<1>9. t # Free /\ w \notin Busy /\ w \notin finished /\ Busy' = Busy \cup {w}
  BY <1>7, <1>8, Numbers DEF Busy, MarksOK
<1>10. TypeOK'
  <2>1. worker' \in [Threads -> TaskIds \cup {Free}]
    BY <1>2, <1>7
  <2> QED BY <1>1, <1>2, <1>3, <2>1 DEF TypeOK, Coordinators, Registered
<1>11. MarksOK'
  <2>1. \A u \in TaskIds : Marked(u)' <=> Marked(u)
    BY <1>1 DEF Marked
  <2>2. coord.due \subseteq TaskIds /\ \A v \in Busy : worker[v] \in TaskIds /\ v \in Threads
    BY <1>2 DEF Coordinators, Busy
  <2>3. Marked(t) /\ \A v \in Threads \ finished : worker[v] # t
    BY <1>1 DEF MarksOK
  <2>4. (finished \subseteq Busy)'
    BY <1>1, <1>9 DEF MarksOK
  <2>5. (\A v \in Busy \ finished : Marked(worker[v]))'
    BY <1>1, <1>8, <1>9, <2>1, <2>2, <2>3 DEF MarksOK
  <2>6. (\A u, v \in Busy \ finished : worker[u] = worker[v] => u = v)'
    BY <1>1, <1>8, <1>9, <2>2, <2>3 DEF MarksOK
  <2>7. (\A u \in coord.due : Marked(u) /\ \A v \in Threads \ finished : worker[v] # u)'
    BY <1>1, <1>3, <1>8, <2>1, <2>2 DEF MarksOK
  <2>8. (\A u \in TaskIds : Marked(u) => u \in coord.due \/ \E v \in Threads \ finished : worker[v] = u)'
    <3> SUFFICES ASSUME NEW u \in TaskIds, Marked(u), u \notin coord.due \ {t}
                 PROVE  \E v \in Threads \ finished : worker'[v] = u
      BY <1>1, <1>3, <2>1
    <3>1. CASE u = t
      BY <1>7, <1>8, <1>9, <3>1
    <3>2. CASE u # t
      <4>1. PICK v \in Threads \ finished : worker[v] = u
        BY <3>2 DEF MarksOK
      <4>2. v # w
        BY <1>7, <4>1, Numbers
      <4> QED BY <1>8, <4>1, <4>2
    <3> QED BY <3>1, <3>2
  <2> QED BY <1>3, <2>4, <2>5, <2>6, <2>7, <2>8 DEF MarksOK
<1>12. OrderOK'
  BY <1>1 DEF OrderOK, Registered
<1>13. CountOK'
  <2>1. Cardinality(Busy') = active + 1
    BY <1>9, BusyFinite, FS_AddElement DEF CountOK
  <2> QED BY <1>1, <1>3, <1>5, <2>1 DEF CountOK
<1>14. StopOK'
  BY <1>1, <1>3 DEF StopOK
<1> QED BY <1>10, <1>11, <1>12, <1>13, <1>14

\* complete_task takes the mark from one task and leaves the others.
LEMMA TaskCompleted ==
  ASSUME SchedulerInv, NEW t \in TaskIds, NEW ok \in BOOLEAN, CompleteTask(t, ok), sequence' = sequence
  PROVE  /\ entry' \in Tables
         /\ \A u \in TaskIds : u # t => (Marked(u)' <=> Marked(u))
         /\ ~Marked(t)'
         /\ Registered' \subseteq Registered /\ Cardinality(Registered') <= MaxTasks /\ OrderOK'
<1>1. entry \in Tables /\ TypeOK
  BY DEF SchedulerInv, TypeOK, Tables
<1>2. PICK f \in Outcomes(t, ok) : entry' = [entry EXCEPT ![t] = f]
  BY DEF CompleteTask
<1>3. /\ f \in Entry \cup {Absent}
      /\ f # Absent => entry[t] # Absent /\ ~f.running /\ f.order = entry[t].order
  BY <1>1, EntryCompleted
<1>4. entry' \in Tables /\ \A u \in TaskIds : entry'[u] = IF u = t THEN f ELSE entry[u]
  BY <1>1, <1>2, <1>3 DEF Tables
<1>5. Registered' \subseteq Registered /\ Cardinality(Registered') <= MaxTasks /\ OrderOK'
  BY <1>3, <1>4, EntriesKept
<1> QED BY <1>3, <1>4, <1>5 DEF Marked

\* A thread that does not start leaves no mark behind.
LEMMA SpawnFailsKeeps ==
  ASSUME SchedulerInv, NEW t \in TaskIds, SpawnFails(t)
  PROVE  SchedulerInv'
<1> USE DEF SchedulerInv
<1>1. /\ UNCHANGED <<shutdown, active, sequence, worker, finished, caller, now>>
      /\ coord.pc = "spawn" /\ t \in coord.due /\ CompleteTask(t, FALSE)
  BY DEF SpawnFails, First
<1>2. coord \in Coordinators /\ active \in Nat /\ MaxConcurrent \in Nat
  BY Numbers DEF TypeOK, Coordinators
<1>3. coord' \in Coordinators /\ coord'.pc = "spawn" /\ coord'.due = coord.due \ {t}
  BY <1>1, <1>2 DEF SpawnFails, Coordinators
<1>4. /\ entry' \in Tables
      /\ \A u \in TaskIds : u # t => (Marked(u)' <=> Marked(u))
      /\ ~Marked(t)'
      /\ Registered' \subseteq Registered /\ Cardinality(Registered') <= MaxTasks /\ OrderOK'
  BY <1>1, TaskCompleted
<1>5. TypeOK'
  BY <1>1, <1>3, <1>4 DEF TypeOK, Tables, Coordinators
<1>6. MarksOK'
  <2>1. Busy' = Busy /\ coord.due \subseteq TaskIds /\ \A w \in Busy : worker[w] \in TaskIds
    BY <1>1, <1>2 DEF Busy, Coordinators, TypeOK
  <2>2. \A w \in Threads \ finished : worker[w] # t
    BY <1>1 DEF MarksOK
  <2>3. \A w \in Busy : w \in Threads
    BY DEF Busy
  <2> QED BY <1>1, <1>3, <1>4, <2>1, <2>2, <2>3 DEF MarksOK
<1>7. CountOK'
  <2>1. active + Cardinality(coord.due) <= MaxConcurrent
    BY <1>1 DEF CountOK
  <2>2. active + Cardinality(coord.due \ {t}) <= MaxConcurrent
    BY <1>1, <1>2, <2>1, OneLess
  <2> QED BY <1>1, <1>3, <2>2 DEF CountOK, Busy
<1>8. StopOK'
  BY <1>1, <1>3 DEF StopOK
<1> QED BY <1>4, <1>5, <1>6, <1>7, <1>8

\* A callback that returned or panicked: its mark goes, its thread still counts.
LEMMA CompleteKeeps ==
  ASSUME SchedulerInv, NEW w \in Threads, NEW ok \in BOOLEAN, Complete(w, ok)
  PROVE  SchedulerInv'
<1> USE DEF SchedulerInv
<1> DEFINE t == worker[w]
<1>1. /\ UNCHANGED <<shutdown, active, sequence, coord, worker, caller, now>>
      /\ t # Free /\ w \notin finished /\ finished' = finished \cup {w}
      /\ CompleteTask(t, ok)
  BY DEF Complete
<1>2. t \in TaskIds /\ w \in Busy \ finished /\ Busy' = Busy
  BY <1>1 DEF TypeOK, Busy
<1>3. PICK x \in TaskIds : x = t
  BY <1>2
<1>4. /\ entry' \in Tables
      /\ \A u \in TaskIds : u # x => (Marked(u)' <=> Marked(u))
      /\ ~Marked(x)'
      /\ Registered' \subseteq Registered /\ Cardinality(Registered') <= MaxTasks /\ OrderOK'
  BY <1>1, <1>3, TaskCompleted
<1>5. TypeOK'
  BY <1>1, <1>4 DEF TypeOK, Tables
<1>6. MarksOK'
  <2>1. coord.due \subseteq TaskIds /\ \A v \in Busy : worker[v] \in TaskIds /\ v \in Threads
    BY DEF TypeOK, Busy
  <2>2. x \notin coord.due
    BY <1>2, <1>3 DEF MarksOK, Busy
  <2>3. \A v \in Busy \ finished : worker[v] = x => v = w
    BY <1>2, <1>3 DEF MarksOK
  <2>4. (finished \subseteq Busy)' /\ (coord.pc # "spawn" => coord.due = {})'
    BY <1>1, <1>2 DEF MarksOK
  <2>5. (\A v \in Busy \ finished : Marked(worker[v]))'
    BY <1>1, <1>2, <1>4, <2>1, <2>3 DEF MarksOK
  <2>6. (\A u, v \in Busy \ finished : worker[u] = worker[v] => u = v)'
    BY <1>1, <1>2 DEF MarksOK
  <2>7. (\A u \in coord.due : Marked(u) /\ \A v \in Threads \ finished : worker[v] # u)'
    BY <1>1, <1>4, <2>1, <2>2 DEF MarksOK
  <2>8. (\A u \in TaskIds : Marked(u) => u \in coord.due \/ \E v \in Threads \ finished : worker[v] = u)'
    BY <1>1, <1>3, <1>4 DEF MarksOK
  <2> QED BY <2>4, <2>5, <2>6, <2>7, <2>8 DEF MarksOK
<1>7. CountOK' /\ StopOK'
  BY <1>1, <1>2, <1>4 DEF CountOK, StopOK
<1> QED BY <1>4, <1>5, <1>6, <1>7

\* The thread ends, and the counter follows.
LEMMA LeaveKeeps ==
  ASSUME SchedulerInv, NEW w \in Threads, Leave(w)
  PROVE  SchedulerInv'
<1> USE DEF SchedulerInv
<1>1. /\ UNCHANGED <<entry, shutdown, sequence, coord, caller, now>>
      /\ w \in finished /\ finished' = finished \ {w}
      /\ active' = Minus(active, 1) /\ worker' = [worker EXCEPT ![w] = Free]
  BY DEF Leave
<1>2. /\ worker \in [Threads -> TaskIds \cup {Free}] /\ active \in Nat
      /\ coord \in Coordinators /\ MaxConcurrent \in Nat
  BY Numbers DEF TypeOK, Coordinators
<1>3. \A v \in Threads : worker'[v] = IF v = w THEN Free ELSE worker[v]
  BY <1>1, <1>2
<1>4. w \in Busy /\ Busy' = Busy \ {w}
  BY <1>1, <1>3 DEF Busy, MarksOK
<1>5. Cardinality(Busy') = active - 1
  BY <1>4, BusyFinite, FS_RemoveElement DEF CountOK
<1>6. active >= 1 /\ active' = active - 1 /\ active' \in Nat
  <2>1. Busy # {}
    BY <1>4
  <2>2. active # 0
    BY <2>1, BusyFinite, FS_EmptySet DEF CountOK
  <2> QED BY <1>1, <1>2, <2>2 DEF Minus
<1>7. TypeOK'
  <2>1. worker' \in [Threads -> TaskIds \cup {Free}]
    BY <1>1, <1>2
  <2> QED BY <1>1, <1>6, <2>1 DEF TypeOK, Registered
<1>8. MarksOK'
  <2>1. \A u \in TaskIds : Marked(u)' <=> Marked(u)
    BY <1>1 DEF Marked
  <2>2. coord.due \subseteq TaskIds /\ \A v \in Busy : worker[v] \in TaskIds /\ v \in Threads
    BY <1>2 DEF Coordinators, Busy
  <2>3. /\ Busy' \ finished' = Busy \ finished
        /\ \A v \in Threads \ finished : worker'[v] = worker[v]
    BY <1>1, <1>3, <1>4
  <2>4. (finished \subseteq Busy)' /\ (coord.pc # "spawn" => coord.due = {})'
    BY <1>1, <1>4 DEF MarksOK
  <2>5. (\A v \in Busy \ finished : Marked(worker[v]))'
    BY <2>1, <2>2, <2>3 DEF MarksOK
  <2>6. (\A u, v \in Busy \ finished : worker[u] = worker[v] => u = v)'
    BY <2>2, <2>3 DEF MarksOK
  <2>7. (\A u \in coord.due : Marked(u) /\ \A v \in Threads \ finished : worker[v] # u)'
    BY <1>1, <1>3, <2>1, <2>2, Numbers DEF MarksOK
  <2>8. (\A u \in TaskIds : Marked(u) => u \in coord.due \/ \E v \in Threads \ finished : worker[v] = u)'
    BY <1>1, <2>1, <2>3 DEF MarksOK
  <2> QED BY <2>4, <2>5, <2>6, <2>7, <2>8 DEF MarksOK
<1>9. OrderOK'
  BY <1>1 DEF OrderOK, Registered
<1>10. CountOK'
  <2>1. coord.available \in Nat /\ Cardinality(coord.due) \in Nat
    BY <1>2, Numbers, FS_Subset, FS_CardinalityType DEF Coordinators
  <2> QED BY <1>1, <1>2, <1>5, <1>6, <2>1 DEF CountOK
<1>11. StopOK'
  BY <1>1, <1>4 DEF StopOK, Registered
<1> QED BY <1>7, <1>8, <1>9, <1>10, <1>11

\* The coordinator joins every worker before it clears the tasks.
LEMMA ExitKeeps ==
  ASSUME SchedulerInv, Exit
  PROVE  SchedulerInv'
<1> USE DEF SchedulerInv
<1>1. /\ UNCHANGED <<shutdown, active, sequence, worker, finished, caller, now>>
      /\ coord.pc = "join" /\ entry' = [t \in TaskIds |-> Absent] /\ Joined
  BY DEF Exit
<1>2. coord \in Coordinators
  BY DEF TypeOK, Coordinators
<1>3. coord' \in Coordinators /\ coord'.pc = "exited" /\ coord'.due = coord.due
  BY <1>1, <1>2 DEF Exit, Coordinators
<1>4. entry' \in Tables /\ Registered' = {}
  BY <1>1 DEF Tables, Registered
<1>5. Busy = {} /\ Busy' = {} /\ coord.due = {} /\ finished = {}
  BY <1>1 DEF Busy, Joined, MarksOK
<1>6. Cardinality(Registered') <= MaxTasks
  BY <1>4, FS_EmptySet, Numbers
<1>7. TypeOK'
  BY <1>1, <1>3, <1>4, <1>6 DEF TypeOK, Tables, Coordinators
<1>8. \A t \in TaskIds : ~Marked(t)'
  BY <1>1 DEF Marked
<1>9. MarksOK' /\ OrderOK'
  BY <1>1, <1>3, <1>4, <1>5, <1>8 DEF MarksOK, OrderOK
<1>10. CountOK' /\ StopOK'
  BY <1>1, <1>3, <1>4, <1>5 DEF CountOK, StopOK
<1> QED BY <1>7, <1>9, <1>10

-----------------------------------------------------------------------------
(* The theorems.                                                           *)

\* Nothing is registered and nothing runs at the start.
LEMMA SchedulerInitial == Init => SchedulerInv
<1> SUFFICES ASSUME Init PROVE SchedulerInv
  OBVIOUS
<1> USE DEF Init
<1>1. Registered = {} /\ Busy = {}
  BY DEF Registered, Busy
<1>2. Cardinality({}) = 0
  BY FS_EmptySet
<1>3. coord \in Coordinators /\ caller \in [Callers -> CallerStates]
  BY Numbers DEF Coordinators, CallerStates
<1>4. TypeOK
  <2>1. Cardinality(Registered) <= MaxTasks
    BY <1>1, <1>2, Numbers
  <2>2. entry \in Tables /\ worker \in [Threads -> TaskIds \cup {Free}]
    BY DEF Tables
  <2>3. active \in Nat /\ sequence \in Nat /\ now \in 0..MaxTime /\ finished \in SUBSET Threads
    BY Numbers
  <2> QED BY <1>3, <2>1, <2>2, <2>3 DEF TypeOK, Tables, Coordinators, CallerStates
<1>5. MarksOK
  BY <1>1 DEF MarksOK, Marked
<1>6. OrderOK /\ CountOK /\ StopOK
  BY <1>1, <1>2, Numbers DEF OrderOK, CountOK, StopOK
<1> QED BY <1>4, <1>5, <1>6 DEF SchedulerInv

\* Every step of a caller, the coordinator, a worker or the clock keeps the invariant.
LEMMA SchedulerStep ==
  ASSUME SchedulerInv, [Next]_vars
  PROVE  SchedulerInv'
<1>1. CASE \E c \in Callers : Finish(c) \/ Shutdown(c) \/ \E t \in TaskIds : Schedule(c, t)
  BY <1>1, CallersKeep, RegisterKeeps, CancelKeeps DEF Finish
<1>2. CASE (\E t \in TaskIds : Cancel(t)) \/ Tick
  BY <1>2, CallersKeep, CancelKeeps
<1>3. CASE Coordinate
  BY <1>3, LoopKeeps, ScanKeeps, SelectKeeps, SpawnKeeps, SpawnFailsKeeps, ExitKeeps DEF Coordinate
<1>4. CASE \E w \in Threads : Work(w)
  BY <1>4, CompleteKeeps, LeaveKeeps DEF Work
<1>5. CASE UNCHANGED vars
  BY <1>5 DEF vars, SchedulerInv, TypeOK, Registered, MarksOK, Marked, Busy, OrderOK, CountOK, StopOK
<1> QED BY <1>1, <1>2, <1>3, <1>4, <1>5 DEF Next

\* The inductive invariant: the scheduler's state keeps its types, the table its
\* bound, and marks, workers and counter agree (runtime.rs).
THEOREM SchedulerInvariant == Spec => []SchedulerInv
BY SchedulerInitial, SchedulerStep, PTL DEF Spec

\* A mark and a callback go together.
LEMMA MarkMeansCallback ==
  ASSUME SchedulerInv
  PROVE  RunningIsExecuting
<1> USE DEF SchedulerInv
<1> DEFINE Runs(t) == Executing(t) \cup (IF t \in coord.due THEN {Free} ELSE {})
<1>1. ASSUME NEW t \in TaskIds, ~Marked(t) PROVE Runs(t) = {}
  BY <1>1, Numbers DEF Executing, MarksOK, Busy
<1>2. ASSUME NEW t \in TaskIds, Marked(t) PROVE Cardinality(Runs(t)) = 1
  <2>1. \E x : Runs(t) = {x}
    <3>1. CASE t \in coord.due
      <4>1. Executing(t) = {}
        BY <3>1 DEF Executing, MarksOK
      <4>2. Runs(t) = {Free}
        BY <3>1, <4>1
      <4> QED BY <4>2
    <3>2. CASE t \notin coord.due
      <4>1. PICK w \in Threads \ finished : worker[w] = t
        BY <1>2, <3>2 DEF MarksOK
      <4>2. Runs(t) = {w}
        BY <3>2, <4>1, Numbers DEF Executing, MarksOK, Busy
      <4> QED BY <4>2
    <3> QED BY <3>1, <3>2
  <2>2. \A x : Cardinality({x}) = 1
    BY FS_Singleton, Zenon
  <2> QED BY <2>1, <2>2
<1>3. active <= MaxConcurrent /\ Cardinality({w \in Threads : worker[w] # Free}) = active
  BY DEF CountOK, Busy
<1> QED BY <1>1, <1>2, <1>3 DEF RunningIsExecuting, Marked

\* No task runs twice at once and none stays marked with nobody left to complete it;
\* and never more callbacks run than max_concurrent_tasks, whatever is registered,
\* cancelled, retried or shut down meanwhile (run_coordinator, complete_task).
THEOREM CallbacksAreMarkedAndBounded == Spec => []RunningIsExecuting
BY SchedulerInvariant, MarkMeansCallback, PTL

\* Once a call of shutdown returned nothing is registered and no callback runs,
\* although registrations were under way (shutdown, schedule).
THEOREM ShutdownLeavesNothing == Spec => []ShutdownIsFinal
<1>1. SchedulerInv => ShutdownIsFinal
  <2> SUFFICES ASSUME SchedulerInv, NEW c \in Callers, caller[c].pc = "returned"
               PROVE  Registered = {} /\ active = 0 /\ \A w \in Threads : worker[w] = Free
    BY DEF ShutdownIsFinal
  <2>1. Registered = {} /\ Busy = {}
    BY DEF SchedulerInv, StopOK
  <2>2. active = 0
    BY <2>1, FS_EmptySet DEF SchedulerInv, CountOK
  <2> QED BY <2>1, <2>2 DEF Busy
<1> QED BY <1>1, SchedulerInvariant, PTL

-----------------------------------------------------------------------------
(* Placement.                                                              *)

\* The types of an evaluation and of what a core reports.
Evaluation ==
  [core : Cores, eligible : BOOLEAN, rejection : PlacementRejection \cup {NoValue}, score : Int]

Capabilities == UNION {CoreProfile[d].capabilities : d \in Cores}
Services == {CoreProfile[d].service : d \in Cores}
Manifest ==
  [health : HealthStatus, mode : RuntimeModes, loaded : SUBSET Capabilities, load : Nat,
   leads : SUBSET Services]

\* A lease has one holder.
LeasesOK ==
  \A c, d \in Cores : c # d => \A s \in Services : ~(s \in facts[c].leads /\ s \in facts[d].leads)

\* The inductive invariant: a lease has one holder, so who is eligible as a leader is alone.
PlacementInv == facts \in [Cores -> Manifest] /\ LeasesOK /\ PlacedWhereItFits

\* Every core has one place in the order of the ids.
LEMMA IdOrder ==
  \E at \in [Cores -> Nat] :
    /\ \A c, d \in Cores : at[c] = at[d] => c = d
    /\ \A c, d \in Cores : IdBefore(c, d) <=> at[c] < at[d]
<1> DEFINE n == Len(CoreOrder)
<1>1. /\ n \in Nat /\ DOMAIN CoreOrder = 1..n /\ \A i \in 1..n : CoreOrder[i] \in Cores
      /\ \A i, j \in 1..n : CoreOrder[i] = CoreOrder[j] => i = j
  BY PlacementAssumption
<1>2. \A c \in Cores : \E i \in 1..n : CoreOrder[i] = c
  BY <1>1 DEF Cores, Range
<1> HIDE DEF n
<1> DEFINE at == [c \in Cores |-> CHOOSE i \in 1..n : CoreOrder[i] = c]
<1>3. \A c \in Cores : at[c] \in 1..n /\ CoreOrder[at[c]] = c
  BY <1>2
<1>4. \A i \in 1..n : at[CoreOrder[i]] = i
  <2> HIDE DEF at
  <2> QED BY <1>1, <1>3
<1>5. at \in [Cores -> Nat]
  <2>1. \A c \in Cores : at[c] \in Nat
    <3> HIDE DEF at
    <3> QED BY <1>1, <1>3
  <2> QED BY <2>1
<1> HIDE DEF at
<1>6. ASSUME NEW c \in Cores, NEW d \in Cores  PROVE IdBefore(c, d) <=> at[c] < at[d]
  <2>1. ASSUME IdBefore(c, d)  PROVE at[c] < at[d]
    <3>1. PICK i \in 1..n, j \in 1..n : i < j /\ CoreOrder[i] = c /\ CoreOrder[j] = d
      BY <1>1, <2>1 DEF IdBefore
    <3>2. at[c] = i /\ at[d] = j
      BY <1>4, <3>1
    <3> QED BY <3>1, <3>2
  <2>2. ASSUME at[c] < at[d]  PROVE IdBefore(c, d)
    BY <1>1, <1>3, <2>2 DEF IdBefore
  <2> QED BY <2>1, <2>2
<1>7. \A c, d \in Cores : at[c] = at[d] => c = d
  BY <1>3
<1> QED BY <1>5, <1>6, <1>7

\* The candidates can be listed by their ids, ascending.
LEMMA SortedPlaces ==
  ASSUME NEW n \in Nat, NEW given \in Injection(1..n, Cores)
  PROVE  \E r \in [1..n -> Cores] :
           /\ \A i, j \in 1..n : i < j => IdBefore(r[i], r[j])
           /\ \A i, j \in 1..n : r[i] = r[j] => i = j
           /\ \A x : (\E i \in 1..n : given[i] = x) <=> (\E i \in 1..n : r[i] = x)
<1> DEFINE N == Len(CoreOrder)
           keep == {i \in 1..N : \E j \in 1..n : given[j] = CoreOrder[i]}
           r == Retained(CoreOrder, keep)
           T == {given[j] : j \in 1..n}
<1>1. /\ N \in Nat /\ DOMAIN CoreOrder = 1..N /\ \A i \in 1..N : CoreOrder[i] \in Cores
      /\ \A i, j \in 1..N : CoreOrder[i] = CoreOrder[j] => i = j
      /\ CoreOrder \in Seq(Cores)
  BY PlacementAssumption
<1>2. /\ given \in [1..n -> Cores] /\ \A i, j \in 1..n : given[i] = given[j] => i = j
  BY DEF Injection, IsInjective
<1>3. r \in Seq(Cores) /\ Lists(r, CoreOrder, keep, N)
  <2> HIDE DEF keep
  <2> QED BY <1>1, RetainedFacts
<1> HIDE DEF r
<1>4. PICK pos : Places(pos, r, CoreOrder, keep, N)
  BY <1>3, Zenon DEF Lists
<1> DEFINE m == Len(r)
<1>5. m \in Nat /\ r \in [1..m -> Cores]
  BY <1>3
<1>6. keep \cap (1..N) = keep
  OBVIOUS
<1>7. /\ pos \in [1..m -> keep]
      /\ \A j, k \in 1..m : j < k => pos[j] < pos[k]
      /\ \A j \in 1..m : r[j] = CoreOrder[pos[j]]
      /\ \A p \in keep : \E j \in 1..m : pos[j] = p
  <2> HIDE DEF keep
  <2> QED BY <1>4, <1>6, Zenon DEF Places
<1> HIDE DEF m, N
<1>8. \A i \in 1..m : pos[i] \in 1..N
  BY <1>7
<1>9. \A i, j \in 1..m : i < j => IdBefore(r[i], r[j])
  <2> SUFFICES ASSUME NEW i \in 1..m, NEW j \in 1..m, i < j  PROVE IdBefore(r[i], r[j])
    OBVIOUS
  <2>1. pos[i] \in 1..N /\ pos[j] \in 1..N /\ pos[i] < pos[j]
    BY <1>7, <1>8
  <2>2. r[i] = CoreOrder[pos[i]] /\ r[j] = CoreOrder[pos[j]]
    BY <1>7
  <2> QED BY <1>1, <2>1, <2>2, Zenon DEF IdBefore
<1>10. \A i, j \in 1..m : r[i] = r[j] => i = j
  <2> SUFFICES ASSUME NEW i \in 1..m, NEW j \in 1..m, r[i] = r[j]  PROVE i = j
    OBVIOUS
  <2>1. pos[i] \in 1..N /\ pos[j] \in 1..N /\ CoreOrder[pos[i]] = CoreOrder[pos[j]]
    BY <1>7, <1>8
  <2>2. pos[i] = pos[j]
    BY <1>1, <2>1
  <2>3. (i < j => pos[i] < pos[j]) /\ (j < i => pos[j] < pos[i])
    BY <1>7
  <2> QED BY <1>5, <2>1, <2>2, <2>3
<1>11. \A x : (\E i \in 1..n : given[i] = x) <=> (\E i \in 1..m : r[i] = x)
  <2>1. ASSUME NEW j \in 1..n  PROVE \E i \in 1..m : r[i] = given[j]
    <3>1. PICK i \in 1..N : CoreOrder[i] = given[j]
      BY <1>1, <1>2 DEF Cores, Range
    <3>2. i \in keep
      BY <3>1
    <3> QED BY <1>7, <3>1, <3>2
  <2>2. ASSUME NEW i \in 1..m  PROVE \E j \in 1..n : given[j] = r[i]
    <3>1. pos[i] \in keep /\ r[i] = CoreOrder[pos[i]]
      BY <1>7
    <3> QED BY <3>1
  <2> QED BY <2>1, <2>2
<1>12. m = n
  <2>1. given \in Bijection(1..n, T)
    BY <1>2 DEF Bijection, Injection, Surjection, IsInjective
  <2>2. r \in Bijection(1..m, T)
    <3>1. \A i \in 1..m : r[i] \in T
      BY <1>11
    <3>2. \A t \in T : \E i \in 1..m : r[i] = t
      BY <1>11
    <3> HIDE DEF T
    <3> QED BY <1>5, <1>10, <3>1, <3>2 DEF Bijection, Injection, Surjection, IsInjective
  <2> HIDE DEF T
  <2>3. ExistsBijection(1..n, T) /\ ExistsBijection(1..m, T)
    BY <2>1, <2>2 DEF ExistsBijection
  <2>4. IsFiniteSet(1..n) /\ Cardinality(1..n) = n /\ IsFiniteSet(1..m) /\ Cardinality(1..m) = m
    BY <1>5, FS_Interval
  <2>5. Cardinality(T) = n /\ Cardinality(T) = m
    BY <2>3, <2>4, FS_Bijection
  <2> QED BY <2>5
<1> HIDE DEF T, keep
<1> QED BY <1>5, <1>9, <1>10, <1>11, <1>12

\* sort_by returns the candidates, each once, ascending.
LEMMA SortFacts ==
  ASSUME NEW n \in Nat, NEW given \in Injection(1..n, Cores)
  PROVE  /\ SortedById(given) \in [1..n -> Cores]
         /\ \A i, j \in 1..n : SortedById(given)[i] = SortedById(given)[j] => i = j
         /\ \A i, j \in 1..n : i < j => ~IdBefore(SortedById(given)[j], SortedById(given)[i])
         /\ \A c : (\E i \in 1..n : SortedById(given)[i] = c) <=> (\E i \in 1..n : given[i] = c)
<1>1. /\ given \in [1..n -> Cores] /\ DOMAIN given = 1..n
      /\ \A i, j \in 1..n : given[i] = given[j] => i = j
  BY DEF Injection, IsInjective
<1>2. PICK r \in [1..n -> Cores] :
        /\ \A i, j \in 1..n : i < j => IdBefore(r[i], r[j])
        /\ \A i, j \in 1..n : r[i] = r[j] => i = j
        /\ \A x : (\E i \in 1..n : given[i] = x) <=> (\E i \in 1..n : r[i] = x)
  BY SortedPlaces
<1> DEFINE P == {[i \in 1..n |-> given[place[i]]] : place \in Bijection(1..n, 1..n)}
           Ascending(s) == \A i, j \in 1..n : i < j => ~IdBefore(s[j], s[i])
           place == [i \in 1..n |-> CHOOSE j \in 1..n : given[j] = r[i]]
<1>3. \A i \in 1..n : \E j \in 1..n : given[j] = r[i]
  BY <1>2
<1>4. \A i \in 1..n : place[i] \in 1..n /\ given[place[i]] = r[i]
  BY <1>3
<1>5. place \in [1..n -> 1..n]
  BY <1>4
<1> HIDE DEF place
<1>6. place \in Bijection(1..n, 1..n)
  <2>1. \A i, j \in 1..n : place[i] = place[j] => i = j
    BY <1>2, <1>4
  <2>2. ASSUME NEW t \in 1..n  PROVE \E i \in 1..n : place[i] = t
    <3>1. PICK i \in 1..n : r[i] = given[t]
      BY <1>2
    <3>2. given[place[i]] = given[t] /\ place[i] \in 1..n
      BY <1>4, <3>1
    <3> QED BY <1>1, <3>2
  <2> QED BY <1>5, <2>1, <2>2 DEF Bijection, Injection, Surjection, IsInjective
<1>7. r = [i \in 1..n |-> given[place[i]]]
  BY <1>2, <1>4
<1>8. r \in P
  BY <1>6, <1>7, Zenon
<1>9. Ascending(r)
  <2> SUFFICES ASSUME NEW i \in 1..n, NEW j \in 1..n, i < j  PROVE ~IdBefore(r[j], r[i])
    OBVIOUS
  <2>1. PICK at \in [Cores -> Nat] : \A c, d \in Cores : IdBefore(c, d) <=> at[c] < at[d]
    BY IdOrder
  <2>2. r[i] \in Cores /\ r[j] \in Cores /\ IdBefore(r[i], r[j])
    BY <1>2
  <2>3. at[r[i]] \in Nat /\ at[r[j]] \in Nat
    BY <2>1, <2>2
  <2>4. at[r[i]] < at[r[j]] /\ (IdBefore(r[j], r[i]) <=> at[r[j]] < at[r[i]])
    BY <2>1, <2>2
  <2> QED BY <2>3, <2>4
<1> DEFINE s == SortedById(given)
<1>10. s = CHOOSE t \in P : Ascending(t)
  <2> DEFINE Rearranged(D) == {[i \in D |-> given[p[i]]] : p \in Bijection(D, D)}
             Up(D, t) == \A i, j \in D : i < j => ~IdBefore(t[j], t[i])
  <2>1. s = CHOOSE t \in Rearranged(DOMAIN given) : Up(DOMAIN given, t)
    BY DEF SortedById
  <2>2. P = Rearranged(1..n) /\ \A t : Ascending(t) <=> Up(1..n, t)
    OBVIOUS
  <2> HIDE DEF Rearranged, Up, P, Ascending, s
  <2>3. s = CHOOSE t \in Rearranged(1..n) : Up(1..n, t)
    BY <1>1, <2>1, Zenon
  <2> QED BY <2>2, <2>3, Zenon
<1> HIDE DEF s, P, Ascending
<1>11. s \in P /\ Ascending(s)
  BY <1>8, <1>9, <1>10, Zenon
<1>12. PICK q \in Bijection(1..n, 1..n) : s = [i \in 1..n |-> given[q[i]]]
  BY <1>11, Zenon DEF P
<1>13. /\ q \in [1..n -> 1..n] /\ \A i, j \in 1..n : q[i] = q[j] => i = j
       /\ \A t \in 1..n : \E i \in 1..n : q[i] = t
  BY <1>12 DEF Bijection, Injection, Surjection, IsInjective
<1>14. s \in [1..n -> Cores]
  BY <1>1, <1>12, <1>13
<1>15. \A i, j \in 1..n : s[i] = s[j] => i = j
  <2> SUFFICES ASSUME NEW i \in 1..n, NEW j \in 1..n, s[i] = s[j]  PROVE i = j
    OBVIOUS
  <2>1. given[q[i]] = given[q[j]] /\ q[i] \in 1..n /\ q[j] \in 1..n
    BY <1>12, <1>13
  <2>2. q[i] = q[j]
    BY <1>1, <2>1
  <2> QED BY <1>13, <2>2
<1>16. \A c : (\E i \in 1..n : s[i] = c) <=> (\E i \in 1..n : given[i] = c)
  <2>1. ASSUME NEW i \in 1..n  PROVE \E j \in 1..n : given[j] = s[i]
    BY <1>12, <1>13
  <2>2. ASSUME NEW j \in 1..n  PROVE \E i \in 1..n : s[i] = given[j]
    <3>1. PICK i \in 1..n : q[i] = j
      BY <1>13
    <3> QED BY <1>12, <3>1
  <2> QED BY <2>1, <2>2
<1> QED BY <1>11, <1>14, <1>15, <1>16 DEF s, Ascending

\* max_by is computed by the recursion its definition writes down.
LEMMA GreatestDef ==
  ASSUME NEW es, NEW n \in Nat, Len(es) = n
  PROVE  \E f \in [0..n -> 0..n] :
           /\ f[0] = 0
           /\ \A i \in 1..n :
                f[i] = IF es[i].eligible /\ (f[i - 1] = 0 \/ AtLeast(es[i], es[f[i - 1]]))
                       THEN i ELSE f[i - 1]
           /\ Greatest(es) = f[n]
<1> DEFINE Taken(i, b) == IF es[i].eligible /\ (b = 0 \/ AtLeast(es[i], es[b])) THEN i ELSE b
           Body(f) == [i \in 0..n |-> IF i = 0 THEN 0 ELSE Taken(i, f[i - 1])]
           best == CHOOSE f : f = Body(f)
           step == [i \in 1..n |-> [b \in 0..n |-> Taken(i, b)]]
           S == 0..n
<1>2. Greatest(es) = best[n]
  BY Zenon DEF Greatest
<1>4. \A i \in 1..n : \A b \in S : Taken(i, b) \in S
  OBVIOUS
<1> HIDE DEF Taken
<1>5. step \in [1..n -> [S -> S]] /\ 0 \in S
  BY <1>4
<1>6. \A i \in 1..n : \A b \in S : step[i][b] = Taken(i, b)
  OBVIOUS
<1> HIDE DEF step, S
<1>7. PICK g \in [0..n -> S] : g[0] = 0 /\ \A i \in 1..n : g[i] = step[i][g[i - 1]]
  BY <1>5, Recursion
<1>8. \A i \in 1..n : i - 1 \in 0..n /\ i \in 0..n /\ i # 0
  OBVIOUS
<1>9. \A i \in 1..n : g[i] = Taken(i, g[i - 1])
  BY <1>6, <1>7, <1>8
<1>10. g = Body(g)
  <2>1. \A i \in 0..n : Body(g)[i] = g[i]
    <3>1. Body(g)[0] = g[0]
      BY <1>7
    <3>2. ASSUME NEW i \in 1..n  PROVE Body(g)[i] = g[i]
      BY <1>8, <1>9
    <3>3. \A i \in 0..n : i = 0 \/ i \in 1..n
      OBVIOUS
    <3> QED BY <3>1, <3>2, <3>3
  <2>2. DOMAIN Body(g) = 0..n /\ Body(g) = [i \in 0..n |-> Body(g)[i]]
    OBVIOUS
  <2> HIDE DEF Body
  <2> QED BY <1>7, <2>1, <2>2
<1>11. best = Body(best)
  <2> HIDE DEF Body
  <2> QED BY <1>10, Zenon
<1> HIDE DEF best
<1>12. best[0] = 0
  BY <1>11
<1>13. ASSUME NEW i \in 1..n  PROVE best[i] = Taken(i, best[i - 1])
  <2>1. best[i] = Body(best)[i]
    BY <1>11, Zenon
  <2> QED BY <1>8, <2>1
<1> DEFINE T == {i \in Nat : i <= n => best[i] \in S}
<1>14. 0 \in T
  BY <1>5, <1>12
<1>15. ASSUME NEW i \in Nat, i \in T  PROVE i + 1 \in T
  <2> SUFFICES ASSUME i + 1 <= n  PROVE best[i + 1] \in S
    OBVIOUS
  <2>1. best[i] \in S /\ i + 1 \in 1..n /\ (i + 1) - 1 = i
    BY <1>15
  <2>2. best[i + 1] = Taken(i + 1, best[i])
    BY <1>13, <2>1
  <2> QED BY <1>4, <2>1, <2>2
<1>16. \A i \in Nat : i \in T
  <2> HIDE DEF T
  <2> QED BY <1>14, <1>15, SetInduction
<1>17. \A i \in 0..n : best[i] \in 0..n
  BY <1>16 DEF S
<1>18. best \in [0..n -> 0..n]
  <2>1. DOMAIN Body(best) = 0..n /\ Body(best) = [i \in 0..n |-> Body(best)[i]]
    OBVIOUS
  <2> HIDE DEF Body
  <2>2. best = [i \in 0..n |-> best[i]]
    BY <1>11, <2>1
  <2> QED BY <1>17, <2>2
<1> QED BY <1>2, <1>12, <1>13, <1>18 DEF Taken

\* By score, then by place: a total order.
Outranks(a, p, b, q) == a > b \/ (a = b /\ ~(q < p))

LEMMA OutranksIsTotal ==
  ASSUME NEW a \in Int, NEW b \in Int, NEW p \in Int, NEW q \in Int
  PROVE  Outranks(a, p, b, q) \/ Outranks(b, q, a, p)
BY DEF Outranks

LEMMA OutranksIsTransitive ==
  ASSUME NEW a \in Int, NEW b \in Int, NEW c \in Int, NEW p \in Int, NEW q \in Int, NEW r \in Int,
         Outranks(a, p, b, q), Outranks(b, q, c, r)
  PROVE  Outranks(a, p, c, r)
BY DEF Outranks

\* max_by takes an eligible one that is at least every eligible one, none only when
\* none is eligible.
LEMMA GreatestFacts ==
  ASSUME NEW n \in Nat, NEW es \in [1..n -> Evaluation]
  PROVE  /\ Greatest(es) \in 0..n
         /\ Greatest(es) = 0 => \A i \in 1..n : ~es[i].eligible
         /\ Greatest(es) # 0 => /\ es[Greatest(es)].eligible
                                /\ \A i \in 1..n : es[i].eligible => AtLeast(es[Greatest(es)], es[i])
<1>1. Len(es) = n
  OBVIOUS
<1>2. PICK f \in [0..n -> 0..n] :
           /\ f[0] = 0
           /\ \A i \in 1..n :
                f[i] = IF es[i].eligible /\ (f[i - 1] = 0 \/ AtLeast(es[i], es[f[i - 1]]))
                       THEN i ELSE f[i - 1]
           /\ Greatest(es) = f[n]
  BY <1>1, GreatestDef
<1>3. PICK at \in [Cores -> Nat] : \A c, d \in Cores : IdBefore(c, d) <=> at[c] < at[d]
  BY IdOrder
<1>4. \A i \in 1..n : es[i].core \in Cores /\ es[i].eligible \in BOOLEAN /\ es[i].score \in Int
  BY DEF Evaluation
<1> DEFINE Geq(i, j) == AtLeast(es[i], es[j])
           score == [i \in 1..n |-> es[i].score]
           place == [i \in 1..n |-> at[es[i].core]]
           E == {i \in 1..n : es[i].eligible}
           OK(i, b) == /\ b = 0 => \A j \in 1..i : j \notin E
                       /\ b # 0 => b \in 1..i /\ b \in E /\ \A j \in 1..i : j \in E => Geq(b, j)
           T == {i \in Nat : i <= n => OK(i, f[i])}
<1>5. \A i \in 1..n : place[i] \in Int /\ score[i] \in Int
  BY <1>3, <1>4
<1>6. \A i, j \in 1..n : Geq(i, j) <=> Outranks(score[i], place[i], score[j], place[j])
  BY <1>3, <1>4 DEF AtLeast, Outranks
<1>a. \A i \in 1..n : es[i].eligible <=> i \in E
  BY <1>4
<1> HIDE DEF Geq, place, score, E
<1>7. ASSUME NEW i \in 1..n, NEW j \in 1..n, NEW k \in 1..n, Geq(i, j), Geq(j, k)  PROVE Geq(i, k)
  BY <1>5, <1>6, <1>7, OutranksIsTransitive, Zenon
<1>8. ASSUME NEW i \in 1..n, NEW j \in 1..n  PROVE Geq(i, j) \/ Geq(j, i)
  BY <1>5, <1>6, OutranksIsTotal, Zenon
<1>9. \A i \in 1..n : f[i] = IF i \in E /\ (f[i - 1] = 0 \/ Geq(i, f[i - 1])) THEN i ELSE f[i - 1]
  BY <1>2, <1>a, Zenon DEF Geq
<1>10. 0 \in T
  BY <1>2
<1>11. ASSUME NEW i \in Nat, i \in T  PROVE i + 1 \in T
  <2>0. SUFFICES ASSUME i + 1 <= n  PROVE OK(i + 1, f[i + 1])
    <3> HIDE DEF OK
    <3> QED OBVIOUS
  <2>1. OK(i, f[i])
    <3>1. i <= n
      BY <2>0
    <3> HIDE DEF OK
    <3> QED BY <1>11, <3>1
  <2>2. PICK k : k = i + 1
    OBVIOUS
  <2>3. PICK b : b = f[i]
    OBVIOUS
  <2>4. k \in 1..n /\ k - 1 = i /\ b \in 0..n /\ \A j \in 1..k : j = k \/ j \in 1..i
    BY <1>2, <2>0, <2>2, <2>3
  <2>5. k \in 1..k /\ \A j \in 1..i : j \in 1..k /\ j \in 1..n
    BY <2>0, <2>2
  <2>6. f[k] = IF k \in E /\ (b = 0 \/ Geq(k, b)) THEN k ELSE b
    BY <1>9, <2>3, <2>4
  <2>7. /\ b = 0 => \A j \in 1..i : j \notin E
        /\ b # 0 => b \in 1..i /\ b \in E /\ \A j \in 1..i : j \in E => Geq(b, j)
    BY <2>1, <2>3
  <2>8. CASE k \notin E
    <3>1. f[k] = b
      BY <2>6, <2>8
    <3>2. OK(k, b)
      BY <2>4, <2>5, <2>7, <2>8
    <3> QED BY <2>2, <3>1, <3>2
  <2>9. CASE k \in E /\ (b = 0 \/ Geq(k, b))
    <3>1. f[k] = k /\ k # 0
      BY <2>4, <2>6, <2>9
    <3>2. ASSUME NEW j \in 1..i, j \in E  PROVE Geq(k, j)
      <4>1. b # 0 /\ b \in 1..n /\ Geq(b, j) /\ Geq(k, b) /\ j \in 1..n
        BY <2>5, <2>7, <2>9, <3>2
      <4> QED BY <1>7, <2>4, <4>1
    <3>3. Geq(k, k)
      BY <1>8, <2>4
    <3>4. OK(k, k)
      BY <2>4, <2>5, <2>9, <3>1, <3>2, <3>3
    <3> QED BY <2>2, <3>1, <3>4
  <2>10. CASE k \in E /\ b # 0 /\ ~Geq(k, b)
    <3>1. f[k] = b /\ b \in 1..n
      BY <2>5, <2>6, <2>7, <2>10
    <3>2. Geq(b, k)
      BY <1>8, <2>4, <2>10, <3>1
    <3>3. OK(k, b)
      BY <2>4, <2>5, <2>7, <2>10, <3>2
    <3> QED BY <2>2, <3>1, <3>3
  <2> QED BY <2>8, <2>9, <2>10
<1>12. n \in T
  <2> HIDE DEF T
  <2> QED BY <1>10, <1>11, SetInduction
<1>13. OK(n, f[n]) /\ f[n] \in 0..n
  BY <1>2, <1>12
<1> HIDE DEF T
<1> QED BY <1>2, <1>a, <1>13 DEF Geq

-----------------------------------------------------------------------------
(* The evaluation of a candidate.                                          *)

\* The types of what is asked and of what a core has.
LEMMA PlacementTypes ==
  /\ \A c \in Cores : LET p == CoreProfile[c] IN
       /\ p.weight \in Nat /\ p.maxConcurrency \in Nat /\ p.gpu \in Nat /\ p.priority \in Int
       /\ p.cpu # NoValue => p.cpu \in Nat
       /\ p.memory # NoValue => p.memory \in Nat
  /\ \A ask \in PlacementAsks :
       /\ ask.cpu # NoValue => ask.cpu \in Nat
       /\ ask.memory # NoValue => ask.memory \in Nat
       /\ ask.gpu \in Nat /\ IsFiniteSet(ask.affinity)
BY PlacementAssumption

\* A candidate is rejected when it fails a constraint, and by that constraint's name.
LEMMA RejectedWhenFailing ==
  ASSUME NEW ask, NEW c
  PROVE  LET reason == RejectionReason(ask, c)
             all == Constraints(ask, c) IN
         /\ reason \in PlacementRejection \cup {NoValue}
         /\ reason = NoValue <=> ~(\/ all[1][1] \/ all[2][1] \/ all[3][1] \/ all[4][1]
                                   \/ all[5][1] \/ all[6][1] \/ all[7][1] \/ all[8][1]
                                   \/ all[9][1] \/ all[10][1] \/ all[11][1])
<1>1. PICK all : all = Constraints(ask, c)
  OBVIOUS
<1>2. /\ all[1][2] \in PlacementRejection /\ all[2][2] \in PlacementRejection
      /\ all[3][2] \in PlacementRejection /\ all[4][2] \in PlacementRejection
      /\ all[5][2] \in PlacementRejection /\ all[6][2] \in PlacementRejection
      /\ all[7][2] \in PlacementRejection /\ all[8][2] \in PlacementRejection
      /\ all[9][2] \in PlacementRejection /\ all[10][2] \in PlacementRejection
      /\ all[11][2] \in PlacementRejection
  BY <1>1 DEF Constraints, PlacementRejection
<1>3. \A i \in 1..11 : i = 1 \/ i = 2 \/ i = 3 \/ i = 4 \/ i = 5 \/ i = 6 \/ i = 7 \/ i = 8 \/ i = 9
                        \/ i = 10 \/ i = 11
  OBVIOUS
<1>4. \A i \in 1..11 : all[i][2] \in PlacementRejection
  BY <1>2, <1>3, Zenon
<1> DEFINE failing == {i \in 1..11 : all[i][1]}
           first == CHOOSE i \in failing : \A j \in failing : i <= j
<1>5. RejectionReason(ask, c) = IF failing = {} THEN NoValue ELSE all[first][2]
  BY <1>1 DEF RejectionReason
<1>6. failing = {} <=> ~(\/ all[1][1] \/ all[2][1] \/ all[3][1] \/ all[4][1]
                         \/ all[5][1] \/ all[6][1] \/ all[7][1] \/ all[8][1]
                         \/ all[9][1] \/ all[10][1] \/ all[11][1])
  <2>1. failing = {} <=> \A i \in 1..11 : ~all[i][1]
    BY Zenon
  <2>2. 1 \in 1..11 /\ 2 \in 1..11 /\ 3 \in 1..11 /\ 4 \in 1..11 /\ 5 \in 1..11 /\ 6 \in 1..11
        /\ 7 \in 1..11 /\ 8 \in 1..11 /\ 9 \in 1..11 /\ 10 \in 1..11 /\ 11 \in 1..11
    OBVIOUS
  <2> QED BY <2>1, <2>2, <1>3, Zenon
<1>7. failing \subseteq Nat
  OBVIOUS
<1>8. failing # {} => first \in failing
  <2> HIDE DEF failing
  <2> QED BY <1>7, LeastElement
<1>9. failing # {} => all[first][2] \in PlacementRejection
  <2> HIDE DEF first
  <2> QED BY <1>4, <1>8
<1>10. NoValue \notin PlacementRejection
  BY PlacementAssumption
<1> HIDE DEF failing, first
<1> QED BY <1>1, <1>5, <1>6, <1>9, <1>10, Zenon

\* A candidate is eligible when it fits, and only eligible ones have a score to speak of.
LEMMA EligibleWhenItFits ==
  ASSUME facts \in [Cores -> Manifest], LeasesOK, NEW ask \in PlacementAsks, NEW c \in Cores
  PROVE  LET e == EvaluateCandidate(ask, c) IN
         e \in Evaluation /\ e.core = c /\ (e.eligible <=> Fits(ask, facts, c))
<1> DEFINE p == CoreProfile[c]
           f == facts[c]
           all == Constraints(ask, c)
           reason == RejectionReason(ask, c)
<1>1. f \in Manifest
  OBVIOUS
<1>2. /\ p.maxConcurrency \in Nat /\ f.load \in Nat /\ p.gpu \in Nat /\ ask.gpu \in Nat
      /\ p.weight \in Nat /\ p.priority \in Int
      /\ p.cpu # NoValue => p.cpu \in Nat
      /\ p.memory # NoValue => p.memory \in Nat
      /\ ask.cpu # NoValue => ask.cpu \in Nat
      /\ ask.memory # NoValue => ask.memory \in Nat
  BY <1>1, PlacementTypes DEF Manifest
<1>3. Score(ask, c) \in Int
  <2>1. Cardinality(ask.affinity) \in Nat
    BY PlacementTypes, FS_CardinalityType
  <2> QED BY <1>2, <2>1 DEF Score
<1>4. /\ all[1][1] <=> ask.capability \notin p.capabilities
      /\ all[2][1] <=> RuntimeModeOf[c] # ask.runtime
      /\ all[3][1] <=> f.health = "unhealthy"
      /\ all[4][1] <=> ~AllowsLocalQueries(f.mode) \/ (ask.write /\ ~AllowsWrites(f.mode))
      /\ all[5][1] <=> ~p.available
      /\ all[6][1] <=> ask.leader /\ ask.service \notin f.leads
      /\ all[7][1] <=> f.load >= p.maxConcurrency
      /\ all[8][1] <=> ~(ask.affinity \subseteq p.affinity)
      /\ all[9][1] <=> Lacks(ask.cpu, p.cpu)
      /\ all[10][1] <=> Lacks(ask.memory, p.memory)
      /\ all[11][1] <=> p.gpu < ask.gpu
  BY DEF Constraints
<1>5. all[4][1] <=> ~(f.mode \in (IF ask.write THEN {"read_write"} ELSE {"degraded", "read_write"}))
  <2>1. f.mode \in RuntimeModes
    BY <1>1 DEF Manifest
  <2> HIDE DEF all, f
  <2> QED BY <1>4, <2>1 DEF RuntimeModes, AllowsLocalQueries, AllowsWrites
<1>6. all[6][1] <=> ~(ask.leader => /\ ask.service \in f.leads
                                    /\ \A d \in Cores \ {c} : ask.service \notin facts[d].leads)
  <2>1. \A d \in Cores : facts[d].leads \subseteq Services
    BY DEF Manifest
  <2>2. ask.service \in f.leads => \A d \in Cores \ {c} : ask.service \notin facts[d].leads
    BY <2>1 DEF LeasesOK
  <2> HIDE DEF all
  <2> QED BY <1>4, <2>2
<1>7. all[7][1] <=> ~(f.load + 1 <= p.maxConcurrency)
  BY <1>2, <1>4
<1>8. all[9][1] <=> ~(ask.cpu = NoValue \/ (p.cpu # NoValue /\ p.cpu >= ask.cpu))
  BY <1>2, <1>4 DEF Lacks
<1>9. all[10][1] <=> ~(ask.memory = NoValue \/ (p.memory # NoValue /\ p.memory >= ask.memory))
  BY <1>2, <1>4 DEF Lacks
<1>10. all[11][1] <=> ~(ask.gpu <= p.gpu)
  BY <1>2, <1>4
<1>11. /\ reason \in PlacementRejection \cup {NoValue}
       /\ reason = NoValue <=> ~(\/ all[1][1] \/ all[2][1] \/ all[3][1] \/ all[4][1]
                                 \/ all[5][1] \/ all[6][1] \/ all[7][1] \/ all[8][1]
                                 \/ all[9][1] \/ all[10][1] \/ all[11][1])
  BY RejectedWhenFailing
<1>12. (reason = NoValue) <=> Fits(ask, facts, c)
  <2> HIDE DEF all, reason
  <2> QED BY <1>4, <1>5, <1>6, <1>7, <1>8, <1>9, <1>10, <1>11, Zenon DEF Fits
<1> HIDE DEF all, p, f
<1>13. EvaluateCandidate(ask, c) =
         [core |-> c, eligible |-> reason = NoValue, rejection |-> reason,
          score |-> IF reason = NoValue THEN Score(ask, c) ELSE 0]
  BY DEF EvaluateCandidate
<1> HIDE DEF reason
<1>14. PICK score : score = IF reason = NoValue THEN Score(ask, c) ELSE 0
  OBVIOUS
<1>15. PICK ok \in BOOLEAN : ok = (reason = NoValue)
  OBVIOUS
<1>16. score \in Int
  BY <1>3, <1>14
<1>17. EvaluateCandidate(ask, c) = [core |-> c, eligible |-> ok, rejection |-> reason, score |-> score]
  BY <1>13, <1>14, <1>15, Zenon
<1>18. [core |-> c, eligible |-> ok, rejection |-> reason, score |-> score] \in Evaluation
  BY <1>11, <1>16 DEF Evaluation
<1>19. ok <=> Fits(ask, facts, c)
  BY <1>12, <1>15, Zenon
<1>20. EvaluateCandidate(ask, c).core = c /\ EvaluateCandidate(ask, c).eligible = ok
  BY <1>17
<1> QED BY <1>17, <1>18, <1>19, <1>20, Zenon

-----------------------------------------------------------------------------
(* The decision, and the steps.                                            *)

\* What PlacedWhereItFits says of a decision.
Decided(d) ==
  LET Can(c) == Fits(d.ask, d.seen, c)
      told == Range(d.evaluations) IN
  /\ {e.core : e \in told} = d.given
  /\ \A e \in told : e.eligible <=> Can(e.core)
  /\ (d.selected = NoValue) <=> (\A e \in told : ~Can(e.core))
  /\ \A e, f \in told : e.core = d.selected /\ f.eligible /\ f # e =>
       e.score > f.score \/ (e.score = f.score /\ IdBefore(e.core, f.core))

\* What select returns is decided so, for any candidates in any order.
LEMMA SelectDecides ==
  ASSUME facts \in [Cores -> Manifest], LeasesOK,
         NEW ask \in PlacementAsks, NEW candidates \in CandidateLists
  PROVE  LET d == SelectCore(ask, candidates) IN
         d.selected \in Cores \cup {NoValue} /\ Decided(d)
<1>1. PICK n \in Nat : candidates \in Injection(1..n, Cores)
  <2>1. Len(CoreOrder) \in Nat
    BY PlacementAssumption
  <2>2. PICK n \in 0..Len(CoreOrder) : candidates \in Injection(1..n, Cores)
    BY DEF CandidateLists
  <2> QED BY <2>1, <2>2
<1> DEFINE sorted == SortedById(candidates)
           es == [i \in DOMAIN sorted |-> EvaluateCandidate(ask, sorted[i])]
           best == Greatest(es)
           selected == IF best = 0 THEN NoValue ELSE es[best].core
           d == SelectCore(ask, candidates)
<1>2. d = [selected |-> selected, evaluations |-> es, given |-> Range(candidates), ask |-> ask,
           seen |-> facts]
  BY DEF SelectCore
<1> HIDE DEF selected, d
<1>3. /\ sorted \in [1..n -> Cores] /\ \A i, j \in 1..n : sorted[i] = sorted[j] => i = j
      /\ \A c : (\E i \in 1..n : sorted[i] = c) <=> (\E i \in 1..n : candidates[i] = c)
  BY <1>1, SortFacts
<1> HIDE DEF sorted
<1>5. \A i \in 1..n : /\ EvaluateCandidate(ask, sorted[i]) \in Evaluation
                      /\ EvaluateCandidate(ask, sorted[i]).core = sorted[i]
                      /\ EvaluateCandidate(ask, sorted[i]).eligible <=> Fits(ask, facts, sorted[i])
  BY <1>3, EligibleWhenItFits
<1>6. /\ es \in [1..n -> Evaluation]
      /\ \A i \in 1..n : es[i].core = sorted[i] /\ (es[i].eligible <=> Fits(ask, facts, es[i].core))
  <2>1. es = [i \in 1..n |-> EvaluateCandidate(ask, sorted[i])]
    BY <1>3
  <2> HIDE DEF es
  <2>2. \A i \in 1..n : es[i] = EvaluateCandidate(ask, sorted[i])
    BY <2>1
  <2>3. \A i \in 1..n : es[i] \in Evaluation
    BY <1>5, <2>2, Zenon
  <2>4. es \in [1..n -> Evaluation]
    BY <2>1, <2>2, <2>3
  <2>5. ASSUME NEW i \in 1..n
        PROVE  es[i].core = sorted[i] /\ (es[i].eligible <=> Fits(ask, facts, es[i].core))
    <3>1. es[i].core = sorted[i]
      BY <1>5, <2>2
    <3>2. es[i].eligible <=> Fits(ask, facts, sorted[i])
      BY <1>5, <2>2, Zenon
    <3> QED BY <3>1, <3>2, Zenon
  <2> QED BY <2>4, <2>5
<1> HIDE DEF es
<1>8. /\ best \in 0..n
      /\ best = 0 => \A i \in 1..n : ~es[i].eligible
      /\ best # 0 => /\ es[best].eligible
                     /\ \A i \in 1..n : es[i].eligible => AtLeast(es[best], es[i])
  BY <1>6, GreatestFacts
<1> HIDE DEF best
<1>9. selected = IF best = 0 THEN NoValue ELSE es[best].core
  BY DEF selected
<1>11. /\ d.selected = selected /\ d.evaluations = es /\ d.given = Range(candidates)
       /\ d.ask = ask /\ d.seen = facts
  BY <1>2
<1>12. \A i \in 1..n : es[i].core \in Cores
  BY <1>3, <1>6
<1>13. NoValue \notin Cores
  BY PlacementAssumption
<1>14. selected \in Cores \cup {NoValue} /\ (selected = NoValue <=> best = 0)
  BY <1>8, <1>9, <1>12, <1>13
<1>15. \A e : e \in Range(es) <=> \E i \in 1..n : e = es[i]
  BY <1>6 DEF Range
<1>16. \A e \in Range(es) : e.eligible <=> Fits(ask, facts, e.core)
  BY <1>6, <1>15
<1>17. (selected = NoValue) <=> (\A e \in Range(es) : ~Fits(ask, facts, e.core))
  <2>1. CASE best = 0
    BY <1>6, <1>8, <1>14, <1>15, <2>1
  <2>2. CASE best # 0
    BY <1>6, <1>8, <1>14, <1>15, <2>2
  <2> QED BY <2>1, <2>2
<1>18. ASSUME NEW e \in Range(es), NEW f \in Range(es), e.core = selected, f.eligible, f # e
       PROVE  e.score > f.score \/ (e.score = f.score /\ IdBefore(e.core, f.core))
  <2>1. PICK i \in 1..n, j \in 1..n : e = es[i] /\ f = es[j]
    BY <1>15
  <2>2. best # 0 /\ best \in 1..n /\ es[i].core = es[best].core
    BY <1>8, <1>9, <1>12, <1>13, <1>18, <2>1
  <2>3. i = best
    BY <1>3, <1>6, <2>2
  <2>4. AtLeast(e, f)
    BY <1>8, <1>18, <2>1, <2>2, <2>3
  <2>5. e.core # f.core /\ e.core \in Cores /\ f.core \in Cores
    BY <1>3, <1>6, <1>12, <1>18, <2>1
  <2>6. IdBefore(e.core, f.core) \/ IdBefore(f.core, e.core)
    <3>1. PICK at \in [Cores -> Nat] :
            /\ \A c, k \in Cores : at[c] = at[k] => c = k
            /\ \A c, k \in Cores : IdBefore(c, k) <=> at[c] < at[k]
      BY IdOrder
    <3>2. at[e.core] \in Nat /\ at[f.core] \in Nat /\ at[e.core] # at[f.core]
      BY <2>5, <3>1
    <3>3. at[e.core] < at[f.core] \/ at[f.core] < at[e.core]
      BY <3>2
    <3> QED BY <2>5, <3>1, <3>3
  <2> QED BY <2>4, <2>6 DEF AtLeast
<1>19. {e.core : e \in Range(es)} = Range(candidates)
  <2>1. DOMAIN candidates = 1..n
    BY <1>1 DEF Injection
  <2>2. \A c : c \in Range(candidates) <=> \E i \in 1..n : candidates[i] = c
    BY <2>1 DEF Range
  <2>3. \A c : c \in {e.core : e \in Range(es)} <=> \E i \in 1..n : sorted[i] = c
    BY <1>6, <1>15
  <2> QED BY <1>3, <2>2, <2>3
<1>20. Decided(d)
  BY <1>11, <1>16, <1>17, <1>18, <1>19, Zenon DEF Decided
<1> QED BY <1>11, <1>14, <1>20, Zenon DEF d

LEMMA PlacementInitial == PlacementInit => PlacementInv
<1> SUFFICES ASSUME PlacementInit  PROVE PlacementInv
  OBVIOUS
<1>1. NewManifest \in Manifest /\ NewManifest.leads = {}
  BY DEF NewManifest, Manifest, HealthStatus, RuntimeModes
<1>2. facts \in [Cores -> Manifest] /\ \A c \in Cores : facts[c].leads = {}
  BY <1>1 DEF PlacementInit
<1>3. LeasesOK
  BY <1>2 DEF LeasesOK
<1>4. PlacedWhereItFits
  BY DEF PlacementInit, PlacedWhereItFits
<1> QED BY <1>2, <1>3, <1>4 DEF PlacementInv

\* What a core reports of itself moves no lease and leaves the decision.
LEMMA ChangesKeep ==
  ASSUME PlacementInv, NEW c \in Cores, NEW new \in Manifest, new.leads \subseteq facts[c].leads,
         Changes(c, new)
  PROVE  PlacementInv'
<1>1. facts' = [facts EXCEPT ![c] = new] /\ decision' = decision /\ facts \in [Cores -> Manifest]
  BY DEF Changes, PlacementInv
<1>2. facts' \in [Cores -> Manifest]
  BY <1>1
<1>3. \A d \in Cores : facts'[d].leads \subseteq facts[d].leads
  BY <1>1
<1>4. LeasesOK'
  BY <1>3 DEF PlacementInv, LeasesOK
<1>5. PlacedWhereItFits'
  BY <1>1 DEF PlacementInv, PlacedWhereItFits
<1> QED BY <1>2, <1>4, <1>5 DEF PlacementInv

LEMMA LeaseMovesKeeps ==
  ASSUME PlacementInv, NEW c \in Cores, LeaseMoves(c)
  PROVE  PlacementInv'
<1> DEFINE s == CoreProfile[c].service
<1>1. s \in Services /\ facts \in [Cores -> Manifest] /\ decision' = decision
  BY DEF LeaseMoves, PlacementInv, Services
<1>2. PlacedWhereItFits'
  BY <1>1 DEF PlacementInv, PlacedWhereItFits
<1>3. \A d \in Cores : facts[d].leads \subseteq Services
  BY <1>1 DEF Manifest
<1> HIDE DEF s
<1>4. \A d \in Cores : \A l \in SUBSET Services :
        [facts[d] EXCEPT !.leads = l] \in Manifest /\ [facts[d] EXCEPT !.leads = l].leads = l
  BY <1>1 DEF Manifest
<1>5. CASE facts' = [d \in Cores |-> [facts[d] EXCEPT !.leads = IF d = c THEN @ \cup {s} ELSE @ \ {s}]]
  <2>1. \A d \in Cores : /\ facts[d].leads \cup {s} \in SUBSET Services
                         /\ facts[d].leads \ {s} \in SUBSET Services
    BY <1>1, <1>3
  <2>2. facts' = [d \in Cores |-> [facts[d] EXCEPT !.leads =
                                     IF d = c THEN facts[d].leads \cup {s} ELSE facts[d].leads \ {s}]]
    BY <1>1, <1>5
  <2> DEFINE L(d) == IF d = c THEN facts[d].leads \cup {s} ELSE facts[d].leads \ {s}
  <2>3. \A d \in Cores : L(d) \in SUBSET Services
    BY <2>1
  <2>4. \A d \in Cores : facts'[d] = [facts[d] EXCEPT !.leads = L(d)]
    BY <2>2
  <2>5. DOMAIN facts' = Cores /\ facts' = [d \in Cores |-> facts'[d]]
    BY <2>2
  <2> HIDE DEF L
  <2>6. ASSUME NEW d \in Cores  PROVE facts'[d] \in Manifest /\ facts'[d].leads = L(d)
    <3>1. L(d) \in SUBSET Services /\ facts'[d] = [facts[d] EXCEPT !.leads = L(d)]
      BY <2>3, <2>4
    <3> QED BY <1>4, <3>1, Zenon
  <2>7. facts' \in [Cores -> Manifest]
    BY <2>5, <2>6
  <2>8. LeasesOK'
    BY <2>6 DEF PlacementInv, LeasesOK, L
  <2> QED BY <1>2, <2>7, <2>8 DEF PlacementInv
<1>6. CASE s \in facts[c].leads /\ facts' = [facts EXCEPT ![c].leads = @ \ {s}]
  <2>1. facts[c].leads \ {s} \in SUBSET Services
    BY <1>3
  <2>2. facts' = [facts EXCEPT ![c] = [facts[c] EXCEPT !.leads = facts[c].leads \ {s}]]
    BY <1>1, <1>6
  <2>3. PICK new : new = [facts[c] EXCEPT !.leads = facts[c].leads \ {s}]
    OBVIOUS
  <2>4. new \in Manifest /\ new.leads = facts[c].leads \ {s}
    BY <1>4, <2>1, <2>3, Zenon
  <2>5. Changes(c, new)
    BY <1>1, <2>2, <2>3 DEF Changes
  <2> QED BY <2>4, <2>5, ChangesKeep
<1> QED BY <1>5, <1>6 DEF LeaseMoves, s

LEMMA PlaceKeeps ==
  ASSUME PlacementInv, NEW ask \in PlacementAsks, NEW candidates \in CandidateLists,
         Place(ask, candidates)
  PROVE  PlacementInv'
<1>1. PICK d : d = SelectCore(ask, candidates)
  OBVIOUS
<1>2. facts \in [Cores -> Manifest] /\ LeasesOK
  BY DEF PlacementInv
<1>3. d.selected \in Cores \cup {NoValue} /\ Decided(d)
  BY <1>1, <1>2, SelectDecides
<1>4. /\ decision' = d
      /\ facts' = IF d.selected = NoValue THEN facts ELSE [facts EXCEPT ![d.selected].load = @ + 1]
  BY <1>1, Zenon DEF Place
<1>5. PlacedWhereItFits'
  BY <1>3, <1>4 DEF PlacedWhereItFits, Decided
<1>6. facts' \in [Cores -> Manifest] /\ \A c \in Cores : facts'[c].leads = facts[c].leads
  <2>1. CASE d.selected = NoValue
    BY <1>2, <1>4, <2>1
  <2>2. CASE d.selected # NoValue
    <3>1. PICK c \in Cores : c = d.selected
      BY <1>3, <2>2
    <3>2. facts' = [facts EXCEPT ![c] = [facts[c] EXCEPT !.load = facts[c].load + 1]]
      BY <1>2, <1>4, <2>2, <3>1
    <3>3. /\ [facts[c] EXCEPT !.load = facts[c].load + 1] \in Manifest
          /\ [facts[c] EXCEPT !.load = facts[c].load + 1].leads = facts[c].leads
      BY <1>2 DEF Manifest
    <3> QED BY <1>2, <3>2, <3>3
  <2> QED BY <2>1, <2>2
<1>7. LeasesOK'
  BY <1>2, <1>6 DEF LeasesOK
<1> QED BY <1>5, <1>6, <1>7 DEF PlacementInv

LEMMA PlacementStep == PlacementInv /\ [PlacementNext]_placementVars => PlacementInv'
<1> SUFFICES ASSUME PlacementInv, [PlacementNext]_placementVars  PROVE PlacementInv'
  OBVIOUS
<1>0. facts \in [Cores -> Manifest]
  BY DEF PlacementInv
<1>1. CASE UNCHANGED placementVars
  BY <1>1 DEF placementVars, PlacementInv, LeasesOK, PlacedWhereItFits
<1>2. CASE Acted
  BY <1>2 DEF Acted, PlacementInv, LeasesOK, PlacedWhereItFits
<1>3. ASSUME NEW ask \in PlacementAsks, NEW candidates \in CandidateLists, Place(ask, candidates)
      PROVE  PlacementInv'
  BY <1>3, PlaceKeeps
<1>4. ASSUME NEW c \in Cores, NEW k \in Capabilities, WithLoadedCapability(c, k)
      PROVE  PlacementInv'
  <2> DEFINE new == [facts[c] EXCEPT !.loaded = facts[c].loaded \cup {k}]
  <2>1. new \in Manifest /\ new.leads = facts[c].leads
    BY <1>0 DEF Manifest
  <2>2. Changes(c, new)
    BY <1>4 DEF WithLoadedCapability
  <2> HIDE DEF new
  <2> QED BY <2>1, <2>2, ChangesKeep
<1>5. ASSUME NEW c \in Cores, NEW h \in HealthStatus, NEW sensitive \in BOOLEAN,
             WithHealth(c, h, sensitive)
      PROVE  PlacementInv'
  <2> DEFINE new == [facts[c] EXCEPT !.health = h]
  <2>1. new \in Manifest /\ new.leads = facts[c].leads
    BY <1>0 DEF Manifest
  <2>2. Changes(c, new)
    BY <1>5 DEF WithHealth
  <2> HIDE DEF new
  <2> QED BY <2>1, <2>2, ChangesKeep
<1>6. ASSUME NEW c \in Cores, NEW m \in RuntimeModes, WithOperationalMode(c, m)
      PROVE  PlacementInv'
  <2> DEFINE new == [facts[c] EXCEPT !.mode = m]
  <2>1. new \in Manifest /\ new.leads = facts[c].leads
    BY <1>0 DEF Manifest
  <2>2. Changes(c, new)
    BY <1>6 DEF WithOperationalMode
  <2> HIDE DEF new
  <2> QED BY <2>1, <2>2, ChangesKeep
<1>7. ASSUME NEW c \in Cores, LeaseMoves(c)  PROVE PlacementInv'
  BY <1>7, LeaseMovesKeeps
<1>8. ASSUME NEW c \in Cores, LocalWork(c)  PROVE PlacementInv'
  <2>1. PICK n \in Nat : Changes(c, [facts[c] EXCEPT !.load = n])
    <3>1. facts[c].load \in Nat
      BY <1>0 DEF Manifest
    <3>2. CASE facts[c].load < MaxLoad /\ Changes(c, [facts[c] EXCEPT !.load = @ + 1])
      BY <3>1, <3>2
    <3>3. CASE facts[c].load > 0 /\ Changes(c, [facts[c] EXCEPT !.load = @ - 1])
      BY <3>1, <3>3
    <3> QED BY <1>8, <3>2, <3>3 DEF LocalWork
  <2> DEFINE new == [facts[c] EXCEPT !.load = n]
  <2>2. new \in Manifest /\ new.leads = facts[c].leads
    BY <1>0 DEF Manifest
  <2> HIDE DEF new
  <2> QED BY <2>1, <2>2, ChangesKeep DEF new
<1> QED
  BY <1>1, <1>2, <1>3, <1>4, <1>5, <1>6, <1>7, <1>8 DEF PlacementNext, Capabilities

\* Whatever the cores report, whoever holds the leases, whatever work there is, in
\* whatever order the candidates come (PlacementEngine::select).
THEOREM PlacementFits == PlacementSpec => []PlacedWhereItFits
<1>1. PlacementInit => PlacementInv
  BY PlacementInitial
<1>2. PlacementInv /\ [PlacementNext]_placementVars => PlacementInv'
  BY PlacementStep
<1>3. PlacementInv => PlacedWhereItFits
  BY DEF PlacementInv
<1> QED BY <1>1, <1>2, <1>3, PTL DEF PlacementSpec
=============================================================================
