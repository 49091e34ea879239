------------------------- MODULE OperationalJournal -------------------------
(***************************************************************************)
(* The hash-chained operational journal (crates/appcore-core,              *)
(* operational_journal.rs) with the audit log and the event bus that write *)
(* through it.                                                             *)
(*                                                                         *)
(* A line of the file is a record and the hash it follows; the hash of a   *)
(* line stands for everything chained up to it, so it is the sequence of   *)
(* those records (its length is the line's sequence number). A record is   *)
(* <<kind, number>>; its size decides when the byte limit is exceeded.     *)
(***************************************************************************)
EXTENDS Naturals, Sequences, SequencesExt, FiniteSetsExt

CONSTANTS JournalRecords,     \* records written, each <<"audit" or "event", size>>
          MaxRecords, MaxBytes, MaxInMemory,
          GoesOn,             \* the process goes on after a failed append
          MaxJournalFaults, MaxAppends

\* open takes a limit of zero records as one.
JournalAssumption == MaxRecords \in Nat \ {0}

VARIABLES lines,        \* complete lines: [previous, record]
          tail,         \* bytes of an incomplete line follow
          records, lastHash,      \* JournalState in memory
          audits, events,         \* AuditLog.entries and EventBus.events
          journalError, opened,
          appended,               \* history: every record whose line was completed
          journalFaults

journalVars == <<lines, tail, records, lastHash, audits, events, journalError, opened, appended, journalFaults>>

\* MAX_AUDIT_RECORDS and the event bus's 10000: the newest that fit.
Newest(s, n) == SubSeq(s, Max({1, Len(s) - n + 1}), Len(s))
RecordKind(r) == r[1]
OfKind(s, kind) == SelectSeq(s, LAMBDA r : RecordKind(r) = kind)
Bytes(s) == FoldSeq(LAMBDA r, sum : r[2] + sum, 0, s)

----------------------------------------------------------------------------
\* encode_records: one chain from the first record kept.
Encoded(s) == [i \in 1..Len(s) |-> [previous |-> SubSeq(s, 1, i - 1), record |-> s[i]]]
RecordsOf(f) == [i \in 1..Len(f) |-> f[i].record]

\* load_state and validate_envelope: every line follows the one before it.
Loadable(f) == \A i \in 1..Len(f) : f[i].previous = SubSeq(RecordsOf(f), 1, i - 1)

\* compact_locked: first the record limit, then, one record at a time, the byte limit.
Fits(s) == Len(s) <= MaxRecords /\ Bytes(s) <= MaxBytes
CompactedFrom(s) ==
  LET keep == {n \in 1..Min({Len(s), MaxRecords}) : n = 1 \/ Bytes(Newest(s, n)) <= MaxBytes}
  IN  Newest(s, Max(keep \cup {0}))

\* What a rewrite leaves behind: the compacted records, chained afresh.
Rewrite(s) ==
  /\ lines' = Encoded(CompactedFrom(s)) /\ tail' = FALSE
  /\ records' = CompactedFrom(s) /\ lastHash' = CompactedFrom(s)

----------------------------------------------------------------------------
JournalInit ==
  /\ lines = <<>> /\ tail = FALSE
  /\ records = <<>> /\ lastHash = <<>>
  /\ audits = <<>> /\ events = <<>> /\ journalError = FALSE
  /\ opened = FALSE /\ appended = <<>> /\ journalFaults = 0

\* open and attach_journal: an incomplete last line is cut off, limits are enforced by a rewrite.
Reopen ==
  /\ ~opened /\ Loadable(lines)
  /\ LET loaded == RecordsOf(lines) IN
       /\ IF tail \/ ~Fits(loaded)
          THEN Rewrite(loaded)
          ELSE records' = loaded /\ lastHash' = loaded /\ UNCHANGED <<lines, tail>>
       /\ audits' = Newest(OfKind(records', "audit"), MaxInMemory)
       /\ events' = Newest(OfKind(records', "event"), MaxInMemory)
  /\ opened' = TRUE /\ journalError' = FALSE
  /\ UNCHANGED <<appended, journalFaults>>

\* AuditLog.push_entry and EventBus.emit keep the record in memory whatever the journal answered.
Remember(r) ==
  /\ audits' = IF RecordKind(r) = "audit" THEN Newest(Append(audits, r), MaxInMemory) ELSE audits
  /\ events' = IF RecordKind(r) = "event" THEN Newest(Append(events, r), MaxInMemory) ELSE events

\* The line that append_envelope adds. After an incomplete line it does not parse.
Line(r) == [previous |-> IF tail THEN <<"unreadable">> ELSE lastHash, record |-> r]

\* Slip: the chain is not carried on from the appended line.
AppendUnchained(r) ==
  /\ opened
  /\ LET held == Append(records, r) IN
       IF Fits(held)
       THEN lines' = Append(lines, Line(r)) /\ tail' = FALSE /\ records' = held /\ UNCHANGED lastHash
       ELSE Rewrite(held)
  /\ appended' = Append(appended, r)
  /\ Remember(r)
  /\ UNCHANGED <<journalError, opened, journalFaults>>

\* append: the line, synced, then the state, then a compaction when a limit is exceeded.
AppendRecord(r) ==
  /\ opened
  /\ LET held == Append(records, r) IN
       IF Fits(held)
       THEN /\ lines' = Append(lines, Line(r)) /\ tail' = FALSE
            /\ records' = held /\ lastHash' = Append(lastHash, r)
       ELSE Rewrite(held)
  /\ appended' = Append(appended, r)
  /\ Remember(r)
  /\ UNCHANGED <<journalError, opened, journalFaults>>

\* The append fails before, in the middle of or after writing the line; the state is left as it
\* was. journal_error is set; the log and the bus go on.
AppendFails(r, written, torn) ==
  /\ opened /\ journalFaults < MaxJournalFaults /\ ~(written /\ torn)
  /\ journalFaults' = journalFaults + 1
  /\ lines' = IF written THEN Append(lines, Line(r)) ELSE lines
  /\ tail' = (torn \/ (tail /\ ~written))
  /\ journalError' = TRUE
  /\ Remember(r)
  /\ opened' = GoesOn
  /\ appended' = IF written THEN Append(appended, r) ELSE appended
  /\ UNCHANGED <<records, lastHash>>

\* The line is written and the compaction fails, before or after the new file replaced the old one.
CompactionFails(r, replaced) ==
  /\ opened /\ journalFaults < MaxJournalFaults
  /\ LET held == Append(records, r) IN
       /\ ~Fits(held)
       /\ lines' = IF replaced THEN Encoded(CompactedFrom(held))
                   ELSE Append(lines, Line(r))
       /\ records' = Newest(held, MaxRecords) /\ lastHash' = Append(lastHash, r)
  /\ journalFaults' = journalFaults + 1
  /\ journalError' = TRUE
  /\ Remember(r)
  /\ opened' = GoesOn /\ tail' = FALSE
  /\ appended' = Append(appended, r)

\* The process dies, in the middle of an append or between two.
JournalCrash(r, torn) ==
  /\ opened /\ journalFaults < MaxJournalFaults
  /\ journalFaults' = journalFaults + 1
  /\ \/ tail' = (tail \/ torn) /\ UNCHANGED <<lines, appended>>
     \/ /\ ~torn /\ ~tail
        /\ lines' = Append(lines, Line(r))
        /\ appended' = Append(appended, r) /\ UNCHANGED tail
  /\ opened' = FALSE
  /\ records' = <<>> /\ lastHash' = <<>> /\ audits' = <<>> /\ events' = <<>>
  /\ UNCHANGED journalError

JournalNext ==
  \/ Reopen
  \/ \E r \in JournalRecords :
     /\ Len(appended) < MaxAppends
     /\ \/ AppendRecord(r)
        \/ \E torn \in BOOLEAN, written \in BOOLEAN : AppendFails(r, written, torn)
        \/ \E replaced \in BOOLEAN : CompactionFails(r, replaced)
        \/ \E torn \in BOOLEAN : JournalCrash(r, torn)

JournalSpec == JournalInit /\ [][JournalNext]_journalVars

----------------------------------------------------------------------------
\* The journal file can always be opened again and holds the newest records, in order and at
\* least one: an append syncs its line before it answers, a compaction replaces the file as a
\* whole and load_state cuts an incomplete last line off.
JournalReopens ==
  /\ Loadable(lines)
  /\ IsSuffix(RecordsOf(lines), appended)
  /\ appended # <<>> => lines # <<>>

=============================================================================
