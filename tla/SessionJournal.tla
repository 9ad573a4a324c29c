---------------------------- MODULE SessionJournal ----------------------------
(***************************************************************************)
(* The session journal, kernel/session_journal.c: a JSONL file and a text  *)
(* file under fixed names. Every event is appended to a buffer for each of *)
(* them, both files are rewritten from the buffers, read back and compared.*)
(*                                                                         *)
(* A record stands for the event of its number; the boot is not in the     *)
(* file and only tells the records of two boots apart. Capacities are      *)
(* counted in records. What is left of a record that does not fit is not a *)
(* record. The module has the state and the steps of the journal; the      *)
(* module Operation says when they are taken.                              *)
(***************************************************************************)
EXTENDS TextStore, FiniteSets

CONSTANTS
  JSONL_CAP, TEXT_CAP,   \* records that SESSION_JOURNAL_BUFFER_MAX bytes hold
  READ_CAP,              \* lines that a VITA_STORAGE_READ_MAX buffer holds
  MAX_BOOT,              \* bound: boots
  MAX_SEQ,               \* bound: events of a boot
  MAX_FAULTS             \* bound: storage calls that fail or are cut off

\* A record, its text cut to SESSION_JOURNAL_EVENT_TEXT_MAX, fits both buffers and
\* does not fill the one it is read back into.
ASSUME JournalBoundsAssumption ==
  /\ {JSONL_CAP, TEXT_CAP, READ_CAP, MAX_BOOT, MAX_SEQ, MAX_FAULTS} \subseteq Nat
  /\ 1 <= JSONL_CAP /\ JSONL_CAP <= TEXT_CAP
  /\ 2 <= READ_CAP /\ 1 <= MAX_SEQ

VARIABLES
  jsonl_file, text_file,     \* the medium
  pc,                        \* where the journal is, see Phase
  starting,                  \* the flush under way is the one of session_journal_init
  ok_jsonl,                  \* the local variable of session_journal_flush
  active, truncated, last_flush_ok, seq, jsonl, text,   \* g_journal
  calm,                      \* history: no storage call has failed in this flush
  boot,                      \* history: which boot this is
  faults                     \* history: storage calls that failed or were cut off

journal_buffers == <<truncated, seq, jsonl, text>>
journal_files   == <<jsonl_file, text_file>>
journal         == <<journal_files, pc, starting, ok_jsonl, active, last_flush_ok,
                     journal_buffers, calm, boot>>

\* "jsonl", "text" and "compare" are the calls that session_journal_flush has
\* yet to make; "off" is the journal before session_journal_init.
Phase  == {"off", "idle", "jsonl", "text", "compare"}
Record == [boot : 1..MAX_BOOT, seq : 1..MAX_SEQ]

ASSUME NoFileAssumption == NoFile \notin Seq(Record)

-----------------------------------------------------------------------------
JournalInit ==
  /\ jsonl_file = NoFile /\ text_file = NoFile
  /\ pc = "off" /\ starting = FALSE /\ ok_jsonl = FALSE
  /\ active = FALSE /\ truncated = FALSE /\ last_flush_ok = FALSE
  /\ seq = 0 /\ jsonl = <<>> /\ text = <<>>
  /\ calm = TRUE /\ boot = 0 /\ faults = 0

\* Every storage call may spend some of the faults.
Spend(n) == faults + n <= MAX_FAULTS /\ faults' = faults + n

\* Mutant of Into: a full buffer starts again from the newest record.
IntoRestarted(buffer, cap, record) ==
  IF Len(buffer) < cap THEN Append(buffer, record) ELSE <<record>>

\* append_to_buffer: a record that does not fit is dropped.
Into(buffer, cap, record) ==
  IF Len(buffer) < cap THEN Append(buffer, record) ELSE buffer

\* journal_add_event up to the first storage call, on the given buffers.
Added(n, old_jsonl, old_text, b) ==
  LET record == [boot |-> b, seq |-> n] IN
    /\ seq' = n
    /\ jsonl' = Into(old_jsonl, JSONL_CAP, record)
    /\ text' = Into(old_text, TEXT_CAP, record)

\* session_journal_init up to the first storage call: the journal is tried only
\* on storage that was verified.
StartJournal(verified) ==
  /\ pc = "off" /\ boot < MAX_BOOT
  /\ boot' = boot + 1
  /\ active' = verified /\ starting' = verified
  /\ truncated' = FALSE /\ last_flush_ok' = FALSE
  /\ IF verified THEN /\ pc' = "jsonl" /\ Added(1, <<>>, <<>>, boot')
                 ELSE /\ pc' = "idle" /\ seq' = 0 /\ jsonl' = <<>> /\ text' = <<>>
  /\ calm' = TRUE
  /\ UNCHANGED <<journal_files, ok_jsonl, faults>>

\* journal_add_event of an active journal, and the flush that ends it.
AddEvent ==
  /\ pc = "idle" /\ active /\ seq < MAX_SEQ
  /\ pc' = "jsonl" /\ calm' = TRUE
  /\ Added(seq + 1, jsonl, text, boot)
  /\ truncated' = (truncated \/ Len(jsonl) = JSONL_CAP \/ Len(text) = TEXT_CAP)
  /\ UNCHANGED <<journal_files, starting, ok_jsonl, active, last_flush_ok, boot, faults>>

\* session_journal_flush of an active journal.
Flush ==
  /\ pc = "idle" /\ active
  /\ pc' = "jsonl" /\ calm' = TRUE
  /\ UNCHANGED <<journal_files, starting, ok_jsonl, active, last_flush_ok, journal_buffers,
                 boot, faults>>

\* Mutant of JsonlOk: a failure is remembered beyond the flush that met it.
JsonlOkSticky(r) == r.ok /\ (starting \/ last_flush_ok)

JsonlOk(r) == r.ok

WriteJsonl ==
  /\ pc = "jsonl"
  /\ \E r \in WriteResults(jsonl_file, jsonl) :
       /\ Spend(Cost(r, WriteDone(jsonl)))
       /\ calm' = (calm /\ r \in WriteDone(jsonl))
       /\ jsonl_file' = r.file
       /\ ok_jsonl' = JsonlOk(r)
  /\ pc' = "text"
  /\ UNCHANGED <<text_file, starting, active, last_flush_ok, journal_buffers, boot>>

\* Mutant of Flushed: a flush that has failed is tried again.
FlushedRetry(ok) ==
  /\ pc' = IF ok THEN "idle" ELSE "jsonl"
  /\ last_flush_ok' = ok
  /\ active' = active
  /\ UNCHANGED <<starting, ok_jsonl, journal_buffers, boot>>

\* The flush returns; only the one of session_journal_init decides on active.
Flushed(ok) ==
  /\ pc' = "idle"
  /\ last_flush_ok' = ok
  /\ active' = (active /\ (starting => ok))
  /\ starting' = FALSE
  /\ UNCHANGED <<ok_jsonl, journal_buffers, boot>>

\* The text file is written even if the JSONL file could not be.
WriteText ==
  /\ pc = "text"
  /\ \E r \in WriteResults(text_file, text) :
       /\ Spend(Cost(r, WriteDone(text)))
       /\ calm' = (calm /\ r \in WriteDone(text))
       /\ text_file' = r.file
       /\ IF ok_jsonl /\ r.ok
          THEN /\ pc' = "compare"
               /\ UNCHANGED <<starting, ok_jsonl, active, last_flush_ok, journal_buffers, boot>>
          ELSE Flushed(FALSE)
  /\ UNCHANGED jsonl_file

\* Mutant of Same: the read-backs are made but not compared.
SameUnchecked(a, b) == a.ok /\ b.ok

\* Both texts come back as they were written.
Same(a, b) == a.ok /\ b.ok /\ a.text = jsonl /\ b.text = text

\* Both files are read back, as far as the buffers go, and compared in full: a
\* text longer than the read buffer never compares equal.
Compare ==
  /\ pc = "compare"
  /\ \E a \in ReadResults(jsonl_file, READ_CAP), b \in ReadResults(text_file, READ_CAP) :
       LET cost == Cost(a, ReadDone(jsonl_file, READ_CAP)) + Cost(b, ReadDone(text_file, READ_CAP))
       IN /\ Spend(cost)
          /\ calm' = (calm /\ cost = 0)
          /\ Flushed(Same(a, b))
  /\ UNCHANGED journal_files

\* The moves of a flush.
JournalStep == WriteJsonl \/ WriteText \/ Compare

\* The power is lost, or the program ends, between two calls ...
StopJournal ==
  /\ pc' = "off" /\ starting' = FALSE /\ ok_jsonl' = FALSE
  /\ active' = FALSE /\ truncated' = FALSE /\ last_flush_ok' = FALSE
  /\ seq' = 0 /\ jsonl' = <<>> /\ text' = <<>>
  /\ calm' = TRUE
  /\ UNCHANGED boot

\* ... or in the middle of a write.
CutJournal ==
  /\ pc \in {"jsonl", "text"} /\ Spend(1)
  /\ \/ pc = "jsonl" /\ jsonl_file' \in WriteCutOff(jsonl_file, jsonl) /\ UNCHANGED text_file
     \/ pc = "text" /\ text_file' \in WriteCutOff(text_file, text) /\ UNCHANGED jsonl_file
  /\ StopJournal
-----------------------------------------------------------------------------
(* What must hold *)

JournalTypeOK ==
  /\ \A f \in {jsonl_file, text_file} : f = NoFile \/ f \in Seq(Record)
  /\ pc \in Phase
  /\ {starting, ok_jsonl, active, truncated, last_flush_ok, calm} \subseteq BOOLEAN
  /\ seq \in 0..MAX_SEQ
  /\ jsonl \in Seq(Record) /\ Len(jsonl) <= JSONL_CAP
  /\ text \in Seq(Record) /\ Len(text) <= TEXT_CAP
  /\ boot \in 0..MAX_BOOT
  /\ faults \in 0..MAX_FAULTS

Numbered(file) == Len(file) = seq /\ \A n \in 1..seq : file[n].seq = n

\* While the last flush counts as good, both files hold what is in memory, and
\* every event of the session unless a buffer was too small, whatever the
\* storage did and reported.
FlushOkIsStored ==
  pc = "idle" /\ active /\ last_flush_ok =>
    /\ jsonl_file = jsonl /\ text_file = text
    /\ ~truncated => Numbered(jsonl_file) /\ Numbered(text_file)

Sound == faults = 0

\* What a boot has put into its JSONL file stays there while it runs, with or
\* without room for more.
NothingTakenBack ==
  [][Sound' /\ jsonl_file # NoFile /\ boot' = boot =>
       jsonl_file[1].boot < boot \/ IsPrefix(jsonl_file, jsonl_file')]_journal

\* A flush that meets no fault succeeds, whatever earlier ones have left behind
\* in the files, while both texts are short enough to be read back.
FlushHeals ==
  pc = "idle" /\ active /\ calm /\ Len(jsonl) <= READ_CAP /\ Len(text) <= READ_CAP
    => last_flush_ok
=============================================================================
