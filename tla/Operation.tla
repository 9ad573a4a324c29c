------------------------------ MODULE Operation ------------------------------
(***************************************************************************)
(* A boot as the operator sees it: kmain starts the parts one after the    *)
(* other and announces what the system may do, kernel/kmain.c; the command *)
(* loop of kernel/command_core.c then serves the journal and writes        *)
(* reports, each read back and compared. It composes the journal, of the   *)
(* module SessionJournal, with what kmain and the loop know of the other   *)
(* parts: whether the audit backend came up (module AuditChain), what      *)
(* became of the storage (module Storage) and whether the transcript is    *)
(* still kept (module SessionTranscript).                                  *)
(*                                                                         *)
(* A report is a sequence of lines, a line a record of what it claims; the *)
(* boot in it only tells two boots apart. Commands that change none of     *)
(* this, and the audit events, are left out. Files are those of one        *)
(* volume, which the module Storage chooses. "export session jsonl" is     *)
(* "export session" and then "export jsonl", whatever became of the first. *)
(***************************************************************************)
EXTENDS SessionJournal

CONSTANT MAX_REPORTS   \* bound: reports made in all boots

ASSUME ReportsAssumption == MAX_REPORTS \in Nat

VARIABLES
  stage,              \* how far kmain is, see Stage
  hosted,             \* which of the two builds this is
  audit_ready,        \* boot_status.audit_ready, and its copy in the context
  storage,            \* the status of the storage in resolve_audit_runtime_status
  usable,             \* g_storage: initialized and writable
  transcript_active,  \* session_transcript_is_active
  operational,        \* operational_ready of kmain
  mode,               \* console_state.mode of the command context
  job, next,          \* the files of the report being written, and the one due
  said,               \* what the last report command has told
  report_file,        \* the medium
  made,               \* history: reports made
  audited             \* history: the boots with an audit backend

flags == <<hosted, audit_ready, storage, usable, transcript_active, operational, mode>>
shop  == <<job, next, said, report_file, made>>
vars  == <<journal, faults, stage, flags, shop, audited>>

Stage == {"off", "audit", "storage", "journal", "transcript", "gate", "prompt", "report",
          "shutdown", "end"}
Kind  == {"selftest", "diagnostic", "vitair", "session", "jsonl", "audit export",
          "audit events", "index"}
Listed == {"self-test.txt", "self-test.jsonl", "diagnostic.txt", "diagnostic.jsonl",
           "vitair.jsonl", "session.txt", "session.jsonl", "audit.txt", "audit.jsonl",
           "events.txt", "events.jsonl"}
Path  == Listed \union {"index.txt", "index.jsonl"}

-----------------------------------------------------------------------------
Init ==
  /\ JournalInit
  /\ stage = "off" /\ hosted \in BOOLEAN
  /\ audit_ready = FALSE /\ storage = "fail" /\ usable = FALSE /\ transcript_active = FALSE
  /\ operational = FALSE /\ mode = "audit"
  /\ job = <<>> /\ next = 1 /\ said = "nothing"
  /\ report_file = [p \in Path |-> NoFile]
  /\ made = 0 /\ audited = {}

(* kmain, in its order *)

PowerOn ==
  /\ stage = "off" /\ boot < MAX_BOOT
  /\ stage' = "audit"
  /\ UNCHANGED <<journal, faults, flags, shop, audited>>

\* audit_init_persistent_backend: without SQLite, as under UEFI, always a failure.
InitAudit ==
  /\ stage = "audit" /\ stage' = "storage"
  /\ audit_ready' \in {hosted, FALSE}
  /\ UNCHANGED <<journal, faults, hosted, storage, usable, transcript_active, operational,
                 mode, shop, audited>>

\* storage_bootstrap_persistent_tree, whose steps are in the module Storage: the
\* storage is verified now, or has been tried in vain.
Bootstrap(initialized) == IF initialized THEN {"ok", "warn"} ELSE {"warn"}

\* storage_init, which only UEFI can fail, and then the first bootstrap.
InitStorage ==
  /\ stage = "storage" /\ stage' = "journal"
  /\ usable' \in {TRUE, hosted}
  /\ storage' \in IF usable' THEN Bootstrap(TRUE) ELSE {"fail"}
  /\ UNCHANGED <<journal, faults, hosted, audit_ready, transcript_active, operational, mode,
                 shop, audited>>

InitJournal ==
  /\ stage = "journal" /\ stage' = "transcript"
  /\ StartJournal(storage = "ok")
  /\ audited' = IF audit_ready THEN audited \union {boot'} ELSE audited
  /\ UNCHANGED <<flags, shop>>

\* mark_transcript_error_once: the end of the transcript is told to the journal.
TellJournal ==
  IF active THEN AddEvent ELSE pc = "idle" /\ UNCHANGED <<journal, faults>>

\* session_transcript_init
InitTranscript ==
  /\ stage = "transcript" /\ pc = "idle" /\ stage' = "gate"
  /\ \/ storage = "ok" /\ transcript_active' = TRUE /\ UNCHANGED <<journal, faults>>
     \/ transcript_active' = FALSE /\ TellJournal
  /\ UNCHANGED <<hosted, audit_ready, storage, usable, operational, mode, shop, audited>>

\* Any line printed is an event of the transcript, whose flush may fail.
TranscriptFails ==
  /\ stage \in {"gate", "prompt", "shutdown"} /\ pc = "idle" /\ transcript_active
  /\ transcript_active' = FALSE
  /\ TellJournal
  /\ UNCHANGED <<stage, hosted, audit_ready, storage, usable, operational, mode, shop, audited>>

\* The mode that command_context_init goes by, which is not the one announced.
ContextMode == IF audit_ready THEN "guided" ELSE "audit"

\* What kmain announces before it enters the command loop.
Gate ==
  /\ stage = "gate" /\ pc = "idle" /\ stage' = "prompt"
  /\ operational' = (audit_ready /\ storage = "ok" /\ active)
  /\ mode' = ContextMode
  /\ UNCHANGED <<journal, faults, hosted, audit_ready, storage, usable,
                 transcript_active, shop, audited>>

-----------------------------------------------------------------------------
(* What a report says *)

\* Mutant of Claims: the mode follows the journal.
ClaimsOfJournal ==
  [storage |-> IF storage = "ok" THEN 1 ELSE -1,
   journal |-> IF active THEN 1 ELSE 0, transcript |-> IF active THEN 1 ELSE 0,
   sqlite |-> IF audit_ready THEN 1 ELSE -1,
   full |-> IF active THEN 1 ELSE -1,
   boot |-> boot]

\* resolve_audit_runtime_status and vita_ir_claims_from_audit_runtime: the
\* transcript is taken to be there when the journal is.
Claims ==
  [storage |-> IF storage = "ok" THEN 1 ELSE -1,
   journal |-> IF active THEN 1 ELSE 0, transcript |-> IF active THEN 1 ELSE 0,
   sqlite |-> IF audit_ready THEN 1 ELSE -1,
   full |-> IF audit_ready THEN 1 ELSE -1,
   boot |-> boot]

\* handle_selftest picks one of three texts.
Verdict ==
  IF audit_ready \/ storage = "ok"
  THEN [storage |-> 1, journal |-> 1, full |-> audit_ready, boot |-> boot]
  ELSE [storage |-> 0, journal |-> 0, full |-> FALSE, boot |-> boot]

\* handle_diagnostic_bundle: without UEFI, "verified" goes with the audit backend.
Bundle == [verified |-> audit_ready \/ (~hosted /\ storage = "ok"), boot |-> boot]

Summary == [verified |-> storage = "ok", restricted |-> ~audit_ready, boot |-> boot]

File(path, body) == [path |-> path, body |-> body]

\* The lines of "export jsonl" that say what the summary says, and the others: it
\* may be longer than the read buffer of the other reports.
SummaryJsonl == [n \in 1..(READ_CAP + 1) |-> Summary]

\* "export vitair" carries the meaning and the effect of each claim too, and is
\* longer than its read buffer.
ClaimsJsonl == [n \in 1..(READ_CAP + 1) |-> Claims]

\* The files of each report but the index.
Files(kind) ==
  CASE kind = "selftest"      -> << File("self-test.txt", <<Verdict, Claims>>),
                                    File("self-test.jsonl", <<[pass |-> audit_ready], Claims>>) >>
    [] kind = "diagnostic"    -> << File("diagnostic.txt", <<Bundle, Claims>>),
                                    File("diagnostic.jsonl", <<Bundle, Claims>>) >>
    [] kind = "vitair"        -> << File("vitair.jsonl", ClaimsJsonl) >>
    [] kind = "session"       -> << File("session.txt", <<Summary>>) >>
    [] kind = "jsonl"         -> << File("session.jsonl", SummaryJsonl) >>
    [] kind = "audit export"  -> << File("audit.txt", <<[ok |-> audit_ready]>>),
                                    File("audit.jsonl", <<[ok |-> audit_ready]>>) >>
    [] kind = "audit events"  -> << File("events.txt", <<[status |-> "minimal"]>>),
                                    File("events.jsonl", <<[status |-> "exported"]>>) >>

Index(found) == << File("index.txt", <<[listed |-> found]>>),
                   File("index.jsonl", <<[status |-> "written"]>>) >>

-----------------------------------------------------------------------------
(* The command loop *)

Prompt == stage = "prompt" /\ pc = "idle"

\* "journal note": told to be recorded, whether or not the journal is active.
Note == Prompt /\ AddEvent /\ UNCHANGED <<stage, flags, shop, audited>>

\* "journal flush" and "journal recover"
FlushCommand == Prompt /\ Flush /\ UNCHANGED <<stage, flags, shop, audited>>

\* "emergency": nothing sets the mode back.
Emergency ==
  /\ Prompt
  /\ mode' = "emergency"
  /\ UNCHANGED <<journal, faults, stage, hosted, audit_ready, storage, usable,
                 transcript_active, operational, shop, audited>>

\* "storage bootstrap" and "storage test"
StorageCommand ==
  /\ Prompt
  /\ storage' \in Bootstrap(usable)
  /\ UNCHANGED <<journal, faults, stage, hosted, audit_ready, usable, transcript_active,
                 operational, mode, shop, audited>>

StartReport(files) ==
  /\ Prompt /\ made < MAX_REPORTS
  /\ stage' = "report"
  /\ job' = files /\ next' = 1 /\ said' = "nothing" /\ made' = made + 1
  /\ UNCHANGED <<journal, flags, report_file, audited>>

Report(kind) == StartReport(Files(kind)) /\ UNCHANGED faults

Readable == {p \in Listed : report_file[p] # NoFile}

\* handle_export_index: a report is listed when a read of its file succeeds.
ReportIndex ==
  \E missed \in SUBSET Readable :
    /\ StartReport(Index(Readable \ missed))
    /\ Spend(Cardinality(missed))

\* Mutant of MayGoOn: the command is over with its first file.
MayGoOnOnce(ok) == FALSE

\* Mutant of MayGoOn: one file too many is written.
MayGoOnPast(ok) == ok /\ next <= Len(job)

MayGoOn(ok) == ok /\ next < Len(job)

\* The room for reading a file back.
ReadBack(path) == IF path = "session.jsonl" THEN 2 * READ_CAP ELSE READ_CAP

\* Storage that was never initialized turns every write away.
Writes(old, new) == IF usable THEN WriteResults(old, new) ELSE {[ok |-> FALSE, file |-> old]}

\* write_report_verified of the file that is due. The write, the read and the
\* comparison are one step: what the two calls may leave behind is the same.
WriteReport ==
  LET path == job[next].path
      body == job[next].body
      old  == report_file[path]
  IN
    /\ stage = "report"
    /\ \E w \in Writes(old, body) : \E r \in ReadResults(w.file, ReadBack(path)) :
         LET done == ~usable \/ w \in WriteDone(body)
             ok   == w.ok /\ r.ok /\ r.text = body
         IN /\ Spend((IF done THEN 0 ELSE 1) + Cost(r, ReadDone(w.file, ReadBack(path))))
            /\ report_file' = [report_file EXCEPT ![path] = w.file]
            /\ IF MayGoOn(ok)
               THEN next' = next + 1 /\ UNCHANGED <<stage, said>>
               ELSE /\ stage' = "prompt"
                    /\ said' = IF ok THEN "written" ELSE "failed"
                    /\ UNCHANGED next
    /\ UNCHANGED <<journal, flags, job, made, audited>>

\* "shutdown" flushes the journal; a console that is closed does not.
Shutdown ==
  /\ Prompt /\ stage' = "shutdown"
  /\ IF active THEN Flush ELSE UNCHANGED <<journal, faults>>
  /\ UNCHANGED <<flags, shop, audited>>

InputClosed ==
  /\ Prompt /\ stage' = "shutdown"
  /\ UNCHANGED <<journal, faults, flags, shop, audited>>

End ==
  /\ stage = "shutdown" /\ pc = "idle" /\ stage' = "end"
  /\ UNCHANGED <<journal, faults, flags, shop, audited>>

-----------------------------------------------------------------------------
ForgetFlags ==
  /\ stage' = "off"
  /\ audit_ready' = FALSE /\ storage' = "fail" /\ usable' = FALSE /\ transcript_active' = FALSE
  /\ operational' = FALSE /\ mode' = "audit"
  /\ job' = <<>> /\ next' = 1 /\ said' = "nothing"
  /\ UNCHANGED <<hosted, made, audited>>

\* The power is lost between two calls ...
Stop ==
  /\ stage # "off" /\ ForgetFlags
  /\ StopJournal
  /\ UNCHANGED <<journal_files, faults, report_file>>

\* ... or in the middle of a write.
StopInWrite ==
  /\ ForgetFlags
  /\ \/ CutJournal /\ UNCHANGED report_file
     \/ /\ stage = "report" /\ usable /\ Spend(1)
        /\ \E f \in WriteCutOff(report_file[job[next].path], job[next].body) :
             report_file' = [report_file EXCEPT ![job[next].path] = f]
        /\ StopJournal
        /\ UNCHANGED journal_files

Boot == InitAudit \/ InitStorage \/ InitJournal \/ InitTranscript \/ Gate

KeepJournal == JournalStep /\ UNCHANGED <<stage, flags, shop, audited>>

\* What the program does by itself.
Step == Boot \/ KeepJournal \/ WriteReport \/ End

Command ==
  \/ Note \/ FlushCommand \/ Emergency \/ StorageCommand
  \/ \E kind \in Kind \ {"index"} : Report(kind)
  \/ ReportIndex
  \/ Shutdown \/ InputClosed

Next == PowerOn \/ Step \/ Command \/ TranscriptFails \/ Stop \/ StopInWrite

\* One thread runs as long as the machine does, and storage calls return.
Spec == Init /\ [][Next]_vars /\ WF_vars(Step)
-----------------------------------------------------------------------------
(* What must hold *)

TypeOK ==
  /\ JournalTypeOK
  /\ stage \in Stage
  /\ {hosted, audit_ready, usable, transcript_active, operational} \subseteq BOOLEAN
  /\ storage \in {"ok", "warn", "fail"}
  /\ mode \in {"audit", "guided", "emergency"}
  /\ \A n \in DOMAIN job : job[n].path \in Path
  /\ next \in 1..2 /\ (stage = "report" => next \in DOMAIN job)
  /\ said \in {"nothing", "written", "failed"}
  /\ DOMAIN report_file = Path
  /\ made \in 0..MAX_REPORTS /\ audited \subseteq 1..boot

\* docs/storage/uefi-usb-write-verification.md:18: a report told to be written is
\* on the medium, every file of it, whatever the storage did and reported.
WrittenIsStored ==
  said = "written" => \A n \in DOMAIN job : report_file[job[n].path] = job[n].body

ClaimLines == {<<"self-test.txt", 2>>, <<"self-test.jsonl", 2>>, <<"diagnostic.txt", 2>>,
               <<"diagnostic.jsonl", 2>>, <<"vitair.jsonl", 1>>}

\* docs/audit/audit-readiness-gate.md:7: full operation is not claimed of a boot
\* without an audit backend, on the screen or in any report that survives.
FullNeedsAudit ==
  /\ operational \/ mode = "guided" => boot \in audited
  /\ Size(report_file["self-test.txt"]) >= 1 /\ report_file["self-test.txt"][1].full
       => report_file["self-test.txt"][1].boot \in audited
  /\ \A c \in ClaimLines :
       LET file == report_file[c[1]] IN
         Size(file) >= c[2] /\ file[c[2]].full = 1 => file[c[2]].boot \in audited

\* Whatever fails, a boot reaches the prompt and a command returns to it, unless
\* the power goes or the loop ends.
PromptReturns ==
  stage # "off" ~> stage \in {"off", "end"} \/ Prompt

\* docs/history/applied-patches.md:196: storage is not reported as verified, nor
\* the journal as active, without a verified write: the text of a self-test
\* agrees with the claims below it.
SelftestAgrees ==
  LET file == report_file["self-test.txt"] IN
    Size(file) = 2 => /\ file[1].storage = 1 => file[2].storage = 1
                      /\ file[1].journal = 1 => file[2].journal = 1
=============================================================================
