# A verification project for VitaOS

TLA+ models of the parts of VitaOS that keep state on a medium, exchange it with
the outside or wait for the operator, TLC runs that check them on small instances,
and TLAPS proofs that all but one of the invariants hold of every instance. All
definitions follow
the C source in `src/kernel` and the two boot entries in `src/arch/x86_64/boot`;
`PROJECT.json` maps each one to its lines. Paths without a directory below are in
`src/kernel`.

## 1. The system

VitaOS is a single-threaded program that boots on UEFI (or runs as a hosted
process), starts its parts in a fixed order and then serves one operator at a
line-oriented console. It has no scheduler and no threads. What makes it hard
is what surrounds it: storage that fails loudly or silently, power that goes
away between two calls or in the middle of one, peers that send anything in any
order, several processes on one database, flags computed early and trusted late, and
three readers that share one keyboard.

### Components

| Component | State it keeps | Operations | What makes it correct |
|---|---|---|---|
| audit backend, `audit_core.c` | early event buffer; boot id, sequence number, last hash; SQLite tables | init, emit, flush, persist proposals, responses, peers | every session one unbroken hash chain in order of emission, whatever inserts fail and whoever is cut off |
| node link, `node_core.c` | one peer, one pending link proposal; `node_peer` | greet, receive loop, link proposal and its answer | what is offered is stored, closed once by the operator or the peer, audited before it is announced; the boot goes on |
| proposals, `proposal.c` | table of proposals and their status | generate, approve, reject | status and recorded answers agree |
| note editor, `editor.c` | buffer, path, four flags | open, type, clear, replace, confirm, save in four ways, quit | no text lost without consent; "saved" means saved |
| storage, `storage.c` | selected volume, verified flag, last error | select, bootstrap, read, write, list, test, probe, repair, check | verified storage carries the tree and the marker; the first writable volume is taken; every command ends |
| session transcript, `session_transcript.c` | text and JSONL buffers, number, part, flags; the files | init, event, rotate, truncate, flush and verify, shutdown | a session is not written over; both files agree; a crash is noticed |
| session journal, `session_journal.c` | two buffers, flags; two files | init, record, flush, recover | active means verified |
| boot sequence, `kmain.c` | boot status, `operational_ready` | starts the parts in order | full operation only with audit, storage and journal |
| command loop, `command_core.c` | cached status | dispatch, audit verify, selftest, reports | what is claimed is so |
| power, `power.c` | none | flush, then restart or shutdown | nothing is lost on an orderly way out |
| console, `console.c`, `console_autocomplete.c` | pager, recursion guards | write, clear, read, page, complete | a read comes after a page of calls; no line is swallowed |
| line readers, `uefi_entry.c`, `host_entry.c` | history, the line and its row | read a line, redraw, recall | the row shows what Enter runs as long as it does not wrap; the history keeps the last lines; a closed input ends the session |
| reports, `session_export.c`, `session_jsonl_export.c` | none | write, read back, compare | "written" means verified |
| AI gateway, `ai_gateway.c` | endpoint | connect, disconnect, ask | the endpoint is the one of the last valid connect |
| net connect, `net_connect.c` | connection state | connect, send | state follows the socket |
| VitaIR-Tri, `vitair.c`, `vitair_audit.c` | none | status to claims | no claim beyond the status |
| discovery, splash, text renderer, stubs | handoff, hardware snapshot | read hardware, draw | input and output |

### How they interact

- `kmain` starts audit (early buffer), console, hardware discovery, the audit
  backend, storage, journal, transcript, proposals and node link, in this order,
  and caches what it learned in `operational_ready`.
- Everybody calls `audit_emit_boot_event`. Proposals and the node link write
  their rows through the audit backend and mostly ignore whether that worked.
- Editor, journal, transcript and reports call `storage_write_text` and
  `storage_read_text`. These act on the volume that is selected at that moment
  and set one global `last_error`.
- `console_write_line` calls the session transcript, which calls storage: every
  line printed is a write to the medium, and sets `last_error`.
- The prompt of the command loop, the pager and the note editor each call
  `console_read_line` with a buffer of their own. The UEFI reader keeps one history
  for all of them; the hosted one takes what `fgets` finds.
- `console_write_line` counts each call as one line for the pager, which may then read.
- `approve <id>` goes to the node link first and to the proposals otherwise.

The hazards that follow from this are listed with their lines in `PROJECT.json`.

## 2. Modules

| Module | Models | Variables and the C state they stand for |
|---|---|---|
| `AuditLog` | abstract: an append-only log of sessions | `opened`, `log` |
| `AuditChain` | `audit_core.c`, two or more processes on one database | `phase`, `boot_id`, `event_seq`, `prev_hash`, `early_events`, `flushed` = `g_audit`; `boot_session`, `audit_event` = the tables |
| `NodeLink` | `node_core.c`, `proposal.c` and the tables they write | `peer`, `pending`, `status`, `rx`; `node_peer`, `ai_proposal`, `human_response` |
| `TextStore` | one call of `storage_write_text` or `storage_read_text` | none: sets of results |
| `NoteEditor` | `editor.c` over `TextStore` | `path`, `text`, `loaded_existing`, `destructive_change`, `save_confirmed`, `dirty`; `files` |
| `SessionTranscript` | `session_transcript.c` over `TextStore` | `session`, `txt`, `jsonl`, `seq`, `part`, `jsonl_locked`, `active`; `txt_file`, `jsonl_file` |
| `SessionJournal` | state and steps of `session_journal.c` over `TextStore` | `jsonl`, `text`, `seq`, `active`, `truncated`, `last_flush_ok` = `g_journal`; `jsonl_file`, `text_file` |
| `Operation` | `kmain.c`, `command_core.c` and the exports; extends `SessionJournal` | `stage`, `audit_ready`, `storage`, `mode` = boot status and command context; `job`, `next`, `said`, `report_file` = the report under way and the report files |
| `Storage` | `storage.c` of a UEFI boot over `TextStore` | `uefi_fs_handle`, `bootstrap_verified`, `last_error`; `mode`, `tree` (what there is of each directory), `file` |
| `Console` | the readers of `uefi_entry.c` and `host_entry.c`, `console.c`, the loop of `command_core.c`, what `console_autocomplete.c` and `editor.c` do with the keyboard, the port rules of `ai_gateway.c` | `input`, `history` = the line, `last_drawn_len`, `history_cursor`, `g_history`; `row` = the screen row; `pager` = `g_pager_enabled`, `g_pager_line_count`; `endpoint` = `g_ai_port`; `stdin`, `closed`; `reader`, `todo`, `note_open`, `stopped` = where the program is |

`AuditChainProofs`, `NodeLinkProofs`, `NoteEditorProofs`,
`SessionTranscriptProofs`, `OperationProofs`, `StorageProofs` and `ConsoleProofs`
hold the theorems about the module they are named after (`OperationProofs` also
those about `SessionJournal`); `TextStoreProofs` holds lemmas about the calls of
`TextStore` and about prefixes and concatenations, which four of them use.

`MC...` modules give the constants values. Definitions whose comment begins with
"Mutant of" are changed forms of the definition that follows them. They are not
part of the model; each shows that a property notices a plausible mistake.

### Audit chain

A step is one SQL statement with the assignments around it. An event is its
position among the calls of `audit_emit_boot_event` in its process. A digest is
modelled by what it commits to (the chain up to the hashed row), which assumes
SHA-256 is collision free and nothing else. Any insert may fail, any process may
stop between any two statements and start again, and the clock moves freely, so
that two processes may ask for the boot id of the same second. The primary key
of `boot_session` decides then: the second process stays restricted.

`AuditChain` implements `AuditLog`: sessions open once, the table only grows, and
the events of a session are numbered without a gap, in order. The early buffer,
the flush, refused inserts and crashes do not show.

### Node link and proposals

A handler assigns to memory at once and leaves its SQL statements and sends in
`todo`; `ExecuteOk`, `ExecuteRefused` and `ExecuteFails` perform them one by one,
so that a stop may come between any two. The network is whatever a receive slot
yields, which covers loss, duplication and reordering, and a HELLO that names
nobody: `audit_upsert_node_peer` refuses such a peer its row (`audit_core.c:614`,
`DoUpsert`), and the handler goes on to the event and the link proposal all the
same. `Stop` ends a boot at any point and keeps only the tables. `Answers` picks
from `human_response` the rows a boot has stored about one proposal, `Recorded`
compares a status with the last.

`offers` counts, for the properties, the link proposals a boot has made and the
ones a LINK_ACCEPT or LINK_REJECT of the peer has settled while they were open
(`Settled`, `node_core.c:297` to `:313`). `AnsweredOnce` weighs them against the
recorded answers: an operator's answer to a proposal that the peer has settled
would be one too many, and so would an open one that is not closed by its answer.

### Storage, notes, transcript

`TextStore` says what a write may leave behind and what a read may return. The
code deletes the file and writes it anew, does not look at the size written
(`storage.c:922`), and ignores a delete that failed (`storage.c:876`), so a write
may succeed, fail, or report success and leave a part of the text or the old
tail behind it. A text is a sequence of lines, and buffer sizes are numbers of
lines.

`NoteEditor` cuts a save into the write and the comparison, with a power loss
possible in each. `LossNeedsConsent` takes a forced save (`.save!`, `.saveas`) for
the operator's consent, for the rest of that session. `SessionTranscript` cuts
`event()` into the calls of `flushv`.
`Storage` cuts each command into its calls of the medium; `Log` is the call of
the transcript from `console_write_line`.

That no volume behind the chosen one is touched (`FirstWritableChosen`) is about
files; a trial may leave directories. In the model `storage write` goes to a path
of its own; an operator who writes to the marker's path is left out.

A volume has a tree: for each directory of `g_storage_expected_dirs` nothing, a
directory, or a plain file of that name. A repair creates and a check opens the
directories one by one, in the order of the list, and stops at the first failure;
`uefi_path_exists` is content with a plain file. A write makes the directories on
the way to its file first, so a failed write may leave a part of them. `Dirs`
is that list, `Above` the directories each lies in, `Home` the directory of each
path; `TreeAssumption` says that parents come first in the list and that the marker
and the probe lie in one directory, as in the code (`storage.c:675`, `:1273`). A
write that stops on the way has made some of the directories of `Way`, and with
each the ones above it (`UpperPartsOf`).

### Console

A command is what it does to the console: calls of `console_write_line`, a screen
cleared, an editor opened, an endpoint stored, the end of the session. Which text
spells which command is left open, and so is whether a handler succeeds; a failed
storage, editor or journal command that falls through to the emergency flow is one
that makes more calls. A call counts as one line for the pager (`PrintLine`,
`console.c:133`), whatever its text shows: it may wrap, and it may be a whole
file. The model counts as the code does, and `PageHolds` is a bound on calls, not
on lines of the screen. `Dispatch` is `command_handle_line` with the pager on,
`Delivered` what the reader's caller does with the line.

The UEFI reader is one action per key: `TypeChar`, `EraseChar`, `RecallOlder`,
`RecallNewer`, `PressEnter`. `row` holds the cells written since the last line
break, `COLUMNS` of them to a row of the screen. `Put` writes on through the right
edge; `Return` and `Back` are '\r' and '\b', which stay in the screen row the
cursor is in. `Redrawn` puts them together as `uefi_redraw_input` does, with
`last_drawn_len` deciding how many blanks are drawn over the old line. A line that
has wrapped is therefore redrawn from the start of its last screen row, below cells
that stay, as in the code; `ShownIsBuffer` says what the operator sees as long as
nothing has reached the edge. The hosted reader is `fgets` on a stream that `Supply` fills
and `CloseInput` ends: it takes up to a newline or what the caller's buffer holds,
and leaves the rest to the next reader (`StopsAt`, `ReadLine`). `ReadFails` is the answer of
each caller to a closed input. `ParsedPort` is `parse_uint_port` on an integer of
a given width; `PortMeant` is the number the operator typed, whatever its size.

The variables `entered`, `opened`, `unpaged`, `unread` and `asked` record what
happened, for the properties; no action reads them but to bound the run. A line
entered is `Fresh` unless it is empty or repeats the one before it;
`HistoryIsRecent` says that the history is, in order, the last fresh ones.

### Boot, journal and reports

`SessionJournal` cuts a flush into its two writes and the comparison of both
files. It has no next-state relation of its own: `Operation` composes it with the
stages of `kmain` and with the commands, and says when an event is added and when
a flush is made. The other parts enter `Operation` as what `kmain` and the command
loop know of them: whether the audit backend came up, the status of the storage,
whether the transcript is kept. Each of these may come out either way, and
`StorageCommand` and `TranscriptFails` change them later. A report is a sequence
of lines, a line a record of the claims it makes (`Verdict`, `Claims`, `Bundle`,
`Summary`), so that a property can ask of a report that survived on the medium
whether it was true of its boot. `WriteReport` is the write, the read and the
comparison of one file; power may go in each write (`StopInWrite`). Reports whose
text exceeds the buffer it is read back into (`ClaimsJsonl`) are longer than
`READ_CAP`, as in the code.

Each of these modules has its own view of the medium: the editor, the transcript
and the journal with the reports see only their own files, `Storage` sees the
volumes, and `Console` sees none. They are not composed into one state machine.
What one does to another goes through `last_error` (in `Storage`) and through
failing calls (in all).

## 3. Runs

| Run | Instance | Shows |
|---|---|---|
| `audit_chain` | 2 processes, 2 seconds, buffer of 2, 4 events | chain, order, one writer per session, account of events, refinement of `AuditLog` |
| `node_link` | a peer with a name, one without and noise, 1 proposal, 3 slots, 2 boots, 2 answers, 1 failing insert | link proposals stored while open and closed once, by operator or peer, audited before announced, rows of named peers and statuses current, console reached |
| `note_editor` | 2 notes, 2 lines, 1 fault | reports, the dirty flag, no loss without consent |
| `note_editor_long` | expected violation | a note longer than the buffer is cut off by a plain `.save` |
| `session_transcript` | 3 boots, rotation after 4 lines, read buffer of 3, 1 failing call, 1 cut-off write | numbering, parts, agreement of the files, verification, crash notice |
| `session_transcript_kept` | expected violation | a power loss frees a session number and the next boot writes over its JSONL |
| `storage` | disk and stick in every mode, three directories in four states, 1 change, 1 fault | what verified means, order of selection, commands end |
| `storage_error` | expected violation | logging a line overwrites the error it announces |
| `operation_journal` | 2 boots, 5 events, buffers of 3 and 4 records, read buffer of 2, 2 faults, no report | what a good flush means, recovery, nothing taken back, the prompt returns |
| `operation_reports` | 2 boots of either build, 2 reports, 1 fault, a journal of 1 record | "written" means stored, no claim of full operation without audit |
| `operation_selftest` | expected violation | the self-test reports storage and journal as good from the audit flag alone |
| `console` | both builds, 1 character, lines of up to 4 on a screen of 5 columns, pager answers of 1 character, a history of 2, a page of 2, commands of 1 or 5 calls, 3 lines entered, 2 characters waiting, recalls in a row of up to 10 cells | row, history, editor lines, page of calls, port, end of the session |

### Why the bounds are enough

- `audit_chain`: two processes are what it takes to compete for a session, two
  seconds to meet or miss each other and to boot again; four events overflow the
  buffer of two and continue after the flush. The theorems lift all of these.
- `node_link`: three slots let HELLO, CAPS and an answer of the peer, or a HELLO
  with a name, one without and a LINK_ACCEPT, meet in one boot; the second boot
  meets the rows of the first. `RX_SLOTS` is 4 in the code; the fourth slot adds no
  new pair. The one named peer and the nameless one are the two that take over each
  other's record; the theorems hold of any number of them.
- `note_editor`: a second note is the target of `.saveas`; a text of one or two
  lines is shorter than, or as long as, the buffer. The one fault is any call of
  any command, and no property depends on two.
- `session_transcript`: a part of four lines is full after the start, two events
  and one more, and a rotation leaves room for two; the read buffer is smaller
  than a part so that verification stops and the check of the previous session is
  cut off, as 2048 bytes are against the buffers in the code. The third boot meets
  a session that itself had a previous one.
- `storage`: two volumes make an order; one change and one fault reach every way
  out of every command. Of the tree of the code, `/vita` and two directories in it
  are kept: the one of the probe, the marker and the test, last in the list, and
  the one of the user's file before it. A tree is absent, whole, without the last
  directory (a repair that was cut short), or has a plain file in its place.
- `operation_journal`: the JSONL buffer fills before the text buffer, both before
  the events end, and the read buffer before either; so every order of truncation
  and failing comparison occurs. Two faults are a failing call in each of two
  flushes, or in both files of one. In the code a record has some hundred bytes
  against buffers of 8192 and a read buffer of 2048.
- `operation_reports`: two reports are a report and the index of it, or a report
  over an older one of the same name in another boot. A power loss in a write
  counts as the fault. The transcript of a boot with a journal does not fail in
  this run, because the journal has no room for the event; it does in the other.
- `console`: three lines fill the history of two and shift it, and are enough for
  a command, its pager and the next prompt, or a command, its editor and the line
  that leaves it. Five calls are two pages and one more, and one call after
  another command's rest shows that the count starts anew. Lines of different
  lengths are what redrawing is about. After the prompt of two cells a line of up
  to two leaves a cell of the five free, one of three reaches the edge, one of four
  wraps, and typing, erasing and recalling are checked across the edge; `TypeOK`
  and the other properties hold there too. Each recall in a wrapped row adds cells
  to it, without end, so `MAX_CELLS` bounds the row in which a line is recalled:
  two wrapped rows and one more recall. One character is enough for lengths; that
  the cells are those of the line, for any characters, is proved. The pager's
  buffer is smaller than the others, so a recalled line is cut there, and a hosted
  answer leaves a rest in the stream. The ports hold one too large, one with
  another character, one whose value wraps around to a valid one in four bits.

### Fairness

`NodeLink`, `Storage`, `Operation` and `Console` assume weak fairness of `Step`,
the moves the program makes by itself: it is one thread that runs as long as the
machine does, UDP receives time out after 350 ms and firmware calls return.
Commands, power switches and changes of a volume are not in `Step`; neither the
operator nor the network is assumed to do anything. In `Operation` no step of a
flush or a report repeats itself, so a boot comes back to its prompt whatever
fails. In `NodeLink`, a receive slot is a step whatever it yields. In `Console`,
`Step` is what the program does with a line or the end of the input it has: the
keys of the operator, what a pipe supplies and the closing of the input are not in
it, so that `SessionEnds` says nothing of an operator who does not come back. The
other modules state no liveness.

`CHECK_DEADLOCK FALSE` is set where a run ends by design: `NodeLink`,
`SessionTranscript` and `Operation` after the last boot, `Console` after `exit` or
when the last line is entered, `Storage` never, `AuditChain` and
`NoteEditor` never.

## 4. Proofs

The runs check small instances. The theorems hold of any number of processes,
peers, volumes, notes, directories, boots, events and faults and of any size of the
buffers, as far as the assumptions below go. Each says `Spec => []P`, or `Spec => P`
where P is an action property or a specification.

| Module | Theorems, with the property each states |
|---|---|
| `AuditChainProofs` | `TypeCorrect` (`TypeOK`), `AlwaysChained` (`ChainsIntact`), `AlwaysOneWriter` (`OneWriterPerSession`), `AlwaysInOrder` (`EmissionOrder`), `AlwaysAccounted` (`EventsAccounted`), `ChainImplementsLog` (`ImplementsAuditLog`) |
| `NodeLinkProofs` | `TypeCorrect` (`TypeOK`), `AlwaysAnsweredOnce` (`AnsweredOnce`), `AlwaysAudited` (`AnnouncedIsAudited`), `RowAlwaysCurrent` (`PeerRowCurrent`), `StatusAlwaysLastAnswer` (`StatusIsLastAnswer`) |
| `NoteEditorProofs` | `TypeCorrect` (`TypeOK`), `AlwaysStored` (`ReportedIsStored`), `AlwaysClean` (`CleanIsSeen`), `LossOnlyWithConsent` (`LossNeedsConsent`, an action property) |
| `SessionTranscriptProofs` | `TypeCorrect` (`TypeOK`), `AlwaysVerified` (`VerifiedWhileShort`), `CrashAlwaysNoticed` (`CrashNoticed`), `OneBootAlways` (`OneBootPerSession`), `PartsAlwaysContiguous` (`PartsContiguous`), `EventsAlwaysInBoth` (`EventsInBoth`) |
| `StorageProofs` | `TypeCorrect` (`TypeOK`), `AlwaysMarked` (`VerifiedIsMarked`), `AlwaysFirst` (`FirstWritableChosen`) |
| `OperationProofs` | `TypeCorrect` (`TypeOK`), `FlushAlwaysStored` (`FlushOkIsStored`), `FlushAlwaysHeals` (`FlushHeals`), `ReportsAlwaysStored` (`WrittenIsStored`), `ClaimsAlwaysAudited` (`FullNeedsAudit`), `NothingEverTakenBack` (`NothingTakenBack`, an action property) |
| `ConsoleProofs` | `TypeCorrect` (`TypeOK`), `PageAlwaysHolds` (`PageHolds`), `NoteAlwaysTakesEveryLine` (`NoteTakesEveryLine`), `BufferAlwaysShown` (`ShownIsBuffer`), `HistoryAlwaysRecent` (`HistoryIsRecent`), `EndpointAlwaysLastValid` (`EndpointIsLastValid`) |

### Assumptions on the constants

TLC evaluates all of them in the runs.

| Module | Assumption | Why the code justifies it |
|---|---|---|
| `AuditChain` | `EarlyMaxAssumption`: the buffer's capacity is a natural number; `SecondAssumption`: times are positive | a macro; seconds since 1970 |
| `NodeLink` | `LimitsAssumption`: bounds are natural numbers; `ProposalsAssumption`: the initial proposals are a sequence without the link proposal | the link proposal has an id of its own |
| `NoteEditor` | `CapsAssumption`: 0 < `EDITOR_CAP` < `READ_CAP`; `NotesAssumption`: the initial notes are texts, "no file" is none, the closed path is no path | the read buffer of a save is larger than the text buffer; sentinels |
| `SessionTranscript` | `BoundsAssumption`: a part holds three lines or more, the text buffer two, there is one part or more; `NoFileAssumption` | buffers of kilobytes against lines of some hundred bytes |
| `SessionJournal` | `JournalBoundsAssumption`: the JSONL buffer holds a record and not more than the text buffer, the read buffer holds two; `NoFileAssumption` | both buffers are of 8192 bytes and a JSONL record is the longer one; the read buffer is of 2048 |
| `Operation` | `ReportsAssumption`: the bound is a natural number | |
| `Storage` | `VolumesAssumption`: the firmware names at least one volume, and none twice; `TreeAssumption`: parents before children, what lies in a directory lies in those above it, marker and probe in one directory; `BoundsAssumption`, `NoFileAssumption` | without a volume `locate_handle` fails, which is a fault of `Select`; the list `g_storage_expected_dirs` and the two paths under `/vita/tmp` |
| `Console` | `BuffersAssumption`: sizes and the width of the screen are positive, the pager's buffer holds a character and is no longer than the line buffer; `PortsAssumption`: `MAX_PORT * BASE + BASE <= WRAP` | buffers of 8 and more, 80 columns; 65535 in 32 bits: one more digit on a valid port does not wrap around |

### The inductive invariants

Few of the properties are inductive as they stand. In each module the type invariant
comes first, strengthened by what the program counter says of the rest (`Shape`,
`Orderly`, `Roles`), because a handler relies on where it is called from. On it
rest the others.

- `AuditChain`. That a new row continues its chain depends on what its writer
  remembers. `ChainInv` adds `FreshMemory` (a process without a session remembers
  none), `SessionsOpened` (a session that is written to has its primary key),
  `OneWriterPerSession` and `MemoryIsTip` (the writer's number and hash are those
  of the last row of its session). Two processes cannot both have a session because
  the row in `boot_session` comes first; so the rows of a session grow only by its
  one writer, whose memory is its tip. `OrderInv` adds that the buffer is in order,
  behind everything stored, and that every event is in one place. The refinement
  shows that each insert is a `Record` of `AuditLog`, each accepted boot session an
  `Open`, and all other steps stutter.
- `NodeLink`. A property of what has been done becomes one of what is done or still
  in `todo`: `Ahead` (the decision is audited, or its event comes before the message
  that announces it), `RowOrUpsert` (the row of a peer with a name is the peer, or
  an upsert waits), `RecordedOrNext` (the status is the last answer's, or its row is the next
  statement). `Ledger` balances: rows stored, verdicts of the peer, an answer under
  way and an open proposal are together the link proposals of the boot, up to the
  inserts that have failed; so none is closed twice and none is forgotten. `Effects`
  says where in `todo` an answer may stand, so that one statement settles it.
- `NoteEditor`. `ReportedIsStored` and `CleanIsSeen` need only the types.
  `ConsentInv` says that the flags are down between sessions, that a remembered
  confirmation was given, and that a note loaded whole is a prefix of the buffer
  until something destructive is done; so a save without consent can only append.
- `SessionTranscript`. `Ledger` says that a number without a text file is free
  altogether: `flushv` writes the text file first, so what `choose_session_id` looks
  for is there before anything else is. `Numbering` ties the lines of the buffer to
  the parts before it, `Mirrored` says that each file is a prefix of its buffer and
  equals it from its own write on, `InBothBuffers` that no line is missing from the
  text buffer with room in it. `Compared` and `Noticed` do the same for what the
  comparison and the check of the older session have found.
- `Operation`. `JournalInv` says that after the first comparison no file of the
  journal is longer than its buffer: this is what a write that covers an old tail
  needs, and only the start has to deal with an older boot's file. `Calmness` adds
  what a flush without a fault has done so far. `ShopOK` says that the files of a
  report before the one that is due hold their bodies, that no file is longer than
  the report of its path, and that every line on the medium that claims full
  operation is of an audited boot, whatever mixture of two reports it stands in.
  `Kept` says that a journal file which has met no fault begins with a record of an
  older boot or is a prefix of the buffer.
- `Storage`. `Earned(k)` says of the call in `todo` that accepts the volume: each
  directory is there or its call comes before, the way to the marker has been made
  or its write comes before, and the marker is read back after the last time it is
  written. `Accounted` adds that nothing touches the marker of a verified volume. For
  `FirstWritableChosen`, `Chosen` says the same in two directions. `Ready`: what
  the calls up to the decision need is there or made by one before them, so a volume
  that can be written to fails none of them (`WritableGrants`). `Tried`: what they
  have not shown yet is still to be asked, so a volume that fails none can be written
  to (`TriedIsWritable`). Every candidate in front of the one that is tried is one
  that cannot, and between selections `Settled` holds: the selected volume is the
  first that can, or none can. It uses that without a fault no directory turns into a
  file or back (`TreeKept`), so that what can be written to stays so.
- `Console`. `Paged` ties the counter of the pager to the calls made since the last
  read. `NoteLines` follows from the types and from who may read while a note is
  open. `Shown` describes the row cell by cell while a line is read and nothing has
  reached the edge (writing never makes the row shorter, so a row that is short now
  has been short since the prompt: `RedrawnIs`, `ShowsErased`), and needs
  `WithoutKeys` (what a UEFI boot without a keyboard still prints) and `Rowing` (the
  row is empty between two lines). `Placed` keeps a witness: an increasing map from
  the places of the history to the fresh lines entered, which leaves out only what
  has been shifted away; `LastEntered` says that the newest place holds the last line
  that is not empty, which is the one a repetition is compared with.
  `EndpointIsLastValid` is inductive; what it takes is `ParsedIsMeant`, that the
  parser and the number meant agree on every text of digits. `ValueIsNumber` shows
  it digit by digit: as long as the number is valid the next one does not wrap
  around, and once it is not the parser has refused.

An induction over data is put into sets. `LeastNumber`, that every set of naturals
that is not empty has a least member, follows from the library's `WFMin`, which has
no operator for a parameter; `Induction` says that a set with 0 and every successor
up to n holds 0..n, and `RecursionExists` that a function defined step by step
exists. That a recursive function of the model meets its equation follows from
that and is put to Zenon, so that nothing but its equation is known of it.

The invariants of a proof were first checked by TLC as invariants of the module's run.

### Only model-checked

- Liveness (`ConsoleReached`, `CommandReturns`, `PromptReturns`, `SessionEnds`):
  the prover's temporal logic does not reach fairness, nor ENABLED.
- That the values of the runs satisfy the assumptions, and that every property is
  broken by a plausible change of the code (the mutants).

The modules declare no recursive operator.

## 5. Divergences between the code and what is said of it

The four expected violations are listed under "findings" in `PROJECT.json` with
the quoted lines. For two of them, a hosted build shows the same: `cat` of a note
that does not exist prints "storage read: failed" followed by "ok"; and with
SQLite available but the verification marker not writable, `selftest` writes "OK
(verified writable)" above the claim that storage is not writable.

Seen while modelling and contained in the models, without a run of their own:

- A HELLO with an empty name is announced as PEER_DISCOVERED and gets a link
  proposal, but no row: `audit_upsert_node_peer` refuses an empty id
  (`audit_core.c:614`) and nobody looks at its result (`node_core.c:273`).
  `docs/audit/audit-model.md:32` wants every discovered peer in `node_peer`.
  `PeerRowCurrent` is about peers with a name.
- An answer whose insert fails is announced and acted on all the same
  (`proposal.c:239`), while `docs/audit/audit-model.md:31` wants every answer in
  `human_response`. `AnsweredOnce` lets a proposal close without an answer only
  for a failed insert.
- A line may have 127 characters and a screen row has 80 columns. Once a line has
  wrapped, '\r' (`uefi_entry.c:298`) and '\b' (`uefi_entry.c:377`) reach its last
  screen row only: a recalled line is drawn there, the rows above keep cells of
  the older one, and erasing stops at the left edge of the screen although the
  buffer goes on getting shorter. Enter runs the buffer.
- `storage read` and `cat` (`storage.c:1424`) and `journal last-session`
  (`session_journal.c:513`) hand a whole file, up to 2047 bytes, to one call of
  `console_write_line`, which the pager counts as one line (`console.c:133`); such
  a file may run over the screen without a pause, as may lines that wrap.
- An event that does not fit the early buffer is dropped without a trace
  (`audit_core.c:494`). `EventsAccounted` counts the dropped ones apart: it says
  that what has been kept is neither lost nor stored twice, not that nothing is
  dropped.
- A datagram of no known kind makes a valid peer in memory ("peer-unknown") and
  returns before the peer is stored (`node_core.c:266`), while
  `docs/audit/audit-model.md:32` wants every discovered peer in `node_peer`.
- `export vitair` reports "failed" although its file, some 2100 bytes, is written
  whole: it is compared with a read of at most 2047 (`command_core.c:633`). A
  journal longer than that reports every flush as failed and stays active.
- `journal note` prints "recorded" whether or not the journal is active or the
  flush succeeded (`session_journal.c:587`).
- `audit verify` and its export report the chain as good without reading a row
  (`command_core.c:678`).
- The claims about the transcript follow the journal (`command_core.c:246`), not
  `session_transcript_is_active`.
- The mode shown at the welcome needs audit, storage and journal; the one kept by
  the command loop needs audit only (`command_core.c:335`), so `status` may say
  "guided" after a welcome that said "audit". The restricted mode is put down to
  SQLite whatever its cause (`kmain.c:279`). Emergency mode is never left.
- `session_journal_log_command` has no caller, although
  `docs/audit/session-journal.md:12` says that submitted commands are recorded;
  nor have `power_request` and the commands of `net_connect.c`.

- A session that ended in good order is noted as unclean by the next boot when its
  JSONL is longer than the read buffer, because the end is looked for in what one
  read returns (`session_transcript.c:443`).
- The hosted pager takes seven characters of what is typed, and the rest of the
  line is the next command (`host_entry.c:46`, `console.c:127`); a hosted build
  does so.
- A completion with one match replaces the whole line, with the command word
  (`console_autocomplete.c:134`), while `README.md:179` promises to complete known paths
  and notes.
- Recalling a line at the pager or in the editor draws the prompt of the loop over
  the one that stands there (`uefi_entry.c:298`); cells of the longer prompt
  remain. `ShownIsBuffer` is therefore about the loop's prompt only.
- The pager stays off for the rest of a command that opened the editor
  (`editor.c:507`), and a completion list is not paged. `PageHolds` leaves both
  out.
- An editor whose input closes makes its command fail, and the emergency flow is
  printed for the line that opened it (`editor.c:509`, `command_core.c:1194`).
- `note <name>` prepares a note and does not open the editor, although
  `tools/test/validate-storage-persistence.sh` pipes lines to it.
- On a hosted build `storage repair` says ok whatever `mkdir` returned
  (`storage.c:439`). `uefi_path_exists` takes a plain file for a directory, so
  that a plain file `/vita/notes` passes repair, check and verification;
  `VerifiedIsMarked` is stated accordingly.

No document promises otherwise of these: a read that fails on opening a note makes
the editor treat it as new; a second peer's HELLO takes over the record of the
first; a reboot forgets a link; a later boot takes over the proposal rows of an
earlier one; every boot begins the journal anew.

## 6. Not modelled

Formatting and wording, redaction of journal entries, path validation, the list of
notes, which text spells which command, the conversion of characters, colours and
pixels, hardware discovery, image building, code without callers (`power.c`,
`net_connect.c`, `net_status.c`, `uefi_neon_text.c`), and the stubs: they keep no
state that others rely on. The directories of a hosted build (one root, made with
`mkdir`). What a machine without an AI endpoint or a network answers to `ai ask`. Hardware
snapshots and the exported block of the audit backend, which are rows or lines
written once and read by no code. Hash collisions; corruption of the database by others;
a firmware that returns wrong data without an error, beyond the write faults above.

## 7. Plan

1. An abstract specification of a verified text store ("a text counts as stored
   only after it was seen on the medium") that `NoteEditor`, `SessionJournal` and
   the reports of `Operation` implement, each with its refinement proved.
2. The order of the two answers to a link proposal across boots, and the proposals
   table as an abstract ledger that `NodeLink` implements.
3. The recursion guards of console, transcript and journal, which need `Console`
   and `SessionTranscript` in one state machine; the hosted directories.
