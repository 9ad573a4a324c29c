-------------------------- MODULE SessionTranscript --------------------------
(***************************************************************************)
(* The session transcript, kernel/session_transcript.c: every boot picks a *)
(* free session number and keeps, under it, a text file and a JSONL file   *)
(* that is continued in further parts when its buffer is full. Each event  *)
(* is appended to both buffers and both files are rewritten from them.     *)
(*                                                                         *)
(* The code is sequential (g.busy turns a nested event away), but a power  *)
(* loss may come between any two storage calls or in the middle of a       *)
(* write, and a storage call may fail, so event() is cut into its storage  *)
(* calls. A line stands for its number and its event type; capacities are  *)
(* counted in lines, the heading of the text file is not. A boot whose     *)
(* storage is not verified keeps no transcript and is left out, and so is  *)
(* the one line in the journal that tells of an error.                     *)
(***************************************************************************)
EXTENDS TextStore, FiniteSets

CONSTANTS
  TXT_CAP,      \* lines that g.txt holds
  JSONL_CAP,    \* lines that g.jsonl holds
  READ_CAP,     \* lines that a VITA_STORAGE_READ_MAX buffer holds
  MAX_BOOT,     \* bound: boots, hence session numbers
  MAX_SEQ,      \* bound: the number up to which a session logs events
  MAX_PART,     \* bound: parts of a JSONL file
  MAX_FAULTS,   \* bound: storage calls that fail
  MAX_CUTS      \* bound: power losses in the middle of a write

ASSUME BoundsAssumption ==
  /\ {TXT_CAP, JSONL_CAP, READ_CAP, MAX_BOOT, MAX_SEQ, MAX_PART, MAX_FAULTS, MAX_CUTS}
       \subseteq Nat
  /\ 3 <= JSONL_CAP     \* what rotate_jsonl_part relies on
  /\ 2 <= TXT_CAP       \* the first two events of a boot fit the text buffer
  /\ 1 <= MAX_PART

VARIABLES
  txt_file, jsonl_file,           \* the medium, by session number and part
  pc,                             \* where the boot is, see Phase
  job,                            \* the event in the making: its type, and if
                                  \* its flush is the one of rotate_jsonl_part
  session,                        \* the number in g.session_id
  txt, jsonl, seq,                \* the buffers and the number of the last event
  part,                           \* g.current_jsonl_part
  jsonl_locked, active,
  boot,                           \* history: which boot this is
  owners,                         \* history: the boots that have written under a number
  faults, cuts                    \* history: failed storage calls; cut-off writes

buffers == <<session, txt, jsonl, seq, part, jsonl_locked, active>>
medium  == <<txt_file, jsonl_file, owners>>
counts  == <<faults, cuts>>
vars    == <<medium, pc, job, buffers, boot, counts>>

Id    == 1..MAX_BOOT
Part  == 1..MAX_PART

\* "txt", "jsonl" and "compare" are the calls that flushv has yet to make.
Phase == {"off", "start", "idle", "txt", "jsonl", "compare", "check", "note", "closed"}

Mark    == {"session_end", "transcript_truncated"}
Type    == Mark \union {"session_start", "transcript_rotated", "transcript_part_start",
                        "previous_session_unclean", "event"}
Line    == [seq : Nat, type : Type]
File    == Seq(Line) \union {NoFile}
NoJob   == [type |-> "event", rotating |-> FALSE]

ASSUME NoFileAssumption == NoFile \notin Seq(Line)

-----------------------------------------------------------------------------
Forget ==
  /\ job' = NoJob /\ session' = 0
  /\ txt' = <<>> /\ jsonl' = <<>> /\ seq' = 0 /\ part' = 1
  /\ jsonl_locked' = FALSE /\ active' = FALSE

Init ==
  /\ txt_file   = [i \in Id |-> NoFile]
  /\ jsonl_file = [i \in Id |-> [k \in Part |-> NoFile]]
  /\ pc = "off" /\ job = NoJob /\ session = 0
  /\ txt = <<>> /\ jsonl = <<>> /\ seq = 0 /\ part = 1
  /\ jsonl_locked = FALSE /\ active = FALSE
  /\ boot = 0 /\ owners = [i \in Id |-> {}]
  /\ faults = 0 /\ cuts = 0

\* session_transcript_init up to its first event: the first number whose text
\* file cannot be read is taken; the read of a file that is there may fail.
Boot(i) ==
  /\ pc = "off" /\ boot < MAX_BOOT
  /\ \A j \in 1..(i - 1) : txt_file[j] # NoFile
  /\ IF txt_file[i] = NoFile THEN UNCHANGED faults
                             ELSE faults < MAX_FAULTS /\ faults' = faults + 1
  /\ pc' = "start"
  /\ session' = i /\ active' = TRUE
  /\ boot' = boot + 1
  /\ UNCHANGED <<medium, job, txt, jsonl, seq, part, jsonl_locked, cuts>>

-----------------------------------------------------------------------------
(* event() *)

\* Mutant of FlushOrder: the files are written the other way round.
FlushOrderSwapped == <<"jsonl", "txt">>

\* The order in which flushv writes the files.
FlushOrder == <<"txt", "jsonl">>

NextCall(call) == IF call = FlushOrder[1] THEN FlushOrder[2] ELSE "compare"

\* Mutant of Fits: off by one.
FitsOneMore(buffer, cap) == Len(buffer) <= cap

\* append_within_cap
Fits(buffer, cap) == Len(buffer) < cap

\* The text buffer takes what fits and drops the rest without a word.
TxtWith(lines) == IF Len(txt \o lines) <= TXT_CAP THEN txt \o lines
                                                  ELSE SubSeq(txt \o lines, 1, TXT_CAP)

\* event() up to its first storage call, which belongs to the rotation if the
\* line does not fit into the JSONL buffer.
Begin(type) ==
  LET line     == [seq |-> seq + 1, type |-> type]
      rotating == ~jsonl_locked /\ ~Fits(jsonl, JSONL_CAP)
  IN
    /\ pc' = FlushOrder[1]
    /\ job' = [type |-> type, rotating |-> rotating]
    /\ \/ rotating /\ UNCHANGED <<txt, jsonl, seq>>
       \/ /\ ~rotating
          /\ seq' = seq + 1
          /\ txt' = TxtWith(<<line>>)
          /\ jsonl' = IF jsonl_locked THEN jsonl ELSE Append(jsonl, line)
    /\ UNCHANGED <<medium, session, part, jsonl_locked, active, boot, counts>>

\* Where the program goes on after event().
After(type) == CASE type = "session_start" -> "check"
                 [] type = "session_end"   -> "closed"
                 [] OTHER                  -> "idle"

\* Mutant of Rotated: the event keeps the number it was given before.
RotatedNumberKept ==
  /\ part' = part + 1
  /\ seq' = seq + 2
  /\ jsonl' = << [seq |-> seq + 1, type |-> "transcript_rotated"],
                 [seq |-> seq + 2, type |-> "transcript_part_start"],
                 [seq |-> seq + 1, type |-> job.type] >>
  /\ txt' = TxtWith(<<[seq |-> seq + 1, type |-> job.type]>>)
  /\ UNCHANGED jsonl_locked

\* rotate_jsonl_part after its flush: a new part with two lines of its own, and
\* the event under a new number.
Rotated ==
  /\ part' = part + 1
  /\ seq' = seq + 3
  /\ jsonl' = << [seq |-> seq + 1, type |-> "transcript_rotated"],
                 [seq |-> seq + 2, type |-> "transcript_part_start"],
                 [seq |-> seq + 3, type |-> job.type] >>
  /\ txt' = TxtWith(<<[seq |-> seq + 3, type |-> job.type]>>)
  /\ UNCHANGED jsonl_locked

\* report_transcript_truncated_once: the JSONL file gets no further event, and
\* the line that says so, if it is short enough to fit, shares its number with
\* the event that did not.
Truncated ==
  LET line == [seq |-> seq + 1, type |-> "transcript_truncated"] IN
    /\ jsonl_locked' = TRUE
    /\ seq' = seq + 1
    /\ txt' = TxtWith(<<line, [seq |-> seq + 1, type |-> job.type]>>)
    /\ jsonl' \in {jsonl, Append(jsonl, line)}
    /\ UNCHANGED part

\* flushv returns ok: to rotate_jsonl_part, after which event() flushes again,
\* or to event() itself, which gives up when the flush has failed.
Flushed(ok) ==
  /\ IF job.rotating
     THEN /\ job' = [job EXCEPT !.rotating = FALSE]
          /\ pc' = FlushOrder[1]
          /\ IF ok THEN Rotated ELSE Truncated
          /\ UNCHANGED active
     ELSE /\ pc' = After(job.type)
          /\ active' = ok
          /\ UNCHANGED <<job, txt, jsonl, seq, part, jsonl_locked>>
  /\ UNCHANGED <<session, boot>>

\* The next call is a call of flushv.
Proceed(next) ==
  /\ pc' = next
  /\ UNCHANGED <<job, buffers, boot>>

Owned == owners' = [owners EXCEPT ![session] = @ \union {boot}]

WriteTxt ==
  /\ pc = "txt"
  /\ \E r \in WriteResults(txt_file[session], txt) :
       /\ faults + Cost(r, WriteDone(txt)) <= MAX_FAULTS
       /\ faults' = faults + Cost(r, WriteDone(txt))
       /\ txt_file' = [txt_file EXCEPT ![session] = r.file]
       /\ IF r.ok THEN Proceed(NextCall("txt")) ELSE Flushed(FALSE)
  /\ Owned
  /\ UNCHANGED <<jsonl_file, cuts>>

WriteJsonl ==
  /\ pc = "jsonl"
  /\ \E r \in WriteResults(jsonl_file[session][part], jsonl) :
       /\ faults + Cost(r, WriteDone(jsonl)) <= MAX_FAULTS
       /\ faults' = faults + Cost(r, WriteDone(jsonl))
       /\ jsonl_file' = [jsonl_file EXCEPT ![session][part] = r.file]
       /\ IF r.ok THEN Proceed(NextCall("jsonl")) ELSE Flushed(FALSE)
  /\ Owned
  /\ UNCHANGED <<txt_file, cuts>>

Verifiable == Fits(txt, READ_CAP) /\ Fits(jsonl, READ_CAP)

\* Mutant of Compare: one of the two texts being short is enough to skip it.
CompareJsonlOnly ==
  /\ pc = "compare"
  /\ \/ /\ ~Verifiable
        /\ Flushed(TRUE)
        /\ UNCHANGED faults
     \/ /\ Verifiable
        /\ \E b \in ReadResults(jsonl_file[session][part], READ_CAP) :
             LET cost == Cost(b, ReadDone(jsonl_file[session][part], READ_CAP)) IN
               /\ faults + cost <= MAX_FAULTS
               /\ faults' = faults + cost
               /\ Flushed(b.ok /\ b.text = jsonl)
  /\ UNCHANGED <<medium, cuts>>

\* The end of flushv: texts too long to be read back count as written.
Compare ==
  /\ pc = "compare"
  /\ \/ /\ ~Verifiable
        /\ Flushed(TRUE)
        /\ UNCHANGED faults
     \/ /\ Verifiable
        /\ \E a \in ReadResults(txt_file[session], READ_CAP),
              b \in ReadResults(jsonl_file[session][part], READ_CAP) :
             LET cost == Cost(a, ReadDone(txt_file[session], READ_CAP))
                         + Cost(b, ReadDone(jsonl_file[session][part], READ_CAP))
             IN
               /\ faults + cost <= MAX_FAULTS
               /\ faults' = faults + cost
               /\ Flushed(a.ok /\ b.ok /\ a.text = txt /\ b.text = jsonl)
  /\ UNCHANGED <<medium, cuts>>

-----------------------------------------------------------------------------
(* The callers of event(), which does nothing while the transcript is inactive *)

Room == seq + 3 < MAX_SEQ /\ part < MAX_PART

Start == pc = "start" /\ Begin("session_start")

Log == pc = "idle" /\ active /\ Room /\ Begin("event")

\* session_transcript_shutdown
Shutdown == pc = "idle" /\ active /\ part < MAX_PART /\ Begin("session_end")

\* What storage_read_text shows of part k of session i.
Shown(i, k) == LET file == jsonl_file[i][k] IN
  SubSeq(file, 1, IF Len(file) < READ_CAP THEN Len(file) ELSE READ_CAP)

Marked(text) == \E n \in DOMAIN text : text[n].type \in Mark

Parts(i) == {k \in Part : jsonl_file[i][k] # NoFile}

\* Mutant of CheckPrevious: a first part that can be read is enough.
CheckPreviousReadable ==
  /\ pc = "check"
  /\ \E missed \in SUBSET (IF session = 1 THEN {} ELSE Parts(session - 1)) :
       LET read == IF session = 1 THEN {} ELSE Parts(session - 1) \ missed
           tell == active /\ session > 1 /\ read = {}
       IN /\ faults + Cardinality(missed) <= MAX_FAULTS
          /\ faults' = faults + Cardinality(missed)
          /\ pc' = IF tell THEN "note" ELSE "idle"
  /\ UNCHANGED <<medium, job, buffers, boot, cuts>>

\* The end of session_transcript_init: the parts of the session before this one
\* are searched for a mark of its end. Of each no more is read than the buffer
\* holds, and a session with a second part is never found unclean.
CheckPrevious ==
  /\ pc = "check"
  /\ \E missed \in SUBSET (IF session = 1 THEN {} ELSE Parts(session - 1)) :
       LET read == IF session = 1 THEN {} ELSE Parts(session - 1) \ missed
           tell == /\ active /\ session > 1
                   /\ \A k \in read : k = 1 /\ ~Marked(Shown(session - 1, k))
       IN /\ faults + Cardinality(missed) <= MAX_FAULTS
          /\ faults' = faults + Cardinality(missed)
          /\ pc' = IF tell THEN "note" ELSE "idle"
  /\ UNCHANGED <<medium, job, buffers, boot, cuts>>

NoteUnclean == pc = "note" /\ Begin("previous_session_unclean")

-----------------------------------------------------------------------------
\* The program ends or the power is lost, between two storage calls ...
Stop ==
  /\ pc # "off"
  /\ pc' = "off" /\ Forget
  /\ UNCHANGED <<medium, boot, counts>>

\* ... or in the middle of a write.
StopInWrite ==
  /\ pc \in {"txt", "jsonl"} /\ cuts < MAX_CUTS
  /\ cuts' = cuts + 1
  /\ pc' = "off" /\ Forget
  /\ \/ /\ pc = "txt"
        /\ \E f \in WriteCutOff(txt_file[session], txt) :
             txt_file' = [txt_file EXCEPT ![session] = f]
        /\ UNCHANGED jsonl_file
     \/ /\ pc = "jsonl"
        /\ \E f \in WriteCutOff(jsonl_file[session][part], jsonl) :
             jsonl_file' = [jsonl_file EXCEPT ![session][part] = f]
        /\ UNCHANGED txt_file
  /\ Owned
  /\ UNCHANGED <<boot, faults>>

Step == Start \/ WriteTxt \/ WriteJsonl \/ Compare \/ CheckPrevious \/ NoteUnclean

Next ==
  \/ \E i \in Id : Boot(i)
  \/ Step
  \/ Log \/ Shutdown
  \/ Stop \/ StopInWrite

Spec == Init /\ [][Next]_vars
-----------------------------------------------------------------------------
(* What must hold *)

\* Every variable stays in its domain; the rotation leaves room in the buffers.
TypeOK ==
  /\ txt_file \in [Id -> File] /\ jsonl_file \in [Id -> [Part -> File]]
  /\ pc \in Phase
  /\ job \in [type : Type, rotating : BOOLEAN]
  /\ session \in Id \union {0} /\ boot \in 0..MAX_BOOT
  /\ txt \in Seq(Line) /\ Len(txt) <= TXT_CAP
  /\ jsonl \in Seq(Line) /\ (~jsonl_locked => Len(jsonl) <= JSONL_CAP)
  /\ seq \in Nat /\ part \in Part
  /\ {jsonl_locked, active} \subseteq BOOLEAN
  /\ owners \in [Id -> SUBSET (1..MAX_BOOT)]
  /\ faults \in 0..MAX_FAULTS /\ cuts \in 0..MAX_CUTS

Sound == faults = 0 /\ cuts = 0

\* A boot never writes over the transcript of an earlier one, wherever that was
\* stopped: it is enough to look for the text file because it is written first.
OneBootPerSession == Sound => \A i \in Id : Cardinality(owners[i]) <= 1

\* The number with which part k of session i has to start.
FirstSeq(i, k) ==
  IF k = 1 THEN 1
  ELSE LET before == jsonl_file[i][k - 1] IN before[Len(before)].seq + 1

\* The parts of a session on the medium, read in order, are numbered without a
\* gap or a repetition, also across a rotation that was cut short
\* (tools/test/validate-storage-persistence.sh:203-212 reads them that way).
PartsContiguous ==
  Sound => \A i \in Id :
    /\ \E n \in 0..MAX_PART : Parts(i) = 1..n
    /\ \A k \in Parts(i) : LET file == jsonl_file[i][k] IN
         /\ Len(file) >= 1
         /\ \A n \in 1..Len(file) : file[n].seq = FirstSeq(i, k) + n - 1

Control == {"transcript_rotated", "transcript_part_start"}

\* While the text buffer is not full, the text file lacks no event of the JSONL
\* file, at whichever call the session was stopped.
EventsInBoth ==
  Sound => \A i \in Id : \A k \in Parts(i) : \A n \in DOMAIN jsonl_file[i][k] :
    LET line == jsonl_file[i][k][n] IN
      \/ line.type \in Control
      \/ Size(txt_file[i]) = TXT_CAP
      \/ txt_file[i] # NoFile /\ line \in Range(txt_file[i])

\* A transcript that counts as active is on the medium as it is in memory, as
\* long as it is short enough to be read back, whatever the storage did.
VerifiedWhileShort ==
  pc = "idle" /\ active /\ Verifiable =>
    txt_file[session] = txt /\ jsonl_file[session][part] = jsonl

Unclean == \E n \in DOMAIN txt : txt[n].type = "previous_session_unclean"

MarkedSession(i) == \E k \in Parts(i) : Marked(jsonl_file[i][k])

\* A session in one part that was stopped before its end is noticed by the next.
CrashNoticed ==
  pc = "idle" /\ active /\ session > 1 /\ Parts(session - 1) \subseteq {1}
    /\ ~MarkedSession(session - 1) => Unclean

\* README.md:146: "No se sobrescriben sesiones anteriores." The first event of
\* a session meets no JSONL file under its number. Unlike OneBootPerSession this
\* is not restricted to storage that works and writes that end.
SessionsKept ==
  [][seq = 1 /\ jsonl_file[session][1] # NoFile =>
       jsonl_file'[session][1] = jsonl_file[session][1]]_vars
=============================================================================
