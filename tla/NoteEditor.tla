----------------------------- MODULE NoteEditor -----------------------------
(***************************************************************************)
(* The note editor, kernel/editor.c, over the text files of TextStore: one *)
(* line of input at a time, a buffer that is loaded from a note and saved  *)
(* back to it, and the confirmation that a destructive save asks for.      *)
(*                                                                         *)
(* A save is a write and then a comparison with what reads back; the       *)
(* machine may lose power before, during and between the two, and any      *)
(* storage call may fail. Commands that only show something, and commands  *)
(* refused for an invalid path, change nothing and are left out, and so is *)
(* a boot without storage, in which the editor never opens. Lines have one *)
(* length; the newline that append mode adds to a text that lacks one is   *)
(* part of the last line.                                                  *)
(***************************************************************************)
EXTENDS TextStore

CONSTANTS
  Path,         \* the notes
  Line,         \* what the operator may type
  Seed,         \* the line of a note made by note_bootstrap_if_missing
  Initial,      \* the texts that may be on the medium to begin with
  EDITOR_CAP,   \* VITA_EDITOR_TEXT_MAX: what the buffer holds
  READ_CAP,     \* VITA_STORAGE_READ_MAX: what a save compares
  MAX_FAULTS    \* bound: storage calls that fail, and power losses

ASSUME CapsAssumption == /\ {EDITOR_CAP, READ_CAP, MAX_FAULTS} \subseteq Nat
                         /\ 0 < EDITOR_CAP /\ EDITOR_CAP < READ_CAP

Letter == Line \union {Seed}   \* what a note is made of
Closed == "closed"

\* The notes begin as texts, no text is NoFile and no note is called Closed.
ASSUME NotesAssumption ==
  Initial \subseteq Seq(Letter) /\ NoFile \notin Seq(Letter) /\ Closed \notin Path

VARIABLES
  files,                                   \* the medium
  path,                                    \* g_editor_path; Closed if no editor runs
  text,                                    \* g_editor_text
  loaded_existing, destructive_change,     \* the flags of the editor
  save_confirmed, dirty,
  saving,                                  \* a save between write and comparison
  consent,    \* history: the operator has confirmed since the last .clear or .replace
  forced,     \* history: this session has saved with .save! or .saveas
  seen,       \* history: the text this session last read from its note
  reported,   \* history: the text a note was last reported saved with
  faults      \* history: storage calls that have failed, and power losses

editor  == <<path, text, loaded_existing, destructive_change, save_confirmed, dirty, saving>>
session == <<consent, forced, seen>>
vars    == <<files, editor, session, reported, faults>>

NotSaving == [path |-> Closed, exits |-> FALSE]
Unreported == NoFile
Text      == {t \in Seq(Letter) : Len(t) <= EDITOR_CAP}

Editing == path # Closed /\ saving = NotSaving

-----------------------------------------------------------------------------
Init ==
  /\ files \in [Path -> Initial \union {NoFile}]
  /\ path = Closed /\ text = <<>> /\ saving = NotSaving
  /\ loaded_existing = FALSE /\ destructive_change = FALSE
  /\ save_confirmed = FALSE /\ dirty = FALSE
  /\ consent = FALSE /\ forced = FALSE /\ seen = <<>>
  /\ reported = [p \in Path |-> Unreported]
  /\ faults = 0

Leave ==
  /\ path' = Closed /\ text' = <<>> /\ saving' = NotSaving
  /\ loaded_existing' = FALSE /\ destructive_change' = FALSE
  /\ save_confirmed' = FALSE /\ dirty' = FALSE
  /\ consent' = FALSE /\ forced' = FALSE /\ seen' = <<>>

\* The storage call yields r, a fault if it is none of done.
Call(done, r) ==
  /\ faults + Cost(r, done) <= MAX_FAULTS
  /\ faults' = faults + Cost(r, done)

WriteTo(p, new, r) ==
  /\ Call(WriteDone(new), r)
  /\ files' = [files EXCEPT ![p] = r.file]
  /\ reported' = [reported EXCEPT ![p] = Unreported]

\* editor_run up to its loop: a note that cannot be read counts as a new one.
Open(p) ==
  /\ path = Closed
  /\ \E r \in ReadResults(files[p], EDITOR_CAP) :
       /\ Call(ReadDone(files[p], EDITOR_CAP), r)
       /\ text' = r.text
       /\ seen' = r.text
       /\ loaded_existing' = r.ok
  /\ path' = p
  /\ UNCHANGED <<files, destructive_change, save_confirmed, dirty, saving, consent, forced,
                 reported>>

\* Mutant of NoteBootstrap: the note is seeded without looking for it first.
NoteBootstrapAlways(p) ==
  /\ path = Closed
  /\ \E w \in WriteResults(files[p], <<Seed>>) : WriteTo(p, <<Seed>>, w)
  /\ UNCHANGED <<editor, session>>

\* note_bootstrap_if_missing: a note that cannot be read is written anew. What
\* the comparison that follows finds decides only whether the editor opens.
NoteBootstrap(p) ==
  /\ path = Closed
  /\ \/ files[p] = NoFile
        /\ \E w \in WriteResults(files[p], <<Seed>>) : WriteTo(p, <<Seed>>, w)
     \/ /\ files[p] # NoFile /\ faults < MAX_FAULTS
        /\ faults' = faults + 1
        /\ \E w \in WriteResults(files[p], <<Seed>>) : files' = [files EXCEPT ![p] = w.file]
        /\ reported' = [reported EXCEPT ![p] = Unreported]
  /\ UNCHANGED <<editor, session>>

-----------------------------------------------------------------------------
(* The loop of editor_run *)

\* Mutant of Type: the capacity is not looked at.
TypeUnbounded(line) ==
  /\ Editing /\ Len(text) < READ_CAP
  /\ text' = Append(text, line)
  /\ dirty' = TRUE
  /\ UNCHANGED <<files, path, loaded_existing, destructive_change, save_confirmed, saving,
                 session, reported, faults>>

\* editor_append_line: a full buffer refuses the line.
Type(line) ==
  /\ Editing /\ Len(text) < EDITOR_CAP
  /\ text' = Append(text, line)
  /\ dirty' = TRUE
  /\ UNCHANGED <<files, path, loaded_existing, destructive_change, save_confirmed, saving,
                 session, reported, faults>>

\* Mutant of Clear: a confirmation given before still counts.
ClearKeepsConfirmation ==
  /\ Editing
  /\ text' = <<>>
  /\ destructive_change' = TRUE /\ dirty' = TRUE
  /\ consent' = FALSE
  /\ UNCHANGED <<files, path, loaded_existing, save_confirmed, saving, forced, seen,
                 reported, faults>>

\* .clear, and .replace which differs in the prompt it leaves behind.
Clear ==
  /\ Editing
  /\ text' = <<>>
  /\ destructive_change' = TRUE /\ save_confirmed' = FALSE /\ dirty' = TRUE
  /\ consent' = FALSE
  /\ UNCHANGED <<files, path, loaded_existing, saving, forced, seen, reported, faults>>

Confirm ==
  /\ Editing
  /\ save_confirmed' = TRUE
  /\ consent' = TRUE
  /\ UNCHANGED <<files, path, text, loaded_existing, destructive_change, dirty, saving,
                 forced, seen, reported, faults>>

Refused == loaded_existing /\ destructive_change /\ ~save_confirmed

\* Mutant of SaveTo: the dirty flag is cleared before the comparison.
SaveToCleansEarly(target, force, exits) ==
  /\ Editing /\ (force \/ ~Refused)
  /\ forced' = (forced \/ force)
  /\ \E r \in WriteResults(files[target], text) :
       /\ WriteTo(target, text, r)
       /\ saving' = IF r.ok THEN [path |-> target, exits |-> exits] ELSE NotSaving
       /\ dirty' = IF r.ok THEN FALSE ELSE dirty
  /\ UNCHANGED <<path, text, loaded_existing, destructive_change, save_confirmed,
                 consent, seen>>

\* editor_save_to_path up to the read: refused, or the text is written.
SaveTo(target, force, exits) ==
  /\ Editing /\ (force \/ ~Refused)
  /\ forced' = (forced \/ force)
  /\ \E r \in WriteResults(files[target], text) :
       /\ WriteTo(target, text, r)
       /\ saving' = IF r.ok THEN [path |-> target, exits |-> exits] ELSE NotSaving
  /\ UNCHANGED <<path, text, loaded_existing, destructive_change, save_confirmed, dirty,
                 consent, seen>>

Save        == SaveTo(path, FALSE, FALSE)     \* .save
ForcedSave  == SaveTo(path, TRUE, FALSE)      \* .save!
SaveAndQuit == SaveTo(path, FALSE, TRUE)      \* .wq
SaveAs(p)   == SaveTo(p, TRUE, TRUE)          \* .saveas: forced, also onto a note that exists

\* Mutant of Compare: it is enough that the file can be read.
CompareReadsOnly ==
  /\ saving # NotSaving
  /\ \E r \in ReadResults(files[saving.path], READ_CAP) :
       /\ Call(ReadDone(files[saving.path], READ_CAP), r)
       /\ IF r.ok
          THEN /\ reported' = [reported EXCEPT ![saving.path] = text]
               /\ IF saving.exits
                  THEN Leave
                  ELSE /\ dirty' = FALSE /\ saving' = NotSaving /\ seen' = text
                       /\ UNCHANGED <<path, text, loaded_existing, destructive_change,
                                      save_confirmed, consent, forced>>
          ELSE /\ saving' = NotSaving
               /\ UNCHANGED <<path, text, loaded_existing, destructive_change,
                              save_confirmed, dirty, session, reported>>
  /\ UNCHANGED files

\* The rest of editor_save_to_path: only a text that reads back as it is in the
\* buffer is reported as saved.
Compare ==
  /\ saving # NotSaving
  /\ \E r \in ReadResults(files[saving.path], READ_CAP) :
       /\ Call(ReadDone(files[saving.path], READ_CAP), r)
       /\ IF r.ok /\ r.text = text
          THEN /\ reported' = [reported EXCEPT ![saving.path] = text]
               /\ IF saving.exits
                  THEN Leave
                  ELSE /\ dirty' = FALSE /\ saving' = NotSaving /\ seen' = text
                       /\ UNCHANGED <<path, text, loaded_existing, destructive_change,
                                      save_confirmed, consent, forced>>
          ELSE /\ saving' = NotSaving
               /\ UNCHANGED <<path, text, loaded_existing, destructive_change,
                              save_confirmed, dirty, session, reported>>
  /\ UNCHANGED files

\* .exit, .quit, .cancel, a bare "exit", or the input is closed.
Quit ==
  /\ Editing
  /\ Leave
  /\ UNCHANGED <<files, reported, faults>>

-----------------------------------------------------------------------------
(* Power is lost, in the middle of a write or not; the machine boots again. *)
PowerLoss ==
  /\ faults < MAX_FAULTS /\ faults' = faults + 1
  /\ Leave
  /\ \/ UNCHANGED <<files, reported>>
     \/ \E p \in Path : \E f \in WriteCutOff(files[p], text) :
          /\ Editing
          /\ p # path \/ ~Refused
          /\ files' = [files EXCEPT ![p] = f]
          /\ reported' = [reported EXCEPT ![p] = Unreported]

Next ==
  \/ \E p \in Path : Open(p) \/ NoteBootstrap(p) \/ SaveAs(p)
  \/ \E line \in Line : Type(line)
  \/ Clear \/ Confirm
  \/ Save \/ ForcedSave \/ SaveAndQuit
  \/ Compare
  \/ Quit
  \/ PowerLoss

Spec == Init /\ [][Next]_vars

-----------------------------------------------------------------------------
(* What must hold *)

\* Every variable stays in its domain.
TypeOK ==
  /\ files \in [Path -> {NoFile} \union Seq(Letter)]
  /\ path \in Path \union {Closed}
  /\ text \in Text /\ seen \in Text
  /\ loaded_existing \in BOOLEAN /\ destructive_change \in BOOLEAN
  /\ save_confirmed \in BOOLEAN /\ dirty \in BOOLEAN
  /\ consent \in BOOLEAN /\ forced \in BOOLEAN
  /\ saving \in {NotSaving} \union [path : Path, exits : BOOLEAN]
  /\ reported \in [Path -> {Unreported} \union Text]
  /\ faults \in 0..MAX_FAULTS

\* While no storage call fails, a session takes text away from a note it found
\* only with the consent of the operator: .confirm after the command that
\* destroyed the text, .save! or .saveas. A note that the session has made
\* itself is not protected. The buffer must hold the note: see NothingIsCutOff.
LossNeedsConsent ==
  [][faults' = 0 =>
       \A p \in Path :
         files[p] # NoFile /\ Size(files[p]) <= EDITOR_CAP =>
           \/ files'[p] # NoFile /\ IsPrefix(files[p], files'[p])
           \/ path # Closed /\ (consent \/ forced' \/ ~loaded_existing)]_vars

\* A note that was reported as saved is on the medium, word for word, until it
\* is written again, however the storage has misbehaved.
ReportedIsStored ==
  \A p \in Path : reported[p] # Unreported => files[p] = reported[p]

\* The editor warns before it drops lines it has not seen on the medium: without
\* the dirty flag the buffer is the text it loaded or the text it last read back,
\* through saves that were refused, failed or read back something else.
CleanIsSeen ==
  path # Closed /\ ~dirty => text = seen

\* docs/storage/note-editor-safe-edit.md:43-46: "A normal .save will refuse until
\* the user runs .confirm [...] This prevents accidental loss of an existing note".
NothingIsCutOff ==
  [][faults' = 0 =>
       \A p \in Path :
         files[p] # NoFile =>
           \/ files'[p] # NoFile /\ IsPrefix(files[p], files'[p])
           \/ path # Closed /\ (consent \/ forced' \/ ~loaded_existing)]_vars
=============================================================================
