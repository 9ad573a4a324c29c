-------------------------- MODULE NoteEditorProofs --------------------------
(***************************************************************************)
(* Proofs about NoteEditor, for any notes, any lines, any capacities with  *)
(* the buffer below what a save compares, and any number of faults.        *)
(***************************************************************************)
EXTENDS NoteEditor, TextStoreProofs

USE CapsAssumption, NotesAssumption

-----------------------------------------------------------------------------
(* Types *)

LEMMA TextIsSeq ==
  ASSUME NEW t \in Text
  PROVE  t \in Seq(Letter) /\ Len(t) \in Nat /\ Len(t) <= EDITOR_CAP
  BY LenProperties DEF Text

LEMMA EmptyText == <<>> \in Text
  BY EmptySeq DEF Text

LEMMA LineAdded ==
  ASSUME NEW t \in Text, NEW line \in Line, Len(t) < EDITOR_CAP
  PROVE  Append(t, line) \in Text
  <1>1. line \in Letter /\ t \in Seq(Letter) /\ Len(t) \in Nat
    BY TextIsSeq DEF Letter
  <1>2. Append(t, line) \in Seq(Letter) /\ Len(Append(t, line)) = Len(t) + 1
    BY <1>1, AppendProperties
  <1> QED
    BY <1>1, <1>2 DEF Text

\* What a call counts stays within the bound.
LEMMA CallType ==
  ASSUME NEW done, NEW r, Call(done, r), faults \in 0..MAX_FAULTS
  PROVE  faults' \in 0..MAX_FAULTS /\ (faults' = 0 => faults = 0 /\ r \in done)
  BY CostType DEF Call

\* A write changes one file, to a text or to nothing, and takes back its report.
LEMMA WriteToType ==
  ASSUME TypeOK, NEW p \in Path, NEW new \in Seq(Letter),
         NEW r \in WriteResults(files[p], new), WriteTo(p, new, r)
  PROVE  /\ files' \in [Path -> {NoFile} \union Seq(Letter)]
         /\ reported' \in [Path -> {Unreported} \union Text]
         /\ faults' \in 0..MAX_FAULTS
         /\ r.ok \in BOOLEAN
         /\ reported'[p] = Unreported
         /\ \A q \in Path : q # p => files'[q] = files[q] /\ reported'[q] = reported[q]
         /\ faults' = 0 => faults = 0 /\ files'[p] = new
  <1>1. files[p] \in Seq(Letter) \union {NoFile}
    BY DEF TypeOK
  <1>2. r.ok \in BOOLEAN /\ r.file \in Seq(Letter) \union {NoFile}
    BY <1>1, WriteType
  <1>3. faults' \in 0..MAX_FAULTS /\ (faults' = 0 => faults = 0 /\ r \in WriteDone(new))
    BY CallType DEF WriteTo, TypeOK
  <1>4. r \in WriteDone(new) => r.file = new
    BY DEF WriteDone
  <1> QED
    BY <1>2, <1>3, <1>4 DEF WriteTo, TypeOK

\* Leaving the editor forgets the session.
LEMMA LeaveType ==
  ASSUME Leave
  PROVE  /\ path' \in Path \union {Closed} /\ text' \in Text /\ seen' \in Text
         /\ loaded_existing' \in BOOLEAN /\ destructive_change' \in BOOLEAN
         /\ save_confirmed' \in BOOLEAN /\ dirty' \in BOOLEAN
         /\ consent' \in BOOLEAN /\ forced' \in BOOLEAN
         /\ saving' \in {NotSaving} \union [path : Path, exits : BOOLEAN]
  BY EmptyText DEF Leave

\* editor_save_to_path up to the read keeps the types.
LEMMA SaveToType ==
  ASSUME TypeOK, NEW p \in Path, NEW force \in BOOLEAN, NEW exits \in BOOLEAN,
         SaveTo(p, force, exits)
  PROVE  TypeOK'
  <1>1. PICK r \in WriteResults(files[p], text) :
          /\ WriteTo(p, text, r)
          /\ saving' = IF r.ok THEN [path |-> p, exits |-> exits] ELSE NotSaving
    BY DEF SaveTo
  <1>2. text \in Seq(Letter)
    BY TextIsSeq DEF TypeOK
  <1>3. /\ files' \in [Path -> {NoFile} \union Seq(Letter)]
        /\ reported' \in [Path -> {Unreported} \union Text]
        /\ faults' \in 0..MAX_FAULTS
    BY <1>1, <1>2, WriteToType
  <1>4. saving' \in {NotSaving} \union [path : Path, exits : BOOLEAN]
    BY <1>1
  <1>5. forced' \in BOOLEAN
    BY DEF SaveTo, TypeOK
  <1> QED
    BY <1>3, <1>4, <1>5 DEF SaveTo, TypeOK

LEMMA BootstrapWrites ==
  ASSUME NEW p \in Path, NoteBootstrap(p)
  PROVE  \E w \in WriteResults(files[p], <<Seed>>) :
           /\ files' = [files EXCEPT ![p] = w.file]
           /\ reported' = [reported EXCEPT ![p] = Unreported]
  BY DEF NoteBootstrap, WriteTo

LEMMA TypeInvariance ==
  ASSUME TypeOK, [Next]_vars
  PROVE  TypeOK'
  <1>1. ASSUME NEW p \in Path, Open(p) PROVE TypeOK'
    <2>1. PICK r \in ReadResults(files[p], EDITOR_CAP) :
            /\ Call(ReadDone(files[p], EDITOR_CAP), r)
            /\ text' = r.text /\ seen' = r.text /\ loaded_existing' = r.ok
      BY <1>1 DEF Open
    <2>2. files[p] \in Seq(Letter) \union {NoFile}
      BY DEF TypeOK
    <2>3. r.ok \in BOOLEAN /\ r.text \in Seq(Letter) /\ Len(r.text) <= EDITOR_CAP
      BY <2>2, ReadType
    <2>4. faults' \in 0..MAX_FAULTS
      BY <2>1, CallType DEF TypeOK
    <2> QED
      BY <1>1, <2>1, <2>3, <2>4 DEF Open, TypeOK, Text
  <1>2. ASSUME NEW p \in Path, NoteBootstrap(p) PROVE TypeOK'
    <2>1. PICK w \in WriteResults(files[p], <<Seed>>) :
            /\ files' = [files EXCEPT ![p] = w.file]
            /\ reported' = [reported EXCEPT ![p] = Unreported]
      BY <1>2, BootstrapWrites
    <2>2. files[p] \in Seq(Letter) \union {NoFile} /\ <<Seed>> \in Seq(Letter)
      BY DEF TypeOK, Letter
    <2>3. w.file \in {NoFile} \union Seq(Letter)
      BY <2>2, WriteType
    <2>4. faults' \in 0..MAX_FAULTS
      <3>1. ASSUME NEW v, WriteTo(p, <<Seed>>, v) PROVE faults' \in 0..MAX_FAULTS
        BY <3>1, CallType DEF WriteTo, TypeOK
      <3> QED
        BY <1>2, <3>1 DEF NoteBootstrap, TypeOK
    <2> QED
      BY <1>2, <2>1, <2>3, <2>4 DEF NoteBootstrap, TypeOK, editor, session
  <1>3. ASSUME NEW p \in Path, SaveAs(p) PROVE TypeOK'
    BY <1>3, SaveToType DEF SaveAs
  <1>4. ASSUME NEW line \in Line, Type(line) PROVE TypeOK'
    BY <1>4, LineAdded DEF Type, TypeOK, session
  <1>5. CASE Clear
    BY <1>5, EmptyText DEF Clear, TypeOK
  <1>6. CASE Confirm
    BY <1>6 DEF Confirm, TypeOK
  <1>7. CASE Save \/ ForcedSave \/ SaveAndQuit
    <2>1. path \in Path
      BY <1>7 DEF Save, ForcedSave, SaveAndQuit, SaveTo, Editing, TypeOK
    <2> QED
      BY <1>7, <2>1, SaveToType DEF Save, ForcedSave, SaveAndQuit
  <1>8. CASE Compare
    <2>1. saving.path \in Path
      BY <1>8 DEF Compare, TypeOK
    <2>2. PICK r \in ReadResults(files[saving.path], READ_CAP) :
            Call(ReadDone(files[saving.path], READ_CAP), r)
      BY <1>8 DEF Compare
    <2>3. faults' \in 0..MAX_FAULTS
      BY <2>2, CallType DEF TypeOK
    <2>4. reported' \in [Path -> {Unreported} \union Text] /\ files' = files
      BY <1>8, <2>1 DEF Compare, TypeOK
    <2>5. CASE Leave
      BY <2>3, <2>4, <2>5, LeaveType DEF TypeOK
    <2>6. CASE ~Leave
      BY <1>8, <2>3, <2>4, <2>6 DEF Compare, TypeOK, session
    <2> QED
      BY <2>5, <2>6
  <1>9. CASE Quit
    BY <1>9, LeaveType DEF Quit, TypeOK
  <1>10. CASE PowerLoss
    <2>1. /\ files' \in [Path -> {NoFile} \union Seq(Letter)]
          /\ reported' \in [Path -> {Unreported} \union Text]
      <3>1. CASE UNCHANGED <<files, reported>>
        BY <3>1 DEF TypeOK
      <3>2. ASSUME NEW p \in Path, NEW f \in WriteCutOff(files[p], text),
                   files' = [files EXCEPT ![p] = f],
                   reported' = [reported EXCEPT ![p] = Unreported]
            PROVE  /\ files' \in [Path -> {NoFile} \union Seq(Letter)]
                   /\ reported' \in [Path -> {Unreported} \union Text]
        <4>1. files[p] \in Seq(Letter) \union {NoFile} /\ text \in Seq(Letter)
          BY TextIsSeq DEF TypeOK
        <4>2. f \in {NoFile} \union Seq(Letter)
          BY <4>1, WriteCutOffType
        <4> QED
          BY <3>2, <4>2 DEF TypeOK
      <3> QED
        BY <1>10, <3>1, <3>2 DEF PowerLoss
    <2>2. faults' \in 0..MAX_FAULTS
      BY <1>10 DEF PowerLoss, TypeOK
    <2> QED
      BY <1>10, <2>1, <2>2, LeaveType DEF PowerLoss, TypeOK
  <1>11. CASE UNCHANGED vars
    BY <1>11 DEF vars, editor, session, TypeOK
  <1> QED
    BY <1>1, <1>2, <1>3, <1>4, <1>5, <1>6, <1>7, <1>8, <1>9, <1>10, <1>11 DEF Next

\* Every variable stays in its domain (the globals of editor.c).
THEOREM TypeCorrect == Spec => []TypeOK
  <1>1. Init => TypeOK
    <2> SUFFICES ASSUME Init PROVE TypeOK
      OBVIOUS
    <2>1. files \in [Path -> {NoFile} \union Seq(Letter)]
      BY DEF Init
    <2>2. reported \in [Path -> {Unreported} \union Text] /\ faults \in 0..MAX_FAULTS
      BY DEF Init
    <2> QED
      BY <2>1, <2>2, EmptyText DEF Init, TypeOK
  <1> QED
    BY <1>1, TypeInvariance, PTL DEF Spec

-----------------------------------------------------------------------------
(* What was reported as saved *)

\* A text that compares equal with what is read back is the file: the buffer of
\* the comparison is larger than any text of the editor.
LEMMA ComparedIsStored ==
  ASSUME TypeOK, NEW p \in Path, NEW r \in ReadResults(files[p], READ_CAP),
         r.ok, r.text = text
  PROVE  files[p] = text
  <1>1. files[p] \in Seq(Letter) \union {NoFile} /\ READ_CAP \in Nat
    BY DEF TypeOK
  <1>2. Len(text) < READ_CAP
    BY TextIsSeq DEF TypeOK
  <1> QED
    BY <1>1, <1>2, ShortReadIsWhole

LEMMA ReportedInvariance ==
  ASSUME TypeOK, ReportedIsStored, [Next]_vars
  PROVE  ReportedIsStored'
  <1> USE DEF ReportedIsStored
  <1>1. ASSUME NEW p \in Path, NEW force, NEW exits, SaveTo(p, force, exits)
        PROVE  ReportedIsStored'
    <2>1. PICK r \in WriteResults(files[p], text) : WriteTo(p, text, r)
      BY <1>1 DEF SaveTo
    <2> QED
      BY <2>1 DEF WriteTo, TypeOK
  <1>2. ASSUME NEW p \in Path, NoteBootstrap(p) PROVE ReportedIsStored'
    BY <1>2, BootstrapWrites DEF TypeOK
  <1>3. CASE Compare
    <2>1. saving.path \in Path /\ files' = files
      BY <1>3 DEF Compare, TypeOK
    <2>2. CASE reported' = reported
      BY <2>1, <2>2
    <2>3. CASE \E r \in ReadResults(files[saving.path], READ_CAP) :
                 /\ r.ok /\ r.text = text
                 /\ reported' = [reported EXCEPT ![saving.path] = text]
      BY <2>1, <2>3, ComparedIsStored DEF TypeOK
    <2> QED
      BY <1>3, <2>2, <2>3 DEF Compare
  <1>4. CASE PowerLoss
    BY <1>4 DEF PowerLoss, TypeOK
  <1>5. CASE UNCHANGED <<files, reported>>
    BY <1>5
  <1>6. ASSUME \/ \E p \in Path : Open(p)
               \/ \E line \in Line : Type(line)
               \/ Clear \/ Confirm \/ Quit \/ UNCHANGED vars
        PROVE  UNCHANGED <<files, reported>>
    BY <1>6 DEF Open, Type, Clear, Confirm, Quit, vars
  <1>7. ASSUME Save \/ ForcedSave \/ SaveAndQuit PROVE ReportedIsStored'
    <2>1. path \in Path
      BY <1>7 DEF Save, ForcedSave, SaveAndQuit, SaveTo, Editing, TypeOK
    <2> QED
      BY <1>1, <1>7, <2>1 DEF Save, ForcedSave, SaveAndQuit
  <1> QED
    BY <1>1, <1>2, <1>3, <1>4, <1>5, <1>6, <1>7 DEF Next, SaveAs

\* A note that was reported as saved is on the medium until it is written again
\* (editor_save_to_path), whatever the storage did.
THEOREM AlwaysStored == Spec => []ReportedIsStored
  <1>1. Init => ReportedIsStored
    BY DEF Init, ReportedIsStored
  <1> QED
    BY <1>1, ReportedInvariance, TypeCorrect, PTL DEF Spec

-----------------------------------------------------------------------------
(* The dirty flag *)

LEMMA CleanInvariance ==
  ASSUME TypeOK, CleanIsSeen, [Next]_vars
  PROVE  CleanIsSeen'
  <1> USE DEF CleanIsSeen
  <1>1. ASSUME NEW p \in Path, Open(p) PROVE CleanIsSeen'
    BY <1>1 DEF Open
  <1>2. ASSUME NEW line \in Line, Type(line) PROVE CleanIsSeen'
    BY <1>2 DEF Type
  <1>3. CASE Clear
    BY <1>3 DEF Clear
  <1>4. CASE Compare
    BY <1>4 DEF Compare, Leave, session
  <1>5. CASE Leave
    BY <1>5 DEF Leave
  <1>6. ASSUME NEW p, NEW force, NEW exits, SaveTo(p, force, exits) PROVE CleanIsSeen'
    BY <1>6 DEF SaveTo
  <1>7. CASE UNCHANGED <<path, text, dirty, seen>>
    BY <1>7
  <1> QED
    BY <1>1, <1>2, <1>3, <1>4, <1>5, <1>6, <1>7 DEF Next, NoteBootstrap, SaveAs, Confirm,
       Save, ForcedSave, SaveAndQuit, Quit, PowerLoss, vars, editor, session

\* Without the dirty flag the buffer is what this session last read from the note
\* (editor_save_to_path clears the flag only after the comparison).
THEOREM AlwaysClean == Spec => []CleanIsSeen
  <1>1. Init => CleanIsSeen
    BY DEF Init, CleanIsSeen
  <1> QED
    BY <1>1, CleanInvariance, TypeCorrect, PTL DEF Spec

-----------------------------------------------------------------------------
(* No loss without consent *)

\* Between sessions no flag is set.
FlagsDown ==
  path = Closed => /\ ~loaded_existing /\ ~destructive_change /\ ~save_confirmed
                   /\ ~consent /\ ~forced /\ saving = NotSaving

\* The confirmation the editor remembers is the operator's.
ConfirmedIsConsent == save_confirmed => consent

\* A note that was loaded whole is extended, not changed, while nothing
\* destructive has been done.
BufferExtendsNote ==
  /\ faults = 0 /\ path # Closed /\ loaded_existing /\ ~destructive_change
  /\ Size(files[path]) <= EDITOR_CAP
  => files[path] # NoFile /\ IsPrefix(files[path], text)

ConsentInv == FlagsDown /\ ConfirmedIsConsent /\ BufferExtendsNote

LEMMA FlagsInvariance ==
  ASSUME TypeOK, FlagsDown, ConfirmedIsConsent, [Next]_vars
  PROVE  FlagsDown' /\ ConfirmedIsConsent'
  <1> USE DEF FlagsDown, ConfirmedIsConsent
  <1>1. ASSUME NEW p \in Path, Open(p) PROVE FlagsDown' /\ ConfirmedIsConsent'
    BY <1>1 DEF Open
  <1>2. CASE Compare
    BY <1>2 DEF Compare, Leave, session
  <1>3. CASE Leave
    BY <1>3 DEF Leave
  <1>4. ASSUME NEW p, NEW force, NEW exits, SaveTo(p, force, exits)
        PROVE  FlagsDown' /\ ConfirmedIsConsent'
    BY <1>4 DEF SaveTo, Editing
  <1>5. CASE \/ \E line \in Line : Type(line)
             \/ Clear \/ Confirm
    BY <1>5 DEF Type, Clear, Confirm, Editing, session
  <1>6. CASE UNCHANGED <<editor, session>>
    BY <1>6 DEF editor, session
  <1> QED
    BY <1>1, <1>2, <1>3, <1>4, <1>5, <1>6 DEF Next, NoteBootstrap, SaveAs,
       Save, ForcedSave, SaveAndQuit, Quit, PowerLoss, vars

\* A save that is not forced passes the refusal only if the note was not loaded,
\* nothing destructive was done, or the operator confirmed it.
LEMMA SaveWrites ==
  ASSUME TypeOK, NEW p \in Path, NEW force \in BOOLEAN, NEW exits,
         SaveTo(p, force, exits), faults' = 0
  PROVE  /\ faults = 0 /\ files'[p] = text
         /\ \A q \in Path : q # p => files'[q] = files[q]
         /\ text \in Seq(Letter)
         /\ force => forced'
         /\ force \/ ~Refused
         /\ path # Closed
  <1>1. PICK r \in WriteResults(files[p], text) : WriteTo(p, text, r)
    BY DEF SaveTo
  <1>2. text \in Seq(Letter)
    BY TextIsSeq DEF TypeOK
  <1>3. faults = 0 /\ files'[p] = text /\ \A q \in Path : q # p => files'[q] = files[q]
    BY <1>1, <1>2, WriteToType
  <1> QED
    BY <1>2, <1>3 DEF SaveTo, Editing

LEMMA ExtendsInvariance ==
  ASSUME TypeOK, FlagsDown, BufferExtendsNote, [Next]_vars
  PROVE  BufferExtendsNote'
  <1> SUFFICES ASSUME faults' = 0, path' # Closed, loaded_existing', ~destructive_change',
                      Size(files'[path']) <= EDITOR_CAP
               PROVE  files'[path'] # NoFile /\ IsPrefix(files'[path'], text')
    BY DEF BufferExtendsNote
  <1> USE DEF BufferExtendsNote
  <1>1. ASSUME NEW p \in Path, Open(p)
        PROVE  files'[path'] # NoFile /\ IsPrefix(files'[path'], text')
    <2>1. PICK r \in ReadResults(files[p], EDITOR_CAP) :
            /\ Call(ReadDone(files[p], EDITOR_CAP), r)
            /\ text' = r.text /\ loaded_existing' = r.ok
      BY <1>1 DEF Open
    <2>2. r \in ReadDone(files[p], EDITOR_CAP) /\ path' = p /\ files' = files
      BY <1>1, <2>1, CallType DEF Open, TypeOK
    <2>3. files[p] # NoFile
      <3>1. r.ok
        BY <2>1
      <3> QED
        BY <2>2, <3>1 DEF ReadDone
    <2>5. files[p] \in Seq(Letter) /\ Len(files[p]) <= EDITOR_CAP
      BY <2>2, <2>3 DEF TypeOK, Size
    <2>4. r.text = files[p]
      BY <2>2, <2>3, <2>5, ReadDoneText
    <2> QED
      BY <2>1, <2>2, <2>3, <2>4, <2>5, PrefixIsReflexive
  <1>2. ASSUME NEW line \in Line, Type(line)
        PROVE  files'[path'] # NoFile /\ IsPrefix(files'[path'], text')
    <2>1. /\ files' = files /\ path' = path /\ text' = Append(text, line)
          /\ faults = 0 /\ loaded_existing /\ ~destructive_change
      BY <1>2 DEF Type, session
    <2>2. files[path] # NoFile /\ IsPrefix(files[path], text)
      BY <2>1
    <2>3. files[path] \in Seq(Letter) /\ text \in Seq(Letter) /\ line \in Letter
      BY <1>2, <2>1, <2>2, TextIsSeq DEF TypeOK, Letter
    <2> QED
      BY <2>1, <2>2, <2>3, PrefixOfAppend
  <1>3. ASSUME NEW p \in Path, NEW force \in BOOLEAN, NEW exits, SaveTo(p, force, exits)
        PROVE  files'[path'] # NoFile /\ IsPrefix(files'[path'], text')
    <2>1. /\ path' = path /\ text' = text /\ loaded_existing /\ ~destructive_change
          /\ path \in Path
      BY <1>3 DEF SaveTo, TypeOK
    <2>2. /\ faults = 0 /\ files'[p] = text /\ text \in Seq(Letter)
          /\ \A q \in Path : q # p => files'[q] = files[q]
      BY <1>3, SaveWrites
    <2>3. CASE p = path
      <3>1. text # NoFile
        BY <2>2
      <3> QED
        BY <2>1, <2>2, <2>3, <3>1, PrefixIsReflexive
    <2>4. CASE p # path
      BY <2>1, <2>2, <2>4
    <2> QED
      BY <2>3, <2>4
  <1>4. ASSUME Save \/ ForcedSave \/ SaveAndQuit
        PROVE  files'[path'] # NoFile /\ IsPrefix(files'[path'], text')
    <2>1. path \in Path
      BY <1>4 DEF Save, ForcedSave, SaveAndQuit, SaveTo, Editing, TypeOK
    <2> QED
      BY <1>3, <1>4, <2>1 DEF Save, ForcedSave, SaveAndQuit
  <1>5. CASE Compare /\ ~Leave
    <2>1. /\ UNCHANGED <<files, path, text, loaded_existing, destructive_change>>
          /\ \E r \in ReadResults(files[saving.path], READ_CAP) :
               Call(ReadDone(files[saving.path], READ_CAP), r)
      BY <1>5 DEF Compare
    <2>2. faults = 0
      BY <2>1, CallType DEF TypeOK
    <2> QED
      BY <2>1, <2>2
  <1>6. CASE Leave \/ (\E p \in Path : NoteBootstrap(p)) \/ Clear
    BY <1>6 DEF Leave, Clear, NoteBootstrap, editor
  <1>7. CASE UNCHANGED <<files, path, text, loaded_existing, destructive_change, faults>>
    BY <1>7
  <1> QED
    BY <1>1, <1>2, <1>3, <1>4, <1>5, <1>6, <1>7 DEF Next, SaveAs, Confirm, Quit,
       PowerLoss, vars, editor, session

LEMMA ConsentInvariant == Spec => [](TypeOK /\ ConsentInv)
  <1>1. Init => ConsentInv
    BY DEF Init, ConsentInv, FlagsDown, ConfirmedIsConsent, BufferExtendsNote
  <1>2. TypeOK /\ ConsentInv /\ [Next]_vars => ConsentInv'
    BY FlagsInvariance, ExtendsInvariance DEF ConsentInv
  <1> QED
    BY <1>1, <1>2, TypeCorrect, PTL DEF Spec

\* What LossNeedsConsent says of a step.
NoLoss ==
  faults' = 0 =>
    \A p \in Path :
      files[p] # NoFile /\ Size(files[p]) <= EDITOR_CAP =>
        \/ files'[p] # NoFile /\ IsPrefix(files[p], files'[p])
        \/ path # Closed /\ (consent \/ forced' \/ ~loaded_existing)

LEMMA StepLosesNothing ==
  ASSUME TypeOK, ConsentInv, [Next]_vars
  PROVE  NoLoss
  <1> SUFFICES ASSUME faults' = 0, NEW p \in Path, files[p] # NoFile,
                      Size(files[p]) <= EDITOR_CAP
               PROVE  \/ files'[p] # NoFile /\ IsPrefix(files[p], files'[p])
                      \/ path # Closed /\ (consent \/ forced' \/ ~loaded_existing)
    BY DEF NoLoss
  <1> DEFINE Kept == files'[p] # NoFile /\ IsPrefix(files[p], files'[p])
             Agreed == path # Closed /\ (consent \/ forced' \/ ~loaded_existing)
  <1>1. files[p] \in Seq(Letter)
    BY DEF TypeOK
  <1>2. ASSUME files'[p] = files[p] PROVE Kept
    BY <1>1, <1>2, PrefixIsReflexive
  <1>3. ASSUME NEW q \in Path, NEW force \in BOOLEAN, NEW exits, SaveTo(q, force, exits),
               force \/ q = path
        PROVE  Kept \/ Agreed
    <2>1. /\ faults = 0 /\ files'[q] = text /\ text \in Seq(Letter)
          /\ \A o \in Path : o # q => files'[o] = files[o]
          /\ force => forced'
          /\ path # Closed
          /\ force \/ ~Refused
      BY <1>3, SaveWrites
    <2>2. CASE q # p
      BY <1>2, <2>1, <2>2
    <2>3. CASE force \/ ~loaded_existing \/ save_confirmed
      <3>1. forced' \/ ~loaded_existing \/ consent
        BY <2>1, <2>3, Zenon DEF ConsentInv, ConfirmedIsConsent
      <3> QED
        BY <2>1, <3>1, Zenon
    <2>4. CASE q = p /\ ~force /\ loaded_existing /\ ~save_confirmed
      <3>1. ~destructive_change /\ p = path
        BY <1>3, <2>1, <2>4 DEF Refused
      <3>2. IsPrefix(files[p], text)
        BY <2>1, <2>4, <3>1 DEF ConsentInv, BufferExtendsNote
      <3> QED
        BY <2>1, <2>4, <3>2, NotesAssumption
    <2> QED
      BY <2>2, <2>3, <2>4
  <1>4. ASSUME Save \/ ForcedSave \/ SaveAndQuit PROVE Kept \/ Agreed
    <2>1. path \in Path
      BY <1>4 DEF Save, ForcedSave, SaveAndQuit, SaveTo, Editing, TypeOK
    <2> QED
      BY <1>3, <1>4, <2>1 DEF Save, ForcedSave, SaveAndQuit
  <1>5. ASSUME NEW q \in Path, NoteBootstrap(q) PROVE Kept
    <2>1. faults' # faults + 1
      BY DEF TypeOK
    <2>2. files[q] = NoFile /\ \E w : files' = [files EXCEPT ![q] = w.file]
      BY <1>5, <2>1 DEF NoteBootstrap, WriteTo
    <2> QED
      BY <1>2, <2>2 DEF TypeOK
  <1>6. CASE PowerLoss
    BY <1>6 DEF PowerLoss, TypeOK
  <1>7. CASE UNCHANGED files
    BY <1>2, <1>7
  <1>8. CASE \E q \in Path : SaveAs(q)
    BY <1>3, <1>8 DEF SaveAs
  <1> QED
    BY <1>4, <1>5, <1>6, <1>7, <1>8
       DEF Next, Open, Type, Clear, Confirm, Compare, Quit, vars

\* While no storage call fails, a note loses text only with the consent of the
\* operator (editor_save_to_path and its refusal).
THEOREM LossOnlyWithConsent == Spec => LossNeedsConsent
  <1>1. TypeOK /\ ConsentInv /\ [Next]_vars => [NoLoss]_vars
    BY StepLosesNothing
  <1>2. Spec => [][NoLoss]_vars
    BY <1>1, ConsentInvariant, PTL DEF Spec
  <1> QED
    BY <1>2 DEF LossNeedsConsent, NoLoss
=============================================================================
