--------------------------- MODULE OperationProofs ---------------------------
(***************************************************************************)
(* Proofs about Operation and the journal it composes, for any capacities  *)
(* and any number of boots, events, reports and faults.                    *)
(***************************************************************************)
EXTENDS Operation, TextStoreProofs, FiniteSetTheorems

USE JournalBoundsAssumption, ReportsAssumption

LEMMA Bounds ==
  /\ JSONL_CAP \in Nat /\ TEXT_CAP \in Nat /\ READ_CAP \in Nat
  /\ MAX_BOOT \in Nat /\ MAX_SEQ \in Nat /\ MAX_FAULTS \in Nat
  /\ 1 <= JSONL_CAP /\ 1 <= TEXT_CAP /\ 2 <= READ_CAP /\ 1 <= MAX_SEQ
  OBVIOUS

-----------------------------------------------------------------------------
(* The journal: types *)

\* A file of the journal: records, or nothing.
JournalFile == Seq(Record) \union {NoFile}

LEMMA JournalFilesType ==
  JournalTypeOK => jsonl_file \in JournalFile /\ text_file \in JournalFile
  BY DEF JournalTypeOK, JournalFile

LEMMA JournalBooleans ==
  JournalTypeOK => /\ starting \in BOOLEAN /\ ok_jsonl \in BOOLEAN /\ active \in BOOLEAN
                   /\ truncated \in BOOLEAN /\ last_flush_ok \in BOOLEAN /\ calm \in BOOLEAN
  BY DEF JournalTypeOK

LEMMA JournalTypeFrom ==
  ASSUME jsonl_file' \in JournalFile, text_file' \in JournalFile, pc' \in Phase,
         starting' \in BOOLEAN, ok_jsonl' \in BOOLEAN, active' \in BOOLEAN,
         truncated' \in BOOLEAN, last_flush_ok' \in BOOLEAN, calm' \in BOOLEAN,
         seq' \in 0..MAX_SEQ,
         jsonl' \in Seq(Record), Len(jsonl') <= JSONL_CAP,
         text' \in Seq(Record), Len(text') <= TEXT_CAP,
         boot' \in 0..MAX_BOOT, faults' \in 0..MAX_FAULTS
  PROVE  JournalTypeOK'
  BY DEF JournalTypeOK, JournalFile

LEMMA SpendType ==
  ASSUME JournalTypeOK, NEW n \in Nat, Spend(n)
  PROVE  faults' \in 0..MAX_FAULTS
  BY DEF JournalTypeOK, Spend

\* A record goes to the end of a buffer, if there is room for it.
LEMMA IntoRoom ==
  ASSUME NEW b \in Seq(Record), NEW cap \in Nat, Len(b) < cap, NEW r \in Record
  PROVE  /\ Into(b, cap, r) \in Seq(Record)
         /\ Len(Into(b, cap, r)) = Len(b) + 1
         /\ Into(b, cap, r)[Len(b) + 1] = r
         /\ \A i \in 1..Len(b) : Into(b, cap, r)[i] = b[i]
  <1>1. Len(b) \in Nat
    BY LenProperties
  <1>2. Into(b, cap, r) = Append(b, r)
    BY DEF Into
  <1>3. /\ Append(b, r) \in Seq(Record) /\ Len(Append(b, r)) = Len(b) + 1
        /\ Append(b, r)[Len(b) + 1] = r
        /\ \A i \in 1..Len(b) : Append(b, r)[i] = b[i]
    BY <1>1, AppendProperties
  <1> QED
    BY <1>2, <1>3

LEMMA IntoType ==
  ASSUME NEW b \in Seq(Record), NEW cap \in Nat, Len(b) <= cap, NEW r \in Record
  PROVE  /\ Into(b, cap, r) \in Seq(Record) /\ Len(Into(b, cap, r)) <= cap
         /\ Len(b) <= Len(Into(b, cap, r))
  <1>1. Len(b) \in Nat
    BY LenProperties
  <1>2. CASE Len(b) < cap
    BY <1>1, <1>2, IntoRoom
  <1>3. CASE ~(Len(b) < cap)
    BY <1>1, <1>3 DEF Into
  <1> QED
    BY <1>2, <1>3

LEMMA StartJournalType ==
  ASSUME JournalTypeOK, NEW verified \in BOOLEAN, StartJournal(verified)
  PROVE  JournalTypeOK'
  <1>1. /\ boot' \in 1..MAX_BOOT /\ UNCHANGED <<jsonl_file, text_file, ok_jsonl, faults>>
        /\ pc' \in Phase
    BY DEF StartJournal, JournalTypeOK, journal_files, Phase
  <1>2. /\ jsonl' \in Seq(Record) /\ Len(jsonl') <= JSONL_CAP
        /\ text' \in Seq(Record) /\ Len(text') <= TEXT_CAP /\ seq' \in 0..MAX_SEQ
    <2>1. CASE verified
      <3> DEFINE r == [boot |-> boot', seq |-> 1]
      <3>1. r \in Record
        BY <1>1 DEF Record
      <3>2. seq' = 1 /\ jsonl' = Into(<<>>, JSONL_CAP, r) /\ text' = Into(<<>>, TEXT_CAP, r)
        BY <2>1 DEF StartJournal, Added
      <3> HIDE DEF r
      <3>3. <<>> \in Seq(Record) /\ Len(<<>>) = 0
        BY EmptySeq
      <3>4. /\ Into(<<>>, JSONL_CAP, r) \in Seq(Record) /\ Len(Into(<<>>, JSONL_CAP, r)) <= JSONL_CAP
            /\ Into(<<>>, TEXT_CAP, r) \in Seq(Record) /\ Len(Into(<<>>, TEXT_CAP, r)) <= TEXT_CAP
        <4> DEFINE none == <<>>
        <4>1. none \in Seq(Record) /\ Len(none) <= JSONL_CAP /\ Len(none) <= TEXT_CAP
          BY <3>3
        <4> HIDE DEF none
        <4>2. /\ Into(none, JSONL_CAP, r) \in Seq(Record) /\ Len(Into(none, JSONL_CAP, r)) <= JSONL_CAP
              /\ Into(none, TEXT_CAP, r) \in Seq(Record) /\ Len(Into(none, TEXT_CAP, r)) <= TEXT_CAP
          BY <3>1, <4>1, IntoType
        <4> QED
          BY <4>2 DEF none
      <3> QED
        BY <3>2, <3>4
    <2>2. CASE ~verified
      BY <2>2, EmptySeq DEF StartJournal
    <2> QED
      BY <2>1, <2>2
  <1>3. /\ starting' \in BOOLEAN /\ active' \in BOOLEAN /\ truncated' \in BOOLEAN
        /\ last_flush_ok' \in BOOLEAN /\ calm' \in BOOLEAN
    BY DEF StartJournal
  <1> QED
    BY <1>1, <1>2, <1>3, JournalTypeFrom, JournalFilesType, JournalBooleans DEF JournalTypeOK

\* What journal_add_event does to the buffers.
LEMMA AddedType ==
  ASSUME JournalTypeOK, AddEvent
  PROVE  /\ seq' = seq + 1 /\ seq' \in 1..MAX_SEQ
         /\ [boot |-> boot, seq |-> seq'] \in Record \/ boot = 0
         /\ boot # 0 =>
              /\ jsonl' = Into(jsonl, JSONL_CAP, [boot |-> boot, seq |-> seq'])
              /\ text' = Into(text, TEXT_CAP, [boot |-> boot, seq |-> seq'])
  BY DEF AddEvent, Added, JournalTypeOK, Record

LEMMA AddEventType ==
  ASSUME JournalTypeOK, boot # 0, AddEvent
  PROVE  JournalTypeOK'
  <1> DEFINE r == [boot |-> boot, seq |-> seq']
  <1>1. /\ UNCHANGED <<jsonl_file, text_file, starting, ok_jsonl, active, last_flush_ok, boot,
                       faults>>
        /\ pc' = "jsonl" /\ calm' = TRUE
    BY DEF AddEvent, journal_files
  <1>2. /\ seq' \in 0..MAX_SEQ /\ r \in Record
        /\ jsonl' = Into(jsonl, JSONL_CAP, r) /\ text' = Into(text, TEXT_CAP, r)
    BY AddedType
  <1> HIDE DEF r
  <1>3. /\ jsonl' \in Seq(Record) /\ Len(jsonl') <= JSONL_CAP
        /\ text' \in Seq(Record) /\ Len(text') <= TEXT_CAP
    BY <1>2, IntoType DEF JournalTypeOK
  <1>4. truncated' \in BOOLEAN
    BY DEF AddEvent
  <1>5. pc' \in Phase /\ calm' \in BOOLEAN
    BY <1>1 DEF Phase
  <1> QED
    BY <1>1, <1>2, <1>3, <1>4, <1>5, JournalTypeFrom, JournalFilesType, JournalBooleans
      DEF JournalTypeOK

LEMMA FlushType ==
  ASSUME JournalTypeOK, Flush
  PROVE  JournalTypeOK'
  <1>1. UNCHANGED <<jsonl_file, text_file, starting, ok_jsonl, active, last_flush_ok, truncated,
                    seq, jsonl, text, boot, faults>>
    BY DEF Flush, journal_files, journal_buffers
  <1>2. pc' \in Phase /\ calm' \in BOOLEAN
    BY DEF Flush, Phase
  <1> QED
    BY <1>1, <1>2, JournalTypeFrom, JournalFilesType, JournalBooleans DEF JournalTypeOK

LEMMA FlushedType ==
  ASSUME JournalTypeOK, NEW ok \in BOOLEAN, Flushed(ok)
  PROVE  /\ pc' \in Phase /\ starting' \in BOOLEAN /\ active' \in BOOLEAN
         /\ last_flush_ok' \in BOOLEAN /\ ok_jsonl' \in BOOLEAN
         /\ UNCHANGED <<truncated, seq, jsonl, text, boot>>
  BY JournalBooleans DEF Flushed, journal_buffers, Phase

\* One write of a file of the journal.
LEMMA JournalWriteType ==
  ASSUME NEW old \in JournalFile, NEW new \in Seq(Record), NEW r \in WriteResults(old, new)
  PROVE  /\ r.file \in JournalFile /\ r.ok \in BOOLEAN
         /\ r \in WriteDone(new) => r.ok /\ r.file = new
         /\ Size(old) <= Len(new) => Size(r.file) <= Len(new)
  <1> HIDE DEF Record
  <1>1. r.file \in JournalFile /\ r.ok \in BOOLEAN
    BY WriteType DEF JournalFile
  <1>2. r \in WriteDone(new) => r.ok /\ r.file = new
    BY DEF WriteDone
  <1>3. Size(old) <= Len(new) => Size(r.file) <= Len(new)
    BY WriteLeaves, WriteCovers DEF JournalFile
  <1> QED
    BY <1>1, <1>2, <1>3

LEMMA WriteJsonlType ==
  ASSUME JournalTypeOK, WriteJsonl
  PROVE  JournalTypeOK'
  <1>1. PICK r \in WriteResults(jsonl_file, jsonl) :
          /\ Spend(Cost(r, WriteDone(jsonl)))
          /\ calm' = (calm /\ r \in WriteDone(jsonl))
          /\ jsonl_file' = r.file
          /\ ok_jsonl' = JsonlOk(r)
    BY DEF WriteJsonl
  <1>2. r.file \in JournalFile /\ r.ok \in BOOLEAN
    BY JournalFilesType, JournalWriteType DEF JournalTypeOK
  <1>3. faults' \in 0..MAX_FAULTS
    BY <1>1, CostType, SpendType
  <1>4. UNCHANGED <<text_file, starting, active, last_flush_ok, truncated, seq, jsonl, text, boot>>
    BY DEF WriteJsonl, journal_buffers
  <1>5. pc' \in Phase /\ calm' \in BOOLEAN
    BY <1>1 DEF WriteJsonl, Phase
  <1>6. ok_jsonl' \in BOOLEAN
    BY <1>1, <1>2 DEF JsonlOk
  <1> QED
    BY <1>1, <1>2, <1>3, <1>4, <1>5, <1>6, JournalTypeFrom, JournalFilesType, JournalBooleans
      DEF JournalTypeOK

LEMMA WriteTextType ==
  ASSUME JournalTypeOK, WriteText
  PROVE  JournalTypeOK'
  <1>1. PICK r \in WriteResults(text_file, text) :
          /\ Spend(Cost(r, WriteDone(text)))
          /\ calm' = (calm /\ r \in WriteDone(text))
          /\ text_file' = r.file
          /\ IF ok_jsonl /\ r.ok
             THEN /\ pc' = "compare"
                  /\ UNCHANGED <<starting, ok_jsonl, active, last_flush_ok, journal_buffers, boot>>
             ELSE Flushed(FALSE)
    BY DEF WriteText
  <1>2. r.file \in JournalFile
    BY JournalFilesType, JournalWriteType DEF JournalTypeOK
  <1>3. faults' \in 0..MAX_FAULTS /\ calm' \in BOOLEAN /\ UNCHANGED jsonl_file
    BY <1>1, CostType, SpendType DEF WriteText
  <1>4. /\ pc' \in Phase /\ starting' \in BOOLEAN /\ active' \in BOOLEAN
        /\ last_flush_ok' \in BOOLEAN /\ ok_jsonl' \in BOOLEAN
        /\ UNCHANGED <<truncated, seq, jsonl, text, boot>>
    BY <1>1, FlushedType, JournalBooleans DEF journal_buffers, Phase
  <1> QED
    BY <1>1, <1>2, <1>3, <1>4, JournalTypeFrom, JournalFilesType, JournalBooleans
      DEF JournalTypeOK

LEMMA CompareType ==
  ASSUME JournalTypeOK, Compare
  PROVE  JournalTypeOK'
  <1>1. PICK a \in ReadResults(jsonl_file, READ_CAP), b \in ReadResults(text_file, READ_CAP) :
          LET cost == Cost(a, ReadDone(jsonl_file, READ_CAP))
                        + Cost(b, ReadDone(text_file, READ_CAP))
          IN /\ Spend(cost)
             /\ calm' = (calm /\ cost = 0)
             /\ Flushed(Same(a, b))
    BY DEF Compare
  <1>2. /\ Cost(a, ReadDone(jsonl_file, READ_CAP)) \in {0, 1}
        /\ Cost(b, ReadDone(text_file, READ_CAP)) \in {0, 1}
    BY CostType
  <1>3. faults' \in 0..MAX_FAULTS
    BY <1>1, <1>2, SpendType
  <1>4. calm' \in BOOLEAN /\ Same(a, b) \in BOOLEAN
    BY <1>1 DEF Same
  <1>5. /\ pc' \in Phase /\ starting' \in BOOLEAN /\ active' \in BOOLEAN
        /\ last_flush_ok' \in BOOLEAN /\ ok_jsonl' \in BOOLEAN
        /\ UNCHANGED <<truncated, seq, jsonl, text, boot>>
    BY <1>1, <1>4, FlushedType
  <1>6. UNCHANGED <<jsonl_file, text_file>>
    BY DEF Compare, journal_files
  <1> QED
    BY <1>3, <1>4, <1>5, <1>6, JournalTypeFrom, JournalFilesType, JournalBooleans
      DEF JournalTypeOK

LEMMA StopJournalType ==
  ASSUME JournalTypeOK, StopJournal, jsonl_file' \in JournalFile, text_file' \in JournalFile,
         faults' \in 0..MAX_FAULTS
  PROVE  JournalTypeOK'
  <1>1. /\ pc' \in Phase /\ starting' \in BOOLEAN /\ ok_jsonl' \in BOOLEAN /\ active' \in BOOLEAN
        /\ truncated' \in BOOLEAN /\ last_flush_ok' \in BOOLEAN /\ calm' \in BOOLEAN
    BY DEF StopJournal, Phase
  <1>3. seq' \in 0..MAX_SEQ /\ jsonl' = <<>> /\ text' = <<>> /\ UNCHANGED boot
    BY DEF StopJournal
  <1>2. <<>> \in Seq(Record) /\ Len(<<>>) = 0
    BY EmptySeq
  <1> QED
    BY <1>1, <1>2, <1>3, JournalTypeFrom DEF JournalTypeOK

LEMMA CutJournalType ==
  ASSUME JournalTypeOK, CutJournal
  PROVE  JournalTypeOK'
  <1>1. StopJournal /\ faults' \in 0..MAX_FAULTS
    BY SpendType DEF CutJournal
  <1>2. jsonl_file' \in JournalFile /\ text_file' \in JournalFile
    <2>1. jsonl_file \in JournalFile /\ text_file \in JournalFile
      BY JournalFilesType
    <2>2. CASE jsonl_file' \in WriteCutOff(jsonl_file, jsonl) /\ UNCHANGED text_file
      BY <2>1, <2>2, WriteCutOffType DEF JournalTypeOK, JournalFile
    <2>3. CASE text_file' \in WriteCutOff(text_file, text) /\ UNCHANGED jsonl_file
      BY <2>1, <2>3, WriteCutOffType DEF JournalTypeOK, JournalFile
    <2> QED
      BY <2>2, <2>3 DEF CutJournal
  <1> QED
    BY <1>1, <1>2, StopJournalType

-----------------------------------------------------------------------------
(* The journal: what a flush relies on *)

\* A flush is under way only in an active journal. The one that starts the
\* journal writes a single record; from then on the files are no longer than
\* the buffers, because the first comparison has seen to it that nothing of an
\* older boot sticks out behind. The buffers lack nothing until they are full.
JournalOrder ==
  /\ pc = "off" => ~active
  /\ pc \in {"jsonl", "text", "compare"} => active
  /\ active => boot # 0
  /\ starting => pc \in {"jsonl", "text", "compare"} /\ Len(jsonl) = 1 /\ Len(text) = 1
  /\ active /\ ~starting => Size(jsonl_file) <= Len(jsonl) /\ Size(text_file) <= Len(text)
  /\ ~truncated => Numbered(jsonl) /\ Numbered(text)

\* What a flush that has met no fault has done so far.
Calmness ==
  /\ pc = "text" /\ calm => ok_jsonl /\ jsonl_file = jsonl
  /\ pc = "compare" /\ calm => jsonl_file = jsonl /\ text_file = text

JournalInv == JournalOrder /\ Calmness /\ FlushOkIsStored /\ FlushHeals

LEMMA BufferLengths ==
  JournalTypeOK => /\ Len(jsonl) \in Nat /\ Len(text) \in Nat
                   /\ Size(jsonl_file) \in Nat /\ Size(text_file) \in Nat
  BY LenProperties, JournalFilesType, SizeType DEF JournalTypeOK, JournalFile

LEMMA InitJournalInv == JournalInit => JournalTypeOK /\ JournalInv
  <1> SUFFICES ASSUME JournalInit PROVE JournalTypeOK /\ JournalInv
    OBVIOUS
  <1>1. <<>> \in Seq(Record) /\ Len(<<>>) = 0
    BY EmptySeq
  <1>2. JournalTypeOK
    <2>1. 0 \in 0..MAX_SEQ /\ 0 \in 0..MAX_BOOT /\ 0 \in 0..MAX_FAULTS
            /\ 0 <= JSONL_CAP /\ 0 <= TEXT_CAP
      BY Bounds
    <2> QED
      BY <1>1, <2>1 DEF JournalInit, JournalTypeOK, Phase
  <1>3. JournalInv
    BY <1>1 DEF JournalInit, JournalInv, JournalOrder, Calmness, FlushOkIsStored, FlushHeals,
                Numbered
  <1> QED
    BY <1>2, <1>3

LEMMA StartJournalInv ==
  ASSUME JournalTypeOK, NEW verified \in BOOLEAN, StartJournal(verified)
  PROVE  JournalInv'
  <1>1. CASE verified
    <2> DEFINE r == [boot |-> boot', seq |-> 1]
               none == <<>>
    <2>1. /\ seq' = 1 /\ jsonl' = Into(none, JSONL_CAP, r) /\ text' = Into(none, TEXT_CAP, r)
          /\ pc' = "jsonl" /\ boot' # 0 /\ r \in Record /\ starting' = TRUE
      BY <1>1 DEF StartJournal, Added, JournalTypeOK, Record
    <2>2. none \in Seq(Record) /\ Len(none) = 0 /\ r.seq = 1
      BY EmptySeq
    <2> HIDE DEF r, none
    <2>3. /\ Len(jsonl') = 1 /\ jsonl'[1] = r
          /\ Len(text') = 1 /\ text'[1] = r
      <3>1. /\ JSONL_CAP \in Nat /\ Len(none) < JSONL_CAP
            /\ TEXT_CAP \in Nat /\ Len(none) < TEXT_CAP
        BY <2>2, Bounds
      <3>2. /\ Len(Into(none, JSONL_CAP, r)) = Len(none) + 1
            /\ Into(none, JSONL_CAP, r)[Len(none) + 1] = r
            /\ Len(Into(none, TEXT_CAP, r)) = Len(none) + 1
            /\ Into(none, TEXT_CAP, r)[Len(none) + 1] = r
        BY <2>1, <2>2, <3>1, IntoRoom
      <3>3. Len(none) + 1 = 1
        BY <2>2
      <3> QED
        BY <2>1, <3>2, <3>3
    <2>4. Numbered(jsonl)' /\ Numbered(text)'
      BY <2>1, <2>2, <2>3 DEF Numbered
    <2> QED
      BY <1>1, <2>1, <2>3, <2>4 DEF StartJournal, JournalInv, JournalOrder, Calmness,
                                    FlushOkIsStored, FlushHeals
  <1>2. CASE ~verified
    <2>1. /\ pc' = "idle" /\ seq' = 0 /\ jsonl' = <<>> /\ text' = <<>>
          /\ active' = FALSE /\ starting' = FALSE
      BY <1>2 DEF StartJournal
    <2>2. Numbered(jsonl)' /\ Numbered(text)'
      BY <2>1 DEF Numbered
    <2> QED
      BY <2>1, <2>2 DEF JournalInv, JournalOrder, Calmness, FlushOkIsStored, FlushHeals
  <1> QED
    BY <1>1, <1>2

\* One more event keeps the numbering of a buffer that has room for it.
LEMMA NumberedInto ==
  ASSUME NEW b \in Seq(Record), NEW cap \in Nat, Len(b) < cap, Numbered(b), seq \in Nat,
         seq' = seq + 1, NEW r \in Record, r.seq = seq', NEW c, c = Into(b, cap, r)
  PROVE  Len(c) = seq' /\ \A n \in 1..seq' : c[n].seq = n
  <1>1. Len(b) = seq /\ \A n \in 1..seq : b[n].seq = n
    BY DEF Numbered
  <1>2. /\ Len(c) = Len(b) + 1 /\ c[Len(b) + 1] = r
        /\ \A i \in 1..Len(b) : c[i] = b[i]
    BY IntoRoom
  <1> QED
    BY <1>1, <1>2

LEMMA AddEventInv ==
  ASSUME JournalTypeOK, JournalInv, AddEvent
  PROVE  JournalInv'
  <1> DEFINE r == [boot |-> boot, seq |-> seq']
  <1>1. /\ UNCHANGED <<jsonl_file, text_file, starting, ok_jsonl, active, boot>>
        /\ pc = "idle" /\ active /\ pc' = "jsonl" /\ ~starting /\ boot # 0
        /\ truncated' = (truncated \/ Len(jsonl) = JSONL_CAP \/ Len(text) = TEXT_CAP)
    BY DEF AddEvent, journal_files, JournalInv, JournalOrder
  <1>2. /\ seq' = seq + 1 /\ seq \in Nat /\ r \in Record /\ r.seq = seq'
        /\ jsonl' = Into(jsonl, JSONL_CAP, r) /\ text' = Into(text, TEXT_CAP, r)
    BY <1>1, AddedType DEF JournalTypeOK
  <1> HIDE DEF r
  <1>3. /\ jsonl \in Seq(Record) /\ Len(jsonl) <= JSONL_CAP /\ JSONL_CAP \in Nat
        /\ text \in Seq(Record) /\ Len(text) <= TEXT_CAP /\ TEXT_CAP \in Nat
    BY DEF JournalTypeOK
  <1>4. /\ Len(jsonl) <= Len(jsonl') /\ Len(text) <= Len(text')
        /\ Len(jsonl') \in Nat /\ Len(text') \in Nat
    BY <1>2, <1>3, IntoType, LenProperties
  <1>5. Size(jsonl_file)' <= Len(jsonl') /\ Size(text_file)' <= Len(text')
    <2>1. Size(jsonl_file) <= Len(jsonl) /\ Size(text_file) <= Len(text)
      BY <1>1 DEF JournalInv, JournalOrder
    <2>2. Size(jsonl_file)' = Size(jsonl_file) /\ Size(text_file)' = Size(text_file)
      BY <1>1 DEF Size
    <2> QED
      BY <1>4, <2>1, <2>2, BufferLengths
  <1>6. ~truncated' => Numbered(jsonl)' /\ Numbered(text)'
    <2>1. SUFFICES ASSUME ~truncated' PROVE Numbered(jsonl)' /\ Numbered(text)'
      OBVIOUS
    <2>2. ~truncated /\ Len(jsonl) < JSONL_CAP /\ Len(text) < TEXT_CAP
      <3>1. ~truncated /\ Len(jsonl) # JSONL_CAP /\ Len(text) # TEXT_CAP
        BY <1>1, <2>1, JournalBooleans
      <3> QED
        BY <1>3, <3>1, BufferLengths
    <2>3. Numbered(jsonl) /\ Numbered(text)
      BY <2>2 DEF JournalInv, JournalOrder
    <2>4. /\ Len(jsonl') = seq' /\ \A n \in 1..seq' : jsonl'[n].seq = n
          /\ Len(text') = seq' /\ \A n \in 1..seq' : text'[n].seq = n
      BY <1>2, <1>3, <2>2, <2>3, NumberedInto
    <2> QED
      BY <2>4 DEF Numbered
  <1> QED
    BY <1>1, <1>5, <1>6 DEF JournalInv, JournalOrder, Calmness, FlushOkIsStored, FlushHeals

LEMMA FlushInv ==
  ASSUME JournalTypeOK, JournalInv, Flush
  PROVE  JournalInv'
  <1>1. /\ UNCHANGED <<jsonl_file, text_file, starting, active, truncated, seq, jsonl, text, boot>>
        /\ pc = "idle" /\ pc' = "jsonl" /\ active
    BY DEF Flush, journal_files, journal_buffers
  <1>2. /\ Numbered(jsonl)' = Numbered(jsonl) /\ Numbered(text)' = Numbered(text)
        /\ Size(jsonl_file)' = Size(jsonl_file) /\ Size(text_file)' = Size(text_file)
    BY <1>1 DEF Numbered, Size
  <1> QED
    BY <1>1, <1>2 DEF JournalInv, JournalOrder, Calmness, FlushOkIsStored, FlushHeals

LEMMA WriteJsonlInv ==
  ASSUME JournalTypeOK, JournalInv, WriteJsonl
  PROVE  JournalInv'
  <1>1. PICK r \in WriteResults(jsonl_file, jsonl) :
          /\ calm' = (calm /\ r \in WriteDone(jsonl))
          /\ jsonl_file' = r.file
          /\ ok_jsonl' = JsonlOk(r)
    BY DEF WriteJsonl
  <1>2. /\ UNCHANGED <<text_file, starting, active, truncated, seq, jsonl, text, boot>>
        /\ pc = "jsonl" /\ pc' = "text" /\ active
    BY DEF WriteJsonl, journal_buffers, JournalInv, JournalOrder
  <1>3. /\ r \in WriteDone(jsonl) => r.ok /\ r.file = jsonl
        /\ Size(jsonl_file) <= Len(jsonl) => Size(r.file) <= Len(jsonl)
    BY JournalFilesType, JournalWriteType DEF JournalTypeOK
  <1>4. /\ Numbered(jsonl)' = Numbered(jsonl) /\ Numbered(text)' = Numbered(text)
        /\ Size(jsonl_file)' = Size(r.file) /\ Size(text_file)' = Size(text_file)
    BY <1>1, <1>2 DEF Numbered, Size
  <1> QED
    BY <1>1, <1>2, <1>3, <1>4
      DEF JournalInv, JournalOrder, Calmness, FlushOkIsStored, FlushHeals, JsonlOk

LEMMA WriteTextInv ==
  ASSUME JournalTypeOK, JournalInv, WriteText
  PROVE  JournalInv'
  <1>1. PICK r \in WriteResults(text_file, text) :
          /\ calm' = (calm /\ r \in WriteDone(text))
          /\ text_file' = r.file
          /\ IF ok_jsonl /\ r.ok
             THEN /\ pc' = "compare"
                  /\ UNCHANGED <<starting, ok_jsonl, active, last_flush_ok, journal_buffers, boot>>
             ELSE Flushed(FALSE)
    BY DEF WriteText
  <1>2. /\ UNCHANGED <<jsonl_file, truncated, seq, jsonl, text, boot>>
        /\ pc = "text" /\ active
    BY <1>1 DEF WriteText, Flushed, journal_buffers, JournalInv, JournalOrder
  <1>3. /\ r \in WriteDone(text) => r.ok /\ r.file = text
        /\ Size(text_file) <= Len(text) => Size(r.file) <= Len(text)
    BY JournalFilesType, JournalWriteType DEF JournalTypeOK
  <1>4. /\ Numbered(jsonl)' = Numbered(jsonl) /\ Numbered(text)' = Numbered(text)
        /\ Size(jsonl_file)' = Size(jsonl_file) /\ Size(text_file)' = Size(r.file)
    BY <1>1, <1>2 DEF Numbered, Size
  <1>5. CASE ok_jsonl /\ r.ok
    <2>1. pc' = "compare" /\ UNCHANGED <<starting, active>>
      BY <1>1, <1>5
    <2> QED
      BY <1>1, <1>2, <1>3, <1>4, <2>1
        DEF JournalInv, JournalOrder, Calmness, FlushOkIsStored, FlushHeals
  <1>6. CASE ~(ok_jsonl /\ r.ok)
    <2>1. /\ pc' = "idle" /\ last_flush_ok' = FALSE /\ starting' = FALSE
          /\ active' = (active /\ (starting => FALSE))
      BY <1>1, <1>6 DEF Flushed
    <2>2. ~calm'
      BY <1>1, <1>2, <1>3, <1>6 DEF JournalInv, Calmness
    <2> QED
      BY <1>2, <1>3, <1>4, <2>1, <2>2
        DEF JournalInv, JournalOrder, Calmness, FlushOkIsStored, FlushHeals
  <1> QED
    BY <1>5, <1>6

\* Two texts that compare equal were read from files that hold them.
LEMMA SameIsStored ==
  ASSUME JournalTypeOK, JournalInv, pc = "compare",
         NEW a \in ReadResults(jsonl_file, READ_CAP), NEW b \in ReadResults(text_file, READ_CAP),
         Same(a, b)
  PROVE  jsonl_file = jsonl /\ text_file = text
  <1>1. a.ok /\ b.ok /\ a.text = jsonl /\ b.text = text
    BY DEF Same
  <1>2. jsonl_file \in Seq(Record) \union {NoFile} /\ text_file \in Seq(Record) \union {NoFile}
    BY JournalFilesType DEF JournalFile
  <1>3. \/ Len(jsonl) < READ_CAP /\ Len(text) < READ_CAP
        \/ Size(jsonl_file) <= Len(jsonl) /\ Size(text_file) <= Len(text)
    <2>1. CASE starting
      <3>1. Len(jsonl) = 1 /\ Len(text) = 1
        BY <2>1 DEF JournalInv, JournalOrder
      <3>2. 1 < READ_CAP
        BY Bounds
      <3> QED
        BY <3>1, <3>2
    <2>2. CASE ~starting
      BY <2>2 DEF JournalInv, JournalOrder
    <2> QED
      BY <2>1, <2>2
  <1>4. jsonl_file = a.text
    BY <1>1, <1>2, <1>3, ReadBackIsWhole
  <1>5. text_file = b.text
    BY <1>1, <1>2, <1>3, ReadBackIsWhole
  <1> QED
    BY <1>1, <1>4, <1>5

LEMMA CompareInv ==
  ASSUME JournalTypeOK, JournalInv, Compare
  PROVE  JournalInv'
  <1>1. PICK a \in ReadResults(jsonl_file, READ_CAP), b \in ReadResults(text_file, READ_CAP) :
          LET cost == Cost(a, ReadDone(jsonl_file, READ_CAP))
                        + Cost(b, ReadDone(text_file, READ_CAP))
          IN calm' = (calm /\ cost = 0) /\ Flushed(Same(a, b))
    BY DEF Compare
  <1>2. /\ UNCHANGED <<jsonl_file, text_file, truncated, seq, jsonl, text, boot>>
        /\ pc = "compare" /\ active /\ pc' = "idle" /\ starting' = FALSE
        /\ last_flush_ok' = Same(a, b)
        /\ active' = (active /\ (starting => Same(a, b)))
    BY <1>1 DEF Compare, Flushed, journal_files, journal_buffers, JournalInv, JournalOrder
  <1>3. /\ Numbered(jsonl)' = Numbered(jsonl) /\ Numbered(text)' = Numbered(text)
        /\ Size(jsonl_file)' = Size(jsonl_file) /\ Size(text_file)' = Size(text_file)
    BY <1>2 DEF Numbered, Size
  <1>4. Same(a, b) => jsonl_file = jsonl /\ text_file = text
    BY <1>2, SameIsStored
  <1>5. Same(a, b) => Size(jsonl_file) <= Len(jsonl) /\ Size(text_file) <= Len(text)
    <2>1. /\ jsonl_file = jsonl => Size(jsonl_file) = Len(jsonl) \/ Size(jsonl_file) = 0
          /\ text_file = text => Size(text_file) = Len(text) \/ Size(text_file) = 0
      BY DEF Size
    <2> QED
      BY <1>4, <2>1, BufferLengths
  <1>6. FlushHeals'
    <2>1. SUFFICES ASSUME calm', Len(jsonl) <= READ_CAP, Len(text) <= READ_CAP
                   PROVE  Same(a, b)
      BY <1>2 DEF FlushHeals
    <2>2. /\ Cost(a, ReadDone(jsonl_file, READ_CAP)) \in {0, 1}
          /\ (Cost(a, ReadDone(jsonl_file, READ_CAP)) = 0) <=> a \in ReadDone(jsonl_file, READ_CAP)
          /\ Cost(b, ReadDone(text_file, READ_CAP)) \in {0, 1}
          /\ (Cost(b, ReadDone(text_file, READ_CAP)) = 0) <=> b \in ReadDone(text_file, READ_CAP)
      BY CostType
    <2>3. a \in ReadDone(jsonl_file, READ_CAP) /\ b \in ReadDone(text_file, READ_CAP) /\ calm
      <3>1. /\ Cost(a, ReadDone(jsonl_file, READ_CAP)) + Cost(b, ReadDone(text_file, READ_CAP)) = 0
            /\ calm
        BY <1>1, <2>1, JournalBooleans
      <3> QED
        BY <2>2, <3>1
    <2>4. jsonl_file = jsonl /\ text_file = text
      BY <1>2, <2>3 DEF JournalInv, Calmness
    <2>5. jsonl \in Seq(Record) /\ text \in Seq(Record)
      BY DEF JournalTypeOK
    <2>6. jsonl # NoFile /\ text # NoFile
      BY <2>5, NoFileAssumption
    <2>7. a.ok /\ a.text = jsonl
      BY <2>1, <2>3, <2>4, <2>5, <2>6, ReadDoneText, Bounds
    <2>8. b.ok /\ b.text = text
      BY <2>1, <2>3, <2>4, <2>5, <2>6, ReadDoneText, Bounds
    <2> QED
      BY <2>7, <2>8 DEF Same
  <1>7. JournalOrder'
    BY <1>2, <1>3, <1>5 DEF JournalInv, JournalOrder
  <1>8. FlushOkIsStored'
    <2>1. SUFFICES ASSUME last_flush_ok'
                   PROVE  /\ jsonl_file' = jsonl' /\ text_file' = text'
                          /\ ~truncated' => Numbered(jsonl_file)' /\ Numbered(text_file)'
      BY DEF FlushOkIsStored, Numbered
    <2>2. jsonl_file = jsonl /\ text_file = text
      BY <1>2, <1>4, <2>1
    <2>3. ~truncated => Numbered(jsonl_file) /\ Numbered(text_file)
      BY <2>2 DEF JournalInv, JournalOrder
    <2>4. Numbered(jsonl_file)' = Numbered(jsonl_file) /\ Numbered(text_file)' = Numbered(text_file)
      BY <1>2 DEF Numbered
    <2> QED
      BY <1>2, <2>2, <2>3, <2>4
  <1> QED
    BY <1>2, <1>6, <1>7, <1>8 DEF JournalInv, Calmness

LEMMA StopJournalInv ==
  ASSUME StopJournal
  PROVE  JournalInv'
  <1>1. /\ pc' = "off" /\ active' = FALSE /\ starting' = FALSE
        /\ seq' = 0 /\ jsonl' = <<>> /\ text' = <<>>
    BY DEF StopJournal
  <1>2. Numbered(jsonl)' /\ Numbered(text)'
    BY <1>1 DEF Numbered
  <1> QED
    BY <1>1, <1>2 DEF JournalInv, JournalOrder, Calmness, FlushOkIsStored, FlushHeals

-----------------------------------------------------------------------------
(* The journal in the course of a boot *)

LEMMA JournalStays ==
  ASSUME JournalTypeOK, JournalInv, UNCHANGED journal, faults' \in 0..MAX_FAULTS
  PROVE  JournalTypeOK' /\ JournalInv'
  <1>1. UNCHANGED <<jsonl_file, text_file, pc, starting, ok_jsonl, active, last_flush_ok,
                    truncated, seq, jsonl, text, calm, boot>>
    BY DEF journal, journal_files, journal_buffers
  <1>2. JournalTypeOK'
    BY <1>1 DEF JournalTypeOK
  <1>3. JournalInv'
    BY <1>1 DEF JournalInv, JournalOrder, Calmness, FlushOkIsStored, FlushHeals, Numbered, Size
  <1> QED
    BY <1>2, <1>3

LEMMA ActiveHasBoot == JournalInv /\ active => boot # 0
  BY DEF JournalInv, JournalOrder

LEMMA TellJournalKeeps ==
  ASSUME JournalTypeOK, JournalInv, TellJournal
  PROVE  JournalTypeOK' /\ JournalInv'
  <1>1. CASE active
    BY <1>1, ActiveHasBoot, AddEventType, AddEventInv DEF TellJournal
  <1>2. CASE ~active
    BY <1>2, JournalStays DEF TellJournal, JournalTypeOK
  <1> QED
    BY <1>1, <1>2

\* The index counts what it misses of finitely many reports.
LEMMA MissedReports ==
  ASSUME NEW missed \in SUBSET Readable
  PROVE  Cardinality(missed) \in Nat
  <1> DEFINE list == <<"self-test.txt", "self-test.jsonl", "diagnostic.txt", "diagnostic.jsonl",
                       "vitair.jsonl", "session.txt", "session.jsonl", "audit.txt",
                       "audit.jsonl", "events.txt", "events.jsonl">>
  <1>1. list \in Seq(Listed) /\ Len(list) = 11
    BY DEF Listed
  <1>2. \A p \in Listed : \E i \in 1..11 : list[i] = p
    BY DEF Listed
  <1> HIDE DEF list
  <1>3. IsFiniteSet(Listed)
    BY <1>1, <1>2 DEF IsFiniteSet
  <1>4. missed \subseteq Listed
    BY DEF Readable
  <1> QED
    BY <1>3, <1>4, FS_Subset, FS_CardinalityType

LEMMA JournalNext ==
  ASSUME JournalTypeOK, JournalInv, [Next]_vars
  PROVE  JournalTypeOK' /\ JournalInv'
  <1>0. jsonl_file \in JournalFile /\ text_file \in JournalFile /\ faults \in 0..MAX_FAULTS
    BY JournalFilesType DEF JournalTypeOK
  <1>1. CASE \/ PowerOn \/ InitAudit \/ InitStorage \/ Gate \/ Emergency \/ StorageCommand
             \/ InputClosed \/ End \/ (\E kind \in Kind \ {"index"} : Report(kind))
             \/ UNCHANGED vars
    <2>1. UNCHANGED <<journal, faults>>
      BY <1>1 DEF PowerOn, InitAudit, InitStorage, Gate, Emergency, StorageCommand,
                  InputClosed, End, Report, StartReport, vars
    <2> QED
      BY <1>0, <2>1, JournalStays
  <1>2. CASE InitJournal
    <2>1. (storage = "ok") \in BOOLEAN
      OBVIOUS
    <2> QED
      BY <1>2, <2>1, StartJournalType, StartJournalInv DEF InitJournal
  <1>3. CASE InitTranscript \/ TranscriptFails
    <2>1. TellJournal \/ UNCHANGED <<journal, faults>>
      BY <1>3 DEF InitTranscript, TranscriptFails
    <2> QED
      BY <1>0, <2>1, TellJournalKeeps, JournalStays
  <1>4. CASE KeepJournal
    BY <1>4, WriteJsonlType, WriteJsonlInv, WriteTextType, WriteTextInv, CompareType, CompareInv
      DEF KeepJournal, JournalStep
  <1>5. CASE Note
    <2>1. AddEvent /\ active
      BY <1>5 DEF Note, AddEvent
    <2> QED
      BY <2>1, ActiveHasBoot, AddEventType, AddEventInv
  <1>6. CASE FlushCommand \/ Shutdown
    <2>1. Flush \/ UNCHANGED <<journal, faults>>
      BY <1>6 DEF FlushCommand, Shutdown
    <2> QED
      BY <1>0, <2>1, FlushType, FlushInv, JournalStays
  <1>7. CASE ReportIndex
    <2>1. PICK missed \in SUBSET Readable :
            StartReport(Index(Readable \ missed)) /\ Spend(Cardinality(missed))
      BY <1>7 DEF ReportIndex
    <2>2. faults' \in 0..MAX_FAULTS
      BY <2>1, MissedReports, SpendType
    <2>3. UNCHANGED journal
      BY <2>1 DEF StartReport
    <2> QED
      BY <2>2, <2>3, JournalStays
  <1>8. CASE WriteReport
    <2>1. UNCHANGED journal
      BY <1>8 DEF WriteReport
    <2>2. PICK n, c : n \in {0, 1} /\ c \in {0, 1} /\ Spend(n + c)
      BY <1>8, CostType DEF WriteReport
    <2>3. faults' \in 0..MAX_FAULTS
      <3>1. n + c \in Nat
        BY <2>2
      <3> QED
        BY <2>2, <3>1, SpendType
    <2> QED
      BY <2>1, <2>3, JournalStays
  <1>9. CASE Stop
    <2>1. StopJournal /\ UNCHANGED <<jsonl_file, text_file, faults>>
      BY <1>9 DEF Stop, journal_files
    <2> QED
      BY <1>0, <2>1, StopJournalType, StopJournalInv
  <1>10. CASE StopInWrite
    <2>1. CASE CutJournal
      <3>1. StopJournal
        BY <2>1 DEF CutJournal
      <3> QED
        BY <2>1, <3>1, CutJournalType, StopJournalInv
    <2>2. CASE Spend(1) /\ StopJournal /\ UNCHANGED journal_files
      <3>1. faults' \in 0..MAX_FAULTS /\ UNCHANGED <<jsonl_file, text_file>>
        BY <2>2, SpendType DEF journal_files
      <3> QED
        BY <1>0, <2>2, <3>1, StopJournalType, StopJournalInv
    <2> QED
      BY <1>10, <2>1, <2>2 DEF StopInWrite
  <1> QED
    BY <1>1, <1>2, <1>3, <1>4, <1>5, <1>6, <1>7, <1>8, <1>9, <1>10
      DEF Next, Step, Boot, Command

LEMMA JournalAlways == Spec => [](JournalTypeOK /\ JournalInv)
  <1> DEFINE Inv == JournalTypeOK /\ JournalInv
  <1>1. Init => Inv
    BY InitJournalInv DEF Init
  <1>2. Inv /\ [Next]_vars => Inv'
    BY JournalNext
  <1> QED
    BY <1>1, <1>2, PTL DEF Spec

\* session_journal_flush: last_flush_ok means that both files hold the buffers,
\* and every event as long as nothing was truncated.
THEOREM FlushAlwaysStored == Spec => []FlushOkIsStored
  <1>1. JournalInv => FlushOkIsStored
    BY DEF JournalInv
  <1> QED
    BY <1>1, JournalAlways, PTL

\* session_journal_flush: whatever went wrong before, a flush without a fault
\* sets last_flush_ok, while the texts fit the buffers they are read back into.
THEOREM FlushAlwaysHeals == Spec => []FlushHeals
  <1>1. JournalInv => FlushHeals
    BY DEF JournalInv
  <1> QED
    BY <1>1, JournalAlways, PTL

-----------------------------------------------------------------------------
(* What a boot is allowed to claim *)

\* The stages before the journal: the boot is not yet counted.
Early == {"off", "audit", "storage", "journal"}

\* Full operation goes back to an audit backend that came up in this boot.
FlagsOK ==
  /\ stage \in Stage
  /\ hosted \in BOOLEAN /\ audit_ready \in BOOLEAN /\ usable \in BOOLEAN
  /\ transcript_active \in BOOLEAN /\ operational \in BOOLEAN
  /\ storage \in {"ok", "warn", "fail"}
  /\ mode \in {"audit", "guided", "emergency"}
  /\ audited \subseteq 1..boot
  /\ audit_ready /\ stage \notin Early => boot \in audited
  /\ operational \/ mode = "guided" => audit_ready /\ stage \notin Early

LEMMA JournalActionsKeepBoot ==
  AddEvent \/ Flush \/ JournalStep \/ StopJournal \/ CutJournal \/ UNCHANGED journal
    => UNCHANGED boot
  BY DEF AddEvent, Flush, JournalStep, WriteJsonl, WriteText, Compare, Flushed, StopJournal,
         CutJournal, journal

LEMMA FlagsInit == Init => FlagsOK
  BY DEF Init, FlagsOK, JournalInit, Stage, Early

LEMMA FlagsStay ==
  ASSUME FlagsOK, UNCHANGED <<hosted, audit_ready, usable, storage, operational, mode, audited>>,
         UNCHANGED boot, transcript_active' \in BOOLEAN, stage' \in Stage,
         stage \notin Early, stage' \notin Early
  PROVE  FlagsOK'
  BY DEF FlagsOK

LEMMA FlagsNext ==
  ASSUME JournalTypeOK, FlagsOK, [Next]_vars
  PROVE  FlagsOK'
  <1>1. CASE PowerOn
    <2>1. UNCHANGED <<boot, hosted, audit_ready, storage, usable, transcript_active, operational,
                      mode, audited>> /\ stage = "off" /\ stage' = "audit"
      BY <1>1 DEF PowerOn, journal, flags
    <2> QED
      BY <2>1 DEF FlagsOK, Stage, Early
  <1>2. CASE InitAudit
    <2>1. /\ UNCHANGED <<boot, hosted, storage, usable, transcript_active, operational, mode,
                         audited>>
          /\ stage = "audit" /\ stage' = "storage" /\ audit_ready' \in {hosted, FALSE}
      BY <1>2 DEF InitAudit, journal
    <2>2. audit_ready' \in BOOLEAN
      BY <2>1 DEF FlagsOK
    <2> QED
      BY <2>1, <2>2 DEF FlagsOK, Stage, Early
  <1>3. CASE InitStorage
    <2>1. /\ UNCHANGED <<boot, hosted, audit_ready, transcript_active, operational, mode, audited>>
          /\ stage = "storage" /\ stage' = "journal" /\ usable' \in {TRUE, hosted}
          /\ storage' \in {"ok", "warn", "fail"}
      BY <1>3 DEF InitStorage, journal, Bootstrap
    <2>2. usable' \in BOOLEAN
      BY <2>1 DEF FlagsOK
    <2> QED
      BY <2>1, <2>2 DEF FlagsOK, Stage, Early
  <1>4. CASE InitJournal
    <2>1. /\ UNCHANGED <<hosted, audit_ready, storage, usable, transcript_active, operational,
                         mode>>
          /\ stage = "journal" /\ stage' = "transcript" /\ boot' = boot + 1
          /\ audited' = IF audit_ready THEN audited \union {boot'} ELSE audited
      BY <1>4 DEF InitJournal, StartJournal, flags
    <2>2. boot \in Nat
      BY DEF JournalTypeOK
    <2>3. audited' \subseteq 1..boot' /\ (audit_ready => boot' \in audited')
      BY <2>1, <2>2 DEF FlagsOK
    <2>4. ~operational /\ mode # "guided"
      BY <2>1 DEF FlagsOK, Early
    <2> QED
      BY <2>1, <2>3, <2>4 DEF FlagsOK, Stage
  <1>5. CASE InitTranscript \/ TranscriptFails
    <2>1. UNCHANGED boot
      BY <1>5, JournalActionsKeepBoot DEF InitTranscript, TranscriptFails, TellJournal
    <2>2. /\ UNCHANGED <<hosted, audit_ready, storage, usable, operational, mode, audited>>
          /\ transcript_active' \in BOOLEAN
          /\ stage \notin Early /\ stage' \notin Early /\ stage' \in Stage
      BY <1>5 DEF InitTranscript, TranscriptFails, Early, Stage
    <2> QED
      BY <2>1, <2>2, FlagsStay
  <1>6. CASE Gate
    <2>1. /\ UNCHANGED <<boot, hosted, audit_ready, storage, usable, transcript_active, audited>>
          /\ stage = "gate" /\ stage' = "prompt"
          /\ operational' = (audit_ready /\ storage = "ok" /\ active)
          /\ mode' = IF audit_ready THEN "guided" ELSE "audit"
      BY <1>6 DEF Gate, ContextMode, journal
    <2>2. operational' \in BOOLEAN /\ mode' \in {"audit", "guided", "emergency"}
      BY <2>1
    <2>3. operational' \/ mode' = "guided" => audit_ready'
      BY <2>1
    <2> QED
      BY <2>1, <2>2, <2>3 DEF FlagsOK, Stage, Early
  <1>7. CASE Emergency
    <2>1. /\ UNCHANGED <<boot, stage, hosted, audit_ready, storage, usable, transcript_active,
                         operational, audited>>
          /\ mode' = "emergency"
      BY <1>7 DEF Emergency, journal
    <2> QED
      BY <2>1 DEF FlagsOK
  <1>8. CASE StorageCommand
    <2>1. /\ UNCHANGED <<boot, stage, hosted, audit_ready, usable, transcript_active,
                         operational, mode, audited>>
          /\ storage' \in {"ok", "warn"}
      BY <1>8 DEF StorageCommand, Bootstrap, journal
    <2> QED
      BY <2>1 DEF FlagsOK
  <1>9. CASE \/ KeepJournal \/ Note \/ FlushCommand \/ Shutdown \/ InputClosed \/ End
             \/ WriteReport \/ ReportIndex \/ (\E kind \in Kind \ {"index"} : Report(kind))
             \/ UNCHANGED vars
    <2>1. UNCHANGED <<flags, audited>>
      BY <1>9 DEF KeepJournal, Note, FlushCommand, Shutdown, InputClosed, End, WriteReport,
                  ReportIndex, Report, StartReport, vars
    <2>2. UNCHANGED boot
      BY <1>9, JournalActionsKeepBoot
        DEF KeepJournal, Note, FlushCommand, Shutdown, InputClosed, End, WriteReport,
            ReportIndex, Report, StartReport, vars
    <2>3. /\ stage' \in Stage
          /\ UNCHANGED stage \/ (stage \notin Early /\ stage' \notin Early)
      BY <1>9 DEF KeepJournal, Note, FlushCommand, Shutdown, InputClosed, End, WriteReport,
                  ReportIndex, Report, StartReport, Prompt, vars, FlagsOK, Early, Stage
    <2> QED
      BY <2>1, <2>2, <2>3 DEF FlagsOK, flags
  <1>10. CASE Stop \/ StopInWrite
    <2>1. ForgetFlags /\ UNCHANGED boot
      BY <1>10, JournalActionsKeepBoot DEF Stop, StopInWrite
    <2> QED
      BY <2>1 DEF ForgetFlags, FlagsOK, Stage, Early
  <1> QED
    BY <1>1, <1>2, <1>3, <1>4, <1>5, <1>6, <1>7, <1>8, <1>9, <1>10
      DEF Next, Step, Boot, Command

-----------------------------------------------------------------------------
(* What the reports say *)

ClaimsLine == [storage : {1, -1}, journal : {0, 1}, transcript : {0, 1}, sqlite : {1, -1},
               full : {1, -1}, boot : 0..MAX_BOOT]
VerdictLine == [storage : {0, 1}, journal : {0, 1}, full : BOOLEAN, boot : 0..MAX_BOOT]
OtherLine ==
  [verified : BOOLEAN, boot : 0..MAX_BOOT]
    \union [verified : BOOLEAN, restricted : BOOLEAN, boot : 0..MAX_BOOT]
    \union [pass : BOOLEAN] \union [ok : BOOLEAN] \union [listed : SUBSET Listed]
    \union [status : {"minimal", "exported", "written"}]
Line == ClaimsLine \union VerdictLine \union OtherLine

\* How many lines the report under a path has.
Lines(p) ==
  IF p \in {"self-test.txt", "self-test.jsonl", "diagnostic.txt", "diagnostic.jsonl"} THEN 2
  ELSE IF p \in {"vitair.jsonl", "session.jsonl"} THEN READ_CAP + 1
  ELSE 1

\* A line that claims full operation names a boot with an audit backend.
HonestLine(p, n, line) ==
  /\ <<p, n>> \in ClaimLines /\ line.full = 1 => line.boot \in audited
  /\ p = "self-test.txt" /\ n = 1 /\ line.full => line.boot \in audited

Honest(p, f) == \A n \in 1..Len(f) : HonestLine(p, n, f[n])

\* The body of a report is what belongs under its path, and honest.
GoodBody(p, b) == p \in Path /\ b \in Seq(Line) /\ Len(b) = Lines(p) /\ Honest(p, b)

\* The file under a path: what is left of such bodies, never longer than one.
GoodFile(p, f) == f \in Seq(Line) \union {NoFile} /\ Size(f) <= Lines(p) /\ (f # NoFile => Honest(p, f))

Entry == [path : Path, body : Seq(Line)]

GoodJob(j) ==
  /\ j \in Seq(Entry) /\ Len(j) <= 2
  /\ \A n \in 1..Len(j) : GoodBody(j[n].path, j[n].body)
  /\ \A m, n \in 1..Len(j) : j[m].path = j[n].path => m = n

LEMMA LinesType == \A p : Lines(p) \in Nat /\ 1 <= Lines(p)
  BY Bounds DEF Lines

LEMMA EmptyJob == GoodJob(<<>>)
  <1>1. <<>> \in Seq(Entry) /\ Len(<<>>) = 0
    BY EmptySeq
  <1> QED
    BY <1>1 DEF GoodJob

LEMMA OneFileJob ==
  ASSUME NEW p, NEW b, GoodBody(p, b)
  PROVE  GoodJob(<<File(p, b)>>)
  <1> DEFINE e == File(p, b)
  <1>1. e \in Entry /\ e.path = p /\ e.body = b
    BY DEF File, Entry, GoodBody
  <1> HIDE DEF e
  <1>2. <<e>> \in Seq(Entry) /\ Len(<<e>>) = 1 /\ <<e>>[1] = e
    BY <1>1
  <1>3. GoodJob(<<e>>)
    BY <1>1, <1>2 DEF GoodJob
  <1> QED
    BY <1>3 DEF e

LEMMA TwoFilesJob ==
  ASSUME NEW p, NEW b, GoodBody(p, b), NEW q, NEW c, GoodBody(q, c), p # q
  PROVE  GoodJob(<<File(p, b), File(q, c)>>)
  <1> DEFINE e == File(p, b)
             f == File(q, c)
  <1>1. e \in Entry /\ e.path = p /\ e.body = b /\ f \in Entry /\ f.path = q /\ f.body = c
    BY DEF File, Entry, GoodBody
  <1> HIDE DEF e, f
  <1>2. <<e, f>> \in Seq(Entry) /\ Len(<<e, f>>) = 2 /\ <<e, f>>[1] = e /\ <<e, f>>[2] = f
    BY <1>1
  <1>3. GoodJob(<<e, f>>)
    <2>1. 1..2 = {1, 2}
      OBVIOUS
    <2> QED
      BY <1>1, <1>2, <2>1 DEF GoodJob
  <1> QED
    BY <1>3 DEF e, f

LEMMA OneLineBody ==
  ASSUME NEW p \in Path, NEW l \in Line, Lines(p) = 1, HonestLine(p, 1, l)
  PROVE  GoodBody(p, <<l>>)
  <1> HIDE DEF Line
  <1>1. <<l>> \in Seq(Line) /\ Len(<<l>>) = 1 /\ <<l>>[1] = l
    OBVIOUS
  <1> QED
    BY <1>1 DEF GoodBody, Honest

LEMMA TwoLineBody ==
  ASSUME NEW p \in Path, NEW l \in Line, NEW m \in Line, Lines(p) = 2,
         HonestLine(p, 1, l), HonestLine(p, 2, m)
  PROVE  GoodBody(p, <<l, m>>)
  <1> HIDE DEF Line
  <1>1. <<l, m>> \in Seq(Line) /\ Len(<<l, m>>) = 2 /\ <<l, m>>[1] = l /\ <<l, m>>[2] = m
    OBVIOUS
  <1>2. 1..2 = {1, 2}
    OBVIOUS
  <1> QED
    BY <1>1, <1>2 DEF GoodBody, Honest

LEMMA LongBody ==
  ASSUME NEW p \in Path, NEW l \in Line, Lines(p) = READ_CAP + 1, \A n : HonestLine(p, n, l)
  PROVE  GoodBody(p, [n \in 1..(READ_CAP + 1) |-> l])
  <1> DEFINE b == [n \in 1..(READ_CAP + 1) |-> l]
  <1>1. READ_CAP + 1 \in Nat
    BY Bounds
  <1>2. b \in Seq(Line) /\ Len(b) = READ_CAP + 1
    BY <1>1
  <1>3. Honest(p, b)
    BY <1>2 DEF Honest
  <1> QED
    BY <1>2, <1>3 DEF GoodBody

\* The claims are those of the flags at the moment at which the report is made.
LEMMA ClaimsHonest ==
  ASSUME FlagsOK, JournalTypeOK, stage \notin Early
  PROVE  /\ Claims \in ClaimsLine /\ (Claims.full = 1 => Claims.boot \in audited)
         /\ Verdict \in VerdictLine /\ (Verdict.full => Verdict.boot \in audited)
         /\ Bundle \in OtherLine /\ Summary \in OtherLine
  <1>1. boot \in 0..MAX_BOOT /\ audit_ready \in BOOLEAN /\ (audit_ready => boot \in audited)
          /\ hosted \in BOOLEAN
    BY DEF JournalTypeOK, FlagsOK
  <1>2. Claims \in ClaimsLine
    BY <1>1 DEF Claims, ClaimsLine
  <1>3. Claims.full = 1 => Claims.boot \in audited
    BY <1>1 DEF Claims
  <1>4. Verdict \in VerdictLine
    BY <1>1 DEF Verdict, VerdictLine
  <1>5. Verdict.full => Verdict.boot \in audited
    BY <1>1 DEF Verdict
  <1>6. Bundle \in [verified : BOOLEAN, boot : 0..MAX_BOOT]
    <2>1. (audit_ready \/ (~hosted /\ storage = "ok")) \in BOOLEAN
      OBVIOUS
    <2> QED
      BY <1>1, <2>1 DEF Bundle
  <1>7. Summary \in [verified : BOOLEAN, restricted : BOOLEAN, boot : 0..MAX_BOOT]
    <2>1. (storage = "ok") \in BOOLEAN /\ (~audit_ready) \in BOOLEAN
      OBVIOUS
    <2> QED
      BY <1>1, <2>1 DEF Summary
  <1> QED
    BY <1>2, <1>3, <1>4, <1>5, <1>6, <1>7 DEF OtherLine

\* A line under a path that claims nothing.
LEMMA NoClaim ==
  ASSUME NEW p, NEW n, NEW l, <<p, n>> \notin ClaimLines, ~(p = "self-test.txt" /\ n = 1)
  PROVE  HonestLine(p, n, l)
  BY DEF HonestLine

\* Every report that kmain or the command loop can make is one of honest bodies.
LEMMA FilesGood ==
  ASSUME FlagsOK, JournalTypeOK, stage \notin Early, NEW kind \in Kind \ {"index"}
  PROVE  GoodJob(Files(kind))
  <1>1. /\ Claims \in Line /\ (Claims.full = 1 => Claims.boot \in audited)
        /\ Verdict \in Line /\ (Verdict.full => Verdict.boot \in audited)
        /\ Bundle \in Line /\ Summary \in Line
    BY ClaimsHonest DEF Line
  <1>2. CASE kind = "selftest"
    <2> DEFINE pass == [pass |-> audit_ready]
    <2>1. pass \in Line
      BY DEF Line, OtherLine, FlagsOK
    <2> HIDE DEF pass
    <2>2. GoodBody("self-test.txt", <<Verdict, Claims>>)
      <3>1. "self-test.txt" \in Path /\ Lines("self-test.txt") = 2
        BY DEF Path, Listed, Lines
      <3>2. HonestLine("self-test.txt", 1, Verdict) /\ HonestLine("self-test.txt", 2, Claims)
        BY <1>1 DEF HonestLine, ClaimLines
      <3> QED
        BY <1>1, <3>1, <3>2, TwoLineBody
    <2>3. GoodBody("self-test.jsonl", <<pass, Claims>>)
      <3>1. "self-test.jsonl" \in Path /\ Lines("self-test.jsonl") = 2
        BY DEF Path, Listed, Lines
      <3>2. HonestLine("self-test.jsonl", 1, pass) /\ HonestLine("self-test.jsonl", 2, Claims)
        BY <1>1 DEF HonestLine, ClaimLines
      <3> QED
        BY <1>1, <2>1, <3>1, <3>2, TwoLineBody
    <2>4. GoodJob(<<File("self-test.txt", <<Verdict, Claims>>),
                    File("self-test.jsonl", <<pass, Claims>>)>>)
      BY <2>2, <2>3, TwoFilesJob
    <2> QED
      BY <1>2, <2>4 DEF Files, pass
  <1>3. CASE kind = "diagnostic"
    <2>1. \A p \in {"diagnostic.txt", "diagnostic.jsonl"} : GoodBody(p, <<Bundle, Claims>>)
      <3> TAKE p \in {"diagnostic.txt", "diagnostic.jsonl"}
      <3>1. p \in Path /\ Lines(p) = 2
        BY DEF Path, Listed, Lines
      <3>2. HonestLine(p, 1, Bundle) /\ HonestLine(p, 2, Claims)
        BY <1>1 DEF HonestLine, ClaimLines
      <3> QED
        BY <1>1, <3>1, <3>2, TwoLineBody
    <2>2. GoodJob(<<File("diagnostic.txt", <<Bundle, Claims>>),
                    File("diagnostic.jsonl", <<Bundle, Claims>>)>>)
      BY <2>1, TwoFilesJob
    <2> QED
      BY <1>3, <2>2 DEF Files
  <1>4. CASE kind = "vitair"
    <2>1. "vitair.jsonl" \in Path /\ Lines("vitair.jsonl") = READ_CAP + 1
      BY DEF Path, Listed, Lines
    <2>2. \A n : HonestLine("vitair.jsonl", n, Claims)
      BY <1>1 DEF HonestLine
    <2>3. GoodBody("vitair.jsonl", ClaimsJsonl)
      BY <1>1, <2>1, <2>2, LongBody DEF ClaimsJsonl
    <2>4. GoodJob(<<File("vitair.jsonl", ClaimsJsonl)>>)
      BY <2>3, OneFileJob
    <2> QED
      BY <1>4, <2>4 DEF Files
  <1>5. CASE kind = "session"
    <2>1. "session.txt" \in Path /\ Lines("session.txt") = 1
      BY DEF Path, Listed, Lines
    <2>2. HonestLine("session.txt", 1, Summary)
      BY NoClaim DEF ClaimLines
    <2>3. GoodBody("session.txt", <<Summary>>)
      BY <1>1, <2>1, <2>2, OneLineBody
    <2>4. GoodJob(<<File("session.txt", <<Summary>>)>>)
      BY <2>3, OneFileJob
    <2> QED
      BY <1>5, <2>4 DEF Files
  <1>6. CASE kind = "jsonl"
    <2>1. "session.jsonl" \in Path /\ Lines("session.jsonl") = READ_CAP + 1
      BY DEF Path, Listed, Lines
    <2>2. \A n : HonestLine("session.jsonl", n, Summary)
      BY DEF HonestLine, ClaimLines
    <2>3. GoodBody("session.jsonl", SummaryJsonl)
      BY <1>1, <2>1, <2>2, LongBody DEF SummaryJsonl
    <2>4. GoodJob(<<File("session.jsonl", SummaryJsonl)>>)
      BY <2>3, OneFileJob
    <2> QED
      BY <1>6, <2>4 DEF Files
  <1>7. CASE kind = "audit export"
    <2> DEFINE ok == [ok |-> audit_ready]
    <2>1. ok \in Line
      BY DEF Line, OtherLine, FlagsOK
    <2> HIDE DEF ok
    <2>2. \A p \in {"audit.txt", "audit.jsonl"} : GoodBody(p, <<ok>>)
      <3> TAKE p \in {"audit.txt", "audit.jsonl"}
      <3>1. p \in Path /\ Lines(p) = 1
        BY DEF Path, Listed, Lines
      <3>2. HonestLine(p, 1, ok)
        BY DEF HonestLine, ClaimLines
      <3> QED
        BY <2>1, <3>1, <3>2, OneLineBody
    <2>3. GoodJob(<<File("audit.txt", <<ok>>), File("audit.jsonl", <<ok>>)>>)
      BY <2>2, TwoFilesJob
    <2> QED
      BY <1>7, <2>3 DEF Files, ok
  <1>8. CASE kind = "audit events"
    <2> DEFINE a == [status |-> "minimal"]
               b == [status |-> "exported"]
    <2>1. a \in Line /\ b \in Line
      BY DEF Line, OtherLine
    <2> HIDE DEF a, b
    <2>2. /\ "events.txt" \in Path /\ Lines("events.txt") = 1
          /\ "events.jsonl" \in Path /\ Lines("events.jsonl") = 1
      BY DEF Path, Listed, Lines
    <2>3. HonestLine("events.txt", 1, a) /\ HonestLine("events.jsonl", 1, b)
      BY DEF HonestLine, ClaimLines
    <2>4. GoodBody("events.txt", <<a>>) /\ GoodBody("events.jsonl", <<b>>)
      BY <2>1, <2>2, <2>3, OneLineBody
    <2>5. GoodJob(<<File("events.txt", <<a>>), File("events.jsonl", <<b>>)>>)
      BY <2>4, TwoFilesJob
    <2> QED
      BY <1>8, <2>5 DEF Files, a, b
  <1> QED
    BY <1>2, <1>3, <1>4, <1>5, <1>6, <1>7, <1>8 DEF Kind

LEMMA IndexGood ==
  ASSUME NEW found \in SUBSET Listed
  PROVE  GoodJob(Index(found))
  <1> DEFINE a == [listed |-> found]
             b == [status |-> "written"]
  <1>1. a \in Line /\ b \in Line
    BY DEF Line, OtherLine
  <1> HIDE DEF a, b
  <1>2. /\ "index.txt" \in Path /\ Lines("index.txt") = 1
        /\ "index.jsonl" \in Path /\ Lines("index.jsonl") = 1
    BY DEF Path, Lines
  <1>3. HonestLine("index.txt", 1, a) /\ HonestLine("index.jsonl", 1, b)
    BY DEF HonestLine, ClaimLines
  <1>4. GoodBody("index.txt", <<a>>) /\ GoodBody("index.jsonl", <<b>>)
    BY <1>1, <1>2, <1>3, OneLineBody
  <1>5. GoodJob(<<File("index.txt", <<a>>), File("index.jsonl", <<b>>)>>)
    BY <1>4, TwoFilesJob
  <1> QED
    BY <1>5 DEF Index, a, b

-----------------------------------------------------------------------------
(* Writing a report *)

\* Every file is honest and no longer than a report under its path; while a
\* report is written, the files before the one that is due hold their bodies.
ShopOK ==
  /\ GoodJob(job)
  /\ report_file \in [Path -> Seq(Line) \union {NoFile}]
  /\ \A p \in Path : GoodFile(p, report_file[p])
  /\ next \in 1..2
  /\ said \in {"nothing", "written", "failed"}
  /\ made \in 0..MAX_REPORTS
  /\ stage = "report" =>
       /\ next \in 1..Len(job) /\ said = "nothing"
       /\ \A n \in 1..(next - 1) : report_file[job[n].path] = job[n].body
  /\ WrittenIsStored

LEMMA JobLength == GoodJob(job) => Len(job) \in Nat /\ Len(job) <= 2 /\ DOMAIN job = 1..Len(job)
  BY LenProperties DEF GoodJob

LEMMA JobEntry ==
  ASSUME GoodJob(job), NEW n \in 1..Len(job)
  PROVE  /\ GoodBody(job[n].path, job[n].body)
         /\ job[n].path \in Path /\ job[n].body \in Seq(Line)
         /\ Len(job[n].body) = Lines(job[n].path)
  BY DEF GoodJob, GoodBody

\* What was honest stays so: a boot with an audit backend has had one.
LEMMA HonestyStays ==
  ASSUME NEW p, NEW f, GoodFile(p, f), audited \subseteq audited'
  PROVE  GoodFile(p, f)'
  BY DEF GoodFile, Honest, HonestLine

LEMMA BodyStays ==
  ASSUME NEW p, NEW b, GoodBody(p, b), audited \subseteq audited'
  PROVE  GoodBody(p, b)'
  BY DEF GoodBody, Honest, HonestLine

\* Whatever a write leaves of two honest texts is honest.
LEMMA LeftoverIsGood ==
  ASSUME NEW p, NEW old, NEW new, GoodFile(p, old), GoodBody(p, new),
         NEW f \in Prefixes(new) \union {new, old, NoFile, Overlay(old, new)}
  PROVE  GoodFile(p, f) /\ Size(f) <= Len(new) /\ f \in Seq(Line) \union {NoFile}
  <1>1. /\ old \in Seq(Line) \union {NoFile} /\ Size(old) <= Len(new)
        /\ new \in Seq(Line) /\ Len(new) = Lines(p)
    BY DEF GoodFile, GoodBody
  <1>2. f \in Seq(Line) \union {NoFile} /\ Size(f) <= Len(new)
    BY <1>1, WriteCovers
  <1>3. f # NoFile => Honest(p, f)
    <2> SUFFICES ASSUME f # NoFile, NEW n \in 1..Len(f)
                 PROVE  HonestLine(p, n, f[n])
      BY DEF Honest
    <2>1. \/ n \in 1..Len(new) /\ f[n] = new[n]
          \/ old # NoFile /\ n \in 1..Len(old) /\ f[n] = old[n]
      BY <1>1, WrittenLines
    <2>2. CASE n \in 1..Len(new) /\ f[n] = new[n]
      BY <2>2 DEF GoodBody, Honest
    <2>3. CASE old # NoFile /\ n \in 1..Len(old) /\ f[n] = old[n]
      BY <2>3 DEF GoodFile, Honest
    <2> QED
      BY <2>1, <2>2, <2>3
  <1> QED
    BY <1>1, <1>2, <1>3 DEF GoodFile

LEMMA WritesLeave ==
  ASSUME NEW old, NEW new, NEW w \in Writes(old, new)
  PROVE  /\ w.file \in Prefixes(new) \union {new, old, NoFile, Overlay(old, new)}
         /\ ~usable => ~w.ok
  <1>1. CASE usable
    BY <1>1, WriteLeaves DEF Writes
  <1>2. CASE ~usable
    BY <1>2 DEF Writes
  <1> QED
    BY <1>1, <1>2

\* What a step that leaves the reports alone has to respect.
LEMMA ShopStays ==
  ASSUME ShopOK, UNCHANGED shop, audited \subseteq audited',
         stage' = "report" => stage = "report"
  PROVE  ShopOK'
  <1>1. UNCHANGED <<job, next, said, report_file, made>>
    BY DEF shop
  <1>2. GoodJob(job)'
    BY <1>1, BodyStays DEF ShopOK, GoodJob
  <1>3. \A p \in Path : GoodFile(p, report_file[p])'
    BY <1>1, HonestyStays DEF ShopOK
  <1>4. WrittenIsStored'
    BY <1>1 DEF ShopOK, WrittenIsStored
  <1> QED
    BY <1>1, <1>2, <1>3, <1>4 DEF ShopOK

LEMMA StartReportKeeps ==
  ASSUME ShopOK, NEW files, GoodJob(files), Len(files) >= 1, StartReport(files)
  PROVE  ShopOK'
  <1>1. /\ stage' = "report" /\ job' = files /\ next' = 1 /\ said' = "nothing"
        /\ made' = made + 1 /\ made < MAX_REPORTS /\ UNCHANGED <<report_file, audited>>
    BY DEF StartReport
  <1>2. Len(files) \in Nat
    BY LenProperties DEF GoodJob
  <1>3. GoodJob(job)'
    BY <1>1 DEF GoodJob, GoodBody, Honest, HonestLine
  <1>4. \A p \in Path : GoodFile(p, report_file[p])'
    BY <1>1, HonestyStays DEF ShopOK
  <1>5. made' \in 0..MAX_REPORTS
    BY <1>1 DEF ShopOK
  <1>6. WrittenIsStored'
    BY <1>1 DEF WrittenIsStored
  <1>7. next' \in 1..Len(job') /\ \A n \in 1..(next' - 1) : report_file'[job'[n].path] = job'[n].body
    BY <1>1, <1>2
  <1> QED
    BY <1>1, <1>3, <1>4, <1>5, <1>6, <1>7 DEF ShopOK

LEMMA FilesNotEmpty ==
  /\ \A kind \in Kind \ {"index"} : Len(Files(kind)) >= 1
  /\ \A found : Len(Index(found)) >= 1
  <1>1. \A a : Len(<<a>>) >= 1
    OBVIOUS
  <1>2. \A a, b : Len(<<a, b>>) >= 1
    OBVIOUS
  <1> HIDE DEF File
  <1>3. \A kind \in Kind \ {"index"} :
          (\E a : Files(kind) = <<a>>) \/ (\E a, b : Files(kind) = <<a, b>>)
    BY DEF Files, Kind
  <1>4. \A found : \E a, b : Index(found) = <<a, b>>
    BY DEF Index
  <1> QED
    BY <1>1, <1>2, <1>3, <1>4

\* One file of a report: written, read back and compared.
LEMMA WriteReportKeeps ==
  ASSUME ShopOK, WriteReport
  PROVE  ShopOK'
  <1> DEFINE path == job[next].path
             body == job[next].body
             old  == report_file[path]
  <1>1. /\ GoodJob(job) /\ next \in 1..Len(job) /\ said = "nothing" /\ stage = "report"
        /\ \A n \in 1..(next - 1) : report_file[job[n].path] = job[n].body
    BY DEF ShopOK, WriteReport
  <1>2. /\ GoodBody(path, body) /\ path \in Path /\ body \in Seq(Line)
        /\ Len(body) = Lines(path) /\ Len(body) \in Nat
    <2>1. GoodBody(path, body) /\ path \in Path /\ body \in Seq(Line) /\ Len(body) = Lines(path)
      BY <1>1, JobEntry
    <2> QED
      BY <2>1, LinesType
  <1>3. GoodFile(path, old)
    BY <1>2 DEF ShopOK
  <1>4. PICK w \in Writes(old, body) : \E r \in ReadResults(w.file, ReadBack(path)) :
          LET ok == w.ok /\ r.ok /\ r.text = body
          IN /\ report_file' = [report_file EXCEPT ![path] = w.file]
             /\ IF MayGoOn(ok)
                THEN next' = next + 1 /\ UNCHANGED <<stage, said>>
                ELSE /\ stage' = "prompt"
                     /\ said' = IF ok THEN "written" ELSE "failed"
                     /\ UNCHANGED next
    BY DEF WriteReport
  <1>5. PICK r \in ReadResults(w.file, ReadBack(path)) :
          LET ok == w.ok /\ r.ok /\ r.text = body
          IN /\ report_file' = [report_file EXCEPT ![path] = w.file]
             /\ IF MayGoOn(ok)
                THEN next' = next + 1 /\ UNCHANGED <<stage, said>>
                ELSE /\ stage' = "prompt"
                     /\ said' = IF ok THEN "written" ELSE "failed"
                     /\ UNCHANGED next
    BY <1>4
  <1> DEFINE ok == w.ok /\ r.ok /\ r.text = body
  <1>6. UNCHANGED <<job, made, audited>>
    BY DEF WriteReport
  <1>7. GoodFile(path, w.file) /\ Size(w.file) <= Len(body) /\ w.file \in Seq(Line) \union {NoFile}
    BY <1>2, <1>3, WritesLeave, LeftoverIsGood
  \* The comparison cannot be satisfied by anything but the body.
  <1>8. ok => w.file = body
    <2> SUFFICES ASSUME ok PROVE w.file = body
      OBVIOUS
    <2>1. r.ok /\ r.text = body /\ Size(w.file) <= Len(r.text)
      BY <1>7
    <2>2. ReadBack(path) \in Nat
      BY Bounds DEF ReadBack
    <2> QED
      BY <1>7, <2>1, <2>2, ReadBackIsWhole
  <1> HIDE DEF path, body, old
  <1>9. report_file' = [report_file EXCEPT ![path] = w.file]
    BY <1>5
  <1>10. /\ report_file' \in [Path -> Seq(Line) \union {NoFile}]
         /\ report_file'[path] = w.file
         /\ \A p \in Path \ {path} : report_file'[p] = report_file[p]
    BY <1>2, <1>7, <1>9 DEF ShopOK
  <1>11. \A p \in Path : GoodFile(p, report_file[p])'
    <2> SUFFICES ASSUME NEW p \in Path PROVE GoodFile(p, report_file[p])'
      OBVIOUS
    <2>1. GoodFile(p, report_file'[p])
      BY <1>7, <1>10 DEF ShopOK
    <2> QED
      BY <1>6, <2>1 DEF GoodFile, Honest, HonestLine
  <1>12. GoodJob(job)'
    BY <1>1, <1>6 DEF GoodJob, GoodBody, Honest, HonestLine
  \* The files of a report have paths of their own.
  <1>13. \A n \in 1..(next - 1) : report_file'[job'[n].path] = job'[n].body
    <2> SUFFICES ASSUME NEW n \in 1..(next - 1)
                 PROVE  report_file'[job[n].path] = job[n].body
      BY <1>6
    <2>1. n \in 1..Len(job) /\ n # next /\ next \in 1..Len(job)
      BY <1>1, JobLength
    <2>2. job[n].path # path /\ job[n].path \in Path
      BY <1>1, <2>1, JobEntry DEF GoodJob, path
    <2> QED
      BY <1>1, <1>10, <2>2
  <1>14. ok => \A n \in 1..next : report_file'[job'[n].path] = job'[n].body
    <2> SUFFICES ASSUME ok, NEW n \in 1..next
                 PROVE  report_file'[job'[n].path] = job'[n].body
      OBVIOUS
    <2>1. n \in 1..(next - 1) \/ n = next
      BY <1>1, JobLength
    <2>2. CASE n = next
      BY <1>6, <1>8, <1>10, <2>2 DEF path, body
    <2> QED
      BY <1>13, <2>1, <2>2
  <1>15. Len(job) \in Nat /\ Len(job) <= 2 /\ DOMAIN job = 1..Len(job)
    BY <1>1, JobLength
  <1>16. CASE MayGoOn(ok)
    <2>1. ok /\ next < Len(job) /\ next' = next + 1 /\ UNCHANGED <<stage, said>>
      BY <1>5, <1>16 DEF MayGoOn
    <2>2. next' \in 1..2 /\ next' \in 1..Len(job') /\ next' - 1 = next
      BY <1>1, <1>6, <1>15, <2>1
    <2>3. \A n \in 1..(next' - 1) : report_file'[job'[n].path] = job'[n].body
      BY <1>14, <2>1, <2>2
    <2>4. WrittenIsStored'
      BY <1>1, <2>1 DEF WrittenIsStored
    <2> QED
      BY <1>1, <1>6, <1>10, <1>11, <1>12, <2>1, <2>2, <2>3, <2>4 DEF ShopOK
  <1>17. CASE ~MayGoOn(ok)
    <2>1. /\ stage' = "prompt" /\ UNCHANGED next
          /\ said' = IF ok THEN "written" ELSE "failed"
      BY <1>5, <1>17
    <2>2. ok => next = Len(job)
      BY <1>1, <1>15, <1>17 DEF MayGoOn
    <2>3. WrittenIsStored'
      <3> SUFFICES ASSUME ok PROVE \A n \in DOMAIN job' : report_file'[job'[n].path] = job'[n].body
        BY <2>1 DEF WrittenIsStored
      <3>1. DOMAIN job' = 1..next
        BY <1>6, <1>15, <2>2
      <3> QED
        BY <1>14, <3>1
    <2>4. said' \in {"nothing", "written", "failed"}
      BY <2>1
    <2> QED
      BY <1>6, <1>10, <1>11, <1>12, <2>1, <2>3, <2>4 DEF ShopOK
  <1> QED
    BY <1>16, <1>17

LEMMA ForgetKeeps ==
  ASSUME ShopOK, ForgetFlags,
         report_file' \in [Path -> Seq(Line) \union {NoFile}],
         \A p \in Path : GoodFile(p, report_file'[p])
  PROVE  ShopOK'
  <1>1. /\ stage' = "off" /\ job' = <<>> /\ next' = 1 /\ said' = "nothing"
        /\ UNCHANGED <<made, audited>>
    BY DEF ForgetFlags
  <1>2. GoodJob(job)'
    <2>1. GoodJob(job')
      BY <1>1, EmptyJob
    <2> QED
      BY <1>1, <2>1 DEF GoodJob, GoodBody, Honest, HonestLine
  <1>3. \A p \in Path : GoodFile(p, report_file[p])'
    BY <1>1 DEF GoodFile, Honest, HonestLine
  <1> QED
    BY <1>1, <1>2, <1>3 DEF ShopOK, WrittenIsStored

LEMMA ShopInit == Init => ShopOK
  <1> SUFFICES ASSUME Init PROVE ShopOK
    OBVIOUS
  <1>1. GoodJob(job) /\ next = 1 /\ said = "nothing" /\ made = 0 /\ stage = "off"
          /\ report_file = [p \in Path |-> NoFile]
    BY EmptyJob DEF Init
  <1>2. \A p : GoodFile(p, NoFile)
    <2>1. Size(NoFile) = 0
      BY DEF Size
    <2> QED
      BY <2>1, LinesType DEF GoodFile
  <1> QED
    BY <1>1, <1>2 DEF ShopOK, WrittenIsStored

LEMMA ShopNext ==
  ASSUME JournalTypeOK, FlagsOK, ShopOK, [Next]_vars
  PROVE  ShopOK'
  <1>1. CASE WriteReport
    BY <1>1, WriteReportKeeps
  <1>2. CASE ReportIndex
    <2>1. PICK missed \in SUBSET Readable : StartReport(Index(Readable \ missed))
      BY <1>2 DEF ReportIndex
    <2>2. Readable \ missed \in SUBSET Listed
      BY DEF Readable
    <2> QED
      BY <2>1, <2>2, IndexGood, FilesNotEmpty, StartReportKeeps
  <1>3. CASE \E kind \in Kind \ {"index"} : Report(kind)
    <2>1. PICK kind \in Kind \ {"index"} : StartReport(Files(kind))
      BY <1>3 DEF Report
    <2>2. stage \notin Early
      BY <2>1 DEF StartReport, Prompt, Early
    <2> QED
      BY <2>1, <2>2, FilesGood, FilesNotEmpty, StartReportKeeps
  <1>4. CASE Stop
    BY <1>4, ForgetKeeps DEF Stop, ShopOK
  <1>5. CASE StopInWrite
    <2>1. ForgetFlags
      BY <1>5 DEF StopInWrite
    <2>2. CASE UNCHANGED report_file
      BY <2>1, <2>2, ForgetKeeps DEF ShopOK
    <2>3. CASE /\ stage = "report"
               /\ \E f \in WriteCutOff(report_file[job[next].path], job[next].body) :
                    report_file' = [report_file EXCEPT ![job[next].path] = f]
      <3> DEFINE path == job[next].path
                 body == job[next].body
      <3>1. PICK f \in WriteCutOff(report_file[path], body) :
              report_file' = [report_file EXCEPT ![path] = f]
        BY <2>3
      <3>2. GoodBody(path, body) /\ path \in Path /\ body \in Seq(Line)
        BY <2>3, JobEntry DEF ShopOK
      <3>3. f \in Prefixes(body) \union {body, report_file[path], NoFile,
                                         Overlay(report_file[path], body)}
        BY <3>1 DEF WriteCutOff
      <3> HIDE DEF path, body
      <3>4. GoodFile(path, report_file[path])
        BY <3>2 DEF ShopOK
      <3>5. GoodFile(path, f) /\ f \in Seq(Line) \union {NoFile}
        BY <3>2, <3>3, <3>4, LeftoverIsGood
      <3>6. /\ report_file' \in [Path -> Seq(Line) \union {NoFile}]
            /\ \A p \in Path : GoodFile(p, report_file'[p])
        BY <3>1, <3>2, <3>5 DEF ShopOK
      <3> QED
        BY <2>1, <3>6, ForgetKeeps
    <2> QED
      BY <1>5, <2>2, <2>3 DEF StopInWrite
  <1>6. CASE ~(WriteReport \/ ReportIndex \/ (\E kind \in Kind \ {"index"} : Report(kind))
                 \/ Stop \/ StopInWrite)
    <2>1. UNCHANGED shop
      BY <1>6 DEF Next, Step, Boot, Command, PowerOn, InitAudit, InitStorage, InitJournal,
                  InitTranscript, Gate, KeepJournal, Note, FlushCommand, Emergency,
                  StorageCommand, Shutdown, InputClosed, End, TranscriptFails, vars, shop
    <2>2. audited \subseteq audited'
      BY <1>6 DEF Next, Step, Boot, Command, PowerOn, InitAudit, InitStorage, InitJournal,
                  InitTranscript, Gate, KeepJournal, Note, FlushCommand, Emergency,
                  StorageCommand, Shutdown, InputClosed, End, TranscriptFails, vars
    <2>3. stage' = "report" => stage = "report"
      BY <1>6 DEF Next, Step, Boot, Command, PowerOn, InitAudit, InitStorage, InitJournal,
                  InitTranscript, Gate, KeepJournal, Note, FlushCommand, Emergency,
                  StorageCommand, Shutdown, InputClosed, End, TranscriptFails, vars
    <2> QED
      BY <2>1, <2>2, <2>3, ShopStays
  <1> QED
    BY <1>1, <1>2, <1>3, <1>4, <1>5, <1>6

-----------------------------------------------------------------------------
(* The theorems *)

LEMMA Always == Spec => [](JournalTypeOK /\ FlagsOK /\ ShopOK)
  <1> DEFINE Inv == JournalTypeOK /\ JournalInv /\ FlagsOK /\ ShopOK
  <1>1. Init => Inv
    BY InitJournalInv, FlagsInit, ShopInit DEF Init
  <1>2. Inv /\ [Next]_vars => Inv'
    BY JournalNext, FlagsNext, ShopNext
  <1> QED
    BY <1>1, <1>2, PTL DEF Spec

\* Every variable of kmain and of the command loop keeps its range: the report
\* under way has a file that is due, and what is on the medium is under one of
\* the paths the commands write.
THEOREM TypeCorrect == Spec => []TypeOK
  <1>1. JournalTypeOK /\ FlagsOK /\ ShopOK => TypeOK
    <2> SUFFICES ASSUME JournalTypeOK, FlagsOK, ShopOK PROVE TypeOK
      OBVIOUS
    <2>1. \A n \in DOMAIN job : job[n].path \in Path
      BY JobEntry, JobLength DEF ShopOK
    <2>2. stage = "report" => next \in DOMAIN job
      BY JobLength DEF ShopOK
    <2>3. {hosted, audit_ready, usable, transcript_active, operational} \subseteq BOOLEAN
      BY DEF FlagsOK
    <2>4. DOMAIN report_file = Path
      BY DEF ShopOK
    <2> QED
      BY <2>1, <2>2, <2>3, <2>4 DEF TypeOK, FlagsOK, ShopOK
  <1> QED
    BY <1>1, Always, PTL

\* write_report_verified: "written" is only told when every file of the report
\* holds its text, whatever the storage did, reported and had there before.
THEOREM ReportsAlwaysStored == Spec => []WrittenIsStored
  <1>1. ShopOK => WrittenIsStored
    BY DEF ShopOK
  <1> QED
    BY <1>1, Always, PTL

\* kmain and the report commands: no boot without an audit backend claims full
\* operation, nor does any report of any boot that is left on the medium.
THEOREM ClaimsAlwaysAudited == Spec => []FullNeedsAudit
  <1>1. FlagsOK /\ ShopOK => FullNeedsAudit
    <2> SUFFICES ASSUME FlagsOK, ShopOK PROVE FullNeedsAudit
      OBVIOUS
    <2>1. operational \/ mode = "guided" => boot \in audited
      BY DEF FlagsOK
    <2>2. ASSUME NEW p \in Path, NEW n \in Nat, 1 <= n, Size(report_file[p]) >= n
          PROVE  HonestLine(p, n, report_file[p][n])
      <3>1. report_file[p] # NoFile
        BY <2>2 DEF Size
      <3>2. n \in 1..Len(report_file[p])
        <4>1. Len(report_file[p]) \in Nat
          BY <3>1, LenProperties DEF ShopOK
        <4> QED
          BY <2>2, <3>1, <4>1 DEF Size
      <3> QED
        BY <3>1, <3>2 DEF ShopOK, GoodFile, Honest
    <2>3. Size(report_file["self-test.txt"]) >= 1 /\ report_file["self-test.txt"][1].full
            => report_file["self-test.txt"][1].boot \in audited
      <3>1. "self-test.txt" \in Path
        BY DEF Path, Listed
      <3>2. Size(report_file["self-test.txt"]) >= 1
              => HonestLine("self-test.txt", 1, report_file["self-test.txt"][1])
        BY <2>2, <3>1
      <3> QED
        BY <3>2 DEF HonestLine
    <2>4. ASSUME NEW c \in ClaimLines
          PROVE  Size(report_file[c[1]]) >= c[2] /\ report_file[c[1]][c[2]].full = 1
                   => report_file[c[1]][c[2]].boot \in audited
      <3>1. c[1] \in Path /\ c[2] \in Nat /\ 1 <= c[2] /\ c = <<c[1], c[2]>>
        BY DEF ClaimLines, Path, Listed
      <3> QED
        BY <2>2, <3>1 DEF HonestLine
    <2> QED
      BY <2>1, <2>3, <2>4 DEF FullNeedsAudit
  <1> QED
    BY <1>1, Always, PTL

-----------------------------------------------------------------------------
(* What a boot has stored stays stored *)

\* As long as no storage call has failed, the JSONL file starts with a record of
\* an older boot or is the beginning of the buffer.
Kept ==
  /\ active => 1 <= Len(jsonl) /\ jsonl[1].boot = boot
  /\ Sound /\ jsonl_file # NoFile => 1 <= Len(jsonl_file) /\ jsonl_file[1].boot <= boot
  /\ Sound /\ jsonl_file # NoFile /\ active =>
       jsonl_file[1].boot < boot \/ IsPrefix(jsonl_file, jsonl)

\* The moves of the journal in a step of the system.
JournalMove ==
  \/ (\E verified \in BOOLEAN : StartJournal(verified)) \/ AddEvent \/ WriteJsonl
  \/ StopJournal /\ (UNCHANGED jsonl_file \/ ~Sound')
  \/ UNCHANGED <<jsonl_file, jsonl, boot>> /\ (active' => active)

LEMMA SpendIsSound ==
  ASSUME JournalTypeOK, NEW n \in Nat, Spend(n), Sound'
  PROVE  Sound /\ n = 0
  BY DEF JournalTypeOK, Spend, Sound

LEMMA NextIsMove ==
  ASSUME JournalTypeOK, [Next]_vars
  PROVE  JournalMove /\ (Sound' => Sound)
  <1>1. CASE \/ PowerOn \/ InitAudit \/ InitStorage \/ Gate \/ Emergency \/ StorageCommand
             \/ InputClosed \/ End \/ UNCHANGED vars
             \/ (\E kind \in Kind \ {"index"} : Report(kind))
    <2>1. UNCHANGED <<jsonl_file, jsonl, boot, active, faults>>
      BY <1>1 DEF PowerOn, InitAudit, InitStorage, Gate, Emergency, StorageCommand, InputClosed,
                  End, Report, StartReport, vars, journal, journal_files, journal_buffers
    <2> QED
      BY <2>1 DEF JournalMove, Sound
  <1>2. CASE InitJournal
    <2>1. StartJournal(storage = "ok") /\ (storage = "ok") \in BOOLEAN
      BY <1>2 DEF InitJournal
    <2>2. UNCHANGED faults
      BY <2>1 DEF StartJournal
    <2> QED
      BY <2>1, <2>2 DEF JournalMove, Sound
  <1>3. CASE InitTranscript \/ TranscriptFails \/ Note \/ FlushCommand \/ Shutdown
    <2>1. AddEvent \/ Flush \/ UNCHANGED <<journal, faults>>
      BY <1>3 DEF InitTranscript, TranscriptFails, Note, FlushCommand, Shutdown, TellJournal
    <2>2. AddEvent \/ UNCHANGED <<jsonl_file, jsonl, boot, active>>
      BY <2>1 DEF Flush, journal, journal_files, journal_buffers
    <2>3. UNCHANGED faults
      BY <2>1 DEF AddEvent, Flush
    <2> QED
      BY <2>2, <2>3 DEF JournalMove, Sound
  <1>4. CASE KeepJournal
    <2>1. CASE WriteJsonl
      <3>1. PICK r \in WriteResults(jsonl_file, jsonl) : Spend(Cost(r, WriteDone(jsonl)))
        BY <2>1 DEF WriteJsonl
      <3>2. Sound' => Sound
        BY <3>1, CostType, SpendIsSound
      <3> QED
        BY <2>1, <3>2 DEF JournalMove
    <2>2. CASE WriteText
      <3>1. PICK r \in WriteResults(text_file, text) : Spend(Cost(r, WriteDone(text)))
        BY <2>2 DEF WriteText
      <3>2. Sound' => Sound
        BY <3>1, CostType, SpendIsSound
      <3>3. UNCHANGED <<jsonl_file, jsonl, boot>> /\ (active' => active)
        BY <2>2 DEF WriteText, Flushed, journal_buffers
      <3> QED
        BY <3>2, <3>3 DEF JournalMove
    <2>3. CASE Compare
      <3>1. PICK m, n : m \in {0, 1} /\ n \in {0, 1} /\ Spend(m + n)
        BY <2>3, CostType DEF Compare
      <3>2. m + n \in Nat
        BY <3>1
      <3>3. Sound' => Sound
        BY <3>1, <3>2, SpendIsSound
      <3>4. UNCHANGED <<jsonl_file, jsonl, boot>> /\ (active' => active)
        BY <2>3 DEF Compare, Flushed, journal_buffers, journal_files
      <3> QED
        BY <3>3, <3>4 DEF JournalMove
    <2> QED
      BY <1>4, <2>1, <2>2, <2>3 DEF KeepJournal, JournalStep
  <1>5. CASE ReportIndex
    <2>1. PICK missed \in SUBSET Readable :
            StartReport(Index(Readable \ missed)) /\ Spend(Cardinality(missed))
      BY <1>5 DEF ReportIndex
    <2>2. Sound' => Sound
      BY <2>1, MissedReports, SpendIsSound
    <2>3. UNCHANGED <<jsonl_file, jsonl, boot, active>>
      BY <2>1 DEF StartReport, journal, journal_files, journal_buffers
    <2> QED
      BY <2>2, <2>3 DEF JournalMove
  <1>6. CASE WriteReport
    <2>1. PICK m, n : m \in {0, 1} /\ n \in {0, 1} /\ Spend(m + n)
      BY <1>6, CostType DEF WriteReport
    <2>2. m + n \in Nat
      BY <2>1
    <2>3. Sound' => Sound
      BY <2>1, <2>2, SpendIsSound
    <2>4. UNCHANGED <<jsonl_file, jsonl, boot, active>>
      BY <1>6 DEF WriteReport, journal, journal_files, journal_buffers
    <2> QED
      BY <2>3, <2>4 DEF JournalMove
  <1>7. CASE Stop
    BY <1>7 DEF Stop, JournalMove, Sound, journal_files
  <1>8. CASE StopInWrite
    <2>1. Spend(1) /\ StopJournal
      BY <1>8 DEF StopInWrite, CutJournal
    <2>2. ~Sound'
      BY <2>1, SpendIsSound
    <2> QED
      BY <2>1, <2>2 DEF JournalMove
  <1> QED
    BY <1>1, <1>2, <1>3, <1>4, <1>5, <1>6, <1>7, <1>8 DEF Next, Step, Boot, Command

\* A write that does not fail leaves the buffer in the file.
LEMMA SoundWrite ==
  ASSUME JournalTypeOK, WriteJsonl, Sound'
  PROVE  jsonl_file' = jsonl
  <1>1. PICK r \in WriteResults(jsonl_file, jsonl) :
          Spend(Cost(r, WriteDone(jsonl))) /\ jsonl_file' = r.file
    BY DEF WriteJsonl
  <1>2. r \in WriteDone(jsonl)
    BY <1>1, CostType, SpendIsSound
  <1> QED
    BY <1>1, <1>2 DEF WriteDone

LEMMA KeptMove ==
  ASSUME JournalTypeOK, JournalInv, Kept, JournalMove, Sound' => Sound
  PROVE  Kept'
  <1>1. /\ boot \in Nat /\ Len(jsonl) \in Nat /\ jsonl \in Seq(Record) /\ Len(jsonl) <= JSONL_CAP
        /\ jsonl_file \in JournalFile
    BY BufferLengths, JournalFilesType DEF JournalTypeOK
  <1>2. CASE \E verified \in BOOLEAN : StartJournal(verified)
    <2>0. PICK verified \in BOOLEAN : StartJournal(verified)
      BY <1>2
    <2>1. UNCHANGED jsonl_file /\ boot' = boot + 1 /\ boot < MAX_BOOT /\ active' = verified
      BY <2>0 DEF StartJournal, journal_files
    <2>2. Sound' /\ jsonl_file' # NoFile =>
            1 <= Len(jsonl_file') /\ jsonl_file'[1].boot < boot' /\ jsonl_file'[1].boot <= boot'
      <3> SUFFICES ASSUME Sound', jsonl_file' # NoFile
                   PROVE  /\ 1 <= Len(jsonl_file') /\ jsonl_file'[1].boot < boot'
                          /\ jsonl_file'[1].boot <= boot'
        OBVIOUS
      <3>1. 1 <= Len(jsonl_file) /\ jsonl_file[1].boot <= boot
        BY <2>1 DEF Kept
      <3>2. jsonl_file \in Seq(Record)
        BY <1>1, <2>1 DEF JournalFile
      <3>3. jsonl_file[1] \in Record
        BY <3>1, <3>2, ElementOfSeq, LenProperties
      <3>4. jsonl_file[1].boot \in Nat
        BY <3>3 DEF Record
      <3> QED
        BY <1>1, <2>1, <3>1, <3>4
    <2>3. active' => 1 <= Len(jsonl') /\ jsonl'[1].boot = boot'
      <3> SUFFICES ASSUME active' PROVE 1 <= Len(jsonl') /\ jsonl'[1].boot = boot'
        OBVIOUS
      <3> DEFINE r == [boot |-> boot', seq |-> 1]
                 none == <<>>
      <3>0. verified
        BY <2>1
      <3>1. jsonl' = Into(none, JSONL_CAP, r) /\ r.boot = boot' /\ r \in Record
        BY <1>1, <2>0, <2>1, <3>0, Bounds DEF StartJournal, Added, Record
      <3>2. none \in Seq(Record) /\ Len(none) = 0 /\ Len(none) < JSONL_CAP /\ Len(none) + 1 = 1
        BY Bounds, EmptySeq
      <3> HIDE DEF r, none
      <3>3. /\ Len(Into(none, JSONL_CAP, r)) = Len(none) + 1
            /\ Into(none, JSONL_CAP, r)[Len(none) + 1] = r
        BY <3>1, <3>2, Bounds, IntoRoom
      <3> QED
        BY <3>1, <3>2, <3>3
    <2> QED
      BY <2>2, <2>3 DEF Kept
  <1>3. CASE AddEvent
    <2> DEFINE r == [boot |-> boot, seq |-> seq']
    <2>1. UNCHANGED <<jsonl_file, active, boot, faults>> /\ active
      BY <1>3 DEF AddEvent, journal_files
    <2>2. jsonl' = Into(jsonl, JSONL_CAP, r) /\ r \in Record
      BY <1>3, <2>1, AddedType, ActiveHasBoot
    <2> HIDE DEF r
    <2>3. jsonl' = jsonl \/ jsonl' = Append(jsonl, r)
      BY <2>2 DEF Into
    <2>4. 1 <= Len(jsonl) /\ jsonl[1].boot = boot
      BY <2>1 DEF Kept
    <2>5. 1 <= Len(jsonl') /\ jsonl'[1] = jsonl[1]
      BY <1>1, <2>2, <2>3, <2>4, AppendProperties
    <2>6. jsonl_file \in Seq(Record) /\ IsPrefix(jsonl_file, jsonl) => IsPrefix(jsonl_file, jsonl')
      BY <1>1, <2>2, <2>3, PrefixOfAppend
    <2> QED
      BY <1>1, <2>1, <2>4, <2>5, <2>6 DEF Kept, Sound, JournalFile
  <1>4. CASE WriteJsonl
    <2>1. UNCHANGED <<jsonl, boot, active>> /\ active
      BY <1>4 DEF WriteJsonl, journal_buffers, JournalInv, JournalOrder
    <2>2. Sound' => jsonl_file' = jsonl
      BY <1>4, SoundWrite
    <2>3. 1 <= Len(jsonl) /\ jsonl[1].boot = boot
      BY <2>1 DEF Kept
    <2>4. IsPrefix(jsonl, jsonl)
      BY <1>1, PrefixIsReflexive
    <2> QED
      BY <1>1, <2>1, <2>2, <2>3, <2>4 DEF Kept
  <1>5. CASE StopJournal /\ (UNCHANGED jsonl_file \/ ~Sound')
    <2>1. active' = FALSE /\ UNCHANGED boot
      BY <1>5 DEF StopJournal
    <2> QED
      BY <1>5, <2>1 DEF Kept
  <1>6. CASE UNCHANGED <<jsonl_file, jsonl, boot>> /\ (active' => active)
    BY <1>6 DEF Kept
  <1> QED
    BY <1>2, <1>3, <1>4, <1>5, <1>6 DEF JournalMove

LEMMA MoveTakesNothingBack ==
  ASSUME JournalTypeOK, JournalInv, Kept, JournalMove, Sound' => Sound,
         Sound', jsonl_file # NoFile, boot' = boot
  PROVE  jsonl_file[1].boot < boot \/ IsPrefix(jsonl_file, jsonl_file')
  <1>1. CASE WriteJsonl
    <2>1. active
      BY <1>1 DEF WriteJsonl, JournalInv, JournalOrder
    <2> QED
      BY <1>1, <2>1, SoundWrite DEF Kept
  <1>2. CASE UNCHANGED jsonl_file
    BY <1>2, JournalFilesType, PrefixIsReflexive DEF JournalFile
  <1>3. CASE \E verified \in BOOLEAN : StartJournal(verified)
    BY <1>3 DEF StartJournal, JournalTypeOK
  <1>4. CASE AddEvent
    BY <1>2, <1>4 DEF AddEvent, journal_files
  <1> QED
    BY <1>1, <1>2, <1>3, <1>4 DEF JournalMove

\* session_journal_flush rewrites the whole file at each event: while no storage
\* call fails, what a boot has put into its JSONL file stays there.
THEOREM NothingEverTakenBack == Spec => NothingTakenBack
  <1> DEFINE Inv == JournalTypeOK /\ JournalInv /\ Kept
             A == Sound' /\ jsonl_file # NoFile /\ boot' = boot =>
                    jsonl_file[1].boot < boot \/ IsPrefix(jsonl_file, jsonl_file')
  <1>1. Init => Inv
    BY InitJournalInv DEF Init, JournalInit, Kept
  <1>2. Inv /\ [Next]_vars => Inv'
    BY JournalNext, NextIsMove, KeptMove
  <1>3. Inv /\ [Next]_vars => [A]_journal
    BY NextIsMove, MoveTakesNothingBack
  <1>4. Spec => [][A]_journal
    <2> HIDE DEF Inv, A
    <2> QED
      BY <1>1, <1>2, <1>3, PTL DEF Spec
  <1> QED
    BY <1>4 DEF NothingTakenBack
=============================================================================
