----------------------- MODULE SessionTranscriptProofs -----------------------
(***************************************************************************)
(* Proofs about SessionTranscript, for any number of boots, events and     *)
(* parts, any capacities and any number of failures and power losses.      *)
(***************************************************************************)
EXTENDS SessionTranscript, TextStoreProofs, FiniteSetTheorems

LEMMA Bounds ==
  /\ TXT_CAP \in Nat /\ JSONL_CAP \in Nat /\ READ_CAP \in Nat
  /\ MAX_BOOT \in Nat /\ MAX_SEQ \in Nat /\ MAX_PART \in Nat
  /\ MAX_FAULTS \in Nat /\ MAX_CUTS \in Nat
  /\ 3 <= JSONL_CAP /\ 2 <= TXT_CAP /\ 1 <= MAX_PART
  BY BoundsAssumption

LEMMA BufferType ==
  TypeOK => /\ txt \in Seq(Line) /\ Len(txt) \in Nat /\ Len(txt) <= TXT_CAP
            /\ jsonl \in Seq(Line) /\ Len(jsonl) \in Nat
            /\ (~jsonl_locked => Len(jsonl) <= JSONL_CAP)
            /\ seq \in Nat /\ part \in 1..MAX_PART /\ session \in Nat
            /\ job.type \in Type /\ job.rotating \in BOOLEAN
            /\ jsonl_locked \in BOOLEAN /\ active \in BOOLEAN
  BY LenProperties DEF TypeOK, Part, Id

\* A line of a transcript.
LEMMA LineType ==
  ASSUME NEW n \in Nat, NEW t \in Type
  PROVE  [seq |-> n, type |-> t] \in Line
  BY DEF Line

-----------------------------------------------------------------------------
(* The buffers *)

\* ap drops what does not fit: what was there stays, and what fits is added.
LEMMA TxtWithLines ==
  ASSUME TypeOK, NEW lines \in Seq(Line)
  PROVE  /\ TxtWith(lines) \in Seq(Line)
         /\ Len(TxtWith(lines)) \in Nat /\ Len(TxtWith(lines)) <= TXT_CAP
         /\ Len(txt) <= Len(TxtWith(lines))
         /\ \A n \in 1..Len(txt) : TxtWith(lines)[n] = txt[n]
         /\ \A n \in 1..Len(lines) :
              \/ Len(TxtWith(lines)) = TXT_CAP
              \/ Len(txt) + n <= Len(TxtWith(lines)) /\ TxtWith(lines)[Len(txt) + n] = lines[n]
         /\ Len(TxtWith(lines)) = TXT_CAP \/ Len(TxtWith(lines)) = Len(txt) + Len(lines)
         /\ \A n \in 1..Len(lines) : Len(txt) + n <= TXT_CAP =>
              Len(txt) + n <= Len(TxtWith(lines)) /\ TxtWith(lines)[Len(txt) + n] = lines[n]
  <1> DEFINE both == txt \o lines
  <1>1. /\ txt \in Seq(Line) /\ Len(txt) \in Nat /\ Len(txt) <= TXT_CAP
        /\ Len(lines) \in Nat /\ TXT_CAP \in Nat
    BY BufferType, Bounds, LenProperties
  <1>2. /\ both \in Seq(Line) /\ Len(both) = Len(txt) + Len(lines)
        /\ \A i \in 1..Len(txt) : both[i] = txt[i]
        /\ \A i \in 1..Len(lines) : both[Len(txt) + i] = lines[i]
    BY <1>1, ConcatElements
  <1>3. CASE Len(both) <= TXT_CAP
    <2>1. TxtWith(lines) = both
      BY <1>3 DEF TxtWith
    <2> HIDE DEF both
    <2> QED
      BY <1>1, <1>2, <1>3, <2>1
  <1>4. CASE ~(Len(both) <= TXT_CAP)
    <2>1. TxtWith(lines) = SubSeq(both, 1, TXT_CAP)
      BY <1>4 DEF TxtWith
    <2> HIDE DEF both
    <2>2. TXT_CAP \in 0..Len(both)
      BY <1>1, <1>2, <1>4
    <2>3. /\ TxtWith(lines) \in Seq(Line) /\ Len(TxtWith(lines)) = TXT_CAP
          /\ \A i \in 1..TXT_CAP : TxtWith(lines)[i] = both[i]
      BY <1>2, <2>1, <2>2, StartOfSeq
    <2> QED
      BY <1>1, <1>2, <2>3
  <1> QED
    BY <1>3, <1>4

\* event() on buffers that take the line, or whose JSONL file is closed.
LEMMA BeginTypes ==
  ASSUME TypeOK, NEW type \in Type, Begin(type)
  PROVE  /\ pc' = "txt" /\ job' \in [type : Type, rotating : BOOLEAN] /\ job'.type = type
         /\ txt' \in Seq(Line) /\ Len(txt') \in Nat /\ Len(txt') <= TXT_CAP
         /\ jsonl' \in Seq(Line) /\ (~jsonl_locked => Len(jsonl') <= JSONL_CAP)
         /\ seq' \in Nat
         /\ UNCHANGED <<txt_file, jsonl_file, owners, session, part, jsonl_locked, active, boot,
                        faults, cuts>>
  <1> DEFINE line == [seq |-> seq + 1, type |-> type]
             rotating == ~jsonl_locked /\ ~Fits(jsonl, JSONL_CAP)
  <1>1. line \in Line
    BY BufferType, LineType
  <1>2. /\ pc' = "txt" /\ job' = [type |-> type, rotating |-> rotating]
        /\ UNCHANGED <<txt_file, jsonl_file, owners, session, part, jsonl_locked, active, boot,
                       faults, cuts>>
        /\ \/ UNCHANGED <<txt, jsonl, seq>>
           \/ /\ seq' = seq + 1 /\ txt' = TxtWith(<<line>>) /\ ~rotating
              /\ jsonl' = IF jsonl_locked THEN jsonl ELSE Append(jsonl, line)
    BY DEF Begin, FlushOrder, medium, counts
  <1>3. rotating \in BOOLEAN
    OBVIOUS
  <1>4. job' \in [type : Type, rotating : BOOLEAN] /\ job'.type = type
    BY <1>2, <1>3
  <1>5. CASE UNCHANGED <<txt, jsonl, seq>>
    BY <1>2, <1>4, <1>5, BufferType
  <1>6. CASE /\ seq' = seq + 1 /\ txt' = TxtWith(<<line>>) /\ ~rotating
             /\ jsonl' = IF jsonl_locked THEN jsonl ELSE Append(jsonl, line)
    <2> HIDE DEF line
    <2>1. <<line>> \in Seq(Line)
      BY <1>1
    <2>2. txt' \in Seq(Line) /\ Len(txt') \in Nat /\ Len(txt') <= TXT_CAP
      BY <1>6, <2>1, TxtWithLines
    <2>3. jsonl' \in Seq(Line) /\ (~jsonl_locked => Len(jsonl') <= JSONL_CAP)
      <3>1. CASE jsonl_locked
        BY <1>6, <3>1, BufferType
      <3>2. CASE ~jsonl_locked
        <4>1. jsonl' = Append(jsonl, line) /\ Len(jsonl) < JSONL_CAP
          BY <1>6, <3>2 DEF Fits
        <4>2. jsonl' \in Seq(Line) /\ Len(jsonl') = Len(jsonl) + 1
          BY <1>1, <4>1, BufferType, AppendProperties
        <4> QED
          BY <4>1, <4>2, BufferType, Bounds
      <3> QED
        BY <3>1, <3>2
    <2> QED
      BY <1>2, <1>4, <1>6, <2>2, <2>3, BufferType
  <1> QED
    BY <1>2, <1>5, <1>6

\* What rotate_jsonl_part does to the buffers, and what becomes of them when it
\* has failed.
LEMMA RotatedTypes ==
  ASSUME TypeOK, Rotated
  PROVE  /\ txt' = TxtWith(<<[seq |-> seq + 3, type |-> job.type]>>)
         /\ txt' \in Seq(Line) /\ Len(txt') <= TXT_CAP
         /\ jsonl' \in Seq(Line) /\ Len(jsonl') = 3
         /\ jsonl'[1] = [seq |-> seq + 1, type |-> "transcript_rotated"]
         /\ jsonl'[2] = [seq |-> seq + 2, type |-> "transcript_part_start"]
         /\ jsonl'[3] = [seq |-> seq + 3, type |-> job.type]
         /\ seq' = seq + 3 /\ part' = part + 1 /\ UNCHANGED jsonl_locked
  <1> DEFINE a == [seq |-> seq + 1, type |-> "transcript_rotated"]
             b == [seq |-> seq + 2, type |-> "transcript_part_start"]
             c == [seq |-> seq + 3, type |-> job.type]
  <1>1. a \in Line /\ b \in Line /\ c \in Line
    BY BufferType, LineType DEF Type
  <1>2. /\ txt' = TxtWith(<<c>>) /\ jsonl' = <<a, b, c>>
        /\ seq' = seq + 3 /\ part' = part + 1 /\ UNCHANGED jsonl_locked
    BY DEF Rotated
  <1> HIDE DEF a, b, c
  <1>3. <<c>> \in Seq(Line)
    BY <1>1
  <1>4. txt' \in Seq(Line) /\ Len(txt') <= TXT_CAP
    BY <1>2, <1>3, TxtWithLines
  <1>5. /\ jsonl' \in Seq(Line) /\ Len(jsonl') = 3
        /\ jsonl'[1] = a /\ jsonl'[2] = b /\ jsonl'[3] = c
    BY <1>1, <1>2
  <1> QED
    BY <1>2, <1>4, <1>5 DEF a, b, c

LEMMA TruncatedTypes ==
  ASSUME TypeOK, Truncated
  PROVE  /\ txt' \in Seq(Line) /\ Len(txt') <= TXT_CAP
         /\ Len(txt) <= Len(txt') /\ \A n \in 1..Len(txt) : txt'[n] = txt[n]
         /\ jsonl' \in Seq(Line) /\ jsonl_locked' = TRUE
         /\ seq' \in Nat /\ UNCHANGED part
  <1> DEFINE a == [seq |-> seq + 1, type |-> "transcript_truncated"]
             b == [seq |-> seq + 1, type |-> job.type]
  <1>1. a \in Line /\ b \in Line
    <2>1. "transcript_truncated" \in Type
      BY DEF Type, Mark
    <2>2. seq + 1 \in Nat /\ job.type \in Type
      BY BufferType
    <2> QED
      BY <2>1, <2>2, LineType
  <1>2. /\ txt' = TxtWith(<<a, b>>) /\ jsonl' \in {jsonl, Append(jsonl, a)}
        /\ jsonl_locked' = TRUE /\ seq' = seq + 1 /\ UNCHANGED part
    BY DEF Truncated
  <1> HIDE DEF a, b
  <1>3. <<a, b>> \in Seq(Line)
    BY <1>1
  <1>4. /\ txt' \in Seq(Line) /\ Len(txt') <= TXT_CAP
        /\ Len(txt) <= Len(txt') /\ \A n \in 1..Len(txt) : txt'[n] = txt[n]
    BY <1>2, <1>3, TxtWithLines
  <1>5. jsonl' \in Seq(Line)
    <2>1. jsonl \in Seq(Line)
      BY BufferType
    <2>2. Append(jsonl, a) \in Seq(Line)
      BY <1>1, <2>1, AppendProperties
    <2> QED
      BY <1>2, <2>1, <2>2
  <1>6. seq' \in Nat
    BY <1>2, BufferType
  <1> QED
    BY <1>2, <1>4, <1>5, <1>6

-----------------------------------------------------------------------------
(* The order of events *)

Busy == pc \in {"txt", "jsonl", "compare"}

\* The order in which a boot gets to its first events, which do not rotate.
Shape ==
  /\ pc # "off" => session \in Id /\ boot \in 1..MAX_BOOT
  /\ pc = "off" => session = 0
  /\ pc \in {"off", "start"} =>
       txt = <<>> /\ jsonl = <<>> /\ seq = 0 /\ part = 1 /\ ~jsonl_locked
  /\ pc \in {"check", "note"} \/ (Busy /\ job.type = "session_start")
       => Len(txt) = 1 /\ Len(jsonl) = 1 /\ ~job.rotating
  /\ job.rotating => Busy /\ part < MAX_PART /\ ~jsonl_locked
                       /\ job.type # "previous_session_unclean"

\* What a flush that returns leaves: either the second flush of an event whose
\* rotation is over, or the end of the event.
LEMMA FlushedMoves ==
  ASSUME TypeOK, NEW ok \in BOOLEAN, Flushed(ok)
  PROVE  /\ UNCHANGED <<session, boot>>
         /\ \/ /\ job.rotating /\ job' = [job EXCEPT !.rotating = FALSE] /\ pc' = "txt"
               /\ IF ok THEN Rotated ELSE Truncated
               /\ UNCHANGED active
            \/ /\ ~job.rotating /\ pc' = After(job.type) /\ active' = ok
               /\ UNCHANGED <<job, txt, jsonl, seq, part, jsonl_locked>>
  BY DEF Flushed, FlushOrder

LEMMA AfterTypes ==
  \A t \in Type : /\ After(t) \in {"check", "closed", "idle"}
                  /\ After(t) = "check" <=> t = "session_start"
  BY DEF After, Type, Mark

\* What the buffers and the position are after a call of flushv.
LEMMA CallTypes ==
  ASSUME TypeOK, Shape, Busy, NEW ok \in BOOLEAN, NEW next \in Phase, next # "off",
         Proceed(next) \/ Flushed(ok)
  PROVE  /\ pc' \in Phase /\ job' \in [type : Type, rotating : BOOLEAN]
         /\ session' = session /\ boot' = boot
         /\ txt' \in Seq(Line) /\ Len(txt') <= TXT_CAP
         /\ Len(txt) <= Len(txt') /\ \A n \in 1..Len(txt) : txt'[n] = txt[n]
         /\ jsonl' \in Seq(Line) /\ (~jsonl_locked' => Len(jsonl') <= JSONL_CAP)
         /\ seq' \in Nat /\ part' \in Part
         /\ jsonl_locked' \in BOOLEAN /\ active' \in BOOLEAN
  <1>1. CASE Proceed(next)
    <2>1. pc' = next /\ UNCHANGED <<job, session, txt, jsonl, seq, part, jsonl_locked, active, boot>>
      BY <1>1 DEF Proceed, buffers
    <2> QED
      BY <2>1, BufferType DEF TypeOK
  <1>2. CASE Flushed(ok)
    <2>1. CASE /\ job.rotating /\ job' = [job EXCEPT !.rotating = FALSE] /\ pc' = "txt"
               /\ IF ok THEN Rotated ELSE Truncated
               /\ UNCHANGED active
      <3>0. job' \in [type : Type, rotating : BOOLEAN] /\ pc' \in Phase
        BY <2>1 DEF TypeOK, Phase
      <3>1. CASE Rotated
        <4>1. part < MAX_PART /\ part' = part + 1
          BY <2>1, <3>1 DEF Shape, Rotated
        <4>2. part' \in Part
          BY <4>1, BufferType, Bounds DEF Part
        <4>3. /\ txt' \in Seq(Line) /\ Len(txt') <= TXT_CAP
              /\ Len(txt) <= Len(txt') /\ \A n \in 1..Len(txt) : txt'[n] = txt[n]
          <5>1. [seq |-> seq + 3, type |-> job.type] \in Line
            BY BufferType, LineType
          <5> DEFINE line == [seq |-> seq + 3, type |-> job.type]
          <5>2. txt' = TxtWith(<<line>>)
            BY <3>1, RotatedTypes
          <5> HIDE DEF line
          <5>3. <<line>> \in Seq(Line)
            BY <5>1 DEF line
          <5> QED
            BY <5>2, <5>3, TxtWithLines
        <4>4. seq' \in Nat /\ jsonl' \in Seq(Line) /\ Len(jsonl') <= JSONL_CAP
          <5>1. seq' = seq + 3 /\ jsonl' \in Seq(Line) /\ Len(jsonl') = 3
            BY <3>1, RotatedTypes
          <5> QED
            BY <5>1, BufferType, Bounds
        <4> QED
          BY <2>1, <3>0, <3>1, <4>2, <4>3, <4>4, RotatedTypes, FlushedMoves, BufferType, <1>2
      <3>2. CASE Truncated
        BY <1>2, <2>1, <3>0, <3>2, TruncatedTypes, FlushedMoves, BufferType DEF Part
      <3> QED
        BY <2>1, <3>1, <3>2
    <2>2. CASE /\ ~job.rotating /\ pc' = After(job.type) /\ active' = ok
               /\ UNCHANGED <<job, txt, jsonl, seq, part, jsonl_locked>>
      <3>1. pc' \in Phase
        BY <2>2, AfterTypes, BufferType DEF Phase
      <3> QED
        BY <1>2, <2>2, <3>1, FlushedMoves, BufferType DEF TypeOK
    <2> QED
      BY <1>2, <2>1, <2>2, FlushedMoves
  <1> QED
    BY <1>1, <1>2

LEMMA FileTypes ==
  ASSUME TypeOK, session \in Id
  PROVE  /\ txt_file[session] \in File /\ jsonl_file[session][part] \in File
         /\ part \in Part /\ jsonl_file[session] \in [Part -> File]
  BY DEF TypeOK

LEMMA BusyShape ==
  Shape /\ Busy => session \in Id /\ boot \in 1..MAX_BOOT
  BY DEF Shape, Busy

LEMMA OwnedType ==
  ASSUME TypeOK, Shape, Busy, Owned
  PROVE  owners' \in [Id -> SUBSET (1..MAX_BOOT)]
  BY BusyShape DEF Owned, TypeOK

\* Each call of flushv changes one file, or none, and then returns or goes on.
LEMMA CallMoves ==
  ASSUME TypeOK, Shape, WriteTxt \/ WriteJsonl \/ Compare
  PROVE  /\ Busy
         /\ \E ok \in BOOLEAN, next \in {"jsonl", "compare"} : Proceed(next) \/ Flushed(ok)
         /\ txt_file' \in [Id -> File] /\ jsonl_file' \in [Id -> [Part -> File]]
         /\ owners' \in [Id -> SUBSET (1..MAX_BOOT)]
         /\ faults' \in 0..MAX_FAULTS /\ UNCHANGED cuts
  <1>1. Busy
    BY DEF WriteTxt, WriteJsonl, Compare, Busy
  <1>2. /\ session \in Id /\ txt_file[session] \in File /\ jsonl_file[session][part] \in File
        /\ part \in Part /\ txt \in Seq(Line) /\ jsonl \in Seq(Line) /\ faults \in Nat
        /\ READ_CAP \in Nat
    BY <1>1, BusyShape, FileTypes, BufferType, Bounds DEF TypeOK
  <1>3. CASE WriteTxt
    <2>1. PICK r \in WriteResults(txt_file[session], txt) :
            /\ faults + Cost(r, WriteDone(txt)) <= MAX_FAULTS
            /\ faults' = faults + Cost(r, WriteDone(txt))
            /\ txt_file' = [txt_file EXCEPT ![session] = r.file]
            /\ IF r.ok THEN Proceed(NextCall("txt")) ELSE Flushed(FALSE)
      BY <1>3 DEF WriteTxt
    <2>2. r.file \in File
      BY <1>2, WriteType DEF File
    <2>3. txt_file' \in [Id -> File]
      BY <2>1, <2>2 DEF TypeOK
    <2>4. UNCHANGED <<jsonl_file, cuts>> /\ Owned
      BY <1>3 DEF WriteTxt
    <2>5. faults' \in 0..MAX_FAULTS
      BY <1>2, <2>1, CostType, Bounds
    <2>6. NextCall("txt") \in {"jsonl", "compare"}
      BY DEF NextCall, FlushOrder
    <2>7. \E ok \in BOOLEAN, next \in {"jsonl", "compare"} : Proceed(next) \/ Flushed(ok)
      BY <2>1, <2>6
    <2> QED
      BY <1>1, <2>3, <2>4, <2>5, <2>7, OwnedType DEF TypeOK
  <1>4. CASE WriteJsonl
    <2>1. PICK r \in WriteResults(jsonl_file[session][part], jsonl) :
            /\ faults + Cost(r, WriteDone(jsonl)) <= MAX_FAULTS
            /\ faults' = faults + Cost(r, WriteDone(jsonl))
            /\ jsonl_file' = [jsonl_file EXCEPT ![session][part] = r.file]
            /\ IF r.ok THEN Proceed(NextCall("jsonl")) ELSE Flushed(FALSE)
      BY <1>4 DEF WriteJsonl
    <2>2. r.file \in File
      BY <1>2, WriteType DEF File
    <2>3. jsonl_file' \in [Id -> [Part -> File]]
      BY <1>2, <2>1, <2>2 DEF TypeOK
    <2>4. UNCHANGED <<txt_file, cuts>> /\ Owned
      BY <1>4 DEF WriteJsonl
    <2>5. faults' \in 0..MAX_FAULTS
      BY <1>2, <2>1, CostType, Bounds
    <2>6. NextCall("jsonl") \in {"jsonl", "compare"}
      BY DEF NextCall, FlushOrder
    <2>7. \E ok \in BOOLEAN, next \in {"jsonl", "compare"} : Proceed(next) \/ Flushed(ok)
      BY <2>1, <2>6
    <2> QED
      BY <1>1, <2>3, <2>4, <2>5, <2>7, OwnedType DEF TypeOK
  <1>5. CASE Compare
    <2>1. UNCHANGED <<txt_file, jsonl_file, owners, cuts>>
      BY <1>5 DEF Compare, medium
    <2>2. CASE Flushed(TRUE) /\ UNCHANGED faults
      BY <1>1, <2>1, <2>2 DEF TypeOK
    <2>3. CASE \E a \in ReadResults(txt_file[session], READ_CAP),
                  b \in ReadResults(jsonl_file[session][part], READ_CAP) :
                 LET cost == Cost(a, ReadDone(txt_file[session], READ_CAP))
                             + Cost(b, ReadDone(jsonl_file[session][part], READ_CAP))
                 IN
                   /\ faults + cost <= MAX_FAULTS
                   /\ faults' = faults + cost
                   /\ Flushed(a.ok /\ b.ok /\ a.text = txt /\ b.text = jsonl)
      <3>1. PICK a \in ReadResults(txt_file[session], READ_CAP),
                 b \in ReadResults(jsonl_file[session][part], READ_CAP) :
                   /\ faults + (Cost(a, ReadDone(txt_file[session], READ_CAP))
                                + Cost(b, ReadDone(jsonl_file[session][part], READ_CAP)))
                        <= MAX_FAULTS
                   /\ faults' = faults + (Cost(a, ReadDone(txt_file[session], READ_CAP))
                                + Cost(b, ReadDone(jsonl_file[session][part], READ_CAP)))
                   /\ Flushed(a.ok /\ b.ok /\ a.text = txt /\ b.text = jsonl)
        BY <2>3
      <3>2. faults' \in 0..MAX_FAULTS
        BY <1>2, <3>1, CostType, Bounds
      <3>3. (a.ok /\ b.ok /\ a.text = txt /\ b.text = jsonl) \in BOOLEAN
        OBVIOUS
      <3>4. \E ok \in BOOLEAN, next \in {"jsonl", "compare"} : Proceed(next) \/ Flushed(ok)
        BY <3>1, <3>3
      <3> QED
        BY <1>1, <2>1, <3>2, <3>4 DEF TypeOK
    <2> QED
      BY <1>5, <2>2, <2>3 DEF Compare
  <1> QED
    BY <1>3, <1>4, <1>5

\* A call keeps the order of events.
LEMMA CallShape ==
  ASSUME TypeOK, Shape, Busy, NEW ok \in BOOLEAN, NEW next \in {"jsonl", "compare"},
         Proceed(next) \/ Flushed(ok)
  PROVE  Shape'
  <1>1. session \in Id /\ boot \in 1..MAX_BOOT
    BY BusyShape
  <1>2. CASE Proceed(next)
    <2>1. pc' = next /\ UNCHANGED <<job, session, txt, jsonl, seq, part, jsonl_locked, active, boot>>
      BY <1>2 DEF Proceed, buffers
    <2> QED
      BY <1>1, <2>1 DEF Shape, Busy
  <1>3. CASE Flushed(ok)
    <2>1. CASE /\ job.rotating /\ job' = [job EXCEPT !.rotating = FALSE] /\ pc' = "txt"
      <3>1. job'.type = job.type /\ job'.rotating = FALSE
        BY <2>1 DEF TypeOK
      <3>2. job.type # "session_start"
        BY <2>1 DEF Shape
      <3> QED
        BY <1>1, <1>3, <2>1, <3>1, <3>2, FlushedMoves DEF Shape
    <2>2. CASE /\ ~job.rotating /\ pc' = After(job.type)
               /\ UNCHANGED <<job, txt, jsonl, seq, part, jsonl_locked>>
      <3>1. pc' \in {"check", "closed", "idle"}
        BY <2>2, AfterTypes, BufferType
      <3>2. pc' = "check" => job.type = "session_start"
        BY <2>2, AfterTypes, BufferType
      <3> QED
        BY <1>1, <1>3, <2>2, <3>1, <3>2, FlushedMoves DEF Shape, Busy
    <2> QED
      BY <1>3, <2>1, <2>2, FlushedMoves
  <1> QED
    BY <1>2, <1>3

\* The first event of a boot, and the second.
LEMMA FirstEvent ==
  ASSUME TypeOK, Shape, pc = "start", NEW type \in Type, Begin(type)
  PROVE  /\ txt' = TxtWith(<<[seq |-> 1, type |-> type]>>)
         /\ jsonl' = <<[seq |-> 1, type |-> type]>>
         /\ Len(txt') = 1 /\ Len(jsonl') = 1 /\ seq' = 1
         /\ txt'[1] = [seq |-> 1, type |-> type]
         /\ job' = [type |-> type, rotating |-> FALSE]
  <1> DEFINE line == [seq |-> 1, type |-> type]
  <1>1. txt = <<>> /\ jsonl = <<>> /\ seq = 0 /\ ~jsonl_locked /\ line \in Line
    BY LineType DEF Shape
  <1>2. Len(<<>>) = 0 /\ Fits(jsonl, JSONL_CAP)
    BY <1>1, Bounds DEF Fits
  <1>3. /\ seq' = 1 /\ txt' = TxtWith(<<line>>) /\ jsonl' = Append(<<>>, line)
        /\ job' = [type |-> type, rotating |-> FALSE]
    <2> DEFINE rotating == ~jsonl_locked /\ ~Fits(jsonl, JSONL_CAP)
               other == [seq |-> seq + 1, type |-> type]
    <2>1. rotating = FALSE /\ other = line
      BY <1>1, <1>2
    <2>2. /\ job' = [type |-> type, rotating |-> rotating]
          /\ \/ rotating
             \/ /\ seq' = seq + 1 /\ txt' = TxtWith(<<other>>)
                /\ jsonl' = IF jsonl_locked THEN jsonl ELSE Append(jsonl, other)
      BY DEF Begin
    <2> HIDE DEF rotating, other, line
    <2>3. seq' = seq + 1 /\ txt' = TxtWith(<<line>>) /\ jsonl' = Append(jsonl, line)
      BY <1>1, <2>1, <2>2
    <2>4. job' = [type |-> type, rotating |-> FALSE]
      BY <2>1, <2>2
    <2>5. seq' = 1
      BY <1>1, <2>3
    <2>6. jsonl' = Append(<<>>, line)
      BY <1>1, <2>3
    <2> QED
      BY <2>3, <2>4, <2>5, <2>6
  <1> HIDE DEF line
  <1>4. <<line>> \in Seq(Line) /\ Len(<<line>>) = 1 /\ <<line>>[1] = line
    BY <1>1
  <1>5. jsonl' = <<line>>
    BY <1>1, <1>3
  <1>6. Len(txt') = 1 /\ txt'[1] = line
    <2>1. Len(txt) = 0 /\ 1 \in 1..Len(<<line>>) /\ Len(txt) + 1 = 1 /\ 1 <= TXT_CAP
      BY <1>1, <1>2, <1>4, Bounds
    <2>2. /\ Len(TxtWith(<<line>>)) = TXT_CAP \/ Len(TxtWith(<<line>>)) = Len(txt) + Len(<<line>>)
          /\ TxtWith(<<line>>)[Len(txt) + 1] = line
      BY <1>4, <2>1, TxtWithLines
    <2>3. Len(txt \o <<line>>) = 1 /\ 1 <= TXT_CAP
      BY <1>1, <1>4, Bounds
    <2>4. TxtWith(<<line>>) = txt \o <<line>>
      BY <2>3 DEF TxtWith
    <2> QED
      BY <1>3, <2>1, <2>2, <2>3, <2>4
  <1> QED
    BY <1>3, <1>4, <1>5, <1>6 DEF line

\* The event that is begun when the program is told of a session that looks cut
\* off finds room in both buffers.
LEMMA SecondEvent ==
  ASSUME TypeOK, Shape, pc = "note", NEW type \in Type, Begin(type)
  PROVE  /\ job'.rotating = FALSE
         /\ 2 <= Len(txt') /\ txt'[2].type = type
  <1> DEFINE line == [seq |-> seq + 1, type |-> type]
             rotating == ~jsonl_locked /\ ~Fits(jsonl, JSONL_CAP)
  <1>1. Len(txt) = 1 /\ Len(jsonl) = 1
    BY DEF Shape
  <1>2. Fits(jsonl, JSONL_CAP)
    BY <1>1, Bounds DEF Fits
  <1>3. line \in Line /\ line.type = type
    BY BufferType, LineType
  <1>4. rotating = FALSE
    BY <1>2
  <1>5. /\ job' = [type |-> type, rotating |-> rotating]
        /\ rotating \/ txt' = TxtWith(<<line>>)
    BY DEF Begin
  <1> HIDE DEF rotating, line
  <1>6. txt' = TxtWith(<<line>>)
    BY <1>4, <1>5
  <1>7. <<line>> \in Seq(Line) /\ Len(<<line>>) = 1 /\ <<line>>[1] = line
    BY <1>3
  <1>8. 1 \in 1..Len(<<line>>) /\ Len(txt) + 1 = 2 /\ Len(txt) + 1 <= TXT_CAP
    BY <1>1, <1>7, Bounds
  <1>9. Len(txt) + 1 <= Len(TxtWith(<<line>>)) /\ TxtWith(<<line>>)[Len(txt) + 1] = line
    BY <1>7, <1>8, TxtWithLines
  <1>10. job'.rotating = FALSE
    BY <1>4, <1>5
  <1> QED
    BY <1>3, <1>6, <1>8, <1>9, <1>10

\* Where a boot begins an event.
LEMMA BeginKeeps ==
  ASSUME TypeOK, Shape, NEW type \in Type, Begin(type),
         \/ pc = "start" /\ type = "session_start"
         \/ pc = "note" /\ type = "previous_session_unclean"
         \/ /\ pc = "idle" /\ part < MAX_PART
            /\ type # "session_start" /\ type # "previous_session_unclean"
  PROVE  TypeOK' /\ Shape'
  <1>1. /\ pc' = "txt" /\ job' \in [type : Type, rotating : BOOLEAN] /\ job'.type = type
        /\ txt' \in Seq(Line) /\ Len(txt') <= TXT_CAP
        /\ jsonl' \in Seq(Line) /\ (~jsonl_locked => Len(jsonl') <= JSONL_CAP)
        /\ seq' \in Nat
        /\ UNCHANGED <<txt_file, jsonl_file, owners, session, part, jsonl_locked, active, boot,
                       faults, cuts>>
    BY BeginTypes
  <1>2. pc' \in Phase
    BY <1>1 DEF Phase
  <1>3. TypeOK'
    BY <1>1, <1>2 DEF TypeOK
  <1>4. session' \in Id /\ boot' \in 1..MAX_BOOT
    BY <1>1 DEF Shape
  <1>5. CASE pc = "start" /\ type = "session_start"
    <2>1. Len(txt') = 1 /\ Len(jsonl') = 1 /\ job' = [type |-> type, rotating |-> FALSE]
      BY <1>5, FirstEvent
    <2>2. job'.rotating = FALSE
      BY <2>1
    <2> QED
      BY <1>1, <1>3, <1>4, <2>1, <2>2 DEF Shape
  <1>6. CASE pc = "note" /\ type = "previous_session_unclean"
    BY <1>1, <1>3, <1>4, <1>6, SecondEvent DEF Shape, Busy
  <1>7. CASE /\ pc = "idle" /\ part < MAX_PART
             /\ type # "session_start" /\ type # "previous_session_unclean"
    <2>1. job'.rotating => ~jsonl_locked
      BY DEF Begin
    <2> QED
      BY <1>1, <1>3, <1>4, <1>7, <2>1 DEF Shape, Busy
  <1> QED
    BY <1>3, <1>5, <1>6, <1>7

LEMMA ForgetTypes ==
  ASSUME TypeOK, Forget, pc' = "off", UNCHANGED boot,
         txt_file' \in [Id -> File], jsonl_file' \in [Id -> [Part -> File]],
         owners' \in [Id -> SUBSET (1..MAX_BOOT)],
         faults' \in 0..MAX_FAULTS, cuts' \in 0..MAX_CUTS
  PROVE  TypeOK' /\ Shape'
  <1>1. /\ job' = NoJob /\ session' = 0 /\ txt' = <<>> /\ jsonl' = <<>> /\ seq' = 0 /\ part' = 1
        /\ jsonl_locked' = FALSE /\ active' = FALSE
    BY DEF Forget
  <1>2. <<>> \in Seq(Line) /\ Len(<<>>) = 0
    BY EmptySeq
  <1>3. job' \in [type : Type, rotating : BOOLEAN] /\ job'.rotating = FALSE
    BY <1>1 DEF NoJob, Type
  <1>4. 1 \in Part /\ "off" \in Phase /\ 0 <= TXT_CAP /\ 0 <= JSONL_CAP
    BY Bounds DEF Part, Phase
  <1>5. TypeOK'
    BY <1>1, <1>2, <1>3, <1>4 DEF TypeOK
  <1>6. Shape'
    BY <1>1, <1>3 DEF Shape, Busy
  <1> QED
    BY <1>5, <1>6

LEMMA TypeInit == Init => TypeOK /\ Shape
  <1> SUFFICES ASSUME Init PROVE TypeOK /\ Shape
    OBVIOUS
  <1>2. <<>> \in Seq(Line) /\ Len(<<>>) = 0
    BY EmptySeq
  <1>3. job \in [type : Type, rotating : BOOLEAN] /\ job.rotating = FALSE
    BY DEF Init, NoJob, Type
  <1>4. /\ 1 \in Part /\ "off" \in Phase /\ 0 <= TXT_CAP /\ 0 <= JSONL_CAP
        /\ 0 \in 0..MAX_BOOT /\ 0 \in 0..MAX_FAULTS /\ 0 \in 0..MAX_CUTS
    BY Bounds DEF Part, Phase
  <1>5. txt_file \in [Id -> File] /\ jsonl_file \in [Id -> [Part -> File]]
    BY DEF Init, File
  <1>6. TypeOK
    BY <1>2, <1>3, <1>4, <1>5 DEF Init, TypeOK
  <1>7. Shape
    BY <1>3 DEF Init, Shape, Busy
  <1> QED
    BY <1>6, <1>7

\* The events the callers log, and where they log them.
LEMMA BeginMoves ==
  ASSUME Start \/ NoteUnclean \/ Log \/ Shutdown
  PROVE  \E type \in Type :
           /\ Begin(type)
           /\ \/ pc = "start" /\ type = "session_start"
              \/ pc = "note" /\ type = "previous_session_unclean"
              \/ /\ pc = "idle" /\ part < MAX_PART /\ active
                 /\ type # "session_start" /\ type # "previous_session_unclean"
  <1>1. {"session_start", "previous_session_unclean", "event", "session_end"} \subseteq Type
    BY DEF Type, Mark
  <1> QED
    BY <1>1 DEF Start, NoteUnclean, Log, Shutdown, Room

\* What session_transcript_init misses of the parts is finite.
LEMMA MissedParts ==
  ASSUME NEW i, NEW missed \in SUBSET Parts(i)
  PROVE  Cardinality(missed) \in Nat
  <1>1. IsFiniteSet(Part)
    BY Bounds, FS_Interval DEF Part
  <1>2. missed \subseteq Part
    BY DEF Parts
  <1> QED
    BY <1>1, <1>2, FS_Subset, FS_CardinalityType

LEMMA CheckMoves ==
  ASSUME TypeOK, CheckPrevious
  PROVE  /\ pc = "check" /\ pc' \in {"note", "idle"} /\ faults' \in 0..MAX_FAULTS
         /\ Sound' => Sound
         /\ UNCHANGED <<txt_file, jsonl_file, owners, job, session, txt, jsonl, seq, part,
                        jsonl_locked, active, boot, cuts>>
  <1> DEFINE all == IF session = 1 THEN {} ELSE Parts(session - 1)
  <1>1. PICK missed \in SUBSET all :
          /\ faults + Cardinality(missed) <= MAX_FAULTS
          /\ faults' = faults + Cardinality(missed)
    BY DEF CheckPrevious
  <1>2. Cardinality(missed) \in Nat
    <2>1. CASE session = 1
      <3>1. missed \in SUBSET Parts(0)
        BY <2>1
      <3> QED
        BY <3>1, MissedParts
    <2>2. CASE session # 1
      BY <2>2, MissedParts
    <2> QED
      BY <2>1, <2>2
  <1>3. faults' \in 0..MAX_FAULTS /\ (faults' = 0 => faults = 0)
    BY <1>1, <1>2, Bounds DEF TypeOK
  <1>4. /\ pc = "check" /\ pc' \in {"note", "idle"}
        /\ UNCHANGED <<txt_file, jsonl_file, owners, job, session, txt, jsonl, seq, part,
                       jsonl_locked, active, boot, cuts>>
    BY DEF CheckPrevious, medium, buffers
  <1> QED
    BY <1>3, <1>4 DEF Sound

LEMMA TypeNext ==
  ASSUME TypeOK, Shape, [Next]_vars
  PROVE  TypeOK' /\ Shape'
  <1>1. CASE \E i \in Id : Boot(i)
    <2>1. PICK i \in Id : Boot(i)
      BY <1>1
    <2>2. /\ pc = "off" /\ pc' = "start" /\ session' = i /\ active' = TRUE
          /\ boot' = boot + 1 /\ boot < MAX_BOOT
          /\ UNCHANGED faults \/ (faults < MAX_FAULTS /\ faults' = faults + 1)
          /\ UNCHANGED <<txt_file, jsonl_file, owners, job, txt, jsonl, seq, part, jsonl_locked,
                         cuts>>
      BY <2>1 DEF Boot, medium
    <2>3. faults' \in 0..MAX_FAULTS /\ boot' \in 1..MAX_BOOT
      BY <2>2, Bounds DEF TypeOK
    <2>4. TypeOK'
      BY <2>2, <2>3 DEF TypeOK, Phase
    <2> QED
      BY <2>2, <2>3, <2>4 DEF Shape, Busy
  <1>2. CASE Start \/ NoteUnclean \/ Log \/ Shutdown
    BY <1>2, BeginMoves, BeginKeeps
  <1>3. CASE WriteTxt \/ WriteJsonl \/ Compare
    <2>1. /\ Busy
          /\ txt_file' \in [Id -> File] /\ jsonl_file' \in [Id -> [Part -> File]]
          /\ owners' \in [Id -> SUBSET (1..MAX_BOOT)]
          /\ faults' \in 0..MAX_FAULTS /\ UNCHANGED cuts
      BY <1>3, CallMoves
    <2>2. PICK ok \in BOOLEAN, next \in {"jsonl", "compare"} : Proceed(next) \/ Flushed(ok)
      BY <1>3, CallMoves
    <2>3. Shape'
      BY <2>1, <2>2, CallShape
    <2>4. next \in Phase /\ next # "off"
      BY DEF Phase
    <2>5. /\ pc' \in Phase /\ job' \in [type : Type, rotating : BOOLEAN]
          /\ session' = session /\ boot' = boot
          /\ txt' \in Seq(Line) /\ Len(txt') <= TXT_CAP
          /\ jsonl' \in Seq(Line) /\ (~jsonl_locked' => Len(jsonl') <= JSONL_CAP)
          /\ seq' \in Nat /\ part' \in Part
          /\ jsonl_locked' \in BOOLEAN /\ active' \in BOOLEAN
      BY <2>1, <2>2, <2>4, CallTypes
    <2> QED
      BY <2>1, <2>3, <2>5 DEF TypeOK
  <1>4. CASE CheckPrevious
    <2>1. TypeOK'
      BY <1>4, CheckMoves DEF TypeOK, Phase
    <2>2. Shape'
      BY <1>4, CheckMoves DEF Shape, Busy
    <2> QED
      BY <2>1, <2>2
  <1>5. CASE Stop
    <2>1. /\ Forget /\ pc' = "off" /\ UNCHANGED boot
          /\ UNCHANGED <<txt_file, jsonl_file, owners, faults, cuts>>
      BY <1>5 DEF Stop, medium, counts
    <2> QED
      BY <2>1, ForgetTypes DEF TypeOK
  <1>6. CASE StopInWrite
    <2>1. /\ Busy /\ Forget /\ pc' = "off" /\ UNCHANGED <<boot, faults>> /\ Owned
          /\ cuts < MAX_CUTS /\ cuts' = cuts + 1
      BY <1>6 DEF StopInWrite, Busy
    <2>2. /\ session \in Id /\ txt_file[session] \in File /\ jsonl_file[session][part] \in File
          /\ part \in Part /\ txt \in Seq(Line) /\ jsonl \in Seq(Line)
      BY <2>1, BusyShape, FileTypes, BufferType
    <2>3. txt_file' \in [Id -> File] /\ jsonl_file' \in [Id -> [Part -> File]]
      <3>1. CASE /\ \E f \in WriteCutOff(txt_file[session], txt) :
                      txt_file' = [txt_file EXCEPT ![session] = f]
                 /\ UNCHANGED jsonl_file
        <4>1. PICK f \in WriteCutOff(txt_file[session], txt) :
                txt_file' = [txt_file EXCEPT ![session] = f]
          BY <3>1
        <4>2. f \in File
          BY <2>2, WriteCutOffType DEF File
        <4> QED
          BY <3>1, <4>1, <4>2 DEF TypeOK
      <3>2. CASE /\ \E f \in WriteCutOff(jsonl_file[session][part], jsonl) :
                      jsonl_file' = [jsonl_file EXCEPT ![session][part] = f]
                 /\ UNCHANGED txt_file
        <4>1. PICK f \in WriteCutOff(jsonl_file[session][part], jsonl) :
                jsonl_file' = [jsonl_file EXCEPT ![session][part] = f]
          BY <3>2
        <4>2. f \in File
          BY <2>2, WriteCutOffType DEF File
        <4> QED
          BY <2>2, <3>2, <4>1, <4>2 DEF TypeOK
      <3> QED
        BY <1>6, <3>1, <3>2 DEF StopInWrite
    <2>4. owners' \in [Id -> SUBSET (1..MAX_BOOT)]
      BY <2>1, OwnedType
    <2>5. faults' \in 0..MAX_FAULTS /\ cuts' \in 0..MAX_CUTS
      BY <2>1, Bounds DEF TypeOK
    <2> QED
      BY <2>1, <2>3, <2>4, <2>5, ForgetTypes
  <1>7. CASE UNCHANGED vars
    <2>1. UNCHANGED <<txt_file, jsonl_file, owners, pc, job, session, txt, jsonl, seq, part,
                      jsonl_locked, active, boot, faults, cuts>>
      BY <1>7 DEF vars, medium, buffers, counts
    <2>2. TypeOK'
      BY <2>1 DEF TypeOK
    <2> QED
      BY <2>1, <2>2 DEF Shape, Busy
  <1> QED
    BY <1>1, <1>2, <1>3, <1>4, <1>5, <1>6, <1>7 DEF Next, Step

-----------------------------------------------------------------------------
(* What a flush and the check of the session before have found *)

\* What the last flush has found to be there.
Compared ==
  pc \in {"check", "note", "idle", "closed"} /\ active /\ Verifiable =>
    txt_file[session] = txt /\ jsonl_file[session][part] = jsonl

\* The session before this one looks as if it had been cut off.
LooksCut ==
  session > 1 /\ Parts(session - 1) \subseteq {1} /\ ~MarkedSession(session - 1)

\* From the check on, a session that looks cut off has been noticed.
Noticed ==
  LooksCut => /\ pc = "idle" /\ active => Unclean
              /\ Busy /\ job.type # "session_start" => Unclean

\* A call of flushv leaves the files of other sessions alone.
LEMMA CallFiles ==
  ASSUME TypeOK, WriteTxt \/ WriteJsonl \/ Compare
  PROVE  \A i \in Id \ {session} : /\ txt_file'[i] = txt_file[i]
                                   /\ jsonl_file'[i] = jsonl_file[i]
                                   /\ owners'[i] = owners[i]
  <1>1. CASE WriteTxt
    <2>1. PICK f : txt_file' = [txt_file EXCEPT ![session] = f]
      BY <1>1 DEF WriteTxt
    <2>2. UNCHANGED jsonl_file /\ owners' = [owners EXCEPT ![session] = @ \union {boot}]
      BY <1>1 DEF WriteTxt, Owned
    <2> QED
      BY <2>1, <2>2 DEF TypeOK
  <1>2. CASE WriteJsonl
    <2>1. PICK f : jsonl_file' = [jsonl_file EXCEPT ![session][part] = f]
      BY <1>2 DEF WriteJsonl
    <2>2. UNCHANGED txt_file /\ owners' = [owners EXCEPT ![session] = @ \union {boot}]
      BY <1>2 DEF WriteJsonl, Owned
    <2> QED
      BY <2>1, <2>2 DEF TypeOK
  <1>3. CASE Compare
    BY <1>3 DEF Compare, medium
  <1> QED
    BY <1>1, <1>2, <1>3

\* A comparison that was made and found nothing wrong.
LEMMA ComparedFiles ==
  ASSUME TypeOK, session \in Id, Verifiable,
         NEW a \in ReadResults(txt_file[session], READ_CAP),
         NEW b \in ReadResults(jsonl_file[session][part], READ_CAP),
         a.ok /\ b.ok /\ a.text = txt /\ b.text = jsonl
  PROVE  txt_file[session] = txt /\ jsonl_file[session][part] = jsonl
  <1>1. Len(a.text) < READ_CAP /\ Len(b.text) < READ_CAP /\ READ_CAP \in Nat
    BY Bounds DEF Verifiable, Fits
  <1>2. txt_file[session] \in File /\ jsonl_file[session][part] \in File
    BY FileTypes
  <1> QED
    BY <1>1, <1>2, ShortReadIsWhole DEF File

LEMMA ComparedNext ==
  ASSUME TypeOK, Shape, Compared, [Next]_vars
  PROVE  Compared'
  <1>1. CASE \E i \in Id : Boot(i)
    BY <1>1 DEF Boot, Compared
  <1>2. CASE Start \/ NoteUnclean \/ Log \/ Shutdown
    <2>1. pc' = "txt"
      BY <1>2 DEF Start, NoteUnclean, Log, Shutdown, Begin, FlushOrder
    <2> QED
      BY <2>1 DEF Compared
  <1>3. CASE WriteTxt \/ WriteJsonl
    <2>1. (\E next \in {"jsonl", "compare"} : Proceed(next)) \/ Flushed(FALSE)
      BY <1>3 DEF WriteTxt, WriteJsonl, NextCall, FlushOrder
    <2>2. CASE \E next \in {"jsonl", "compare"} : Proceed(next)
      BY <2>2 DEF Proceed, Compared
    <2>3. CASE Flushed(FALSE)
      BY <2>3, FlushedMoves DEF Compared
    <2> QED
      BY <2>1, <2>2, <2>3
  <1>4. CASE Compare
    <2>1. session \in Id /\ UNCHANGED <<txt_file, jsonl_file>>
      BY <1>4, BusyShape DEF Compare, Busy, medium
    <2>2. CASE ~Verifiable /\ Flushed(TRUE)
      <3>1. pc' = "txt" \/ UNCHANGED <<txt, jsonl>>
        BY <2>2, FlushedMoves
      <3> QED
        BY <2>2, <3>1 DEF Compared, Verifiable, Fits
    <2>3. CASE /\ Verifiable
               /\ \E a \in ReadResults(txt_file[session], READ_CAP),
                     b \in ReadResults(jsonl_file[session][part], READ_CAP) :
                    Flushed(a.ok /\ b.ok /\ a.text = txt /\ b.text = jsonl)
      <3>1. PICK a \in ReadResults(txt_file[session], READ_CAP),
                 b \in ReadResults(jsonl_file[session][part], READ_CAP) :
                   Flushed(a.ok /\ b.ok /\ a.text = txt /\ b.text = jsonl)
        BY <2>3
      <3> DEFINE ok == a.ok /\ b.ok /\ a.text = txt /\ b.text = jsonl
      <3>2. ok \in BOOLEAN /\ Flushed(ok)
        BY <3>1
      <3>3. ok => txt_file[session] = txt /\ jsonl_file[session][part] = jsonl
        BY <2>1, <2>3, ComparedFiles
      <3> HIDE DEF ok
      <3>4. \/ pc' = "txt"
            \/ active' = ok /\ UNCHANGED <<txt, jsonl, session, part>>
        BY <3>2, FlushedMoves
      <3> QED
        BY <2>1, <3>3, <3>4 DEF Compared
    <2> QED
      BY <1>4, <2>2, <2>3 DEF Compare
  <1>5. CASE CheckPrevious
    BY <1>5, CheckMoves DEF Compared, Verifiable, Fits
  <1>6. CASE Stop \/ StopInWrite
    BY <1>6 DEF Stop, StopInWrite, Compared
  <1>7. CASE UNCHANGED vars
    BY <1>7 DEF vars, medium, buffers, counts, Compared, Verifiable, Fits
  <1> QED
    BY <1>1, <1>2, <1>3, <1>4, <1>5, <1>6, <1>7 DEF Next, Step

LEMMA LooksCutStays ==
  ASSUME TypeOK, session \in Id, session' = session,
         \A i \in Id \ {session} : jsonl_file'[i] = jsonl_file[i]
  PROVE  LooksCut' <=> LooksCut
  <1>1. CASE session > 1
    <2>1. session - 1 \in Id \ {session}
      BY <1>1, Bounds DEF Id
    <2>2. jsonl_file'[session' - 1] = jsonl_file[session - 1]
      BY <2>1
    <2> QED
      BY <2>2 DEF LooksCut, Parts, MarkedSession
  <1>2. CASE ~(session > 1)
    BY <1>2 DEF LooksCut
  <1> QED
    BY <1>1, <1>2

\* Nothing is taken out of the text buffer.
LEMMA UncleanStays ==
  ASSUME TypeOK, Unclean, txt' \in Seq(Line), Len(txt) <= Len(txt'),
         \A n \in 1..Len(txt) : txt'[n] = txt[n]
  PROVE  Unclean'
  <1>1. Len(txt) \in Nat /\ Len(txt') \in Nat /\ DOMAIN txt = 1..Len(txt)
          /\ DOMAIN txt' = 1..Len(txt')
    BY BufferType, LenProperties
  <1>2. PICK n \in 1..Len(txt) : txt[n].type = "previous_session_unclean"
    BY <1>1 DEF Unclean
  <1>3. n \in 1..Len(txt') /\ txt'[n] = txt[n]
    BY <1>1, <1>2
  <1> QED
    BY <1>1, <1>2, <1>3 DEF Unclean

\* What is read of a part is a part of it.
LEMMA ShownUnmarked ==
  ASSUME TypeOK, NEW i \in Id, NEW k \in Parts(i), ~Marked(jsonl_file[i][k])
  PROVE  ~Marked(Shown(i, k))
  <1> DEFINE file == jsonl_file[i][k]
             n    == IF Len(file) < READ_CAP THEN Len(file) ELSE READ_CAP
  <1>1. file \in Seq(Line)
    BY DEF TypeOK, Parts, File
  <1>2. Shown(i, k) = SubSeq(file, 1, n)
    BY DEF Shown
  <1>3. Len(file) \in Nat /\ DOMAIN file = 1..Len(file)
    BY <1>1, LenProperties
  <1>4. n \in 0..Len(file)
    BY <1>3, Bounds
  <1> HIDE DEF file, n
  <1>5. /\ SubSeq(file, 1, n) \in Seq(Line) /\ Len(SubSeq(file, 1, n)) = n
        /\ \A j \in 1..n : SubSeq(file, 1, n)[j] = file[j]
    BY <1>1, <1>4, StartOfSeq
  <1>6. DOMAIN SubSeq(file, 1, n) = 1..n
    BY <1>5, LenProperties
  <1>7. ~Marked(file)
    BY DEF file
  <1> QED
    BY <1>2, <1>3, <1>4, <1>5, <1>6, <1>7 DEF Marked

LEMMA NoticedNext ==
  ASSUME TypeOK, Shape, Noticed, [Next]_vars
  PROVE  Noticed'
  <1>1. CASE \E i \in Id : Boot(i)
    BY <1>1 DEF Boot, Noticed, Busy
  <1>2. CASE Start \/ NoteUnclean \/ Log \/ Shutdown
    <2>1. PICK type \in Type :
            /\ Begin(type)
            /\ \/ pc = "start" /\ type = "session_start"
               \/ pc = "note" /\ type = "previous_session_unclean"
               \/ pc = "idle" /\ active
      BY <1>2, BeginMoves
    <2>2. /\ pc' = "txt" /\ job'.type = type /\ txt' \in Seq(Line)
          /\ UNCHANGED <<jsonl_file, session>>
      BY <2>1, BeginTypes
    <2>3. session \in Id
      BY <2>1 DEF Shape
    <2>4. LooksCut' <=> LooksCut
      BY <2>2, <2>3, LooksCutStays
    <2>5. CASE pc = "start" /\ type = "session_start"
      BY <2>2, <2>5 DEF Noticed
    <2>6. CASE pc = "note" /\ type = "previous_session_unclean"
      <3>1. 2 <= Len(txt') /\ txt'[2].type = type
        BY <2>1, <2>6, SecondEvent
      <3>2. 2 \in DOMAIN txt'
        BY <2>2, <3>1, LenProperties
      <3>3. Unclean'
        BY <2>6, <3>1, <3>2 DEF Unclean
      <3> QED
        BY <3>3 DEF Noticed
    <2>7. CASE pc = "idle" /\ active
      <3>1. Len(txt) <= Len(txt') /\ \A n \in 1..Len(txt) : txt'[n] = txt[n]
        <4> DEFINE line == [seq |-> seq + 1, type |-> type]
        <4>1. UNCHANGED txt \/ txt' = TxtWith(<<line>>)
          BY <2>1 DEF Begin
        <4>2. line \in Line
          BY BufferType, LineType
        <4> HIDE DEF line
        <4>3. <<line>> \in Seq(Line)
          BY <4>2
        <4>4. /\ Len(txt) <= Len(TxtWith(<<line>>))
              /\ \A n \in 1..Len(txt) : TxtWith(<<line>>)[n] = txt[n]
          BY <4>3, TxtWithLines
        <4>5. Len(txt) \in Nat
          BY BufferType
        <4>6. CASE UNCHANGED txt
          BY <4>5, <4>6
        <4>7. CASE txt' = TxtWith(<<line>>)
          BY <4>4, <4>7
        <4> QED
          BY <4>1, <4>6, <4>7
      <3>2. Unclean => Unclean'
        BY <2>2, <3>1, UncleanStays
      <3> QED
        BY <2>2, <2>4, <2>7, <3>2 DEF Noticed
    <2> QED
      BY <2>1, <2>5, <2>6, <2>7
  <1>3. CASE WriteTxt \/ WriteJsonl \/ Compare
    <2>1. Busy /\ session \in Id
      BY <1>3, CallMoves, BusyShape
    <2>2. PICK ok \in BOOLEAN, next \in {"jsonl", "compare"} : Proceed(next) \/ Flushed(ok)
      BY <1>3, CallMoves
    <2>3. next \in Phase /\ next # "off"
      BY DEF Phase
    <2>4. /\ session' = session /\ txt' \in Seq(Line)
          /\ Len(txt) <= Len(txt') /\ \A n \in 1..Len(txt) : txt'[n] = txt[n]
      BY <2>1, <2>2, <2>3, CallTypes
    <2>5. LooksCut' <=> LooksCut
      BY <1>3, <2>1, <2>4, CallFiles, LooksCutStays
    <2>6. Unclean => Unclean'
      BY <2>4, UncleanStays
    <2>7. CASE job.type = "session_start"
      <3>1. ~job.rotating
        BY <2>1, <2>7 DEF Shape
      <3>2. pc' \in {"jsonl", "compare", "check"} /\ job' = job
        BY <2>2, <2>7, <3>1, FlushedMoves DEF Proceed, After
      <3> QED
        BY <2>7, <3>2 DEF Noticed
    <2>8. CASE job.type # "session_start"
      BY <2>1, <2>5, <2>6, <2>8 DEF Noticed
    <2> QED
      BY <2>7, <2>8
  <1>4. CASE CheckPrevious
    <2>1. /\ pc' \in {"note", "idle"} /\ pc = "check" /\ session \in Id
          /\ UNCHANGED <<jsonl_file, session, txt, job, active>>
      BY <1>4, CheckMoves DEF Shape
    <2>2. LooksCut' <=> LooksCut
      BY <2>1, LooksCutStays
    <2>3. ASSUME LooksCut, active
          PROVE  pc' = "note"
      <3> DEFINE all == IF session = 1 THEN {} ELSE Parts(session - 1)
      <3>1. PICK missed \in SUBSET all :
              LET tell == /\ active /\ session > 1
                          /\ \A k \in all \ missed : k = 1 /\ ~Marked(Shown(session - 1, k))
              IN pc' = IF tell THEN "note" ELSE "idle"
        BY <1>4 DEF CheckPrevious
      <3>2. session > 1 /\ all = Parts(session - 1) /\ session - 1 \in Id
        BY <2>1, <2>3, Bounds DEF LooksCut, Id
      <3>3. \A k \in all \ missed : k = 1 /\ ~Marked(Shown(session - 1, k))
        <4> SUFFICES ASSUME NEW k \in all \ missed
                     PROVE  k = 1 /\ ~Marked(Shown(session - 1, k))
          OBVIOUS
        <4>1. k \in Parts(session - 1) /\ k = 1
          BY <2>3, <3>2 DEF LooksCut
        <4>2. ~Marked(jsonl_file[session - 1][k])
          BY <2>3, <4>1 DEF LooksCut, MarkedSession
        <4> QED
          BY <3>2, <4>1, <4>2, ShownUnmarked
      <3> QED
        BY <2>3, <3>1, <3>2, <3>3
    <2> QED
      BY <2>1, <2>2, <2>3 DEF Noticed, Busy
  <1>5. CASE Stop \/ StopInWrite
    <2>1. session' = 0
      BY <1>5 DEF Stop, StopInWrite, Forget
    <2> QED
      BY <2>1 DEF Noticed, LooksCut
  <1>6. CASE UNCHANGED vars
    BY <1>6 DEF vars, medium, buffers, counts, Noticed, LooksCut, Parts, MarkedSession, Unclean,
                Busy
  <1> QED
    BY <1>1, <1>2, <1>3, <1>4, <1>5, <1>6 DEF Next, Step

-----------------------------------------------------------------------------
(* Storage that works, and power that is not lost in the middle of a write *)

\* The numbers under which nothing was written are free altogether, and no boot
\* has written under the number of another.
Ledger ==
  /\ \A i \in Id : txt_file[i] = NoFile => owners[i] = {} /\ Parts(i) = {}
  /\ \A i \in Id : owners[i] = {} \/ \E b \in 1..MAX_BOOT : owners[i] = {b}
  /\ pc # "off" => owners[session] \subseteq {boot}
  /\ pc = "start" => txt_file[session] = NoFile

\* The lines of the JSONL buffer are numbered on from the part before.
Numbering ==
  pc # "off" =>
    /\ active /\ ~jsonl_locked
    /\ Len(jsonl) <= seq /\ (pc # "start" => 1 <= Len(jsonl))
    /\ \A n \in 1..Len(jsonl) : jsonl[n].seq = seq - Len(jsonl) + n
    /\ seq - Len(jsonl) + 1 = FirstSeq(session, part)
    /\ Parts(session) = 1..part \/ Parts(session) = 1..(part - 1)

\* The files are what the buffers were at an earlier flush, or are now.
Mirrored ==
  pc \notin {"off", "start"} =>
    /\ txt_file[session] # NoFile => IsPrefix(txt_file[session], txt)
    /\ jsonl_file[session][part] # NoFile => IsPrefix(jsonl_file[session][part], jsonl)
    /\ pc # "txt" => txt_file[session] = txt
    /\ pc \notin {"txt", "jsonl"} => jsonl_file[session][part] = jsonl

\* A line of the JSONL buffer is in the text buffer, unless that is full.
InBothBuffers ==
  pc # "off" =>
    \A n \in 1..Len(jsonl) :
      \/ jsonl[n].type \in Control
      \/ Len(txt) = TXT_CAP
      \/ \E m \in 1..Len(txt) : txt[m] = jsonl[n]

\* PartsContiguous and EventsInBoth, of one session.
InOrder(i) ==
  /\ \E n \in 0..MAX_PART : Parts(i) = 1..n
  /\ \A k \in Parts(i) : LET file == jsonl_file[i][k] IN
       /\ Len(file) >= 1
       /\ \A n \in 1..Len(file) : file[n].seq = FirstSeq(i, k) + n - 1

Agree(i) ==
  \A k \in Parts(i) : \A n \in DOMAIN jsonl_file[i][k] :
    LET line == jsonl_file[i][k][n] IN
      \/ line.type \in Control
      \/ Size(txt_file[i]) = TXT_CAP
      \/ txt_file[i] # NoFile /\ line \in Range(txt_file[i])

Kept == Ledger /\ Numbering /\ Mirrored /\ InBothBuffers
          /\ \A i \in Id : InOrder(i) /\ Agree(i)

LEMMA SessionStays ==
  ASSUME NEW i \in Id, txt_file'[i] = txt_file[i], jsonl_file'[i] = jsonl_file[i]
  PROVE  /\ Parts(i)' = Parts(i)
         /\ \A k : FirstSeq(i, k)' = FirstSeq(i, k)
         /\ InOrder(i) => InOrder(i)'
         /\ Agree(i) => Agree(i)'
  <1>1. Parts(i)' = Parts(i)
    BY DEF Parts
  <1>2. \A k : FirstSeq(i, k)' = FirstSeq(i, k)
    BY DEF FirstSeq
  <1>3. InOrder(i) => InOrder(i)'
    BY <1>1, <1>2 DEF InOrder
  <1>4. Agree(i) => Agree(i)'
    BY <1>1 DEF Agree
  <1> QED
    BY <1>1, <1>2, <1>3, <1>4

\* The medium when only the boot moves.
LEMMA MediumStays ==
  ASSUME Ledger, \A i \in Id : InOrder(i) /\ Agree(i),
         UNCHANGED <<txt_file, jsonl_file, owners>>,
         pc' # "off" => owners'[session'] \subseteq {boot'},
         pc' # "start"
  PROVE  Ledger' /\ \A i \in Id : InOrder(i)' /\ Agree(i)'
  <1>1. \A i \in Id : /\ Parts(i)' = Parts(i)
                      /\ InOrder(i) => InOrder(i)'
                      /\ Agree(i) => Agree(i)'
    BY SessionStays
  <1>2. Ledger'
    BY <1>1 DEF Ledger
  <1> QED
    BY <1>1, <1>2

LEMMA KeptBoot ==
  ASSUME TypeOK, Shape, Kept, NEW i \in Id, Boot(i), Sound'
  PROVE  Kept'
  <1>1. /\ pc = "off" /\ txt_file[i] = NoFile
        /\ pc' = "start" /\ session' = i /\ active' = TRUE
        /\ UNCHANGED <<txt_file, jsonl_file, owners, txt, jsonl, seq, part, jsonl_locked>>
    <2>1. txt_file[i] # NoFile => faults' = faults + 1
      BY DEF Boot
    <2>2. txt_file[i] = NoFile
      BY <2>1 DEF Sound, TypeOK
    <2> QED
      BY <2>2 DEF Boot, medium
  <1>2. txt = <<>> /\ jsonl = <<>> /\ seq = 0 /\ part = 1 /\ ~jsonl_locked /\ Len(<<>>) = 0
    BY <1>1 DEF Shape
  <1>3. owners[i] = {} /\ Parts(i) = {}
    BY <1>1 DEF Kept, Ledger
  <1>4. \A j \in Id : /\ Parts(j)' = Parts(j) /\ (\A k : FirstSeq(j, k)' = FirstSeq(j, k))
                      /\ InOrder(j)' /\ Agree(j)'
    BY <1>1, SessionStays DEF Kept
  <1>5. Ledger'
    BY <1>1, <1>3, <1>4 DEF Kept, Ledger
  <1>6. Numbering'
    <2>1. FirstSeq(i, 1) = 1
      BY DEF FirstSeq
    <2>2. Parts(session)' = 1..(part' - 1)
      BY <1>1, <1>2, <1>3, <1>4
    <2>3. /\ Len(jsonl') <= seq' /\ seq' - Len(jsonl') + 1 = FirstSeq(session, part)'
          /\ \A n \in 1..Len(jsonl') : jsonl'[n].seq = seq' - Len(jsonl') + n
      BY <1>1, <1>2, <1>4, <2>1
    <2> QED
      BY <1>1, <1>2, <2>2, <2>3 DEF Numbering
  <1>7. Mirrored'
    BY <1>1 DEF Mirrored
  <1>8. InBothBuffers'
    BY <1>1, <1>2 DEF InBothBuffers
  <1> QED
    BY <1>4, <1>5, <1>6, <1>7, <1>8 DEF Kept

\* The text buffer starts with what it started with.
LEMMA GrownText ==
  ASSUME TypeOK, txt' \in Seq(Line), Len(txt) <= Len(txt'),
         \A n \in 1..Len(txt) : txt'[n] = txt[n]
  PROVE  IsPrefix(txt, txt')
  BY BufferType, PrefixElements

\* What event() does to buffers that still take lines.
LEMMA BeginBuffers ==
  ASSUME TypeOK, ~jsonl_locked, NEW type \in Type, Begin(type)
  PROVE  LET line == [seq |-> seq + 1, type |-> type] IN
           /\ line \in Line
           /\ \/ UNCHANGED <<txt, jsonl, seq>> /\ 1 <= Len(jsonl)
              \/ /\ txt' = TxtWith(<<line>>) /\ jsonl' = Append(jsonl, line) /\ seq' = seq + 1
  <1> DEFINE line == [seq |-> seq + 1, type |-> type]
             rotating == ~jsonl_locked /\ ~Fits(jsonl, JSONL_CAP)
  <1>1. line \in Line
    BY BufferType, LineType
  <1>2. \/ rotating /\ UNCHANGED <<txt, jsonl, seq>>
        \/ /\ ~rotating /\ seq' = seq + 1 /\ txt' = TxtWith(<<line>>)
           /\ jsonl' = IF jsonl_locked THEN jsonl ELSE Append(jsonl, line)
    BY DEF Begin
  <1>3. rotating => 1 <= Len(jsonl)
    BY BufferType, Bounds DEF Fits
  <1> HIDE DEF line, rotating
  <1>4. CASE rotating /\ UNCHANGED <<txt, jsonl, seq>>
    BY <1>1, <1>3, <1>4 DEF line
  <1>5. CASE /\ seq' = seq + 1 /\ txt' = TxtWith(<<line>>)
             /\ jsonl' = IF jsonl_locked THEN jsonl ELSE Append(jsonl, line)
    <2>1. jsonl' = Append(jsonl, line)
      BY <1>5
    <2> QED
      BY <1>1, <1>5, <2>1 DEF line
  <1> QED
    BY <1>2, <1>4, <1>5

\* A line more in both buffers keeps them numbered, and the same.
LEMMA OneMoreLine ==
  ASSUME TypeOK, NEW line \in Line, line.seq = seq + 1,
         txt' = TxtWith(<<line>>), jsonl' = Append(jsonl, line), seq' = seq + 1,
         Len(jsonl) <= seq,
         \A n \in 1..Len(jsonl) : jsonl[n].seq = seq - Len(jsonl) + n,
         \A n \in 1..Len(jsonl) : \/ jsonl[n].type \in Control
                                  \/ Len(txt) = TXT_CAP
                                  \/ \E m \in 1..Len(txt) : txt[m] = jsonl[n]
  PROVE  /\ txt' \in Seq(Line) /\ jsonl' \in Seq(Line)
         /\ IsPrefix(txt, txt') /\ IsPrefix(jsonl, jsonl')
         /\ Len(jsonl') = Len(jsonl) + 1 /\ Len(jsonl') <= seq'
         /\ \A n \in 1..Len(jsonl') : jsonl'[n].seq = seq' - Len(jsonl') + n
         /\ \A n \in 1..Len(jsonl') : \/ jsonl'[n].type \in Control
                                      \/ Len(txt') = TXT_CAP
                                      \/ \E m \in 1..Len(txt') : txt'[m] = jsonl'[n]
  <1>1. /\ Len(jsonl) \in Nat /\ Len(txt) \in Nat /\ seq \in Nat /\ TXT_CAP \in Nat
        /\ Len(txt) <= TXT_CAP /\ jsonl \in Seq(Line) /\ txt \in Seq(Line)
    BY BufferType, Bounds
  <1>2. <<line>> \in Seq(Line) /\ Len(<<line>>) = 1 /\ <<line>>[1] = line /\ 1 \in 1..Len(<<line>>)
    OBVIOUS
  <1>3. /\ txt' \in Seq(Line) /\ Len(txt') \in Nat /\ Len(txt') <= TXT_CAP
        /\ Len(txt) <= Len(txt') /\ (\A n \in 1..Len(txt) : txt'[n] = txt[n])
        /\ Len(txt') = TXT_CAP \/ (Len(txt) + 1 <= Len(txt') /\ txt'[Len(txt) + 1] = line)
    BY <1>2, TxtWithLines
  <1>4. /\ jsonl' \in Seq(Line) /\ Len(jsonl') = Len(jsonl) + 1
        /\ jsonl'[Len(jsonl) + 1] = line
        /\ \A n \in 1..Len(jsonl) : jsonl'[n] = jsonl[n]
    BY <1>1, AppendProperties
  <1>5. IsPrefix(txt, txt') /\ IsPrefix(jsonl, jsonl')
    BY <1>1, <1>3, GrownText, PrefixIsReflexive, PrefixOfAppend
  <1>6. \A n \in 1..Len(jsonl') : jsonl'[n].seq = seq' - Len(jsonl') + n
    <2> SUFFICES ASSUME NEW n \in 1..Len(jsonl')
                 PROVE  jsonl'[n].seq = seq' - Len(jsonl') + n
      OBVIOUS
    <2>1. CASE n \in 1..Len(jsonl)
      BY <1>1, <1>4, <2>1
    <2>2. CASE n = Len(jsonl) + 1
      BY <1>1, <1>4, <2>2
    <2> QED
      BY <1>1, <1>4, <2>1, <2>2
  <1>7. \A n \in 1..Len(jsonl') : \/ jsonl'[n].type \in Control
                                  \/ Len(txt') = TXT_CAP
                                  \/ \E m \in 1..Len(txt') : txt'[m] = jsonl'[n]
    <2> SUFFICES ASSUME NEW n \in 1..Len(jsonl'), Len(txt') # TXT_CAP, jsonl'[n].type \notin Control
                 PROVE  \E m \in 1..Len(txt') : txt'[m] = jsonl'[n]
      OBVIOUS
    <2>1. CASE n \in 1..Len(jsonl)
      <3>1. jsonl'[n] = jsonl[n] /\ Len(txt) # TXT_CAP
        BY <1>1, <1>3, <1>4, <2>1
      <3>2. PICK m \in 1..Len(txt) : txt[m] = jsonl[n]
        BY <2>1, <3>1
      <3>3. m \in 1..Len(txt')
        BY <1>1, <1>3, <3>2
      <3>4. txt'[m] = txt[m]
        BY <1>3, <3>2
      <3> QED
        BY <3>1, <3>2, <3>3, <3>4
    <2>2. CASE n = Len(jsonl) + 1
      <3>1. Len(txt) + 1 \in 1..Len(txt') /\ txt'[Len(txt) + 1] = jsonl'[n]
        BY <1>1, <1>3, <1>4, <2>2
      <3> QED
        BY <3>1
    <2>3. n \in 1..Len(jsonl) \/ n = Len(jsonl) + 1
      BY <1>1, <1>4
    <2> QED
      BY <2>1, <2>2, <2>3
  <1>8. Len(jsonl') <= seq'
    BY <1>1, <1>4
  <1> QED
    BY <1>3, <1>4, <1>5, <1>6, <1>7, <1>8

LEMMA KeptBegin ==
  ASSUME TypeOK, Shape, Kept, NEW type \in Type, Begin(type), pc \in {"start", "note", "idle"}
  PROVE  Kept'
  <1>1. /\ pc' = "txt" /\ session \in Id
        /\ UNCHANGED <<txt_file, jsonl_file, owners, session, part, jsonl_locked, active, boot>>
        /\ txt' \in Seq(Line) /\ jsonl' \in Seq(Line)
    BY BeginTypes DEF Shape
  <1>2. /\ active /\ ~jsonl_locked /\ Len(jsonl) <= seq
        /\ \A n \in 1..Len(jsonl) : jsonl[n].seq = seq - Len(jsonl) + n
        /\ seq - Len(jsonl) + 1 = FirstSeq(session, part)
        /\ Parts(session) = 1..part \/ Parts(session) = 1..(part - 1)
    BY DEF Kept, Numbering
  <1>3. Ledger' /\ \A i \in Id : InOrder(i)' /\ Agree(i)'
    <2>1. owners'[session'] \subseteq {boot'}
      BY <1>1 DEF Kept, Ledger
    <2> QED
      BY <1>1, <2>1, MediumStays DEF Kept
  <1>4. FirstSeq(session, part)' = FirstSeq(session, part) /\ Parts(session)' = Parts(session)
    BY <1>1, SessionStays DEF FirstSeq, Parts
  <1>5. \A n \in 1..Len(jsonl) : \/ jsonl[n].type \in Control
                                 \/ Len(txt) = TXT_CAP
                                 \/ \E m \in 1..Len(txt) : txt[m] = jsonl[n]
    BY DEF Kept, InBothBuffers
  <1>6. /\ IsPrefix(txt, txt') /\ IsPrefix(jsonl, jsonl')
        /\ 1 <= Len(jsonl') /\ Len(jsonl') <= seq' /\ seq' - Len(jsonl') = seq - Len(jsonl)
        /\ \A n \in 1..Len(jsonl') : jsonl'[n].seq = seq' - Len(jsonl') + n
        /\ \A n \in 1..Len(jsonl') : \/ jsonl'[n].type \in Control
                                     \/ Len(txt') = TXT_CAP
                                     \/ \E m \in 1..Len(txt') : txt'[m] = jsonl'[n]
    <2> DEFINE line == [seq |-> seq + 1, type |-> type]
    <2>1. /\ line \in Line /\ line.seq = seq + 1
          /\ \/ UNCHANGED <<txt, jsonl, seq>> /\ 1 <= Len(jsonl)
             \/ txt' = TxtWith(<<line>>) /\ jsonl' = Append(jsonl, line) /\ seq' = seq + 1
      BY <1>2, BeginBuffers
    <2> HIDE DEF line
    <2>2. CASE UNCHANGED <<txt, jsonl, seq>> /\ 1 <= Len(jsonl)
      BY <1>1, <1>2, <1>5, <2>2, PrefixIsReflexive
    <2>3. CASE txt' = TxtWith(<<line>>) /\ jsonl' = Append(jsonl, line) /\ seq' = seq + 1
      <3>1. /\ IsPrefix(txt, txt') /\ IsPrefix(jsonl, jsonl')
            /\ Len(jsonl') = Len(jsonl) + 1 /\ Len(jsonl') <= seq'
            /\ \A n \in 1..Len(jsonl') : jsonl'[n].seq = seq' - Len(jsonl') + n
        BY <1>2, <1>5, <2>1, <2>3, OneMoreLine
      <3>2. \A n \in 1..Len(jsonl') : \/ jsonl'[n].type \in Control
                                      \/ Len(txt') = TXT_CAP
                                      \/ \E m \in 1..Len(txt') : txt'[m] = jsonl'[n]
        BY <1>2, <1>5, <2>1, <2>3, OneMoreLine
      <3>3. 1 <= Len(jsonl') /\ seq' - Len(jsonl') = seq - Len(jsonl)
        BY <2>3, <3>1, BufferType
      <3> QED
        BY <3>1, <3>2, <3>3
    <2> QED
      BY <2>1, <2>2, <2>3
  <1>7. Numbering'
    <2>1. seq' - Len(jsonl') + 1 = FirstSeq(session, part)'
      BY <1>2, <1>4, <1>6
    <2> QED
      BY <1>1, <1>2, <1>4, <1>6, <2>1 DEF Numbering
  <1>8. InBothBuffers'
    BY <1>6 DEF InBothBuffers
  <1>9. Mirrored'
    <2>1. /\ txt_file[session] # NoFile => IsPrefix(txt_file[session], txt')
          /\ jsonl_file[session][part] # NoFile => IsPrefix(jsonl_file[session][part], jsonl')
      <3>1. CASE pc = "start"
        <4>1. txt_file[session] = NoFile /\ Parts(session) = {}
          BY <1>1, <3>1 DEF Kept, Ledger
        <4>2. jsonl_file[session][part] = NoFile
          BY <4>1, BufferType DEF Parts, Part
        <4> QED
          BY <4>1, <4>2
      <3>2. CASE pc \in {"note", "idle"}
        BY <1>6, <3>2 DEF Kept, Mirrored
      <3> QED
        BY <3>1, <3>2
    <2> QED
      BY <1>1, <2>1 DEF Mirrored
  <1> QED
    BY <1>3, <1>7, <1>8, <1>9 DEF Kept

LEMMA CostIsSound ==
  ASSUME TypeOK, NEW n \in Nat, faults' = faults + n, UNCHANGED cuts, Sound'
  PROVE  Sound /\ n = 0
  BY DEF TypeOK, Sound

\* A buffer is never taken for a missing file.
LEMMA BufferIsFile == TypeOK => txt # NoFile /\ jsonl # NoFile
  BY BufferType, NoFileAssumption

LEMMA KeptWriteTxt ==
  ASSUME TypeOK, Shape, Kept, WriteTxt, Sound'
  PROVE  Kept'
  <1>1. PICK r \in WriteResults(txt_file[session], txt) :
          /\ faults' = faults + Cost(r, WriteDone(txt))
          /\ txt_file' = [txt_file EXCEPT ![session] = r.file]
          /\ IF r.ok THEN Proceed("jsonl") ELSE Flushed(FALSE)
    BY DEF WriteTxt, NextCall, FlushOrder
  <1>2. r \in WriteDone(txt)
    <2>1. UNCHANGED cuts
      BY DEF WriteTxt
    <2> QED
      BY <1>1, <2>1, CostType, CostIsSound
  <1>3. /\ pc = "txt" /\ pc' = "jsonl" /\ session \in Id
        /\ txt_file' = [txt_file EXCEPT ![session] = txt]
        /\ UNCHANGED <<jsonl_file, session, txt, jsonl, seq, part, jsonl_locked, active, boot>>
        /\ owners' = [owners EXCEPT ![session] = @ \union {boot}]
    <2>1. r.ok = TRUE /\ r.file = txt
      BY <1>2 DEF WriteDone
    <2>2. Proceed("jsonl") /\ pc = "txt" /\ UNCHANGED jsonl_file /\ Owned
      BY <1>1, <2>1 DEF WriteTxt
    <2>3. session \in Id
      BY <2>2, BusyShape DEF Busy
    <2> QED
      BY <1>1, <2>1, <2>2, <2>3 DEF Proceed, buffers, Owned
  <1>4. txt_file'[session] = txt /\ \A i \in Id \ {session} : txt_file'[i] = txt_file[i]
    BY <1>3 DEF TypeOK
  <1>5. owners'[session] = owners[session] \union {boot}
          /\ \A i \in Id \ {session} : owners'[i] = owners[i]
    BY <1>3 DEF TypeOK
  <1>6. /\ \A i : Parts(i)' = Parts(i)
        /\ \A i, k : FirstSeq(i, k)' = FirstSeq(i, k)
        /\ \A i \in Id : InOrder(i)'
    <2>1. \A i : Parts(i)' = Parts(i)
      BY <1>3 DEF Parts
    <2>2. \A i, k : FirstSeq(i, k)' = FirstSeq(i, k)
      BY <1>3 DEF FirstSeq
    <2> QED
      BY <1>3, <2>1, <2>2 DEF Kept, InOrder
  <1>7. Ledger'
    <2>1. owners[session] \subseteq {boot} /\ boot \in 1..MAX_BOOT
      BY <1>3 DEF Kept, Ledger, Shape
    <2>2. owners'[session] = {boot}
      BY <1>5, <2>1
    <2> QED
      BY <1>3, <1>4, <1>5, <1>6, <2>1, <2>2, BufferIsFile DEF Kept, Ledger
  <1>8. Numbering'
    BY <1>3, <1>6 DEF Kept, Numbering
  <1>9. Mirrored'
    <2>1. IsPrefix(txt, txt)
      BY BufferType, PrefixIsReflexive
    <2> QED
      BY <1>3, <1>4, <2>1 DEF Kept, Mirrored
  <1>10. InBothBuffers'
    BY <1>3 DEF Kept, InBothBuffers
  <1>11. ASSUME NEW i \in Id
         PROVE  Agree(i)'
    <2>1. CASE i # session
      BY <1>3, <1>4, <1>6, <2>1, SessionStays DEF Kept
    <2>2. CASE i = session
      <3> SUFFICES ASSUME NEW k \in Parts(i), NEW n \in DOMAIN jsonl_file[i][k]
                   PROVE  \/ jsonl_file[i][k][n].type \in Control
                          \/ Size(txt) = TXT_CAP
                          \/ txt # NoFile /\ jsonl_file[i][k][n] \in Range(txt)
        BY <1>3, <1>4, <1>6, <2>2 DEF Agree
      <3> DEFINE old  == txt_file[session]
                 line == jsonl_file[i][k][n]
      <3>1. old # NoFile
        BY <2>2 DEF Kept, Ledger
      <3>2. old \in Seq(Line) /\ txt \in Seq(Line) /\ IsPrefix(old, txt)
        BY <1>3, <3>1, FileTypes, BufferType DEF Kept, Mirrored, File
      <3>3. /\ Len(old) \in Nat /\ Len(txt) \in Nat /\ DOMAIN old = 1..Len(old)
            /\ DOMAIN txt = 1..Len(txt) /\ Len(txt) <= TXT_CAP
        BY <3>2, LenProperties, BufferType
      <3>4. Len(old) <= Len(txt) /\ \A j \in 1..Len(old) : old[j] = txt[j]
        BY <3>2, PrefixElements
      <3>5. line.type \in Control \/ Size(old) = TXT_CAP \/ line \in Range(old)
        BY <2>2 DEF Kept, Agree
      <3>6. CASE Size(old) = TXT_CAP
        <4>1. Len(old) = TXT_CAP
          BY <3>1, <3>6 DEF Size
        <4>2. Len(txt) = TXT_CAP
          BY <3>3, <3>4, <4>1
        <4> QED
          BY <4>2, BufferIsFile DEF Size
      <3>7. CASE line \in Range(old)
        <4>1. PICK j \in 1..Len(old) : old[j] = line
          BY <3>3, <3>7 DEF Range
        <4>2. j \in 1..Len(txt) /\ txt[j] = line
          BY <3>3, <3>4, <4>1
        <4>3. line \in Range(txt)
          BY <3>3, <4>2 DEF Range
        <4> QED
          BY <4>3, BufferIsFile
      <3> QED
        BY <3>5, <3>6, <3>7
    <2> QED
      BY <2>1, <2>2
  <1> QED
    BY <1>6, <1>7, <1>8, <1>9, <1>10, <1>11 DEF Kept

LEMMA KeptWriteJsonl ==
  ASSUME TypeOK, Shape, Kept, WriteJsonl, Sound'
  PROVE  Kept'
  <1>1. PICK r \in WriteResults(jsonl_file[session][part], jsonl) :
          /\ faults' = faults + Cost(r, WriteDone(jsonl))
          /\ jsonl_file' = [jsonl_file EXCEPT ![session][part] = r.file]
          /\ IF r.ok THEN Proceed("compare") ELSE Flushed(FALSE)
    BY DEF WriteJsonl, NextCall, FlushOrder
  <1>2. r \in WriteDone(jsonl)
    <2>1. UNCHANGED cuts
      BY DEF WriteJsonl
    <2> QED
      BY <1>1, <2>1, CostType, CostIsSound
  <1>3. /\ pc = "jsonl" /\ pc' = "compare" /\ session \in Id /\ part \in Part
        /\ jsonl_file' = [jsonl_file EXCEPT ![session][part] = jsonl]
        /\ UNCHANGED <<txt_file, session, txt, jsonl, seq, part, jsonl_locked, active, boot>>
        /\ owners' = [owners EXCEPT ![session] = @ \union {boot}]
        /\ txt_file[session] = txt
    <2>1. r.ok = TRUE /\ r.file = jsonl
      BY <1>2 DEF WriteDone
    <2>2. Proceed("compare") /\ pc = "jsonl" /\ UNCHANGED txt_file /\ Owned
      BY <1>1, <2>1 DEF WriteJsonl
    <2>3. session \in Id /\ part \in Part
      BY <2>2, BusyShape DEF Busy, TypeOK
    <2>4. txt_file[session] = txt
      BY <2>2 DEF Kept, Mirrored
    <2> QED
      BY <1>1, <2>1, <2>2, <2>3, <2>4 DEF Proceed, buffers, Owned
  <1>4. /\ jsonl_file'[session][part] = jsonl
        /\ \A k \in Part \ {part} : jsonl_file'[session][k] = jsonl_file[session][k]
        /\ \A i \in Id \ {session} : jsonl_file'[i] = jsonl_file[i]
    BY <1>3 DEF TypeOK
  <1>5. owners'[session] = owners[session] \union {boot}
          /\ \A i \in Id \ {session} : owners'[i] = owners[i]
    BY <1>3 DEF TypeOK
  <1>6. \A i \in Id \ {session} : /\ Parts(i)' = Parts(i) /\ InOrder(i)' /\ Agree(i)'
    BY <1>3, <1>4, SessionStays DEF Kept
  <1>7. Parts(session)' = 1..part
    <2>1. Parts(session)' = Parts(session) \union {part}
      BY <1>3, <1>4, BufferIsFile DEF Parts
    <2>2. part \in Nat /\ 1 <= part
      BY BufferType
    <2>3. Parts(session) = 1..part \/ Parts(session) = 1..(part - 1)
      BY <1>3 DEF Kept, Numbering
    <2> QED
      BY <2>1, <2>2, <2>3
  <1>8. \A k \in 1..part : FirstSeq(session, k)' = FirstSeq(session, k)
    <2> SUFFICES ASSUME NEW k \in 1..part PROVE FirstSeq(session, k)' = FirstSeq(session, k)
      OBVIOUS
    <2>1. CASE k = 1
      BY <2>1 DEF FirstSeq
    <2>2. CASE k # 1
      <3>1. k - 1 \in Part \ {part}
        BY <2>2, Bounds, <1>3 DEF Part
      <3> QED
        BY <1>3, <1>4, <2>2, <3>1 DEF FirstSeq
    <2> QED
      BY <2>1, <2>2
  <1> part \in Nat /\ 1 <= part /\ part <= MAX_PART /\ MAX_PART \in Nat
    BY <1>3, Bounds DEF Part
  <1>9. /\ 1 <= Len(jsonl) /\ Len(jsonl) \in Nat /\ seq \in Nat
        /\ \A n \in 1..Len(jsonl) : jsonl[n].seq = seq - Len(jsonl) + n
        /\ seq - Len(jsonl) + 1 = FirstSeq(session, part)
    BY <1>3, BufferType DEF Kept, Numbering
  <1>10. InOrder(session)'
    <2>1. part \in 0..MAX_PART
      OBVIOUS
    <2>2. ASSUME NEW k \in 1..part
          PROVE  /\ Len(jsonl_file'[session][k]) >= 1
                 /\ \A n \in 1..Len(jsonl_file'[session][k]) :
                      jsonl_file'[session][k][n].seq = FirstSeq(session, k) + n - 1
      <3>1. CASE k = part
        <4>1. jsonl_file'[session][k] = jsonl
          BY <1>4, <3>1
        <4>2. \A n \in 1..Len(jsonl) : jsonl[n].seq = FirstSeq(session, k) + n - 1
          BY <1>9, <3>1
        <4> QED
          BY <1>9, <4>1, <4>2
      <3>2. CASE k # part
        <4>1. k \in Part \ {part} /\ k \in 1..(part - 1)
          BY <2>2, <3>2 DEF Part
        <4>2. k \in Parts(session)
          BY <1>3, <4>1, BufferType DEF Kept, Numbering
        <4>3. jsonl_file'[session][k] = jsonl_file[session][k]
          BY <1>4, <4>1
        <4> QED
          BY <1>3, <4>2, <4>3 DEF Kept, InOrder
      <3> QED
        BY <3>1, <3>2
    <2> QED
      BY <1>3, <1>7, <1>8, <2>1, <2>2 DEF InOrder
  <1>11. Agree(session)'
    <2> SUFFICES ASSUME NEW k \in 1..part, NEW n \in DOMAIN jsonl_file'[session][k]
                 PROVE  \/ jsonl_file'[session][k][n].type \in Control
                        \/ Size(txt) = TXT_CAP
                        \/ txt # NoFile /\ jsonl_file'[session][k][n] \in Range(txt)
      BY <1>3, <1>7 DEF Agree
    <2>1. CASE k = part
      <3>1. jsonl_file'[session][k] = jsonl /\ n \in 1..Len(jsonl)
        BY <1>4, <2>1, BufferType, LenProperties
      <3>2. \/ jsonl[n].type \in Control \/ Len(txt) = TXT_CAP
            \/ \E m \in 1..Len(txt) : txt[m] = jsonl[n]
        BY <1>3, <3>1 DEF Kept, InBothBuffers
      <3>3. DOMAIN txt = 1..Len(txt)
        BY BufferType, LenProperties
      <3> QED
        BY <3>1, <3>2, <3>3, BufferIsFile DEF Size, Range
    <2>2. CASE k # part
      <3>1. k \in Part \ {part} /\ k \in 1..(part - 1)
        BY <2>2 DEF Part
      <3>2. k \in Parts(session)
        BY <1>3, <3>1, BufferType DEF Kept, Numbering
      <3>3. jsonl_file'[session][k] = jsonl_file[session][k]
        BY <1>4, <3>1
      <3> QED
        BY <1>3, <3>2, <3>3 DEF Kept, Agree
    <2> QED
      BY <2>1, <2>2
  <1>12. Ledger'
    <2>1. owners[session] \subseteq {boot} /\ boot \in 1..MAX_BOOT
      BY <1>3 DEF Kept, Ledger, Shape
    <2>2. owners'[session] = {boot}
      BY <1>5, <2>1
    <2> QED
      BY <1>3, <1>5, <1>6, <2>1, <2>2, BufferIsFile DEF Kept, Ledger
  <1>13. Numbering'
    <2>1. part \in 1..part
      OBVIOUS
    <2>2. FirstSeq(session, part)' = FirstSeq(session, part)
      BY <1>3, <1>8, <2>1 DEF FirstSeq
    <2> QED
      BY <1>3, <1>7, <2>2 DEF Kept, Numbering
  <1>14. Mirrored'
    <2>1. IsPrefix(jsonl, jsonl) /\ IsPrefix(txt, txt)
      BY BufferType, PrefixIsReflexive
    <2> QED
      BY <1>3, <1>4, <2>1 DEF Mirrored
  <1>15. InBothBuffers'
    BY <1>3 DEF Kept, InBothBuffers
  <1>16. ASSUME NEW i \in Id PROVE InOrder(i)' /\ Agree(i)'
    <2>1. CASE i = session
      BY <1>3, <1>10, <1>11, <2>1 DEF InOrder, Agree, Parts, FirstSeq
    <2>2. CASE i # session
      BY <1>6, <2>2
    <2> QED
      BY <2>1, <2>2
  <1> QED
    BY <1>12, <1>13, <1>14, <1>15, <1>16 DEF Kept

\* Without a fault the texts are what was written, so the flush succeeds.
LEMMA CompareSucceeds ==
  ASSUME TypeOK, Shape, Kept, Compare, Sound'
  PROVE  Flushed(TRUE) /\ UNCHANGED <<medium, faults, cuts>>
  <1>1. pc = "compare" /\ session \in Id /\ part \in Part /\ UNCHANGED <<medium, cuts>>
    BY BusyShape DEF Compare, Busy, TypeOK
  <1>2. txt_file[session] = txt /\ jsonl_file[session][part] = jsonl
    BY <1>1 DEF Kept, Mirrored
  <1>3. CASE ~Verifiable
    BY <1>1, <1>3 DEF Compare
  <1>4. CASE Verifiable
    <2>1. PICK a \in ReadResults(txt, READ_CAP), b \in ReadResults(jsonl, READ_CAP) :
            /\ faults' = faults + (Cost(a, ReadDone(txt, READ_CAP))
                                   + Cost(b, ReadDone(jsonl, READ_CAP)))
            /\ Flushed(a.ok /\ b.ok /\ a.text = txt /\ b.text = jsonl)
      BY <1>2, <1>4 DEF Compare
    <2> DEFINE costA == Cost(a, ReadDone(txt, READ_CAP))
               costB == Cost(b, ReadDone(jsonl, READ_CAP))
    <2>2. costA \in {0, 1} /\ costB \in {0, 1}
      BY CostType
    <2>3. costA + costB = 0 /\ faults' = faults + (costA + costB)
      <3> HIDE DEF costA, costB
      <3>1. costA + costB \in Nat
        BY <2>2
      <3>2. faults' = faults + (costA + costB)
        BY <2>1 DEF costA, costB
      <3> DEFINE cost == costA + costB
      <3> HIDE DEF cost
      <3>3. cost = 0
        <4>1. cost \in Nat /\ faults' = faults + cost
          BY <3>1, <3>2 DEF cost
        <4> QED
          BY <1>1, <4>1, CostIsSound
      <3> QED
        BY <3>2, <3>3 DEF cost
    <2>4. costA = 0 /\ costB = 0 /\ faults' = faults
      <3> HIDE DEF costA, costB
      <3> QED
        BY <2>2, <2>3 DEF TypeOK
    <2>5. a \in ReadDone(txt, READ_CAP) /\ b \in ReadDone(jsonl, READ_CAP)
      BY <2>4, CostType
    <2>6. /\ txt \in Seq(Line) /\ jsonl \in Seq(Line) /\ READ_CAP \in Nat
          /\ txt # NoFile /\ jsonl # NoFile
          /\ Len(txt) <= READ_CAP /\ Len(jsonl) <= READ_CAP
      BY <1>4, BufferType, BufferIsFile, Bounds DEF Verifiable, Fits
    <2>7. a.ok = TRUE /\ b.ok = TRUE
      BY <2>5, <2>6 DEF ReadDone
    <2>8. a.text = txt /\ b.text = jsonl
      BY <2>5, <2>6, ReadDoneText
    <2>9. (a.ok /\ b.ok /\ a.text = txt /\ b.text = jsonl) = TRUE
      BY <2>7, <2>8
    <2>10. Flushed(TRUE)
      BY <2>1, <2>9
    <2> QED
      BY <1>1, <2>4, <2>10
  <1> QED
    BY <1>3, <1>4

\* A new part is numbered on from the last line of the part before it.
LEMMA RotatedNumbers ==
  ASSUME TypeOK, Shape, Kept, pc = "compare", Rotated, part < MAX_PART,
         UNCHANGED <<medium, session>>
  PROVE  /\ part' = part + 1 /\ seq' \in Nat /\ Len(jsonl') = 3 /\ Len(jsonl') <= seq'
         /\ \A n \in 1..3 : jsonl'[n].seq = seq' - 3 + n
         /\ seq' - Len(jsonl') + 1 = FirstSeq(session, part')
         /\ Parts(session)' = 1..(part' - 1)
         /\ jsonl_file'[session][part'] = NoFile
  <1>1. /\ session \in Id /\ part \in Nat /\ 1 <= part /\ MAX_PART \in Nat /\ seq \in Nat
        /\ jsonl_file[session][part] = jsonl /\ Len(jsonl) \in Nat
    BY BusyShape, BufferType, Bounds DEF Busy, Kept, Mirrored
  <1>2. /\ 1 <= Len(jsonl) /\ \A n \in 1..Len(jsonl) : jsonl[n].seq = seq - Len(jsonl) + n
        /\ Parts(session) = 1..part \/ Parts(session) = 1..(part - 1)
    BY DEF Kept, Numbering
  <1>3. Parts(session) = 1..part
    <2>1. part \in Parts(session)
      BY <1>1, BufferIsFile DEF Parts, Part
    <2>2. part \notin 1..(part - 1)
      BY <1>1
    <2> QED
      BY <1>2, <2>1, <2>2
  <1>4. /\ jsonl' \in Seq(Line) /\ Len(jsonl') = 3
        /\ jsonl'[1].seq = seq + 1 /\ jsonl'[2].seq = seq + 2 /\ jsonl'[3].seq = seq + 3
        /\ seq' = seq + 3 /\ part' = part + 1
    BY RotatedTypes
  <1>5. \A n \in 1..3 : jsonl'[n].seq = seq' - 3 + n
    <2> SUFFICES ASSUME NEW n \in 1..3 PROVE jsonl'[n].seq = seq' - 3 + n
      OBVIOUS
    <2>1. n = 1 \/ n = 2 \/ n = 3
      OBVIOUS
    <2> QED
      BY <1>1, <1>4, <2>1
  <1>6. jsonl[Len(jsonl)].seq = seq
    <2>1. Len(jsonl) \in 1..Len(jsonl)
      BY <1>1, <1>2
    <2> QED
      BY <1>1, <1>2, <2>1
  <1>7. FirstSeq(session, part') = seq + 1
    <2>1. part' # 1 /\ part' - 1 = part
      BY <1>1, <1>4
    <2> QED
      BY <1>1, <1>6, <2>1 DEF FirstSeq
  <1>8. jsonl_file'[session][part'] = NoFile
    <2>1. part' \in Part /\ part' \notin 1..part
      BY <1>1, <1>4 DEF Part
    <2>2. jsonl_file[session][part'] = NoFile
      BY <1>3, <2>1 DEF Parts
    <2> QED
      BY <2>2 DEF medium
  <1>9. Parts(session)' = 1..(part' - 1)
    <2>1. Parts(session)' = Parts(session)
      BY DEF Parts, medium
    <2> QED
      BY <1>1, <1>3, <1>4, <2>1
  <1> QED
    BY <1>1, <1>4, <1>5, <1>7, <1>8, <1>9

\* The lines of a new part are its own two, and one that is in both buffers.
LEMMA RotatedInBoth ==
  ASSUME TypeOK, Rotated
  PROVE  \A n \in 1..Len(jsonl') : \/ jsonl'[n].type \in Control
                                   \/ Len(txt') = TXT_CAP
                                   \/ \E m \in 1..Len(txt') : txt'[m] = jsonl'[n]
  <1> DEFINE line == [seq |-> seq + 3, type |-> job.type]
  <1>1. line \in Line
    BY BufferType, LineType
  <1>2. /\ txt' = TxtWith(<<line>>) /\ Len(jsonl') = 3
        /\ jsonl'[1].type \in Control /\ jsonl'[2].type \in Control /\ jsonl'[3] = line
    BY RotatedTypes DEF Control
  <1> HIDE DEF line
  <1>3. <<line>> \in Seq(Line) /\ Len(<<line>>) = 1 /\ <<line>>[1] = line /\ 1 \in 1..Len(<<line>>)
    BY <1>1
  <1>4. Len(txt') = TXT_CAP \/ (Len(txt) + 1 <= Len(txt') /\ txt'[Len(txt) + 1] = line)
    BY <1>2, <1>3, TxtWithLines
  <1>5. Len(txt') = TXT_CAP \/ \E m \in 1..Len(txt') : txt'[m] = line
    <2>1. Len(txt) \in Nat /\ Len(txt') \in Nat
      BY <1>2, <1>3, TxtWithLines, BufferType
    <2>2. Len(txt) + 1 <= Len(txt') => Len(txt) + 1 \in 1..Len(txt')
      BY <2>1
    <2> QED
      BY <1>4, <2>2
  <1> SUFFICES ASSUME NEW n \in 1..3
               PROVE  \/ jsonl'[n].type \in Control
                      \/ Len(txt') = TXT_CAP
                      \/ \E m \in 1..Len(txt') : txt'[m] = jsonl'[n]
    BY <1>2
  <1>6. n = 1 \/ n = 2 \/ n = 3
    OBVIOUS
  <1> QED
    BY <1>2, <1>5, <1>6

LEMMA KeptCompare ==
  ASSUME TypeOK, Shape, Kept, Compare, Sound'
  PROVE  Kept'
  <1>1. Flushed(TRUE) /\ UNCHANGED <<txt_file, jsonl_file, owners>>
    BY CompareSucceeds DEF medium
  <1>2. /\ pc = "compare" /\ session \in Id /\ UNCHANGED <<session, boot>>
        /\ active = TRUE /\ jsonl_locked = FALSE
    BY <1>1, BusyShape, FlushedMoves, BufferType DEF Compare, Busy, Kept, Numbering
  <1>3. pc' \notin {"off", "start"}
    BY <1>1, FlushedMoves, AfterTypes, BufferType
  <1>4. Ledger' /\ \A i \in Id : InOrder(i)' /\ Agree(i)'
    <2>1. owners'[session'] \subseteq {boot'}
      BY <1>1, <1>2 DEF Kept, Ledger
    <2> QED
      BY <1>1, <1>3, <2>1, MediumStays DEF Kept
  <1>5. CASE job.rotating /\ Rotated /\ pc' = "txt" /\ UNCHANGED active
    <2>1. part < MAX_PART
      BY <1>5 DEF Shape
    <2>2. /\ part' = part + 1 /\ seq' \in Nat /\ Len(jsonl') = 3 /\ Len(jsonl') <= seq'
          /\ \A n \in 1..3 : jsonl'[n].seq = seq' - 3 + n
          /\ seq' - Len(jsonl') + 1 = FirstSeq(session, part')
          /\ Parts(session)' = 1..(part' - 1)
          /\ jsonl_file'[session][part'] = NoFile
      BY <1>1, <1>2, <1>5, <2>1, RotatedNumbers DEF medium
    <2>3. FirstSeq(session, part)' = FirstSeq(session, part')
      BY <1>1, <1>2 DEF FirstSeq
    <2>4. active' /\ ~jsonl_locked' /\ 1 <= Len(jsonl')
      BY <1>2, <1>5, <2>2 DEF Rotated
    <2>5. \A n \in 1..Len(jsonl') : jsonl'[n].seq = seq' - Len(jsonl') + n
      BY <2>2
    <2>6. Numbering'
      BY <2>2, <2>3, <2>4, <2>5 DEF Numbering
    <2>7. Mirrored'
      <3>1. /\ txt_file[session] = txt /\ txt' \in Seq(Line) /\ Len(txt) <= Len(txt')
            /\ \A n \in 1..Len(txt) : txt'[n] = txt[n]
        BY <1>1, <1>2, CallTypes DEF Kept, Mirrored, Busy, Phase
      <3>2. IsPrefix(txt, txt')
        BY <3>1, GrownText
      <3> QED
        BY <1>1, <1>2, <1>5, <2>2, <3>1, <3>2 DEF Mirrored
    <2>8. InBothBuffers'
      BY <1>5, RotatedInBoth DEF InBothBuffers
    <2> QED
      BY <1>4, <2>6, <2>7, <2>8 DEF Kept
  <1>6. CASE /\ ~job.rotating /\ pc' \notin {"off", "start", "txt", "jsonl"} /\ active' = TRUE
             /\ UNCHANGED <<job, txt, jsonl, seq, part, jsonl_locked>>
    <2>1. /\ Parts(session)' = Parts(session)
          /\ FirstSeq(session, part)' = FirstSeq(session, part)
      BY <1>1, <1>2, <1>6 DEF Parts, FirstSeq
    <2>2. Numbering'
      BY <1>2, <1>6, <2>1 DEF Kept, Numbering
    <2>3. Mirrored'
      BY <1>1, <1>2, <1>6 DEF Kept, Mirrored
    <2>4. InBothBuffers'
      BY <1>2, <1>6 DEF Kept, InBothBuffers
    <2> QED
      BY <1>4, <2>2, <2>3, <2>4 DEF Kept
  <1>7. \/ job.rotating /\ Rotated /\ pc' = "txt" /\ UNCHANGED active
        \/ /\ ~job.rotating /\ pc' \notin {"off", "start", "txt", "jsonl"} /\ active' = TRUE
           /\ UNCHANGED <<job, txt, jsonl, seq, part, jsonl_locked>>
    <2>1. \A t \in Type : After(t) \notin {"off", "start", "txt", "jsonl"}
      BY AfterTypes
    <2> QED
      BY <1>1, <2>1, FlushedMoves, BufferType
  <1> QED
    BY <1>5, <1>6, <1>7

\* Steps that touch neither the buffers nor the medium.
LEMMA KeptWait ==
  ASSUME TypeOK, Kept, UNCHANGED <<medium, buffers, boot>>,
         \/ UNCHANGED pc
         \/ pc = "check" /\ pc' \in {"note", "idle"}
  PROVE  Kept'
  <1>1. UNCHANGED <<txt_file, jsonl_file, owners, session, txt, jsonl, seq, part,
                    jsonl_locked, active, boot>>
    BY DEF medium, buffers
  <1>2. /\ \A i : Parts(i)' = Parts(i)
        /\ \A i, k : FirstSeq(i, k)' = FirstSeq(i, k)
        /\ \A i \in Id : InOrder(i)' /\ Agree(i)'
    BY <1>1, SessionStays DEF Kept, Parts, FirstSeq
  <1>3. Ledger'
    BY <1>1, <1>2 DEF Kept, Ledger
  <1>4. Numbering'
    BY <1>1, <1>2 DEF Kept, Numbering
  <1>5. Mirrored'
    BY <1>1 DEF Kept, Mirrored
  <1>6. InBothBuffers'
    BY <1>1 DEF Kept, InBothBuffers
  <1> QED
    BY <1>2, <1>3, <1>4, <1>5, <1>6 DEF Kept

\* A boot that is over leaves its files and nothing else.
LEMMA KeptStop ==
  ASSUME Kept, Stop
  PROVE  Kept'
  <1>1. pc' = "off" /\ UNCHANGED <<txt_file, jsonl_file, owners>>
    BY DEF Stop, medium
  <1>2. Ledger' /\ \A i \in Id : InOrder(i)' /\ Agree(i)'
    BY <1>1, MediumStays DEF Kept
  <1> QED
    BY <1>1, <1>2 DEF Kept, Numbering, Mirrored, InBothBuffers

\* No step takes a fault or a cut back.
LEMMA SoundBefore ==
  ASSUME TypeOK, Shape, [Next]_vars, Sound'
  PROVE  Sound
  <1> SUFFICES ASSUME ~ UNCHANGED <<faults, cuts>> PROVE Sound
    BY DEF Sound
  <1>1. CASE \E i \in Id : Boot(i)
    <2>1. faults' = faults + 1 /\ UNCHANGED cuts
      BY <1>1 DEF Boot
    <2> QED
      BY <2>1 DEF TypeOK, Sound
  <1>2. CASE WriteTxt
    <2>1. PICK r : faults' = faults + Cost(r, WriteDone(txt)) /\ UNCHANGED cuts
      BY <1>2 DEF WriteTxt
    <2>2. Cost(r, WriteDone(txt)) \in Nat
      BY CostType
    <2> QED
      BY <2>1, <2>2, CostIsSound
  <1>3. CASE WriteJsonl
    <2>1. PICK r : faults' = faults + Cost(r, WriteDone(jsonl)) /\ UNCHANGED cuts
      BY <1>3 DEF WriteJsonl
    <2>2. Cost(r, WriteDone(jsonl)) \in Nat
      BY CostType
    <2> QED
      BY <2>1, <2>2, CostIsSound
  <1>4. CASE Compare
    <2> DEFINE costOf(a, b) == Cost(a, ReadDone(txt_file[session], READ_CAP))
                               + Cost(b, ReadDone(jsonl_file[session][part], READ_CAP))
    <2>1. PICK a, b : faults' = faults + costOf(a, b)
      BY <1>4 DEF Compare
    <2>2. costOf(a, b) \in Nat
      <3>1. \A r, done : Cost(r, done) \in {0, 1}
        BY CostType
      <3> QED
        BY <3>1
    <2>3. UNCHANGED cuts
      BY <1>4 DEF Compare
    <2> HIDE DEF costOf
    <2> QED
      BY <2>1, <2>2, <2>3, CostIsSound
  <1>5. CASE CheckPrevious
    BY <1>5, CheckMoves
  <1>6. CASE StopInWrite
    <2>1. cuts' = cuts + 1
      BY <1>6 DEF StopInWrite
    <2> QED
      BY <2>1 DEF TypeOK, Sound
  <1>7. ~ (Start \/ NoteUnclean \/ Log \/ Shutdown \/ Stop \/ UNCHANGED vars)
    BY DEF Start, NoteUnclean, Log, Shutdown, Begin, Stop, vars, counts
  <1> QED
    BY <1>1, <1>2, <1>3, <1>4, <1>5, <1>6, <1>7 DEF Next, Step

LEMMA KeptInit == Init => Kept
  <1> SUFFICES ASSUME Init PROVE Kept
    OBVIOUS
  <1>1. /\ pc = "off" /\ MAX_PART \in Nat
        /\ \A i \in Id : txt_file[i] = NoFile /\ owners[i] = {} /\ Parts(i) = {}
    BY Bounds DEF Init, Parts
  <1>2. \A i \in Id : InOrder(i) /\ Agree(i)
    <2>1. {} = 1..0 /\ 0 \in 0..MAX_PART
      BY <1>1
    <2> QED
      BY <1>1, <2>1 DEF InOrder, Agree
  <1> QED
    BY <1>1, <1>2 DEF Kept, Ledger, Numbering, Mirrored, InBothBuffers

LEMMA KeptNext ==
  ASSUME TypeOK, Shape, Sound => Kept, [Next]_vars
  PROVE  Sound' => Kept'
  <1> SUFFICES ASSUME Sound' PROVE Kept'
    OBVIOUS
  <1>1. Kept
    BY SoundBefore
  <1>2. CASE \E i \in Id : Boot(i)
    BY <1>1, <1>2, KeptBoot
  <1>3. CASE Start \/ NoteUnclean \/ Log \/ Shutdown
    <2>1. PICK type \in Type :
            /\ Begin(type)
            /\ \/ pc = "start" /\ type = "session_start"
               \/ pc = "note" /\ type = "previous_session_unclean"
               \/ pc = "idle" /\ active
      BY <1>3, BeginMoves
    <2> QED
      BY <1>1, <2>1, KeptBegin
  <1>4. CASE WriteTxt
    BY <1>1, <1>4, KeptWriteTxt
  <1>5. CASE WriteJsonl
    BY <1>1, <1>5, KeptWriteJsonl
  <1>6. CASE Compare
    BY <1>1, <1>6, KeptCompare
  <1>7. CASE CheckPrevious
    BY <1>1, <1>7, CheckMoves, KeptWait DEF medium, buffers
  <1>8. CASE Stop
    BY <1>1, <1>8, KeptStop
  <1>9. CASE StopInWrite
    <2>1. cuts' = cuts + 1
      BY <1>9 DEF StopInWrite
    <2> QED
      BY <2>1 DEF TypeOK, Sound
  <1>10. CASE UNCHANGED vars
    BY <1>1, <1>10, KeptWait DEF vars
  <1> QED
    BY <1>2, <1>3, <1>4, <1>5, <1>6, <1>7, <1>8, <1>9, <1>10 DEF Next, Step

-----------------------------------------------------------------------------
(* The theorems *)

TypeInv == TypeOK /\ Shape

LEMMA Typed == Spec => []TypeInv
  <1>1. Init => TypeInv
    BY TypeInit DEF TypeInv
  <1>2. TypeInv /\ [Next]_vars => TypeInv'
    BY TypeNext DEF TypeInv
  <1> QED
    BY <1>1, <1>2, PTL DEF Spec

LEMMA SoundKept == Spec => [](Sound => Kept)
  <1> DEFINE Inv == Sound => Kept
  <1>1. Init => Inv
    BY KeptInit
  <1>2. TypeInv /\ Inv /\ [Next]_vars => Inv'
    BY KeptNext DEF TypeInv
  <1> QED
    <2> HIDE DEF Inv
    <2>1. Spec => []Inv
      BY <1>1, <1>2, Typed, PTL DEF Spec
    <2> QED
      BY <2>1 DEF Inv

\* Every variable of the transcript stays in its domain. The buffers never hold
\* more than their capacity: rotate_jsonl_part makes room before a line is added.
THEOREM TypeCorrect == Spec => []TypeOK
  <1>1. TypeInv => TypeOK
    BY DEF TypeInv
  <1> QED
    BY <1>1, Typed, PTL

\* A transcript that counts as active after flushv is on the medium as it is in
\* memory, if it is short enough to be compared, whatever the storage did.
THEOREM AlwaysVerified == Spec => []VerifiedWhileShort
  <1>1. Init => Compared
    BY DEF Init, Compared
  <1>2. TypeInv /\ Compared /\ [Next]_vars => Compared'
    BY ComparedNext DEF TypeInv
  <1>3. Compared => VerifiedWhileShort
    BY DEF Compared, VerifiedWhileShort
  <1> QED
    BY <1>1, <1>2, <1>3, Typed, PTL DEF Spec

\* session_transcript_init notices that the session before it, if that has one
\* part, was stopped before its end, whatever fails when it is looked for.
THEOREM CrashAlwaysNoticed == Spec => []CrashNoticed
  <1>1. Init => Noticed
    BY DEF Init, Noticed, Busy
  <1>2. TypeInv /\ Noticed /\ [Next]_vars => Noticed'
    BY NoticedNext DEF TypeInv
  <1>3. Noticed => CrashNoticed
    BY DEF Noticed, LooksCut, CrashNoticed
  <1> QED
    BY <1>1, <1>2, <1>3, Typed, PTL DEF Spec

\* choose_session_id looks for the text file only, and no two boots ever write
\* under one number: the text file is the first that flushv writes.
THEOREM OneBootAlways == Spec => []OneBootPerSession
  <1>1. (Sound => Kept) => OneBootPerSession
    <2> SUFFICES ASSUME Kept, NEW i \in Id PROVE Cardinality(owners[i]) <= 1
      BY DEF OneBootPerSession
    <2>1. owners[i] = {} \/ \E b \in 1..MAX_BOOT : owners[i] = {b}
      BY DEF Kept, Ledger
    <2>2. Cardinality({}) = 0 /\ \A b : Cardinality({b}) = 1
      BY FS_EmptySet, FS_Singleton
    <2>3. Cardinality(owners[i]) = 0 \/ Cardinality(owners[i]) = 1
      BY <2>1, <2>2
    <2> QED
      BY <2>3
  <1> QED
    BY <1>1, SoundKept, PTL

\* The parts that rotate_jsonl_part makes of a session are numbered without a
\* gap or a repetition, wherever a boot was stopped.
THEOREM PartsAlwaysContiguous == Spec => []PartsContiguous
  <1>1. (Sound => Kept) => PartsContiguous
    BY DEF Kept, InOrder, PartsContiguous
  <1> QED
    BY <1>1, SoundKept, PTL

\* flushv writes the text file before the JSONL file: no line of the second is
\* missing from the first until its buffer is full.
THEOREM EventsAlwaysInBoth == Spec => []EventsInBoth
  <1>1. (Sound => Kept) => EventsInBoth
    BY DEF Kept, Agree, EventsInBoth
  <1> QED
    BY <1>1, SoundKept, PTL
=============================================================================
