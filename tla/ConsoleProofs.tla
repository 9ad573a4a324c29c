--------------------------- MODULE ConsoleProofs ---------------------------
(***************************************************************************)
(* Proofs about Console, for any characters, buffers, history, screen      *)
(* width, page, calls of console_write_line a command may make, lines      *)
(* entered and characters waiting in the input.                            *)
(***************************************************************************)
EXTENDS Console, SequenceTheorems, WellFoundedInduction, TLAPS

LEMMA Bounds ==
  /\ LINE_MAX \in Nat /\ WAIT_MAX \in Nat /\ HISTORY_MAX \in Nat /\ PAGE_LINES \in Nat
  /\ 1 <= HISTORY_MAX /\ 1 <= PAGE_LINES /\ 2 <= WAIT_MAX /\ WAIT_MAX <= LINE_MAX
  /\ COLUMNS \in Nat /\ 1 <= COLUMNS
  /\ Outputs \subseteq Nat
  BY BuffersAssumption

LEMMA CapIs ==
  ASSUME NEW r
  PROVE  Cap(r) \in Nat /\ 2 <= Cap(r) /\ Cap(r) <= LINE_MAX
  BY Bounds DEF Cap

-----------------------------------------------------------------------------
(* The screen row *)

IsRow(r) == r \in [cells : Seq(Cell), col : Nat] /\ r.col <= Len(r.cells)

LEMMA EmptyRowIs == IsRow(EmptyRow) /\ EmptyRow.cells = <<>> /\ EmptyRow.col = 0
  BY DEF IsRow, EmptyRow

LEMMA PutIs ==
  ASSUME NEW r, IsRow(r), NEW text \in Seq(Cell)
  PROVE  LET p == Put(r, text)
             end == r.col + Len(text)
         IN  /\ IsRow(p) /\ p.col = end
             /\ Len(p.cells) = IF end > Len(r.cells) THEN end ELSE Len(r.cells)
             /\ \A i \in 1..Len(p.cells) :
                  p.cells[i] = IF i \in r.col + 1 .. end THEN text[i - r.col] ELSE r.cells[i]
  <1> DEFINE end == r.col + Len(text)
             n == IF end > Len(r.cells) THEN end ELSE Len(r.cells)
             e(i) == IF i \in r.col + 1 .. end THEN text[i - r.col] ELSE r.cells[i]
             cells == [i \in 1..n |-> e(i)]
  <1>1. r.cells \in Seq(Cell) /\ r.col \in Nat /\ r.col <= Len(r.cells)
    BY DEF IsRow
  <1>2. Len(r.cells) \in Nat /\ Len(text) \in Nat
    BY <1>1, LenProperties
  <1>3. n \in Nat /\ end \in Nat /\ end <= n
    BY <1>1, <1>2
  <1>4. ASSUME NEW i \in 1..n PROVE e(i) \in Cell
    <2>1. CASE i \in r.col + 1 .. end
      <3>1. i - r.col \in 1..Len(text)
        BY <1>1, <1>2, <2>1
      <3> QED
        BY <2>1, <3>1, ElementOfSeq
    <2>2. CASE i \notin r.col + 1 .. end
      <3>1. i \in 1..Len(r.cells)
        BY <1>1, <1>2, <2>2
      <3> QED
        BY <1>1, <2>2, <3>1, ElementOfSeq
    <2> QED
      BY <2>1, <2>2
  <1> HIDE DEF e
  <1>5. cells \in Seq(Cell)
    BY <1>3, <1>4, IsASeq
  <1>6. Len(cells) = n
    BY <1>3
  <1>7. Put(r, text) = [cells |-> cells, col |-> end]
    BY DEF Put, e
  <1> QED
    BY <1>3, <1>5, <1>6, <1>7 DEF IsRow, e

LEMMA NoWrap ==
  ASSUME NEW x \in Nat, NEW w \in Nat, x < w
  PROVE  x % w = x
  OBVIOUS

LEMMA WrapIs ==
  ASSUME NEW x \in Nat, NEW w \in Nat, 1 <= w
  PROVE  x % w \in Nat /\ x % w <= x
  <1>1. x % w \in 0 .. w - 1
    OBVIOUS
  <1>2. CASE x < w
    BY <1>2, NoWrap
  <1>3. CASE ~(x < w)
    <2> DEFINE rest == x % w
    <2>1. rest \in 0 .. w - 1
      BY <1>1
    <2> HIDE DEF rest
    <2>2. rest \in Nat /\ rest <= x
      BY <1>3, <2>1
    <2> QED
      BY <2>2 DEF rest
  <1> QED
    BY <1>2, <1>3

\* '\r' and '\b' go back in the screen row of the cursor, and before the first
\* wrap that is the row the prompt stands in.
LEMMA ReturnIs ==
  ASSUME NEW r, IsRow(r)
  PROVE  /\ IsRow(Return(r)) /\ Return(r).cells = r.cells
         /\ r.col < COLUMNS => Return(r).col = 0
  <1> DEFINE at == r.col % COLUMNS
  <1>1. /\ r \in [cells : Seq(Cell), col : Nat] /\ r.col <= Len(r.cells)
        /\ Len(r.cells) \in Nat
    BY LenProperties DEF IsRow
  <1>2. at \in Nat /\ at <= r.col /\ (r.col < COLUMNS => at = r.col)
    BY <1>1, Bounds, WrapIs, NoWrap
  <1>3. Return(r) = [cells |-> r.cells, col |-> r.col - at]
    BY <1>1 DEF Return
  <1> HIDE DEF at
  <1>4. /\ r.col - at \in Nat /\ r.col - at <= Len(r.cells)
        /\ r.col < COLUMNS => r.col - at = 0
    BY <1>1, <1>2
  <1> QED
    BY <1>1, <1>3, <1>4 DEF IsRow

LEMMA BackIs ==
  ASSUME NEW r, IsRow(r), NEW n \in Nat
  PROVE  /\ IsRow(Back(r, n)) /\ Back(r, n).cells = r.cells
         /\ r.col < COLUMNS /\ n <= r.col => Back(r, n).col = r.col - n
  <1> DEFINE at == r.col % COLUMNS
             step == IF n < at THEN n ELSE at
  <1>1. /\ r \in [cells : Seq(Cell), col : Nat] /\ r.col <= Len(r.cells)
        /\ Len(r.cells) \in Nat
    BY LenProperties DEF IsRow
  <1>2. at \in Nat /\ at <= r.col /\ (r.col < COLUMNS => at = r.col)
    BY <1>1, Bounds, WrapIs, NoWrap
  <1>3. Back(r, n) = [cells |-> r.cells, col |-> r.col - step]
    BY <1>1 DEF Back
  <1> HIDE DEF at
  <1>4. /\ step \in Nat /\ step <= r.col
        /\ r.col < COLUMNS /\ n <= r.col => step = n
    BY <1>1, <1>2
  <1> HIDE DEF step
  <1>5. r.col - step \in Nat /\ r.col - step <= Len(r.cells)
    BY <1>1, <1>4
  <1> QED
    BY <1>1, <1>3, <1>4, <1>5 DEF IsRow

LEMMA PromptIs ==
  /\ \A r \in Readers : Prompt(r) \in Seq(Cell)
  /\ Prompt("prompt") = <<Mark, Blank>> /\ Len(Prompt("prompt")) = 2
  /\ Prompt("prompt")[1] = Mark /\ Prompt("prompt")[2] = Blank
  <1>1. Mark \in Cell /\ Blank \in Cell /\ "edit" \in Cell /\ "more" \in Cell
    BY DEF Cell
  <1>2. /\ Prompt("prompt") = <<Mark, Blank>>
        /\ Prompt("editor") = <<"edit", Mark, Blank>>
        /\ Prompt("pager") = <<"more", "more", "more">>
    BY DEF Prompt
  <1>3. /\ <<Mark, Blank>> \in Seq(Cell) /\ <<"edit", Mark, Blank>> \in Seq(Cell)
        /\ <<"more", "more", "more">> \in Seq(Cell)
    BY <1>1
  <1>4. \A r \in Readers : Prompt(r) \in Seq(Cell)
    BY <1>2, <1>3, Zenon DEF Readers
  <1>5. Len(<<Mark, Blank>>) = 2 /\ <<Mark, Blank>>[1] = Mark /\ <<Mark, Blank>>[2] = Blank
    OBVIOUS
  <1> QED
    BY <1>2, <1>4, <1>5

LEMMA LineIs ==
  ASSUME NEW text \in Seq(Cell)
  PROVE  LET line == Prompt("prompt") \o text
         IN  /\ line \in Seq(Cell) /\ Len(line) = 2 + Len(text)
             /\ \A i \in 1 .. 2 + Len(text) :
                  line[i] = IF i <= 2 THEN Prompt("prompt")[i] ELSE text[i - 2]
  <1> DEFINE before == Prompt("prompt")
             line == before \o text
  <1>1. before \in Seq(Cell) /\ Len(before) = 2
    BY PromptIs DEF Readers
  <1> HIDE DEF before
  <1>2. /\ line \in Seq(Cell) /\ Len(line) = Len(before) + Len(text)
        /\ \A i \in 1 .. Len(before) + Len(text) :
             line[i] = IF i <= Len(before) THEN before[i] ELSE text[i - Len(before)]
    BY <1>1, ConcatProperties
  <1> HIDE DEF line
  <1>3. /\ line \in Seq(Cell) /\ Len(line) = 2 + Len(text)
        /\ \A i \in 1 .. 2 + Len(text) : line[i] = IF i <= 2 THEN before[i] ELSE text[i - 2]
    BY <1>1, <1>2
  <1> QED
    BY <1>3 DEF line, before

LEMMA SomeIs ==
  ASSUME NEW n \in Nat, NEW S, NEW what \in S
  PROVE  /\ Some(n, what) \in Seq(S) /\ Len(Some(n, what)) = n
         /\ \A i \in 1..n : Some(n, what)[i] = what
  BY DEF Some

\* uefi_redraw_input writes the line over the row and blanks over what is left
\* of the line that it showed, as long as nothing has wrapped.
LEMMA RedrawnIs ==
  ASSUME NEW r, IsRow(r), NEW old \in Nat, NEW text \in Seq(Char)
  PROVE  LET d == Redrawn(r, old, text)
         IN  /\ IsRow(d) /\ Len(r.cells) <= Len(d.cells)
             /\ Len(d.cells) < COLUMNS =>
                  /\ d.col = 2 + Len(text)
                  /\ d.cells[1] = Mark /\ d.cells[2] = Blank
                  /\ \A i \in 1..Len(text) : d.cells[i + 2] = text[i]
                  /\ \A i \in Len(text) + 3 .. Len(d.cells) :
                       \/ d.cells[i] = Blank
                       \/ old + 2 < i /\ i <= Len(r.cells) /\ d.cells[i] = r.cells[i]
  <1> DEFINE gap == IF old > Len(text) THEN old - Len(text) ELSE 0
             width == IF old > Len(text) THEN old ELSE Len(text)
             blanks == Some(gap, Blank)
             line == Prompt("prompt") \o text
             all == line \o blanks
             start == Return(r)
             full == Put(start, all)
             d == Back(full, gap)
  <1>1. text \in Seq(Cell) /\ Prompt("prompt") \in Seq(Cell) /\ Blank \in Cell
    <2>1. Char \subseteq Cell /\ Blank \in Cell
      BY DEF Cell
    <2> QED
      BY <2>1, SeqMonotonic, PromptIs DEF Readers
  <1>2. Len(text) \in Nat /\ gap \in Nat /\ width \in Nat /\ width = Len(text) + gap
    BY <1>1, LenProperties
  <1>3. blanks \in Seq(Cell) /\ Len(blanks) = gap /\ \A i \in 1..gap : blanks[i] = Blank
    BY <1>1, <1>2, SomeIs
  <1>4. /\ line \in Seq(Cell) /\ Len(line) = 2 + Len(text)
        /\ \A i \in 1..2 + Len(text) : line[i] = IF i <= 2 THEN Prompt("prompt")[i] ELSE text[i - 2]
    BY <1>1, LineIs
  <1>w. old <= width
    BY <1>1, <1>2
  <1> HIDE DEF blanks, line, gap, width
  <1>5. /\ all \in Seq(Cell) /\ Len(all) = 2 + width
        /\ \A i \in 1..2 + width :
             all[i] = IF i <= 2 + Len(text) THEN line[i] ELSE blanks[i - (2 + Len(text))]
    <2>1. Len(line) + Len(blanks) = 2 + width
      BY <1>2, <1>3, <1>4
    <2>2. /\ all \in Seq(Cell) /\ Len(all) = Len(line) + Len(blanks)
          /\ \A i \in 1..Len(line) + Len(blanks) :
               all[i] = IF i <= Len(line) THEN line[i] ELSE blanks[i - Len(line)]
      BY <1>3, <1>4, ConcatProperties
    <2> QED
      BY <1>4, <2>1, <2>2
  <1> HIDE DEF all
  <1>6. IsRow(start) /\ start.cells = r.cells /\ (r.col < COLUMNS => start.col = 0)
    BY ReturnIs
  <1> HIDE DEF start
  <1>7. /\ IsRow(full) /\ full.col = start.col + Len(all)
        /\ Len(full.cells) = IF start.col + Len(all) > Len(r.cells)
                             THEN start.col + Len(all) ELSE Len(r.cells)
        /\ \A i \in 1..Len(full.cells) :
             full.cells[i] = IF i \in start.col + 1 .. start.col + Len(all)
                             THEN all[i - start.col] ELSE r.cells[i]
    BY <1>5, <1>6, PutIs
  <1>8. /\ Len(r.cells) \in Nat /\ r.col \in Nat /\ r.col <= Len(r.cells)
        /\ start.col \in Nat
    BY <1>6, LenProperties DEF IsRow
  <1> HIDE DEF full
  <1>9. /\ IsRow(d) /\ d.cells = full.cells
        /\ full.col < COLUMNS /\ gap <= full.col => d.col = full.col - gap
    BY <1>2, <1>7, BackIs
  <1>10. d = Redrawn(r, old, text)
    BY DEF Redrawn, d, full, start, all, line, blanks, gap
  <1> HIDE DEF d
  <1>a. Len(r.cells) <= Len(d.cells)
    BY <1>2, <1>5, <1>7, <1>8, <1>9
  <1>b. ASSUME Len(d.cells) < COLUMNS
        PROVE  /\ d.col = 2 + Len(text)
               /\ d.cells[1] = Mark /\ d.cells[2] = Blank
               /\ \A i \in 1..Len(text) : d.cells[i + 2] = text[i]
               /\ \A i \in Len(text) + 3 .. Len(d.cells) :
                    \/ d.cells[i] = Blank
                    \/ old + 2 < i /\ i <= Len(r.cells) /\ d.cells[i] = r.cells[i]
    <2>1. start.col = 0
      <3>1. COLUMNS \in Nat /\ Len(d.cells) \in Nat
        BY <1>9, Bounds, LenProperties DEF IsRow
      <3> QED
        BY <1>6, <1>8, <1>a, <1>b, <3>1
    <2>2. /\ full.col = 2 + width /\ Len(full.cells) \in Nat /\ full.col <= Len(full.cells)
          /\ Len(full.cells) = IF 2 + width > Len(r.cells) THEN 2 + width ELSE Len(r.cells)
          /\ \A i \in 1..Len(full.cells) :
               full.cells[i] = IF i \in 1 .. 2 + width THEN all[i] ELSE r.cells[i]
      <3>1. full.col = 2 + width /\ Len(full.cells) \in Nat /\ full.col <= Len(full.cells)
        BY <1>2, <1>5, <1>7, <2>1, LenProperties DEF IsRow
      <3>2. Len(full.cells) = IF 2 + width > Len(r.cells) THEN 2 + width ELSE Len(r.cells)
        BY <1>2, <1>5, <1>7, <2>1
      <3>3. ASSUME NEW i \in 1..Len(full.cells)
            PROVE  full.cells[i] = IF i \in 1 .. 2 + width THEN all[i] ELSE r.cells[i]
        <4>1. /\ i \in start.col + 1 .. start.col + Len(all) <=> i \in 1 .. 2 + width
              /\ i - start.col = i
          BY <1>2, <1>5, <2>1
        <4> QED
          BY <1>7, <4>1
      <3> QED
        BY <3>1, <3>2, <3>3
    <2>3. \A i \in 1 .. 2 + width : i \in 1..Len(d.cells) /\ d.cells[i] = all[i]
      BY <1>2, <1>8, <1>9, <2>2
    <2>4. d.col = 2 + Len(text)
      <3>1. full.col < COLUMNS /\ gap <= full.col
        BY <1>2, <1>9, <1>b, <2>2, Bounds
      <3> QED
        BY <1>2, <1>9, <2>2, <3>1
    <2>5. ASSUME NEW i \in 1..2 PROVE d.cells[i] = Prompt("prompt")[i]
      <3>1. i \in 1 .. 2 + width /\ i <= 2 + Len(text) /\ i \in 1 .. 2 + Len(text) /\ i <= 2
        BY <1>2
      <3> QED
        BY <1>4, <1>5, <2>3, <3>1
    <2>6. ASSUME NEW i \in 1..Len(text) PROVE d.cells[i + 2] = text[i]
      <3>1. i + 2 \in 1..2 + width /\ i + 2 <= 2 + Len(text) /\ ~(i + 2 <= 2) /\ (i + 2) - 2 = i
        BY <1>2
      <3>2. d.cells[i + 2] = all[i + 2] /\ all[i + 2] = line[i + 2]
        BY <3>1, <1>5, <2>3
      <3>3. line[i + 2] = text[(i + 2) - 2]
        BY <3>1, <1>2, <1>4
      <3> QED
        BY <3>1, <3>2, <3>3
    <2>7. ASSUME NEW i \in Len(text) + 3 .. 2 + width PROVE d.cells[i] = Blank
      <3>1. /\ i \in 1..2 + width /\ ~(i <= 2 + Len(text))
            /\ i - (2 + Len(text)) \in 1..gap
        BY <1>2
      <3>2. d.cells[i] = all[i] /\ all[i] = blanks[i - (2 + Len(text))]
        BY <3>1, <1>5, <2>3
      <3> QED
        BY <3>1, <3>2, <1>3
    <2>8. ASSUME NEW i \in Len(text) + 3 .. Len(d.cells)
          PROVE  \/ d.cells[i] = Blank
                 \/ old + 2 < i /\ i <= Len(r.cells) /\ d.cells[i] = r.cells[i]
      <3>1. CASE i <= 2 + width
        <4>1. i \in Len(text) + 3 .. 2 + width
          BY <1>2, <3>1
        <4> QED
          BY <2>7, <4>1
      <3>2. CASE ~(i <= 2 + width)
        <4>1. i \in 1..Len(full.cells) /\ i \notin 1 .. 2 + width /\ i <= Len(r.cells)
          BY <1>2, <1>8, <1>9, <2>2, <3>2
        <4>2. d.cells[i] = r.cells[i]
          BY <1>9, <2>2, <4>1
        <4>3. old + 2 < i
          BY <1>w, <1>2, <3>2
        <4> QED
          BY <4>1, <4>2, <4>3
      <3> QED
        BY <3>1, <3>2
    <2> QED
      BY <2>4, <2>5, <2>6, <2>8, PromptIs
  <1> QED
    BY <1>9, <1>10, <1>a, <1>b

-----------------------------------------------------------------------------
(* The steps, by what they change *)

LEMMA LinesAre ==
  /\ \A n \in Nat : Lines(n) \in Seq(Steps) /\ Len(Lines(n)) = n
  /\ \A n \in Nat : \A i \in 1..n : Lines(n)[i] = "line"
  /\ <<"clear">> \in Seq(Steps) /\ <<"edit">> \in Seq(Steps) /\ <<"line", "stop">> \in Seq(Steps)
  /\ <<>> \in Seq(Steps)
  <1>1. "line" \in Steps /\ "clear" \in Steps /\ "edit" \in Steps /\ "stop" \in Steps
    BY DEF Steps
  <1>2. \A n \in Nat : /\ Lines(n) \in Seq(Steps) /\ Len(Lines(n)) = n
                       /\ \A i \in 1..n : Lines(n)[i] = "line"
    BY <1>1, SomeIs DEF Lines
  <1> QED
    BY <1>1, <1>2

LEMMA OutputsAre ==
  ASSUME NEW n \in Outputs
  PROVE  /\ Lines(n) \in Seq(Steps) /\ <<"clear">> \o Lines(n) \in Seq(Steps)
         /\ Lines(1) \o <<"edit">> \o Lines(n) \in Seq(Steps)
         /\ Lines(1) \o Lines(n) \in Seq(Steps)
  <1>1. n \in Nat /\ 1 \in Nat
    BY Bounds
  <1>2. Lines(n) \in Seq(Steps) /\ Lines(1) \in Seq(Steps) /\ <<"clear">> \in Seq(Steps)
    BY <1>1, LinesAre
  <1>3. <<"edit">> \in Seq(Steps)
    BY LinesAre
  <1>4. Lines(1) \o <<"edit">> \in Seq(Steps)
    BY <1>2, <1>3, ConcatProperties
  <1> QED
    BY <1>2, <1>4, ConcatProperties

LEMMA RunMoves ==
  ASSUME NEW line, Dispatch(line)
  PROVE  pager' = PagerOn /\ todo' \in Seq(Steps) /\ UNCHANGED <<note_open, stopped, unpaged>>
  <1>1. /\ pager' = PagerOn /\ UNCHANGED <<note_open, stopped, unpaged>>
        /\ \/ todo' = <<>> \/ todo' = <<"line", "stop">> \/ todo' = Lines(1) \/ todo' = Lines(2)
           \/ \E n \in Outputs : \/ todo' = Lines(n)
                                 \/ todo' = <<"clear">> \o Lines(n)
                                 \/ todo' = Lines(1) \o <<"edit">> \o Lines(n)
    BY DEF Dispatch, Run, Connect, Disconnect
  <1>2. 1 \in Nat /\ 2 \in Nat
    OBVIOUS
  <1>3. todo' \in Seq(Steps)
    BY <1>1, <1>2, LinesAre, OutputsAre
  <1> QED
    BY <1>1, <1>3

\* Who read the line decides what becomes of the console.
LEMMA DeliveredMoves ==
  ASSUME TypeOK, NEW line, Delivered(line)
  PROVE  /\ reader \in Readers /\ reader' = Nobody /\ row' = EmptyRow /\ input' = NoInput
         /\ unread' = 0 /\ opened' = opened /\ build' = build
         /\ entered' = Append(entered, [at |-> reader, text |-> line])
         /\ todo' \in Seq(Steps)
         /\ \/ /\ reader = "prompt" /\ UNCHANGED <<note_open, stopped>>
               /\ \/ pager' = PagerOn /\ unpaged' = unpaged
                  \/ pager' = pager /\ unpaged' = TRUE
            \/ /\ reader = "editor" /\ note_open' \in BOOLEAN
               /\ UNCHANGED <<pager, stopped, unpaged>>
            \/ /\ reader = "pager" /\ pager' = [pager EXCEPT !.count = 0]
               /\ UNCHANGED <<todo, note_open, stopped, unpaged>>
  <1>1. /\ reader' = Nobody /\ row' = EmptyRow /\ input' = NoInput
        /\ unread' = 0 /\ opened' = opened /\ build' = build
        /\ entered' = Append(entered, [at |-> reader, text |-> line])
    BY DEF Delivered
  <1>2. CASE reader = "prompt" /\ TakeCommand(line)
    <2>1. CASE \E l \in {line, <<"match">>} : Dispatch(l)
      <3>1. pager' = PagerOn /\ todo' \in Seq(Steps) /\ UNCHANGED <<note_open, stopped, unpaged>>
        BY <2>1, RunMoves
      <3> QED
        BY <1>1, <1>2, <3>1 DEF Readers
    <2>2. CASE \E n \in Outputs : /\ Run(Lines(n)) /\ unpaged' = TRUE
                                  /\ UNCHANGED <<pager, note_open, stopped>>
      <3>1. todo' \in Seq(Steps)
        BY <2>2, OutputsAre DEF Run
      <3> QED
        BY <1>1, <1>2, <2>2, <3>1 DEF Readers
    <2> QED
      BY <1>2, <2>1, <2>2 DEF TakeCommand
  <1>3. CASE reader = "editor" /\ TakeNote /\ UNCHANGED unpaged
    <2>1. todo' \in Seq(Steps)
      <3>1. todo' = Lines(1) /\ 1 \in Nat
        BY <1>3 DEF TakeNote, Run
      <3> QED
        BY <3>1, LinesAre
    <2> QED
      BY <1>1, <1>3, <2>1 DEF TakeNote, Readers
  <1>4. CASE /\ reader = "pager" /\ UNCHANGED unpaged
             /\ pager' = [pager EXCEPT !.count = 0]
             /\ UNCHANGED <<todo, note_open, stopped, endpoint, asked>>
    BY <1>1, <1>4 DEF TypeOK, Readers
  <1> QED
    BY <1>2, <1>3, <1>4 DEF Delivered

\* Nothing is left to type: a line has been taken, or a row has been finished.
LEMMA AskMoves ==
  ASSUME NEW r \in Readers, NEW before, IsRow(before), Ask(r, before)
  PROVE  /\ reader' = r /\ IsRow(row')
         /\ input' = [text |-> <<>>, drawn |-> 0, recalled |-> Len(history)]
         /\ row' = IF build = "uefi" THEN Put(before, Prompt(r)) ELSE before
  <1>1. /\ reader' = r /\ row' = IF build = "uefi" THEN Put(before, Prompt(r)) ELSE before
        /\ input' = [text |-> <<>>, drawn |-> 0, recalled |-> Len(history)]
    BY DEF Ask, NoInput
  <1>2. IsRow(Put(before, Prompt(r)))
    BY PromptIs, PutIs
  <1> QED
    BY <1>1, <1>2

\* fgets returns before its buffer is full, and leaves the rest in stdin.
LEMMA ReadLineMoves ==
  ASSUME TypeOK, ReadLine
  PROVE  /\ build = "hosted" /\ reader # Nobody /\ UNCHANGED <<build, closed, history>>
         /\ stdin' \in Text
         /\ \E line \in Text : Delivered(line) /\ Len(line) < Cap(reader)
  <1>1. PICK n \in DOMAIN stdin :
          /\ \A m \in 1..(n - 1) : ~StopsAt(m)
          /\ stdin' = SubSeq(stdin, n + 1, Len(stdin))
          /\ Delivered(SubSeq(stdin, 1, IF stdin[n] = NewLine THEN n - 1 ELSE n))
    BY DEF ReadLine
  <1>2. /\ stdin \in Seq(Key \union {NewLine}) /\ Len(stdin) \in Nat
        /\ n \in 1..Len(stdin) /\ n \in Int
    BY LenProperties DEF TypeOK, Text
  <1> DEFINE last == IF stdin[n] = NewLine THEN n - 1 ELSE n
             line == SubSeq(stdin, 1, last)
  <1>3. last \in Nat /\ last <= n
    BY <1>2
  <1> HIDE DEF last
  <1>4. line \in Seq(Key \union {NewLine}) /\ Len(line) = last
    <2>1. \A i \in 1..last : stdin[i] \in Key \union {NewLine}
      BY <1>2, <1>3, ElementOfSeq
    <2>2. 1 \in Int /\ last \in Int
      BY <1>3
    <2>3. line \in Seq(Key \union {NewLine}) /\ Len(line) = IF 1 <= last THEN last - 1 + 1 ELSE 0
      BY <2>1, <2>2, SubSeqProperties
    <2> QED
      BY <2>3, <1>3
  <1>5. stdin' \in Seq(Key \union {NewLine})
    <2>1. \A i \in n + 1 .. Len(stdin) : stdin[i] \in Key \union {NewLine}
      BY <1>2, ElementOfSeq
    <2>2. n + 1 \in Int /\ Len(stdin) \in Int
      BY <1>2
    <2> QED
      BY <1>1, <2>1, <2>2, SubSeqProperties
  <1>6. Len(line) < Cap(reader)
    <2>1. Cap(reader) \in Nat /\ 2 <= Cap(reader)
      BY CapIs
    <2>2. StopsAt(Cap(reader) - 1)
      BY DEF StopsAt
    <2>3. ~(Cap(reader) - 1 \in 1..(n - 1))
      BY <1>1, <2>2
    <2>4. n <= Cap(reader) - 1
      BY <1>2, <2>1, <2>3
    <2> QED
      BY <1>2, <1>3, <1>4, <2>1, <2>4
  <1>7. Delivered(line)
    BY <1>1 DEF last
  <1>8. build = "hosted" /\ reader # Nobody /\ UNCHANGED <<closed, history>> /\ build' = build
    BY <1>7 DEF ReadLine, Delivered
  <1> HIDE DEF line
  <1> QED
    BY <1>4, <1>5, <1>6, <1>7, <1>8 DEF Text

\* The two readers hand over a line that fits the buffer of the caller.
LEMMA Reads ==
  ASSUME TypeOK, PressEnter \/ ReadLine
  PROVE  /\ reader \in Readers /\ closed' = closed /\ stdin' \in Text
         /\ build = "uefi" => PressEnter /\ ~closed
         /\ \E line \in Text : Delivered(line) /\ Len(line) < Cap(reader)
  <1>1. CASE ReadLine
    <2>1. reader \in Readers
      BY <1>1, ReadLineMoves DEF TypeOK
    <2> QED
      BY <1>1, <2>1, ReadLineMoves
  <1>2. CASE PressEnter
    <2>1. Delivered(input.text) /\ ~closed /\ UNCHANGED <<closed, stdin>> /\ reader # Nobody
      BY <1>2 DEF PressEnter, AtKeys, keyboard
    <2>2. input.text \in Seq(Char) /\ Len(input.text) < Cap(reader)
      BY <2>1 DEF TypeOK
    <2>3. Char \subseteq Key \union {NewLine}
      BY DEF Key
    <2>4. input.text \in Text
      BY <2>2, <2>3, SeqMonotonic DEF Text
    <2> QED
      BY <1>2, <2>1, <2>2, <2>4 DEF TypeOK
  <1> QED
    BY <1>1, <1>2

LEMMA HeadIs ==
  ASSUME TypeOK, todo # <<>>
  PROVE  Tail(todo) \in Seq(Steps) /\ Head(todo) = todo[1] /\ Len(todo) \in Nat /\ 1 <= Len(todo)
  <1>1. todo \in Seq(Steps)
    BY DEF TypeOK
  <1> QED
    BY <1>1, HeadTailProperties, LenProperties, EmptySeq

-----------------------------------------------------------------------------
(* The types, who may wait for a line, and what is known to be drawn *)

\* The pager waits only while it is on, an editor only while a note is open, and
\* between two lines the page is not full.
Roles ==
  /\ reader = "editor" => note_open
  /\ reader = "prompt" => ~note_open /\ ~pager.on
  /\ reader = "pager" => pager.on
  /\ note_open => ~pager.on /\ unpaged
  /\ (pager.on /\ reader = Nobody) => pager.count < PAGE_LINES

\* last_drawn_len is the length of the line.
Drawn == build = "uefi" /\ reader # Nobody => input.drawn = Len(input.text)

TypeInv == TypeOK /\ Roles /\ Drawn

LEMMA RowType == TypeOK => IsRow(row)
  <1> SUFFICES ASSUME TypeOK PROVE IsRow(row)
    OBVIOUS
  <1>1. row \in [cells : Seq(Cell), col : 0..Len(row.cells)]
    BY DEF TypeOK
  <1>2. Len(row.cells) \in Nat
    BY <1>1, LenProperties
  <1> QED
    BY <1>1, <1>2 DEF IsRow

LEMMA RowInType ==
  ASSUME NEW r, IsRow(r)
  PROVE  r \in [cells : Seq(Cell), col : 0..Len(r.cells)]
  <1>1. Len(r.cells) \in Nat
    BY LenProperties DEF IsRow
  <1> QED
    BY <1>1 DEF IsRow

LEMMA TypeInit == Init => TypeInv
  <1> SUFFICES ASSUME Init PROVE TypeInv
    OBVIOUS
  <1>1. /\ input \in [text : Seq(Char), drawn : 0..LINE_MAX, recalled : 0..Len(history)]
        /\ history \in Seq(Seq(Char)) /\ Len(history) <= HISTORY_MAX
    BY Bounds DEF Init, NoInput
  <1>2. row \in [cells : Seq(Cell), col : 0..Len(row.cells)]
    BY EmptyRowIs, RowInType DEF Init
  <1>3. pager \in [on : BOOLEAN, count : 0..PAGE_LINES] /\ ~pager.on
    BY Bounds DEF Init, PagerOff
  <1>4. todo \in Seq(Steps)
    <2>1. 2 \in Nat
      OBVIOUS
    <2> QED
      BY <2>1, LinesAre DEF Init
  <1>5. /\ entered \in Seq([at : Readers, text : Text]) /\ opened \in 0..Len(entered)
        /\ \A i \in DOMAIN entered : Len(entered[i].text) < Cap(entered[i].at)
        /\ unread \in Nat /\ stdin \in Text
    BY DEF Init, Text
  <1>6. closed \in BOOLEAN /\ reader = Nobody /\ ~note_open /\ ~stopped /\ unpaged = TRUE
        /\ build \in {"uefi", "hosted"}
    BY DEF Init
  <1>7. note_open = FALSE /\ stopped = FALSE
    BY DEF Init
  <1>8. Nobody \notin Readers
    BY DEF Nobody, Readers
  <1>9. TypeOK
    BY <1>1, <1>2, <1>3, <1>4, <1>5, <1>6, <1>7 DEF TypeOK
  <1> QED
    BY <1>3, <1>6, <1>7, <1>8, <1>9 DEF TypeInv, Roles, Drawn, Readers

\* Keys change the line and the row, and nothing else.
LEMMA TypeKeys ==
  ASSUME TypeInv, reader # Nobody,
         UNCHANGED <<build, keyboard, reader, history, work, entered, seen>>,
         NEW text \in Seq(Char), Len(text) < Cap(reader),
         NEW at \in 0..Len(history),
         input' = [text |-> text, drawn |-> Len(text), recalled |-> at],
         IsRow(row')
  PROVE  TypeInv'
  <1>1. Len(text) \in Nat /\ Cap(reader) <= LINE_MAX /\ Cap(reader) \in Nat /\ LINE_MAX \in Nat
    BY LenProperties, CapIs, Bounds
  <1>2. /\ input' \in [text : Seq(Char), drawn : 0..LINE_MAX, recalled : 0..Len(history)]
        /\ Len(input'.text) < Cap(reader)
    BY <1>1
  <1>3. row' \in [cells : Seq(Cell), col : 0..Len(row'.cells)]
    BY RowInType
  <1>4. /\ build' = build /\ closed' = closed /\ stdin' = stdin /\ reader' = reader
        /\ history' = history /\ pager' = pager /\ todo' = todo /\ note_open' = note_open
        /\ stopped' = stopped /\ entered' = entered /\ opened' = opened
        /\ unpaged' = unpaged /\ unread' = unread
    BY DEF keyboard, work, seen
  <1>5. TypeOK'
    BY <1>2, <1>3, <1>4, Zenon DEF TypeInv, TypeOK, Cap
  <1>6. Drawn'
    BY DEF Drawn
  <1>7. Roles'
    BY <1>4 DEF TypeInv, Roles
  <1> QED
    BY <1>5, <1>6, <1>7 DEF TypeInv

LEMMA TypeTyping ==
  ASSUME TypeInv, (\E c \in Char : TypeChar(c)) \/ EraseChar
  PROVE  TypeInv'
  <1>1. /\ AtKeys /\ reader # Nobody /\ build = "uefi"
        /\ UNCHANGED <<build, keyboard, reader, history, work, entered, seen>>
    BY DEF TypeChar, EraseChar, AtKeys
  <1>2. /\ input \in [text : Seq(Char), drawn : 0..LINE_MAX, recalled : 0..Len(history)]
        /\ Len(input.text) < Cap(reader)
        /\ IsRow(row) /\ Len(input.text) \in Nat
    BY <1>1, RowType, LenProperties DEF TypeInv, TypeOK
  <1>3. Cap(reader) \in Nat
    BY CapIs
  <1>4. Char \subseteq Cell /\ Blank \in Cell
    BY DEF Cell
  <1>5. ASSUME NEW c \in Char, TypeChar(c) PROVE TypeInv'
    <2> DEFINE text == Append(input.text, c)
    <2>1. text \in Seq(Char) /\ Len(text) = Len(input.text) + 1
      BY <1>2, AppendProperties
    <2>2. Len(text) < Cap(reader)
      BY <1>2, <2>1, <1>5 DEF TypeChar, HasRoom
    <2>3. <<c>> \in Seq(Cell)
      BY <1>4
    <2>4. IsRow(row')
      BY <1>2, <1>5, <2>3, PutIs DEF TypeChar
    <2>5. input' = [text |-> text, drawn |-> Len(text), recalled |-> input.recalled]
      BY <1>2, <1>5 DEF TypeChar, Typed
    <2>6. input.recalled \in 0..Len(history)
      BY <1>2
    <2> HIDE DEF text
    <2> QED
      BY <1>1, <2>1, <2>2, <2>4, <2>5, <2>6, TypeKeys
  <1>6. ASSUME EraseChar PROVE TypeInv'
    <2> DEFINE text == Front(input.text)
               back == Back(row, 1)
               blanked == Put(back, <<Blank>>)
    <2>1. Len(input.text) # 0
      BY <1>2, <1>6, EmptySeq DEF EraseChar
    <2>2. text \in Seq(Char) /\ Len(text) = Len(input.text) - 1
      <3>1. \A i \in 1..Len(input.text) - 1 : input.text[i] \in Char
        BY <1>2, ElementOfSeq
      <3>2. 1 \in Int /\ Len(input.text) - 1 \in Int
        BY <1>2
      <3>3. /\ text \in Seq(Char)
            /\ Len(text) = IF 1 <= Len(input.text) - 1 THEN Len(input.text) - 1 - 1 + 1 ELSE 0
        BY <3>1, <3>2, SubSeqProperties DEF Front
      <3>4. Len(input.text) \in Nat /\ Len(input.text) # 0
        BY <1>2, <2>1
      <3> HIDE DEF text
      <3> QED
        BY <3>3, <3>4
    <2>3. IsRow(back)
      BY <1>2, BackIs
    <2>4. <<Blank>> \in Seq(Cell)
      BY <1>4
    <2> HIDE DEF back
    <2>5. IsRow(blanked)
      BY <2>3, <2>4, PutIs
    <2> HIDE DEF blanked
    <2>6. IsRow(Back(blanked, 1))
      BY <2>5, BackIs
    <2>7. row' = Back(blanked, 1)
      BY <1>6 DEF EraseChar, back, blanked
    <2>8. input' = [text |-> text, drawn |-> Len(text), recalled |-> input.recalled]
      BY <1>2, <1>6 DEF EraseChar, Typed
    <2>9. input.recalled \in 0..Len(history)
      BY <1>2
    <2> HIDE DEF text
    <2>10. Len(text) < Cap(reader) /\ IsRow(row')
      BY <1>2, <1>3, <2>2, <2>6, <2>7
    <2> QED
      BY <1>1, <2>2, <2>8, <2>9, <2>10, TypeKeys
  <1> QED
    BY <1>5, <1>6

\* A line of the history, as far as the buffer of the reader holds it.
LEMMA RecallMoves ==
  ASSUME TypeInv, AtKeys, NEW at \in 0..Len(history), Recall(at)
  PROVE  \E text \in Seq(Char) :
            /\ Len(text) < Cap(reader)
            /\ input' = [text |-> text, drawn |-> Len(text), recalled |-> at]
            /\ row' = Redrawn(row, input.drawn, text)
  <1> DEFINE line == IF at < Len(history) THEN history[at + 1] ELSE <<>>
             last == IF Len(line) < Cap(reader) THEN Len(line) ELSE Cap(reader) - 1
             text == SubSeq(line, 1, last)
  <1>1. history \in Seq(Seq(Char)) /\ Len(history) \in Nat
    BY LenProperties DEF TypeInv, TypeOK
  <1>2. line \in Seq(Char)
    <2>1. CASE at < Len(history)
      <3>1. at + 1 \in 1..Len(history)
        BY <1>1, <2>1
      <3>2. history[at + 1] \in Seq(Char)
        BY <1>1, <3>1, ElementOfSeq
      <3> QED
        BY <2>1, <3>2
    <2>2. CASE ~(at < Len(history))
      BY <2>2
    <2> QED
      BY <2>1, <2>2
  <1> HIDE DEF line
  <1>3. Cap(reader) \in Nat /\ 2 <= Cap(reader) /\ Len(line) \in Nat
    BY <1>2, CapIs, LenProperties
  <1>4. last \in Nat /\ last < Cap(reader) /\ last <= Len(line)
    BY <1>3
  <1>5. input' = [text |-> text, drawn |-> Len(text), recalled |-> at]
    BY DEF Recall, line, last, text
  <1>6. row' = Redrawn(row, input.drawn, text)
    BY DEF Recall, line, last, text
  <1> HIDE DEF last
  <1>7. text \in Seq(Char) /\ Len(text) < Cap(reader)
    <2>1. \A i \in 1..last : line[i] \in Char
      BY <1>2, <1>3, <1>4, ElementOfSeq
    <2>2. 1 \in Int /\ last \in Int
      BY <1>4
    <2>3. /\ text \in Seq(Char)
          /\ Len(text) = IF 1 <= last THEN last - 1 + 1 ELSE 0
      BY <2>1, <2>2, SubSeqProperties
    <2> QED
      BY <1>4, <2>3
  <1> HIDE DEF text
  <1> QED
    BY <1>5, <1>6, <1>7

LEMMA TypeRecall ==
  ASSUME TypeInv, RecallOlder \/ RecallNewer
  PROVE  TypeInv'
  <1>1. AtKeys /\ reader # Nobody /\ input.recalled \in 0..Len(history) /\ Len(history) \in Nat
    BY LenProperties DEF RecallOlder, RecallNewer, AtKeys, TypeInv, TypeOK
  <1>2. PICK at \in 0..Len(history) : Recall(at)
    BY <1>1 DEF RecallOlder, RecallNewer
  <1>3. UNCHANGED <<build, keyboard, reader, history, work, entered, seen>>
    BY <1>2 DEF Recall
  <1>4. PICK text \in Seq(Char) :
          /\ Len(text) < Cap(reader)
          /\ input' = [text |-> text, drawn |-> Len(text), recalled |-> at]
          /\ row' = Redrawn(row, input.drawn, text)
    BY <1>1, <1>2, RecallMoves
  <1>5. IsRow(row) /\ input.drawn \in Nat
    BY RowType DEF TypeInv, TypeOK
  <1>6. IsRow(row')
    BY <1>4, <1>5, RedrawnIs
  <1> QED
    BY <1>1, <1>3, <1>4, <1>6, TypeKeys

\* Nobody waits after a line has been taken, so little is left to say.
LEMMA NobodyWaits == reader' = Nobody => Drawn' /\ ~(reader' \in Readers)
  BY DEF Nobody, Readers, Drawn

LEMMA TypeReads ==
  ASSUME TypeInv, PressEnter \/ ReadLine
  PROVE  TypeInv'
  <1>1. PICK line \in Text : Delivered(line) /\ Len(line) < Cap(reader)
    BY Reads DEF TypeInv
  <1>2. /\ reader \in Readers /\ reader' = Nobody /\ row' = EmptyRow /\ input' = NoInput
        /\ unread' = 0 /\ opened' = opened /\ build' = build
        /\ entered' = Append(entered, [at |-> reader, text |-> line])
        /\ todo' \in Seq(Steps)
    BY <1>1, DeliveredMoves DEF TypeInv
  <1>3. \/ /\ reader = "prompt" /\ UNCHANGED <<note_open, stopped>>
           /\ \/ pager' = PagerOn /\ unpaged' = unpaged
              \/ pager' = pager /\ unpaged' = TRUE
        \/ /\ reader = "editor" /\ note_open' \in BOOLEAN
           /\ UNCHANGED <<pager, stopped, unpaged>>
        \/ /\ reader = "pager" /\ pager' = [pager EXCEPT !.count = 0]
           /\ UNCHANGED <<todo, note_open, stopped, unpaged>>
    BY <1>1, DeliveredMoves DEF TypeInv
  <1>4. /\ build \in {"uefi", "hosted"} /\ closed \in BOOLEAN
        /\ pager \in [on : BOOLEAN, count : 0..PAGE_LINES]
        /\ {note_open, stopped, unpaged} \subseteq BOOLEAN
        /\ history \in Seq(Seq(Char)) /\ Len(history) <= HISTORY_MAX
    BY DEF TypeInv, TypeOK
  <1>5. closed' = closed /\ stdin' \in Text
    BY Reads DEF TypeInv
  <1>6. history' \in Seq(Seq(Char)) /\ Len(history') <= HISTORY_MAX /\ Len(history') \in Nat
    <2>1. CASE ReadLine
      BY <1>4, <2>1, LenProperties DEF ReadLine
    <2>2. CASE PressEnter
      <3>1. history' = Pushed(history, input.text) /\ input.text \in Seq(Char)
        BY <2>2 DEF PressEnter, TypeInv, TypeOK
      <3>2. Len(history) \in Nat /\ HISTORY_MAX \in Nat /\ 1 <= HISTORY_MAX
        BY <1>4, Bounds, LenProperties
      <3>3. CASE history' = history
        BY <1>4, <3>2, <3>3
      <3>4. CASE Len(history) < HISTORY_MAX /\ history' = Append(history, input.text)
        <4>1. history' \in Seq(Seq(Char)) /\ Len(history') = Len(history) + 1
          BY <1>4, <3>1, <3>4, AppendProperties
        <4> QED
          BY <3>2, <3>4, <4>1
      <3>5. CASE ~(Len(history) < HISTORY_MAX) /\ history' = Append(Tail(history), input.text)
        <4>1. Len(history) # 0 /\ Len(history) = HISTORY_MAX
          BY <1>4, <3>2, <3>5
        <4>2. history # <<>>
          BY <4>1, EmptySeq
        <4>3. Tail(history) \in Seq(Seq(Char)) /\ Len(Tail(history)) = Len(history) - 1
          BY <1>4, <4>2, HeadTailProperties
        <4>4. history' \in Seq(Seq(Char)) /\ Len(history') = Len(history) - 1 + 1
          BY <3>1, <3>5, <4>3, AppendProperties
        <4> QED
          BY <3>2, <4>1, <4>4
      <3> QED
        BY <3>1, <3>3, <3>4, <3>5 DEF Pushed
    <2> QED
      BY <2>1, <2>2
  <1>7. input' \in [text : Seq(Char), drawn : 0..LINE_MAX, recalled : 0..Len(history')]
    BY <1>2, <1>6, Bounds DEF NoInput
  <1>8. row' \in [cells : Seq(Cell), col : 0..Len(row'.cells)]
    BY <1>2, EmptyRowIs, RowInType
  <1>9. /\ pager' \in [on : BOOLEAN, count : 0..PAGE_LINES]
        /\ {note_open', stopped', unpaged'} \subseteq BOOLEAN
    <2>1. PagerOn \in [on : BOOLEAN, count : 0..PAGE_LINES]
      BY Bounds DEF PagerOn
    <2>2. [pager EXCEPT !.count = 0] \in [on : BOOLEAN, count : 0..PAGE_LINES]
      BY <1>4, Bounds
    <2>3. pager' \in [on : BOOLEAN, count : 0..PAGE_LINES]
      BY <1>3, <1>4, <2>1, <2>2
    <2>4. note_open' \in BOOLEAN /\ stopped' \in BOOLEAN /\ unpaged' \in BOOLEAN
      <3>1. note_open \in BOOLEAN /\ stopped \in BOOLEAN /\ unpaged \in BOOLEAN
        BY <1>4
      <3> QED
        BY <1>3, <3>1, Zenon
    <2> QED
      BY <2>3, <2>4
  <1>10. /\ entered' \in Seq([at : Readers, text : Text])
         /\ opened' \in 0..Len(entered')
         /\ \A i \in DOMAIN entered' : Len(entered'[i].text) < Cap(entered'[i].at)
    <2> DEFINE new == [at |-> reader, text |-> line]
    <2>1. entered \in Seq([at : Readers, text : Text]) /\ opened \in 0..Len(entered)
      BY DEF TypeInv, TypeOK
    <2>2. new \in [at : Readers, text : Text] /\ new.text = line /\ new.at = reader
      BY <1>2
    <2> HIDE DEF new
    <2>3. /\ entered' \in Seq([at : Readers, text : Text])
          /\ Len(entered') = Len(entered) + 1
          /\ \A i \in 1..Len(entered) : entered'[i] = entered[i]
          /\ entered'[Len(entered) + 1] = new
      BY <1>2, <2>1, <2>2, AppendProperties DEF new
    <2>4. Len(entered) \in Nat /\ DOMAIN entered = 1..Len(entered) /\ DOMAIN entered' = 1..Len(entered')
      BY <2>1, <2>3, LenProperties
    <2>5. ASSUME NEW i \in DOMAIN entered' PROVE Len(entered'[i].text) < Cap(entered'[i].at)
      <3>1. CASE i \in 1..Len(entered)
        BY <2>3, <2>4, <3>1 DEF TypeInv, TypeOK
      <3>2. CASE i = Len(entered) + 1
        BY <1>1, <2>2, <2>3, <3>2
      <3> QED
        BY <2>3, <2>4, <2>5, <3>1, <3>2
    <2>6. opened' \in 0..Len(entered')
      BY <1>2, <2>1, <2>3, <2>4
    <2> QED
      BY <2>3, <2>5, <2>6
  <1>11. TypeOK'
    <2>1. build' \in {"uefi", "hosted"} /\ closed' \in BOOLEAN /\ unread' \in Nat
      BY <1>2, <1>4, <1>5
    <2>2. reader' \in Readers \union {Nobody} /\ ~(reader' # Nobody)
      BY <1>2
    <2> QED
      BY <1>2, <1>5, <1>6, <1>7, <1>8, <1>9, <1>10, <2>1, <2>2 DEF TypeOK
  <1>12. Roles'
    <2>1. reader' # "editor" /\ reader' # "prompt" /\ reader' # "pager"
      BY <1>2 DEF Nobody
    <2>2. note_open' => ~pager'.on /\ unpaged'
      <3>1. reader = "prompt" => ~note_open
        BY DEF TypeInv, Roles
      <3>2. reader = "editor" => ~pager.on /\ unpaged
        BY DEF TypeInv, Roles
      <3>3. reader = "pager" => ~note_open
        BY DEF TypeInv, Roles
      <3>4. \/ reader = "prompt" /\ note_open' = note_open
            \/ reader = "editor" /\ pager' = pager /\ unpaged' = unpaged
            \/ reader = "pager" /\ note_open' = note_open
        BY <1>3
      <3> QED
        BY <3>1, <3>2, <3>3, <3>4, Zenon
    <2>3. pager'.on => pager'.count < PAGE_LINES
      <3>1. PagerOn.count = 0 /\ [pager EXCEPT !.count = 0].count = 0
        BY <1>4 DEF PagerOn
      <3>2. reader = "editor" => ~pager.on
        BY DEF TypeInv, Roles
      <3>3. reader = "prompt" => ~pager.on
        BY DEF TypeInv, Roles
      <3>4. pager'.on => pager'.count = 0
        BY <1>3, <3>1, <3>2, <3>3, Zenon
      <3> QED
        BY <3>4, Bounds
    <2> QED
      BY <2>1, <2>2, <2>3 DEF Roles
  <1> QED
    BY <1>2, <1>11, <1>12, NobodyWaits DEF TypeInv

\* The types, where no line is taken: the reader stays, stops, or starts.
LEMMA TypeRuns ==
  ASSUME TypeOK, UNCHANGED <<build, history, entered>>,
         closed' \in BOOLEAN, stdin' \in Text, IsRow(row'),
         \/ reader' = reader /\ input' = input
         \/ reader' = Nobody /\ input' = NoInput
         \/ /\ reader' \in Readers
            /\ input' = [text |-> <<>>, drawn |-> 0, recalled |-> Len(history)],
         pager' \in [on : BOOLEAN, count : 0..PAGE_LINES], todo' \in Seq(Steps),
         note_open' \in BOOLEAN, stopped' \in BOOLEAN, unpaged' \in BOOLEAN,
         opened' \in 0..Len(entered), unread' \in Nat
  PROVE  TypeOK'
  <1>1. /\ build' = build /\ history' = history /\ entered' = entered
        /\ build \in {"uefi", "hosted"} /\ reader \in Readers \union {Nobody}
        /\ input \in [text : Seq(Char), drawn : 0..LINE_MAX, recalled : 0..Len(history)]
        /\ history \in Seq(Seq(Char)) /\ Len(history) <= HISTORY_MAX
        /\ entered \in Seq([at : Readers, text : Text])
        /\ \A i \in DOMAIN entered : Len(entered[i].text) < Cap(entered[i].at)
    BY DEF TypeOK
  <1>2. Len(history) \in Nat
    BY <1>1, LenProperties
  <1>3. /\ input' \in [text : Seq(Char), drawn : 0..LINE_MAX, recalled : 0..Len(history)]
        /\ reader' # Nobody => Len(input'.text) < Cap(reader')
        /\ reader' \in Readers \union {Nobody}
    <2>1. CASE reader' = reader /\ input' = input
      BY <1>1, <2>1 DEF TypeOK
    <2>2. CASE reader' = Nobody /\ input' = NoInput
      BY <1>2, <2>2, Bounds DEF NoInput
    <2>3. CASE /\ reader' \in Readers
               /\ input' = [text |-> <<>>, drawn |-> 0, recalled |-> Len(history)]
      <3>1. Cap(reader') \in Nat /\ 2 <= Cap(reader')
        BY CapIs
      <3>2. Len(input'.text) = 0
        BY <2>3
      <3> QED
        BY <1>2, <2>3, <3>1, <3>2, Bounds
    <2> QED
      BY <2>1, <2>2, <2>3
  <1>4. row' \in [cells : Seq(Cell), col : 0..Len(row'.cells)]
    BY RowInType
  <1>5. {note_open', stopped', unpaged'} \subseteq BOOLEAN
    OBVIOUS
  <1>6. /\ build' \in {"uefi", "hosted"}
        /\ input' \in [text : Seq(Char), drawn : 0..LINE_MAX, recalled : 0..Len(history')]
        /\ history' \in Seq(Seq(Char)) /\ Len(history') <= HISTORY_MAX
        /\ entered' \in Seq([at : Readers, text : Text])
        /\ \A i \in DOMAIN entered' : Len(entered'[i].text) < Cap(entered'[i].at)
        /\ opened' \in 0..Len(entered')
    BY <1>1, <1>3
  <1> QED
    BY <1>3, <1>4, <1>5, <1>6 DEF TypeOK

LEMMA TypeIs ==
  ASSUME TypeInv
  PROVE  /\ IsRow(row) /\ closed \in BOOLEAN /\ stdin \in Text
         /\ pager \in [on : BOOLEAN, count : 0..PAGE_LINES] /\ pager.count \in Nat
         /\ todo \in Seq(Steps) /\ note_open \in BOOLEAN /\ stopped \in BOOLEAN
         /\ unpaged \in BOOLEAN /\ opened \in 0..Len(entered) /\ Len(entered) \in Nat
         /\ unread \in Nat
  <1>1. /\ entered \in Seq([at : Readers, text : Text]) /\ opened \in 0..Len(entered)
        /\ {note_open, stopped, unpaged} \subseteq BOOLEAN
        /\ pager \in [on : BOOLEAN, count : 0..PAGE_LINES]
    BY DEF TypeInv, TypeOK
  <1>2. Len(entered) \in Nat /\ pager.count \in Nat
    BY <1>1, LenProperties, Bounds
  <1>3. note_open \in BOOLEAN /\ stopped \in BOOLEAN /\ unpaged \in BOOLEAN
    BY <1>1
  <1> QED
    BY <1>1, <1>2, <1>3, RowType DEF TypeInv, TypeOK

LEMMA PagerOffIs == PagerOff \in [on : BOOLEAN, count : 0..PAGE_LINES] /\ ~PagerOff.on
  BY Bounds DEF PagerOff

LEMMA TypePrintLine == TypeInv /\ PrintLine => TypeInv'
  <1> SUFFICES ASSUME TypeInv, PrintLine PROVE TypeInv'
    OBVIOUS
  <1>1. /\ reader = Nobody /\ todo' = Tail(todo) /\ todo # <<>> /\ unread' = unread + 1
        /\ pager' = IF pager.on THEN [pager EXCEPT !.count = @ + 1] ELSE pager
        /\ UNCHANGED <<build, closed, stdin, history, note_open, stopped, entered, opened, unpaged>>
    BY DEF PrintLine, Idle, keyboard
  <1>2. \/ pager.on /\ PageFull /\ Ask("pager", EmptyRow)
        \/ ~(pager.on /\ PageFull) /\ row' = EmptyRow /\ reader' = reader /\ input' = input
    BY DEF PrintLine
  <1>3. "pager" \in Readers /\ IsRow(EmptyRow)
    BY EmptyRowIs DEF Readers
  <1>4. /\ IsRow(row')
        /\ \/ reader' = reader /\ input' = input /\ ~(pager.on /\ PageFull)
           \/ /\ reader' = "pager" /\ pager.on
              /\ input' = [text |-> <<>>, drawn |-> 0, recalled |-> Len(history)]
    BY <1>2, <1>3, AskMoves
  <1>5. pager.on => pager.count < PAGE_LINES
    BY <1>1 DEF TypeInv, Roles
  <1>6. pager' \in [on : BOOLEAN, count : 0..PAGE_LINES] /\ pager'.on = pager.on
    <2>1. pager \in [on : BOOLEAN, count : 0..PAGE_LINES] /\ pager.count \in Nat
      BY TypeIs
    <2>2. CASE pager.on
      <3>1. pager.count + 1 \in 0..PAGE_LINES
        BY <1>5, <2>1, <2>2, Bounds
      <3>2. pager' = [pager EXCEPT !.count = pager.count + 1]
        BY <1>1, <2>2
      <3> QED
        BY <2>1, <3>1, <3>2
    <2>3. CASE ~pager.on
      BY <1>1, <2>1, <2>3
    <2> QED
      BY <2>2, <2>3
  <1>7. Tail(todo) \in Seq(Steps) /\ unread + 1 \in Nat
    BY <1>1, HeadIs, TypeIs DEF TypeInv
  <1>8. TypeOK'
    BY <1>1, <1>3, <1>4, <1>6, <1>7, TypeIs, TypeRuns DEF TypeInv
  <1>9. Roles'
    <2>1. reader' # "editor" /\ reader' # "prompt" /\ (reader' = "pager" => pager'.on)
      BY <1>1, <1>4, <1>6 DEF Nobody
    <2>2. note_open' => ~pager'.on /\ unpaged'
      BY <1>1, <1>6 DEF TypeInv, Roles
    <2>3. pager'.on /\ reader' = Nobody => pager'.count < PAGE_LINES
      <3> SUFFICES ASSUME pager'.on, reader' = Nobody PROVE pager'.count < PAGE_LINES
        OBVIOUS
      <3>1. reader' # "pager" /\ pager.on /\ ~PageFull
        BY <1>4, <1>6 DEF Nobody
      <3>2. pager'.count = pager.count + 1
        BY <1>1, <3>1, TypeIs
      <3> QED
        BY <3>1, <3>2, TypeIs, Bounds DEF PageFull
    <2> QED
      BY <2>1, <2>2, <2>3 DEF Roles
  <1>10. Drawn'
    <2>1. CASE reader' = reader
      BY <1>1, <2>1, NobodyWaits
    <2>2. CASE input' = [text |-> <<>>, drawn |-> 0, recalled |-> Len(history)]
      <3>1. input'.drawn = 0 /\ Len(input'.text) = 0
        BY <2>2
      <3> QED
        BY <3>1 DEF Drawn
    <2> QED
      BY <1>4, <2>1, <2>2
  <1> QED
    BY <1>8, <1>9, <1>10 DEF TypeInv

LEMMA TypeClearScreen == TypeInv /\ ClearScreen => TypeInv'
  <1> SUFFICES ASSUME TypeInv, ClearScreen PROVE TypeInv'
    OBVIOUS
  <1>1. /\ reader = Nobody /\ todo' = Tail(todo) /\ todo # <<>> /\ unread' = 0
        /\ pager' = [pager EXCEPT !.count = 0] /\ row' = EmptyRow
        /\ UNCHANGED <<build, closed, stdin, reader, input, history, note_open, stopped,
                       entered, opened, unpaged>>
    BY DEF ClearScreen, Idle, keyboard
  <1>2. /\ pager' \in [on : BOOLEAN, count : 0..PAGE_LINES] /\ pager'.on = pager.on
        /\ pager'.count = 0
    BY <1>1, TypeIs, Bounds
  <1>3. TypeOK'
    BY <1>1, <1>2, HeadIs, EmptyRowIs, TypeIs, TypeRuns DEF TypeInv
  <1>4. Roles'
    BY <1>1, <1>2, Bounds DEF TypeInv, Roles, Nobody
  <1> QED
    BY <1>1, <1>3, <1>4, NobodyWaits DEF TypeInv

LEMMA TypeOpenEditor == TypeInv /\ OpenEditor => TypeInv'
  <1> SUFFICES ASSUME TypeInv, OpenEditor PROVE TypeInv'
    OBVIOUS
  <1>1. /\ reader = Nobody /\ todo' = Tail(todo) /\ todo # <<>> /\ pager' = PagerOff
        /\ note_open' = TRUE /\ unpaged' = TRUE /\ opened' = Len(entered)
        /\ UNCHANGED <<build, closed, stdin, reader, input, row, history, stopped,
                       entered, unread>>
    BY DEF OpenEditor, EditorPager, Idle, keyboard, screen
  <1>2. TypeOK'
    <2>1. opened' \in 0..Len(entered)
      BY <1>1, TypeIs
    <2> QED
      BY <1>1, <2>1, HeadIs, PagerOffIs, TypeIs, TypeRuns DEF TypeInv
  <1>3. Roles'
    BY <1>1, PagerOffIs DEF Roles, Nobody
  <1> QED
    BY <1>1, <1>2, <1>3, NobodyWaits DEF TypeInv

LEMMA TypeStopLoop == TypeInv /\ StopLoop => TypeInv'
  <1> SUFFICES ASSUME TypeInv, StopLoop PROVE TypeInv'
    OBVIOUS
  <1>1. /\ reader = Nobody /\ todo' = <<>> /\ pager' = PagerOff /\ stopped' = TRUE
        /\ UNCHANGED <<build, closed, stdin, reader, input, row, history, note_open,
                       entered, opened, unpaged, unread>>
    BY DEF StopLoop, Idle, keyboard, screen, seen
  <1>2. TypeOK'
    BY <1>1, LinesAre, PagerOffIs, TypeIs, TypeRuns DEF TypeInv
  <1>3. Roles'
    BY <1>1, PagerOffIs DEF TypeInv, Roles, Nobody
  <1> QED
    BY <1>1, <1>2, <1>3, NobodyWaits DEF TypeInv

LEMMA TypeAsks == TypeInv /\ (AskForNote \/ AskForCommand) => TypeInv'
  <1> SUFFICES ASSUME TypeInv, AskForNote \/ AskForCommand PROVE TypeInv'
    OBVIOUS
  <1>1. PICK r \in {"editor", "prompt"} :
          /\ Ask(r, row)
          /\ UNCHANGED <<build, closed, stdin, history, todo, note_open, stopped,
                         entered, opened>>
          /\ \/ r = "editor" /\ note_open /\ UNCHANGED <<pager, unpaged, unread>>
             \/ r = "prompt" /\ ~note_open /\ pager' = PagerOff /\ unpaged' = FALSE /\ unread' = 0
    BY DEF AskForNote, AskForCommand, keyboard, work, seen
  <1>2. r \in Readers /\ IsRow(row)
    BY TypeIs DEF Readers
  <1>3. /\ reader' = r /\ IsRow(row')
        /\ input' = [text |-> <<>>, drawn |-> 0, recalled |-> Len(history)]
    BY <1>1, <1>2, AskMoves
  <1>4. TypeOK'
    <2>1. /\ pager' \in [on : BOOLEAN, count : 0..PAGE_LINES] /\ unpaged' \in BOOLEAN
          /\ unread' \in Nat
      <3>1. \/ pager' = pager /\ unpaged' = unpaged /\ unread' = unread
            \/ pager' = PagerOff /\ unpaged' = FALSE /\ unread' = 0
        BY <1>1
      <3>2. unpaged' \in BOOLEAN
        BY <3>1, TypeIs, Zenon
      <3>3. pager' \in [on : BOOLEAN, count : 0..PAGE_LINES]
        BY <3>1, PagerOffIs, TypeIs, Zenon
      <3>4. unread' \in Nat
        BY <3>1, TypeIs
      <3> QED
        BY <3>2, <3>3, <3>4
    <2>2. /\ closed' \in BOOLEAN /\ stdin' \in Text /\ todo' \in Seq(Steps)
          /\ note_open' \in BOOLEAN /\ stopped' \in BOOLEAN /\ opened' \in 0..Len(entered)
      BY <1>1, TypeIs
    <2>3. UNCHANGED <<build, history, entered>> /\ TypeOK /\ reader' \in Readers
      BY <1>1, <1>2, <1>3 DEF TypeInv
    <2> QED
      BY <1>3, <2>1, <2>2, <2>3, TypeRuns
  <1>5. Roles'
    <2>1. Nobody \notin {"editor", "prompt"}
      BY DEF Nobody
    <2> QED
      BY <1>1, <1>3, <2>1, PagerOffIs DEF TypeInv, Roles
  <1>6. Drawn'
    <2>1. input'.drawn = 0 /\ Len(input'.text) = 0
      BY <1>3
    <2> QED
      BY <2>1 DEF Drawn
  <1> QED
    BY <1>4, <1>5, <1>6 DEF TypeInv

LEMMA TypeReadFails == TypeInv /\ ReadFails => TypeInv'
  <1> SUFFICES ASSUME TypeInv, ReadFails PROVE TypeInv'
    OBVIOUS
  <1>1. /\ reader' = Nobody /\ input' = NoInput /\ closed
        /\ UNCHANGED <<build, closed, stdin, row, history, stopped, entered, opened,
                       unpaged, unread>>
    BY DEF ReadFails, keyboard, seen
  <1>2. \/ /\ reader = "prompt" /\ todo' = <<"line", "stop">>
           /\ pager' = pager /\ note_open' = note_open
        \/ /\ reader = "editor" /\ note_open' = FALSE /\ pager' = pager
           /\ \E n \in Outputs : todo' = Lines(1) \o Lines(n)
        \/ /\ reader = "pager" /\ pager' = [pager EXCEPT !.count = 0]
           /\ todo' = todo /\ note_open' = note_open
    BY DEF ReadFails, EditorClosed
  <1>3. todo' \in Seq(Steps)
    BY <1>2, LinesAre, OutputsAre, TypeIs
  <1>4. pager' \in [on : BOOLEAN, count : 0..PAGE_LINES] /\ pager'.on = pager.on
    <2>1. /\ [pager EXCEPT !.count = 0] \in [on : BOOLEAN, count : 0..PAGE_LINES]
          /\ [pager EXCEPT !.count = 0].on = pager.on
      BY TypeIs, Bounds
    <2> QED
      BY <1>2, <2>1, TypeIs
  <1>5. note_open' \in BOOLEAN
    BY <1>2, TypeIs
  <1>6. TypeOK'
    BY <1>1, <1>3, <1>4, <1>5, TypeIs, TypeRuns DEF TypeInv
  <1>7. Roles'
    <2>1. reader' # "editor" /\ reader' # "prompt" /\ reader' # "pager"
      BY <1>1 DEF Nobody
    <2>2. note_open' => ~pager'.on /\ unpaged'
      BY <1>1, <1>2, <1>4, Zenon DEF TypeInv, Roles
    <2>3. pager'.on => pager'.count < PAGE_LINES
      <3>1. pager'.on => reader = "pager"
        BY <1>2, <1>4 DEF TypeInv, Roles
      <3>2. pager'.on => pager'.count = 0
        BY <1>2, <3>1, TypeIs
      <3> QED
        BY <3>2, Bounds
    <2> QED
      BY <2>1, <2>2, <2>3 DEF Roles
  <1> QED
    BY <1>1, <1>6, <1>7, NobodyWaits DEF TypeInv

LEMMA TypeInputs ==
  TypeInv /\ ((\E c \in Key \union {NewLine} : Supply(c)) \/ CloseInput) => TypeInv'
  <1> SUFFICES ASSUME TypeInv, (\E c \in Key \union {NewLine} : Supply(c)) \/ CloseInput
               PROVE  TypeInv'
    OBVIOUS
  <1>1. UNCHANGED <<build, reader, input, row, history, pager, todo, note_open, stopped,
                    entered, opened, unpaged, unread>>
    BY DEF Supply, CloseInput, screen, work, seen
  <1>2. stdin' \in Text /\ closed' \in BOOLEAN
    <2>1. CASE CloseInput
      BY <2>1, TypeIs DEF CloseInput
    <2>2. CASE \E c \in Key \union {NewLine} : Supply(c)
      <3>1. PICK c \in Key \union {NewLine} : stdin' = Append(stdin, c) /\ closed' = closed
        BY <2>2 DEF Supply
      <3>2. stdin \in Seq(Key \union {NewLine})
        BY TypeIs DEF Text
      <3> QED
        BY <3>1, <3>2, AppendProperties, TypeIs DEF Text
    <2> QED
      BY <2>1, <2>2
  <1>3. TypeOK'
    BY <1>1, <1>2, TypeIs, TypeRuns DEF TypeInv
  <1>4. Roles'
    BY <1>1, Zenon DEF TypeInv, Roles
  <1>5. Drawn'
    BY <1>1 DEF TypeInv, Drawn
  <1> QED
    BY <1>3, <1>4, <1>5 DEF TypeInv

LEMMA TypeNext == TypeInv /\ [Next]_vars => TypeInv'
  <1>1. TypeInv /\ UNCHANGED vars => TypeInv'
    <2> SUFFICES ASSUME TypeInv, UNCHANGED vars PROVE TypeInv'
      OBVIOUS
    <2>1. UNCHANGED <<build, closed, stdin, reader, input, row, history, pager, todo, note_open,
                      stopped, entered, opened, unpaged, unread>>
      BY DEF vars, keyboard, screen, work, seen
    <2>2. TypeOK'
      BY <2>1, TypeIs, TypeRuns DEF TypeInv
    <2>3. Roles'
      BY <2>1, Zenon DEF TypeInv, Roles
    <2>4. Drawn'
      BY <2>1 DEF TypeInv, Drawn
    <2> QED
      BY <2>2, <2>3, <2>4 DEF TypeInv
  <1>2. TypeInv /\ Next => TypeInv'
    BY TypePrintLine, TypeClearScreen, TypeOpenEditor, TypeStopLoop, TypeAsks, TypeReads,
       TypeReadFails, TypeTyping, TypeRecall, TypeInputs DEF Next, Step, Operator
  <1> QED
    BY <1>1, <1>2

LEMMA TypeKept == Spec => []TypeInv
  BY TypeInit, TypeNext, PTL DEF Spec

-----------------------------------------------------------------------------
(* A page at a time *)

\* The pager counts the calls made since the operator was last waited for,
\* and a command that is still printing has it on.
Paged ==
  ~unpaged /\ ~closed =>
    /\ unread <= PAGE_LINES
    /\ pager.on => unread = pager.count
    /\ ~pager.on => todo = <<>>

LEMMA PagedNext == TypeInv /\ Paged /\ [Next]_vars => Paged'
  <1> SUFFICES ASSUME TypeInv, Paged, [Next]_vars, ~unpaged', ~closed'
               PROVE  /\ unread' <= PAGE_LINES
                      /\ pager'.on => unread' = pager'.count
                      /\ ~pager'.on => todo' = <<>>
    BY DEF Paged
  <1> DEFINE Goal == /\ unread' <= PAGE_LINES
                     /\ pager'.on => unread' = pager'.count
                     /\ ~pager'.on => todo' = <<>>
             Start == unread' = 0 /\ pager'.on /\ pager'.count = 0
  <1>a. ASSUME UNCHANGED <<unpaged, closed, unread, pager, todo>> PROVE Goal
    BY <1>a DEF Paged
  <1>b. ASSUME Start PROVE Goal
    BY <1>b, Bounds
  <1>c. PagerOff.on = FALSE /\ PagerOn.on = TRUE /\ PagerOn.count = 0
    BY DEF PagerOff, PagerOn
  <1>1. ASSUME PrintLine PROVE Goal
    <2>1. /\ reader = Nobody /\ todo # <<>> /\ unread' = unread + 1
          /\ pager' = IF pager.on THEN [pager EXCEPT !.count = @ + 1] ELSE pager
          /\ unpaged' = unpaged /\ closed' = closed
      BY <1>1 DEF PrintLine, Idle, keyboard
    <2>2. pager.on /\ unread = pager.count
      BY <2>1 DEF Paged
    <2>3. pager.count < PAGE_LINES /\ pager.count \in Nat
      BY <2>1, <2>2, TypeIs DEF TypeInv, Roles
    <2>4. pager'.on /\ pager'.count = pager.count + 1
      BY <2>1, <2>2, TypeIs
    <2> QED
      BY <2>1, <2>2, <2>3, <2>4, Bounds
  <1>2. ASSUME ClearScreen PROVE Goal
    <2>1. /\ todo # <<>> /\ unread' = 0 /\ pager' = [pager EXCEPT !.count = 0]
          /\ unpaged' = unpaged /\ closed' = closed
      BY <1>2 DEF ClearScreen, keyboard
    <2>2. pager.on
      BY <2>1 DEF Paged
    <2>3. pager'.on /\ pager'.count = 0
      BY <2>1, <2>2, TypeIs
    <2> QED
      BY <1>b, <2>1, <2>3
  <1>3. ASSUME OpenEditor PROVE Goal
    BY <1>3 DEF OpenEditor
  <1>4. ASSUME StopLoop PROVE Goal
    <2>1. /\ todo' = <<>> /\ pager' = PagerOff /\ unread' = unread
          /\ unpaged' = unpaged /\ closed' = closed
      BY <1>4 DEF StopLoop, keyboard, seen
    <2>2. unread <= PAGE_LINES
      BY <2>1 DEF Paged
    <2> QED
      BY <1>c, <2>1, <2>2
  <1>5. ASSUME AskForNote PROVE Goal
    BY <1>5, <1>a DEF AskForNote, keyboard, work, seen
  <1>6. ASSUME AskForCommand PROVE Goal
    <2>1. todo' = <<>> /\ pager' = PagerOff /\ unread' = 0
      BY <1>6 DEF AskForCommand
    <2> QED
      BY <1>c, <2>1, Bounds
  <1>7. ASSUME PressEnter \/ ReadLine PROVE Goal
    <2>1. PICK line \in Text : Delivered(line)
      BY <1>7, Reads DEF TypeInv
    <2>2. /\ unread' = 0
          /\ \/ reader = "prompt" /\ pager' = PagerOn
             \/ reader = "prompt" /\ unpaged' = TRUE
             \/ reader = "editor" /\ unpaged' = unpaged
             \/ reader = "pager" /\ pager' = [pager EXCEPT !.count = 0]
      BY <2>1, DeliveredMoves DEF TypeInv
    <2>3. /\ reader = "editor" => unpaged
          /\ reader = "pager" => pager.on
      BY DEF TypeInv, Roles
    <2>4. pager' = PagerOn \/ (pager.on /\ pager' = [pager EXCEPT !.count = 0])
      BY <2>2, <2>3
    <2>5. pager'.on /\ pager'.count = 0
      BY <1>c, <2>4, TypeIs
    <2> QED
      BY <1>b, <2>2, <2>5
  <1>8. ASSUME ReadFails PROVE Goal
    BY <1>8 DEF ReadFails, keyboard
  <1>9. ASSUME \/ \E c \in Char : TypeChar(c)
               \/ EraseChar \/ RecallOlder \/ RecallNewer
        PROVE  Goal
    BY <1>9, <1>a DEF TypeChar, EraseChar, RecallOlder, RecallNewer, Recall, keyboard, work, seen
  <1>10. ASSUME \E c \in Key \union {NewLine} : Supply(c) PROVE Goal
    BY <1>10, <1>a DEF Supply, work, seen
  <1>11. ASSUME CloseInput PROVE Goal
    BY <1>11 DEF CloseInput
  <1>12. ASSUME UNCHANGED vars PROVE Goal
    BY <1>12, <1>a DEF vars, keyboard, work, seen
  <1> HIDE DEF Goal
  <1>13. Goal
    BY <1>1, <1>2, <1>3, <1>4, <1>5, <1>6, <1>7, <1>8, <1>9, <1>10, <1>11, <1>12
       DEF Next, Step, Operator
  <1> QED
    BY <1>13 DEF Goal

-----------------------------------------------------------------------------
(* The lines of a note *)

NoteLines ==
  note_open => \A i \in opened + 1 .. Len(entered) : entered[i].at = "editor"

LEMMA NoteLinesNext == TypeInv /\ NoteLines /\ [Next]_vars => NoteLines'
  <1> SUFFICES ASSUME TypeInv, NoteLines, [Next]_vars, note_open'
               PROVE  \A i \in opened' + 1 .. Len(entered') : entered'[i].at = "editor"
    BY DEF NoteLines
  <1> DEFINE Goal == \A i \in opened' + 1 .. Len(entered') : entered'[i].at = "editor"
  <1>a. ASSUME UNCHANGED <<note_open, opened, entered>> PROVE Goal
    BY <1>a DEF NoteLines
  <1>1. ASSUME PrintLine \/ ClearScreen \/ StopLoop \/ AskForNote \/ AskForCommand PROVE Goal
    BY <1>1, <1>a DEF PrintLine, ClearScreen, StopLoop, AskForNote, AskForCommand, work, seen
  <1>2. ASSUME OpenEditor PROVE Goal
    BY <1>2, TypeIs DEF OpenEditor
  <1>3. ASSUME PressEnter \/ ReadLine PROVE Goal
    <2>1. PICK line \in Text : Delivered(line)
      BY <1>3, Reads DEF TypeInv
    <2> DEFINE new == [at |-> reader, text |-> line]
    <2>2. /\ opened' = opened /\ reader \in Readers
          /\ entered' = Append(entered, new)
          /\ reader # "editor" => note_open' = note_open
      BY <2>1, DeliveredMoves DEF TypeInv
    <2>3. entered \in Seq([at : Readers, text : Text]) /\ new \in [at : Readers, text : Text]
      BY <2>2 DEF TypeInv, TypeOK
    <2>4. new.at = reader
      OBVIOUS
    <2> HIDE DEF new
    <2>5. /\ Len(entered') = Len(entered) + 1 /\ entered'[Len(entered) + 1] = new
          /\ \A i \in 1..Len(entered) : entered'[i] = entered[i]
      BY <2>2, <2>3, AppendProperties
    <2>6. reader = "editor" /\ note_open
      <3>1. /\ reader = "editor" => note_open
            /\ reader = "prompt" => ~note_open
            /\ reader = "pager" => ~note_open
        BY DEF TypeInv, Roles
      <3>2. reader \in {"prompt", "pager", "editor"}
        BY <2>2 DEF Readers
      <3> QED
        BY <2>2, <3>1, <3>2, Zenon
    <2>7. ASSUME NEW i \in opened + 1 .. Len(entered) + 1 PROVE entered'[i].at = "editor"
      <3>1. opened \in Nat /\ Len(entered) \in Nat
        BY TypeIs
      <3>2. CASE i = Len(entered) + 1
        BY <2>4, <2>5, <2>6, <3>2
      <3>3. CASE i # Len(entered) + 1
        <4>1. i \in opened + 1 .. Len(entered) /\ i \in 1..Len(entered)
          BY <3>1, <3>3
        <4> QED
          BY <2>5, <2>6, <4>1 DEF NoteLines
      <3> QED
        BY <3>2, <3>3
    <2> QED
      BY <2>2, <2>5, <2>7
  <1>4. ASSUME ReadFails PROVE Goal
    <2>1. note_open' = note_open /\ opened' = opened /\ entered' = entered
      BY <1>4 DEF ReadFails, EditorClosed, seen
    <2> QED
      BY <1>a, <2>1
  <1>5. ASSUME \/ \E c \in Char : TypeChar(c)
               \/ EraseChar \/ RecallOlder \/ RecallNewer
        PROVE  Goal
    BY <1>5, <1>a DEF TypeChar, EraseChar, RecallOlder, RecallNewer, Recall, work, seen
  <1>6. ASSUME (\E c \in Key \union {NewLine} : Supply(c)) \/ CloseInput \/ UNCHANGED vars
        PROVE  Goal
    BY <1>6, <1>a DEF Supply, CloseInput, vars, work, seen
  <1> HIDE DEF Goal
  <1>7. Goal
    BY <1>1, <1>2, <1>3, <1>4, <1>5, <1>6 DEF Next, Step, Operator
  <1> QED
    BY <1>7 DEF Goal

-----------------------------------------------------------------------------
(* What the operator sees *)

\* Without a keyboard the UEFI console prints its greeting, asks once, and stops.
WithoutKeys ==
  build = "uefi" /\ closed =>
    /\ ~pager.on /\ ~note_open /\ reader \in {Nobody, "prompt"}
    /\ \A i \in 1..Len(todo) : todo[i] \in {"line", "stop"}

LEMMA WithoutKeysNext == TypeInv /\ WithoutKeys /\ [Next]_vars => WithoutKeys'
  <1> SUFFICES ASSUME TypeInv, WithoutKeys, [Next]_vars, build' = "uefi", closed'
               PROVE  /\ ~pager'.on /\ ~note_open' /\ reader' \in {Nobody, "prompt"}
                      /\ \A i \in 1..Len(todo') : todo'[i] \in {"line", "stop"}
    BY DEF WithoutKeys
  <1> DEFINE Quiet == ~pager'.on /\ ~note_open' /\ reader' \in {Nobody, "prompt"}
             Ends == \A i \in 1..Len(todo') : todo'[i] \in {"line", "stop"}
  <1>1. build = "uefi" /\ closed
    <2>1. build' = build
      <3>1. PressEnter \/ ReadLine => build' = build
        BY Reads, DeliveredMoves DEF TypeInv
      <3> QED
        BY <3>1 DEF Next, Step, Operator, PrintLine, ClearScreen, OpenEditor, StopLoop, AskForNote,
           AskForCommand, ReadFails, TypeChar, EraseChar, RecallOlder, RecallNewer, Recall, Supply,
           CloseInput, vars
    <2>2. closed \/ CloseInput
      <3>1. PressEnter \/ ReadLine => closed' = closed
        BY Reads DEF TypeInv
      <3> QED
        BY <3>1 DEF Next, Step, Operator, PrintLine, ClearScreen, OpenEditor, StopLoop, AskForNote,
           AskForCommand, ReadFails, TypeChar, EraseChar, RecallOlder, RecallNewer, Recall, Supply,
           vars, keyboard
    <2> QED
      BY <2>1, <2>2 DEF CloseInput
  <1>2. /\ ~pager.on /\ ~note_open /\ reader \in {Nobody, "prompt"}
        /\ \A i \in 1..Len(todo) : todo[i] \in {"line", "stop"}
    BY <1>1 DEF WithoutKeys
  <1>3. ASSUME todo # <<>>, todo' = Tail(todo) PROVE Ends
    <2>1. /\ Len(Tail(todo)) = Len(todo) - 1 /\ Len(todo) \in Nat
          /\ \A i \in 1..Len(Tail(todo)) : Tail(todo)[i] = todo[i + 1]
      BY <1>3, TypeIs, HeadTailProperties, LenProperties
    <2>2. ASSUME NEW i \in 1..Len(Tail(todo)) PROVE Tail(todo)[i] \in {"line", "stop"}
      <3>1. i + 1 \in 1..Len(todo)
        BY <2>1
      <3> QED
        BY <1>2, <2>1, <3>1
    <2> QED
      BY <1>3, <2>2
  <1>4. ASSUME todo # <<>> PROVE Head(todo) \in {"line", "stop"}
    <2>1. Head(todo) = todo[1] /\ 1 \in 1..Len(todo)
      BY <1>4, HeadIs DEF TypeInv
    <2> QED
      BY <1>2, <2>1
  <1>5. PagerOff.on = FALSE
    BY DEF PagerOff
  <1>6. ASSUME PrintLine PROVE Quiet /\ Ends
    <2>1. /\ todo # <<>> /\ todo' = Tail(todo) /\ note_open' = note_open
          /\ pager' = pager /\ reader' = reader
      BY <1>2, <1>6 DEF PrintLine
    <2> QED
      BY <1>2, <1>3, <2>1
  <1>7. ASSUME ClearScreen \/ OpenEditor PROVE Quiet /\ Ends
    BY <1>4, <1>7 DEF ClearScreen, OpenEditor
  <1>8. ASSUME StopLoop PROVE Quiet /\ Ends
    <2>1. todo' = <<>> /\ pager' = PagerOff /\ reader' = reader /\ note_open' = note_open
      BY <1>8 DEF StopLoop
    <2> QED
      BY <1>2, <1>5, <2>1
  <1>9. ASSUME AskForNote PROVE Quiet /\ Ends
    BY <1>2, <1>9 DEF AskForNote
  <1>10. ASSUME AskForCommand PROVE Quiet /\ Ends
    <2>1. /\ pager' = PagerOff /\ reader' = "prompt" /\ todo' = todo /\ note_open' = note_open
      BY <1>10 DEF AskForCommand, Ask
    <2> QED
      BY <1>2, <1>5, <2>1
  <1>11. ~PressEnter /\ ~ReadLine
    <2>1. ~PressEnter
      BY <1>1 DEF PressEnter, AtKeys
    <2>2. ~ReadLine
      BY <1>1 DEF ReadLine
    <2> QED
      BY <2>1, <2>2
  <1>12. ASSUME ReadFails PROVE Quiet /\ Ends
    <2>1. reader = "prompt" /\ reader' = Nobody
      BY <1>2, <1>12 DEF ReadFails
    <2>2. todo' = <<"line", "stop">> /\ pager' = pager /\ note_open' = note_open
      BY <2>1, <1>12 DEF ReadFails
    <2> QED
      BY <1>2, <2>1, <2>2
  <1>13. ASSUME \/ \E c \in Char : TypeChar(c)
                \/ EraseChar \/ RecallOlder \/ RecallNewer
         PROVE  Quiet /\ Ends
    BY <1>1, <1>13 DEF TypeChar, EraseChar, RecallOlder, RecallNewer, AtKeys
  <1>14. ASSUME (\E c \in Key \union {NewLine} : Supply(c)) \/ CloseInput \/ UNCHANGED vars
         PROVE  Quiet /\ Ends
    BY <1>1, <1>2, <1>14 DEF Supply, CloseInput, vars, work
  <1> HIDE DEF Quiet, Ends
  <1>15. Quiet /\ Ends
    BY <1>6, <1>7, <1>8, <1>9, <1>10, <1>11, <1>12, <1>13, <1>14 DEF Next, Step, Operator
  <1> QED
    BY <1>15 DEF Quiet, Ends

\* Between two lines the row is empty, but after the last prompt without keys.
Rowing ==
  build = "uefi" /\ reader = Nobody /\ ~stopped =>
    row = EmptyRow \/ (closed /\ todo # <<>> /\ Head(todo) = "line")

LEMMA RowingNext == TypeInv /\ WithoutKeys /\ Rowing /\ [Next]_vars => Rowing'
  <1> SUFFICES ASSUME TypeInv, WithoutKeys, Rowing, [Next]_vars,
                      build' = "uefi", reader' = Nobody, ~stopped'
               PROVE  row' = EmptyRow \/ (closed' /\ todo' # <<>> /\ Head(todo') = "line")
    BY DEF Rowing
  <1> DEFINE Goal == row' = EmptyRow \/ (closed' /\ todo' # <<>> /\ Head(todo') = "line")
  <1>1. ASSUME PrintLine PROVE Goal
    <2>1. CASE Ask("pager", EmptyRow)
      BY <2>1 DEF Ask, Nobody
    <2>2. CASE row' = EmptyRow
      BY <2>2
    <2> QED
      BY <1>1, <2>1, <2>2 DEF PrintLine
  <1>2. ASSUME ClearScreen PROVE Goal
    BY <1>2 DEF ClearScreen
  <1>3. ASSUME OpenEditor PROVE Goal
    <2>1. /\ reader = Nobody /\ ~stopped /\ Head(todo) = "edit" /\ row' = row /\ build' = build
      BY <1>3 DEF OpenEditor, Idle, screen
    <2> QED
      BY <2>1 DEF Rowing
  <1>4. ASSUME StopLoop PROVE Goal
    BY <1>4 DEF StopLoop
  <1>5. ASSUME AskForNote \/ AskForCommand PROVE Goal
    BY <1>5 DEF AskForNote, AskForCommand, Ask, Nobody
  <1>6. ASSUME PressEnter \/ ReadLine PROVE Goal
    BY <1>6, Reads, DeliveredMoves DEF TypeInv
  <1>7. ASSUME ReadFails PROVE Goal
    <2>1. closed' = closed /\ closed /\ build' = build /\ reader # Nobody
      BY <1>7 DEF ReadFails, keyboard
    <2>2. reader = "prompt"
      BY <2>1 DEF WithoutKeys
    <2>3. todo' = <<"line", "stop">>
      BY <1>7, <2>2 DEF ReadFails
    <2> QED
      BY <2>1, <2>3
  <1>8. ASSUME \/ \E c \in Char : TypeChar(c)
               \/ EraseChar \/ RecallOlder \/ RecallNewer
        PROVE  Goal
    BY <1>8 DEF TypeChar, EraseChar, RecallOlder, RecallNewer, Recall, AtKeys
  <1>9. ASSUME (\E c \in Key \union {NewLine} : Supply(c)) \/ CloseInput PROVE Goal
    BY <1>9 DEF Supply, CloseInput
  <1>10. ASSUME UNCHANGED vars PROVE Goal
    BY <1>10 DEF vars, keyboard, screen, work, Rowing
  <1> HIDE DEF Goal
  <1>11. Goal
    BY <1>1, <1>2, <1>3, <1>4, <1>5, <1>6, <1>7, <1>8, <1>9, <1>10 DEF Next, Step, Operator
  <1> QED
    BY <1>11 DEF Goal

\* The row, cell by cell: the prompt, what has been typed, and blanks.
Showing(r, text) ==
  /\ r.col = 2 + Len(text) /\ r.cells[1] = Mark /\ r.cells[2] = Blank
  /\ \A i \in 1..Len(text) : r.cells[i + 2] = text[i]
  /\ \A i \in r.col + 1 .. Len(r.cells) : r.cells[i] = Blank

\* As long as nothing has reached the right edge, which only a prompt undoes.
Shown ==
  build = "uefi" /\ reader = "prompt" /\ Len(row.cells) < COLUMNS =>
    Showing(row, input.text)

LEMMA ShowsPrompt ==
  ASSUME NEW r, r = Put(EmptyRow, Prompt("prompt"))
  PROVE  Showing(r, <<>>)
  <1> DEFINE text == Prompt("prompt")
  <1>1. text \in Seq(Cell) /\ Len(text) = 2 /\ text[1] = Mark /\ text[2] = Blank
    BY PromptIs DEF Readers
  <1> HIDE DEF text
  <1>2. EmptyRow.col = 0 /\ Len(EmptyRow.cells) = 0
    BY EmptyRowIs
  <1> DEFINE p == Put(EmptyRow, text)
  <1>3. /\ p.col = EmptyRow.col + Len(text)
        /\ Len(p.cells) = IF EmptyRow.col + Len(text) > Len(EmptyRow.cells)
                          THEN EmptyRow.col + Len(text) ELSE Len(EmptyRow.cells)
        /\ \A i \in 1..Len(p.cells) :
             p.cells[i] = IF i \in EmptyRow.col + 1 .. EmptyRow.col + Len(text)
                          THEN text[i - EmptyRow.col] ELSE EmptyRow.cells[i]
    BY <1>1, EmptyRowIs, PutIs
  <1> HIDE DEF p
  <1>4. p.col = 2 /\ Len(p.cells) = 2
    BY <1>1, <1>2, <1>3
  <1>5. ASSUME NEW i \in 1..2 PROVE p.cells[i] = text[i]
    <2>1. /\ i \in 1..Len(p.cells) /\ i - EmptyRow.col = i
          /\ i \in EmptyRow.col + 1 .. EmptyRow.col + Len(text)
      BY <1>1, <1>2, <1>4
    <2> QED
      BY <1>3, <2>1
  <1>6. r = p
    BY DEF p, text
  <1> QED
    BY <1>1, <1>4, <1>5, <1>6 DEF Showing

LEMMA ShowsTyped ==
  ASSUME NEW r, IsRow(r), NEW text \in Seq(Char), NEW c \in Char
  PROVE  /\ Len(r.cells) <= Len(Put(r, <<c>>).cells)
         /\ Showing(r, text) => Showing(Put(r, <<c>>), Append(text, c))
  <1> DEFINE one == <<c>>
             p == Put(r, one)
             new == Append(text, c)
  <1>1. one \in Seq(Cell) /\ Len(one) = 1 /\ one[1] = c
    BY DEF Cell
  <1> HIDE DEF one
  <1>2. /\ p.col = r.col + Len(one)
        /\ Len(p.cells) = IF r.col + Len(one) > Len(r.cells) THEN r.col + Len(one) ELSE Len(r.cells)
        /\ \A i \in 1..Len(p.cells) :
             p.cells[i] = IF i \in r.col + 1 .. r.col + Len(one)
                          THEN one[i - r.col] ELSE r.cells[i]
    BY <1>1, PutIs
  <1> HIDE DEF p
  <1>a. r.col \in Nat /\ r.col <= Len(r.cells) /\ Len(r.cells) \in Nat /\ Len(text) \in Nat
    BY LenProperties DEF IsRow
  <1>b. Len(r.cells) <= Len(p.cells)
    BY <1>1, <1>2, <1>a
  <1>4. /\ Len(new) = Len(text) + 1 /\ new[Len(text) + 1] = c
        /\ \A i \in 1..Len(text) : new[i] = text[i]
    BY AppendProperties
  <1> HIDE DEF new
  <1>c. ASSUME Showing(r, text) PROVE Showing(p, new)
    <2>3. r.col = 2 + Len(text)
      BY <1>c DEF Showing
    <2>5. p.cells[r.col + 1] = c
      <3>1. r.col + 1 \in 1..Len(p.cells) /\ r.col + 1 \in r.col + 1 .. r.col + Len(one)
            /\ (r.col + 1) - r.col = 1
        BY <1>1, <1>2, <1>a
      <3>2. p.cells[r.col + 1] = one[(r.col + 1) - r.col]
        BY <1>2, <3>1
      <3> QED
        BY <1>1, <3>1, <3>2
    <2>6. ASSUME NEW i \in 1..r.col PROVE p.cells[i] = r.cells[i]
      <3>1. i \in 1..Len(p.cells) /\ i \notin r.col + 1 .. r.col + Len(one)
        BY <1>1, <1>2, <1>a
      <3> QED
        BY <1>2, <3>1
    <2>7. ASSUME NEW i \in 1..Len(new) PROVE p.cells[i + 2] = new[i]
      <3>1. CASE i = Len(text) + 1
        <4>1. i + 2 = r.col + 1
          BY <1>a, <2>3, <3>1
        <4> QED
          BY <1>4, <2>5, <3>1, <4>1
      <3>2. CASE i # Len(text) + 1
        <4>1. i \in 1..Len(text) /\ i + 2 \in 1..r.col
          BY <1>a, <1>4, <2>3, <3>2
        <4>2. p.cells[i + 2] = r.cells[i + 2] /\ r.cells[i + 2] = text[i] /\ new[i] = text[i]
          BY <1>c, <1>4, <2>6, <4>1 DEF Showing
        <4> QED
          BY <4>2
      <3> QED
        BY <3>1, <3>2
    <2>8. ASSUME NEW i \in p.col + 1 .. Len(p.cells) PROVE p.cells[i] = Blank
      <3>1. /\ i \in 1..Len(p.cells) /\ i \notin r.col + 1 .. r.col + Len(one)
            /\ i \in r.col + 1 .. Len(r.cells)
        BY <1>1, <1>2, <1>a
      <3>2. p.cells[i] = r.cells[i]
        BY <1>2, <3>1
      <3> QED
        BY <1>c, <3>1, <3>2 DEF Showing
    <2>9. p.col = 2 + Len(new) /\ p.cells[1] = Mark /\ p.cells[2] = Blank
      <3>1. 1 \in 1..r.col /\ 2 \in 1..r.col
        BY <1>a, <2>3
      <3> QED
        BY <1>1, <1>2, <1>a, <1>c, <1>4, <2>3, <2>6, <3>1 DEF Showing
    <2> QED
      BY <2>7, <2>8, <2>9 DEF Showing
  <1> QED
    BY <1>b, <1>c DEF p, new, one

LEMMA ShowsErased ==
  ASSUME NEW r, IsRow(r), NEW text \in Seq(Char), text # <<>>
  PROVE  LET q == Back(Put(Back(r, 1), <<Blank>>), 1)
         IN  /\ Len(r.cells) <= Len(q.cells)
             /\ Showing(r, text) /\ Len(q.cells) < COLUMNS => Showing(q, Front(text))
  <1> DEFINE one == <<Blank>>
             back == Back(r, 1)
             p == Put(back, one)
             q == Back(p, 1)
             new == Front(text)
  <1>1. one \in Seq(Cell) /\ Len(one) = 1 /\ one[1] = Blank
    BY DEF Cell
  <1> HIDE DEF one
  <1>2. r.col \in Nat /\ r.col <= Len(r.cells) /\ Len(r.cells) \in Nat /\ Len(text) \in Nat
    BY LenProperties DEF IsRow
  <1>3. 1 <= Len(text)
    BY <1>2, EmptySeq
  <1>4. /\ IsRow(back) /\ back.cells = r.cells /\ back.col \in Nat /\ back.col <= Len(r.cells)
        /\ r.col < COLUMNS /\ 1 <= r.col => back.col = r.col - 1
    <2>1. /\ IsRow(back) /\ back.cells = r.cells
          /\ r.col < COLUMNS /\ 1 <= r.col => back.col = r.col - 1
      BY BackIs
    <2> QED
      BY <2>1 DEF IsRow
  <1> HIDE DEF back
  <1>5. /\ IsRow(p) /\ p.col = back.col + 1
        /\ Len(p.cells) = IF back.col + 1 > Len(r.cells) THEN back.col + 1 ELSE Len(r.cells)
        /\ \A i \in 1..Len(p.cells) :
             p.cells[i] = IF i \in back.col + 1 .. back.col + 1
                          THEN one[i - back.col] ELSE r.cells[i]
    <2>1. /\ IsRow(p) /\ p.col = back.col + Len(one)
          /\ Len(p.cells) = IF back.col + Len(one) > Len(back.cells)
                            THEN back.col + Len(one) ELSE Len(back.cells)
          /\ \A i \in 1..Len(p.cells) :
               p.cells[i] = IF i \in back.col + 1 .. back.col + Len(one)
                            THEN one[i - back.col] ELSE back.cells[i]
      BY <1>1, <1>4, PutIs
    <2> QED
      BY <2>1, <1>1, <1>4
  <1> HIDE DEF p
  <1>6. q.cells = p.cells /\ (p.col < COLUMNS /\ 1 <= p.col => q.col = p.col - 1)
    BY <1>5, BackIs
  <1> HIDE DEF q
  <1>7. Len(r.cells) <= Len(q.cells) /\ Len(p.cells) \in Nat
    BY <1>2, <1>4, <1>5, <1>6
  <1>8. Len(new) = Len(text) - 1 /\ \A i \in 1..Len(text) - 1 : new[i] = text[i]
    <2>1. \A i \in 1..Len(text) - 1 : text[i] \in Char
      BY <1>2, ElementOfSeq
    <2>2. 1 \in Int /\ Len(text) - 1 \in Int
      BY <1>2
    <2>3. /\ Len(new) = IF 1 <= Len(text) - 1 THEN Len(text) - 1 - 1 + 1 ELSE 0
          /\ \A i \in 1 .. Len(text) - 1 - 1 + 1 : new[i] = text[1 + i - 1]
      BY <2>1, <2>2, SubSeqProperties DEF Front
    <2> HIDE DEF new
    <2>4. Len(new) = Len(text) - 1
      <3>1. CASE 1 <= Len(text) - 1
        BY <1>2, <2>3, <3>1
      <3>2. CASE ~(1 <= Len(text) - 1)
        <4>1. Len(new) = 0
          BY <2>3, <3>2
        <4>2. Len(text) = 1
          <5>1. PICK n \in Nat : n = Len(text)
            BY <1>2
          <5> QED
            BY <1>3, <3>2, <5>1
        <4> QED
          BY <4>1, <4>2
      <3> QED
        BY <3>1, <3>2
    <2>5. ASSUME NEW i \in 1..Len(text) - 1 PROVE new[i] = text[i]
      <3>1. i \in 1 .. Len(text) - 1 - 1 + 1 /\ 1 + i - 1 = i
        BY <1>2
      <3> QED
        BY <2>3, <3>1
    <2> QED
      BY <2>4, <2>5
  <1> HIDE DEF new
  <1>b. ASSUME Showing(r, text), Len(q.cells) < COLUMNS
        PROVE  Showing(q, new)
    <2>1. r.col = 2 + Len(text) /\ r.col < COLUMNS
      BY <1>2, <1>7, <1>6, <1>b, Bounds DEF Showing
    <2>2. back.col = Len(text) + 1 /\ Len(p.cells) = Len(r.cells) /\ p.col = Len(text) + 2
      BY <1>2, <1>4, <1>5, <2>1
    <2>3. q.col = Len(text) + 1
      BY <1>2, <1>6, <2>1, <2>2
    <2>4. p.cells[Len(text) + 2] = Blank
      <3>1. /\ Len(text) + 2 \in 1..Len(p.cells) /\ (Len(text) + 2) - back.col = 1
            /\ Len(text) + 2 \in back.col + 1 .. back.col + 1
        BY <1>2, <2>1, <2>2
      <3>2. p.cells[Len(text) + 2] = one[(Len(text) + 2) - back.col]
        BY <1>5, <3>1
      <3> QED
        BY <1>1, <3>1, <3>2
    <2>5. ASSUME NEW i \in 1..Len(p.cells), i # Len(text) + 2 PROVE p.cells[i] = r.cells[i]
      <3>1. i \notin back.col + 1 .. back.col + 1
        BY <1>2, <2>2, <2>5
      <3> QED
        BY <1>5, <3>1
    <2>6. ASSUME NEW i \in 1..Len(new) PROVE q.cells[i + 2] = new[i]
      <3>1. i \in 1..Len(text) - 1 /\ i \in 1..Len(text) /\ i + 2 \in 1..Len(p.cells)
            /\ i + 2 # Len(text) + 2
        BY <1>2, <1>8, <2>1, <2>2
      <3>2. p.cells[i + 2] = r.cells[i + 2] /\ r.cells[i + 2] = text[i] /\ new[i] = text[i]
        BY <1>8, <1>b, <2>5, <3>1 DEF Showing
      <3> QED
        BY <1>6, <3>2
    <2>7. ASSUME NEW i \in q.col + 1 .. Len(q.cells) PROVE q.cells[i] = Blank
      <3>1. CASE i = Len(text) + 2
        BY <1>6, <2>4, <3>1
      <3>2. CASE i # Len(text) + 2
        <4>1. i \in 1..Len(p.cells) /\ i \in r.col + 1 .. Len(r.cells)
          BY <1>2, <1>6, <2>1, <2>2, <2>3, <3>2
        <4>2. p.cells[i] = r.cells[i]
          BY <2>5, <3>2, <4>1
        <4> QED
          BY <1>6, <1>b, <4>1, <4>2 DEF Showing
      <3> QED
        BY <3>1, <3>2
    <2>8. q.col = 2 + Len(new) /\ q.cells[1] = Mark /\ q.cells[2] = Blank
      <3>1. 1 \in 1..Len(p.cells) /\ 1 # Len(text) + 2 /\ 2 \in 1..Len(p.cells) /\ 2 # Len(text) + 2
        BY <1>2, <1>3, <2>1, <2>2
      <3>2. p.cells[1] = r.cells[1] /\ p.cells[2] = r.cells[2]
        BY <2>5, <3>1
      <3>3. q.col = 2 + Len(new)
        BY <1>2, <1>8, <2>3
      <3> QED
        BY <1>6, <1>b, <3>2, <3>3 DEF Showing
    <2> QED
      BY <2>6, <2>7, <2>8 DEF Showing
  <1> QED
    BY <1>7, <1>b DEF q, p, back, one, new

LEMMA ShowsRecalled ==
  ASSUME NEW r, IsRow(r), NEW old \in Seq(Char), Showing(r, old), NEW text \in Seq(Char),
         Len(Redrawn(r, Len(old), text).cells) < COLUMNS
  PROVE  Showing(Redrawn(r, Len(old), text), text)
  <1>1. PICK n \in Nat : n = Len(old)
    BY LenProperties
  <1> DEFINE d == Redrawn(r, n, text)
  <1>2. /\ d.col = 2 + Len(text) /\ d.cells[1] = Mark /\ d.cells[2] = Blank
        /\ \A i \in 1..Len(text) : d.cells[i + 2] = text[i]
        /\ \A i \in Len(text) + 3 .. Len(d.cells) :
             \/ d.cells[i] = Blank
             \/ n + 2 < i /\ i <= Len(r.cells) /\ d.cells[i] = r.cells[i]
    <2>1. Len(d.cells) < COLUMNS
      BY <1>1
    <2> QED
      BY <2>1, RedrawnIs
  <1> HIDE DEF d
  <1>3. Len(text) \in Nat
    BY LenProperties
  <1>4. ASSUME NEW i \in d.col + 1 .. Len(d.cells) PROVE d.cells[i] = Blank
    <2>1. i \in Len(text) + 3 .. Len(d.cells) /\ i \in Int
      BY <1>2, <1>3
    <2>2. CASE n + 2 < i /\ i <= Len(r.cells) /\ d.cells[i] = r.cells[i]
      <3>1. r.col = n + 2 /\ Len(r.cells) \in Nat
        BY <1>1, LenProperties DEF Showing, IsRow
      <3>2. i \in r.col + 1 .. Len(r.cells)
        BY <2>1, <2>2, <3>1
      <3> QED
        BY <2>2, <3>2 DEF Showing
    <2> QED
      BY <1>2, <2>1, <2>2
  <1>5. Showing(d, text)
    BY <1>2, <1>4 DEF Showing
  <1> QED
    BY <1>1, <1>5 DEF d

LEMMA ShownNext ==
  TypeInv /\ WithoutKeys /\ Rowing /\ Shown /\ [Next]_vars => Shown'
  <1> SUFFICES ASSUME TypeInv, WithoutKeys, Rowing, Shown, [Next]_vars,
                      build' = "uefi", reader' = "prompt", Len(row'.cells) < COLUMNS
               PROVE  Showing(row', input'.text)
    BY DEF Shown
  <1> DEFINE Goal == Showing(row', input'.text)
  <1>a. ASSUME build' = build, reader' = reader, row' = row, input' = input PROVE Goal
    BY <1>a DEF Shown
  <1>b. ASSUME AtKeys, build' = build, reader' = reader
        PROVE  /\ IsRow(row) /\ input.text \in Seq(Char) /\ input.drawn = Len(input.text)
               /\ Len(row.cells) <= Len(row'.cells) => Showing(row, input.text)
    <2>1. /\ IsRow(row) /\ input.text \in Seq(Char) /\ input.drawn = Len(input.text)
          /\ Len(row.cells) < COLUMNS => Showing(row, input.text)
      BY <1>b, TypeIs DEF AtKeys, Shown, TypeInv, TypeOK, Drawn
    <2>2. IsRow(row')
      <3>1. TypeInv'
        BY TypeNext
      <3>2. row' \in [cells : Seq(Cell), col : 0..Len(row'.cells)]
        BY <3>1 DEF TypeInv, TypeOK
      <3>3. Len(row'.cells) \in Nat
        BY <3>2, LenProperties
      <3> QED
        BY <3>2, <3>3 DEF IsRow
    <2>3. Len(row.cells) \in Nat /\ Len(row'.cells) \in Nat
      BY <2>1, <2>2, LenProperties DEF IsRow
    <2>4. Len(row.cells) <= Len(row'.cells) => Len(row.cells) < COLUMNS
      BY <2>3, Bounds
    <2> QED
      BY <2>1, <2>4
  <1>1. ASSUME PrintLine PROVE Goal
    <2>1. reader = Nobody /\ (reader' = reader \/ reader' = "pager")
      BY <1>1 DEF PrintLine, Idle, Ask
    <2> QED
      BY <2>1 DEF Nobody
  <1>2. ASSUME ClearScreen \/ OpenEditor \/ StopLoop PROVE Goal
    <2>1. reader = Nobody /\ reader' = reader
      BY <1>2 DEF ClearScreen, OpenEditor, StopLoop, Idle
    <2> QED
      BY <2>1 DEF Nobody
  <1>3. ASSUME AskForNote PROVE Goal
    BY <1>3 DEF AskForNote, Ask
  <1>4. ASSUME AskForCommand PROVE Goal
    <2>1. /\ build' = build /\ reader = Nobody /\ ~stopped /\ todo = <<>>
          /\ input' = [NoInput EXCEPT !.recalled = Len(history)]
          /\ row' = IF build = "uefi" THEN Put(row, Prompt("prompt")) ELSE row
      BY <1>4 DEF AskForCommand, Ask, Idle
    <2>2. row = EmptyRow
      BY <2>1 DEF Rowing
    <2>3. row' = Put(EmptyRow, Prompt("prompt")) /\ input'.text = <<>>
      BY <2>1, <2>2 DEF NoInput
    <2> QED
      BY <2>3, ShowsPrompt
  <1>5. ASSUME PressEnter \/ ReadLine PROVE Goal
    <2>1. reader' = Nobody
      BY <1>5, Reads, DeliveredMoves DEF TypeInv
    <2> QED
      BY <2>1 DEF Nobody
  <1>6. ASSUME ReadFails PROVE Goal
    BY <1>6 DEF ReadFails, Nobody
  <1>7. ASSUME NEW c \in Char, TypeChar(c) PROVE Goal
    <2>1. /\ AtKeys /\ build' = build /\ reader' = reader /\ row' = Put(row, <<c>>)
          /\ input' = Typed(Append(input.text, c))
      BY <1>7 DEF TypeChar
    <2>2. input'.text = Append(input.text, c)
      BY <2>1 DEF Typed, TypeInv, TypeOK
    <2> QED
      BY <1>b, <2>1, <2>2, ShowsTyped
  <1>8. ASSUME EraseChar PROVE Goal
    <2>1. /\ AtKeys /\ build' = build /\ reader' = reader /\ input.text # <<>>
          /\ row' = Back(Put(Back(row, 1), <<Blank>>), 1)
          /\ input' = Typed(Front(input.text))
      BY <1>8 DEF EraseChar
    <2>2. input'.text = Front(input.text)
      BY <2>1 DEF Typed, TypeInv, TypeOK
    <2> QED
      BY <1>b, <2>1, <2>2, ShowsErased
  <1>9. ASSUME RecallOlder \/ RecallNewer PROVE Goal
    <2>1. AtKeys /\ input.recalled \in 0..Len(history) /\ Len(history) \in Nat
      BY <1>9, LenProperties DEF RecallOlder, RecallNewer, AtKeys, TypeInv, TypeOK
    <2>2. PICK at \in 0..Len(history) : Recall(at)
      BY <1>9, <2>1 DEF RecallOlder, RecallNewer
    <2>3. build' = build /\ reader' = reader
      BY <2>2 DEF Recall
    <2>4. PICK text \in Seq(Char) :
            /\ input' = [text |-> text, drawn |-> Len(text), recalled |-> at]
            /\ row' = Redrawn(row, input.drawn, text)
      BY <2>1, <2>2, RecallMoves
    <2>5. input'.text = text
      BY <2>4
    <2>6. Len(row.cells) <= Len(row'.cells)
      <3>1. IsRow(row) /\ input.drawn \in Nat
        BY TypeIs DEF TypeInv, TypeOK
      <3> QED
        BY <2>4, <3>1, RedrawnIs
    <2>7. /\ IsRow(row) /\ input.text \in Seq(Char) /\ Showing(row, input.text)
          /\ row' = Redrawn(row, Len(input.text), text)
      BY <1>b, <2>1, <2>3, <2>4, <2>6
    <2> QED
      BY <2>4, <2>5, <2>7, ShowsRecalled
  <1>10. ASSUME (\E c \in Key \union {NewLine} : Supply(c)) \/ CloseInput PROVE Goal
    BY <1>10, <1>a DEF Supply, CloseInput, screen
  <1>11. ASSUME UNCHANGED vars PROVE Goal
    BY <1>11, <1>a DEF vars, screen
  <1> HIDE DEF Goal
  <1>12. Goal
    BY <1>1, <1>2, <1>3, <1>4, <1>5, <1>6, <1>7, <1>8, <1>9, <1>10, <1>11
       DEF Next, Step, Operator
  <1> QED
    BY <1>12 DEF Goal

-----------------------------------------------------------------------------
(* The history *)

\* "at" says where the lines of the history have been entered.
Places(at) ==
  /\ at \in [1..Len(history) -> 1..Len(entered)]
  /\ \A n \in 1..Len(history) : Fresh(at[n]) /\ history[n] = entered[at[n]].text
  /\ \A m, n \in 1..Len(history) : m < n => at[m] < at[n]
  /\ \A i \in 1..Len(entered) : Fresh(i) =>
       \/ \E n \in 1..Len(history) : at[n] = i
       \/ Len(history) = HISTORY_MAX /\ i < at[1]

Placed == build = "uefi" => \E at : Places(at)

\* The last line of the history is the last line entered that is not empty.
LastEntered ==
  build = "uefi" =>
    /\ history = <<>> => \A i \in 1..Len(entered) : entered[i].text = <<>>
    /\ history # <<>> =>
         \E j \in 1..Len(entered) :
           /\ entered[j].text = history[Len(history)] /\ entered[j].text # <<>>
           /\ \A k \in j + 1 .. Len(entered) : entered[k].text = <<>>

LEMMA HistoryIs ==
  ASSUME TypeInv
  PROVE  /\ history \in Seq(Seq(Char)) /\ Len(history) \in Nat /\ Len(history) <= HISTORY_MAX
         /\ entered \in Seq([at : Readers, text : Text]) /\ Len(entered) \in Nat
         /\ DOMAIN history = 1..Len(history) /\ DOMAIN entered = 1..Len(entered)
         /\ HISTORY_MAX \in Nat /\ 1 <= HISTORY_MAX
  BY LenProperties, Bounds DEF TypeInv, TypeOK

\* A step of a line: Enter, at the keyboard of the UEFI console.
LEMMA HistoryStep ==
  ASSUME TypeInv, [Next]_vars, build' = "uefi"
  PROVE  /\ build = "uefi"
         /\ \/ UNCHANGED <<history, entered>>
            \/ /\ history' = Pushed(history, input.text) /\ input.text \in Seq(Char)
               /\ \A i \in 1..Len(entered) : entered'[i] = entered[i]
               /\ Len(entered') = Len(entered) + 1
               /\ entered'[Len(entered) + 1].text = input.text
  <1> DEFINE Goal == /\ build = "uefi"
                     /\ \/ UNCHANGED <<history, entered>>
                        \/ /\ history' = Pushed(history, input.text) /\ input.text \in Seq(Char)
                           /\ \A i \in 1..Len(entered) : entered'[i] = entered[i]
                           /\ Len(entered') = Len(entered) + 1
                           /\ entered'[Len(entered) + 1].text = input.text
  <1>1. ASSUME PrintLine \/ ClearScreen \/ OpenEditor \/ StopLoop \/ AskForNote \/ AskForCommand
        PROVE  Goal
    BY <1>1 DEF PrintLine, ClearScreen, OpenEditor, StopLoop, AskForNote, AskForCommand
  <1>2. ASSUME ReadLine PROVE Goal
    <2>1. build = "hosted" /\ build' = build
      BY <1>2, ReadLineMoves DEF TypeInv
    <2> QED
      BY <2>1
  <1>3. ASSUME PressEnter PROVE Goal
    <2> DEFINE new == [at |-> reader, text |-> input.text]
    <2>1. /\ build = "uefi" /\ reader # Nobody /\ history' = Pushed(history, input.text)
          /\ entered' = Append(entered, new)
      BY <1>3 DEF PressEnter, AtKeys, Delivered
    <2>2. input.text \in Seq(Char) /\ reader \in Readers
      BY <2>1 DEF TypeInv, TypeOK
    <2>3. Char \subseteq Key \union {NewLine}
      BY DEF Key
    <2>4. input.text \in Text
      BY <2>2, <2>3, SeqMonotonic DEF Text
    <2>5. new \in [at : Readers, text : Text] /\ new.text = input.text
      BY <2>2, <2>4
    <2> HIDE DEF new
    <2>6. /\ \A i \in 1..Len(entered) : entered'[i] = entered[i]
          /\ Len(entered') = Len(entered) + 1 /\ entered'[Len(entered) + 1] = new
      BY <2>1, <2>5, HistoryIs, AppendProperties
    <2> QED
      BY <2>1, <2>2, <2>5, <2>6
  <1>4. ASSUME ReadFails PROVE Goal
    BY <1>4 DEF ReadFails
  <1>5. ASSUME \/ \E c \in Char : TypeChar(c)
               \/ EraseChar \/ RecallOlder \/ RecallNewer
        PROVE  Goal
    BY <1>5 DEF TypeChar, EraseChar, RecallOlder, RecallNewer, Recall
  <1>6. ASSUME (\E c \in Key \union {NewLine} : Supply(c)) \/ CloseInput \/ UNCHANGED vars
        PROVE  Goal
    BY <1>6 DEF Supply, CloseInput, vars
  <1> HIDE DEF Goal
  <1>7. Goal
    BY <1>1, <1>2, <1>3, <1>4, <1>5, <1>6 DEF Next, Step, Operator
  <1> QED
    BY <1>7 DEF Goal

\* What Pushed does, case by case.
LEMMA PushedIs ==
  ASSUME TypeInv, NEW line \in Seq(Char), history' = Pushed(history, line)
  PROVE  \/ line = <<>> /\ history' = history
         \/ line # <<>> /\ history # <<>> /\ history[Len(history)] = line /\ history' = history
         \/ /\ line # <<>> /\ (history = <<>> \/ history[Len(history)] # line)
            /\ Len(history) < HISTORY_MAX
            /\ Len(history') = Len(history) + 1 /\ history'[Len(history) + 1] = line
            /\ \A n \in 1..Len(history) : history'[n] = history[n]
         \/ /\ line # <<>> /\ (history = <<>> \/ history[Len(history)] # line)
            /\ Len(history) = HISTORY_MAX
            /\ Len(history') = Len(history) /\ history'[Len(history)] = line
            /\ \A n \in 1..Len(history) - 1 : history'[n] = history[n + 1]
  <1>1. CASE line = <<>> \/ (history # <<>> /\ history[Len(history)] = line)
    BY <1>1 DEF Pushed, Last
  <1>2. CASE line # <<>> /\ (history = <<>> \/ history[Len(history)] # line)
    <2>1. CASE Len(history) < HISTORY_MAX
      <3>1. history' = Append(history, line)
        BY <1>2, <2>1 DEF Pushed, Last
      <3>2. /\ Len(history') = Len(history) + 1 /\ history'[Len(history) + 1] = line
            /\ \A n \in 1..Len(history) : history'[n] = history[n]
        BY <3>1, HistoryIs, AppendProperties
      <3> QED
        BY <1>2, <2>1, <3>2
    <2>2. CASE ~(Len(history) < HISTORY_MAX)
      <3>1. history' = Append(Tail(history), line)
        BY <1>2, <2>2 DEF Pushed, Last
      <3>2. Len(history) = HISTORY_MAX /\ Len(history) # 0
        BY <2>2, HistoryIs
      <3>3. history # <<>>
        BY <3>2, EmptySeq
      <3>4. /\ Tail(history) \in Seq(Seq(Char)) /\ Len(Tail(history)) = Len(history) - 1
            /\ \A n \in 1..Len(Tail(history)) : Tail(history)[n] = history[n + 1]
        BY <3>3, HistoryIs, HeadTailProperties
      <3>5. /\ Len(history') = Len(history) - 1 + 1
            /\ \A n \in 1..Len(history) - 1 : history'[n] = Tail(history)[n]
            /\ history'[Len(history) - 1 + 1] = line
        BY <3>1, <3>4, AppendProperties
      <3>6. Len(history) - 1 + 1 = Len(history)
        BY HistoryIs
      <3> QED
        BY <1>2, <3>2, <3>4, <3>5, <3>6
    <2> QED
      BY <2>1, <2>2
  <1> QED
    BY <1>1, <1>2

LEMMA LastEnteredNext == TypeInv /\ LastEntered /\ [Next]_vars => LastEntered'
  <1> SUFFICES ASSUME TypeInv, LastEntered, [Next]_vars, build' = "uefi"
               PROVE  /\ history' = <<>> => \A i \in 1..Len(entered') : entered'[i].text = <<>>
                      /\ history' # <<>> =>
                           \E j \in 1..Len(entered') :
                             /\ entered'[j].text = history'[Len(history')]
                             /\ entered'[j].text # <<>>
                             /\ \A k \in j + 1 .. Len(entered') : entered'[k].text = <<>>
    BY DEF LastEntered
  <1>1. /\ build = "uefi" /\ Len(entered) \in Nat /\ Len(history) \in Nat
        /\ HISTORY_MAX \in Nat /\ 1 <= HISTORY_MAX
    BY HistoryStep, HistoryIs
  <1>2. CASE UNCHANGED <<history, entered>>
    BY <1>1, <1>2 DEF LastEntered
  <1>3. CASE /\ history' = Pushed(history, input.text) /\ input.text \in Seq(Char)
             /\ \A i \in 1..Len(entered) : entered'[i] = entered[i]
             /\ Len(entered') = Len(entered) + 1
             /\ entered'[Len(entered) + 1].text = input.text
    <2>1. CASE input.text = <<>> /\ history' = history
      <3>1. ASSUME history = <<>>, NEW i \in 1..Len(entered')
            PROVE  entered'[i].text = <<>>
        <4>1. i \in 1..Len(entered) \/ i = Len(entered) + 1
          BY <1>1, <1>3
        <4> QED
          BY <1>1, <1>3, <2>1, <3>1, <4>1 DEF LastEntered
      <3>2. ASSUME history # <<>>
            PROVE  \E j \in 1..Len(entered') :
                     /\ entered'[j].text = history'[Len(history')]
                     /\ entered'[j].text # <<>>
                     /\ \A k \in j + 1 .. Len(entered') : entered'[k].text = <<>>
        <4>1. PICK j \in 1..Len(entered) :
                /\ entered[j].text = history[Len(history)] /\ entered[j].text # <<>>
                /\ \A k \in j + 1 .. Len(entered) : entered[k].text = <<>>
          BY <1>1, <3>2 DEF LastEntered
        <4>2. ASSUME NEW k \in j + 1 .. Len(entered') PROVE entered'[k].text = <<>>
          <5>1. \/ k \in j + 1 .. Len(entered) /\ k \in 1..Len(entered)
                \/ k = Len(entered) + 1
            BY <1>1, <1>3
          <5> QED
            BY <1>3, <2>1, <4>1, <5>1
        <4>3. j \in 1..Len(entered')
          BY <1>1, <1>3
        <4> QED
          BY <1>3, <2>1, <4>1, <4>2, <4>3
      <3> QED
        BY <2>1, <3>1, <3>2
    <2>2. CASE input.text # <<>> /\ Len(history') # 0 /\ history'[Len(history')] = input.text
      <3>1. history' # <<>>
        BY <2>2
      <3>2. Len(entered) + 1 \in 1..Len(entered')
        BY <1>1, <1>3
      <3>3. \A k \in Len(entered) + 1 + 1 .. Len(entered') : entered'[k].text = <<>>
        BY <1>1, <1>3
      <3> QED
        BY <1>3, <2>2, <3>1, <3>2, <3>3
    <2>3. \/ input.text = <<>> /\ history' = history
          \/ input.text # <<>> /\ Len(history') # 0 /\ history'[Len(history')] = input.text
      <3>1. CASE input.text # <<>> /\ history # <<>> /\ history[Len(history)] = input.text
                 /\ history' = history
        <4>1. Len(history) # 0
          BY <3>1, HistoryIs, EmptySeq
        <4> QED
          BY <3>1, <4>1
      <3>2. CASE /\ input.text # <<>>
                 /\ Len(history') = Len(history) + 1 /\ history'[Len(history) + 1] = input.text
        BY <1>1, <3>2
      <3>3. CASE /\ input.text # <<>> /\ Len(history) = HISTORY_MAX
                 /\ Len(history') = Len(history) /\ history'[Len(history)] = input.text
        BY <1>1, <3>3
      <3> QED
        BY <1>3, <3>1, <3>2, <3>3, PushedIs
    <2> QED
      BY <2>1, <2>2, <2>3
  <1> QED
    BY <1>2, <1>3, HistoryStep

\* Whether a line is a repetition depends on the lines before it alone.
LEMMA FreshStays ==
  ASSUME Len(entered) \in Nat, \A i \in 1..Len(entered) : entered'[i] = entered[i],
         NEW i \in 1..Len(entered)
  PROVE  Fresh(i)' <=> Fresh(i)
  <1>1. entered'[i] = entered[i]
    OBVIOUS
  <1>2. ASSUME NEW j \in 1..(i - 1)
        PROVE  /\ entered'[j] = entered[j]
               /\ \A k \in (j + 1)..(i - 1) : entered'[k] = entered[k]
    <2>1. j \in 1..Len(entered) /\ \A k \in (j + 1)..(i - 1) : k \in 1..Len(entered)
      OBVIOUS
    <2> QED
      BY <2>1
  <1> QED
    BY <1>1, <1>2 DEF Fresh

\* A new line is a repetition if it is the last line of the history again.
LEMMA FreshNew ==
  ASSUME TypeInv, LastEntered, build = "uefi", NEW N, N = Len(entered) + 1,
         \A i \in 1..Len(entered) : entered'[i] = entered[i]
  PROVE  /\ entered'[N].text = <<>> => ~Fresh(N)'
         /\ history # <<>> /\ entered'[N].text = history[Len(history)] => ~Fresh(N)'
         /\ entered'[N].text # <<>>
              /\ (history = <<>> \/ history[Len(history)] # entered'[N].text) => Fresh(N)'
  <1>1. Len(entered) \in Nat /\ N \in Nat /\ N - 1 = Len(entered)
    BY HistoryIs
  <1> DEFINE line == entered'[N].text
  <1>2. Fresh(N)' <=> /\ line # <<>>
                      /\ \A j \in 1..Len(entered) : entered[j].text = line =>
                           \E k \in j + 1 .. Len(entered) : entered[k].text # <<>>
    <2>1. Fresh(N)' <=> /\ line # <<>>
                        /\ \A j \in 1..(N - 1) : entered'[j].text = line =>
                             \E k \in (j + 1)..(N - 1) : entered'[k].text # <<>>
      BY DEF Fresh
    <2>2. \A j \in 1..Len(entered) : \A k \in j + 1 .. Len(entered) : k \in 1..Len(entered)
      BY <1>1
    <2> HIDE DEF line
    <2> QED
      BY <1>1, <2>1, <2>2
  <1> HIDE DEF line
  <1>3. /\ history = <<>> => \A i \in 1..Len(entered) : entered[i].text = <<>>
        /\ history # <<>> =>
             \E j \in 1..Len(entered) :
               /\ entered[j].text = history[Len(history)] /\ entered[j].text # <<>>
               /\ \A k \in j + 1 .. Len(entered) : entered[k].text = <<>>
    BY DEF LastEntered
  <1>4. ASSUME history # <<>>, line = history[Len(history)] PROVE ~Fresh(N)'
    BY <1>2, <1>3, <1>4
  <1>5. ASSUME line # <<>>, history = <<>> \/ history[Len(history)] # line PROVE Fresh(N)'
    <2>1. ASSUME NEW j \in 1..Len(entered), entered[j].text = line
          PROVE  \E k \in j + 1 .. Len(entered) : entered[k].text # <<>>
      <3>1. history # <<>>
        BY <1>3, <1>5, <2>1
      <3>2. PICK l \in 1..Len(entered) :
              /\ entered[l].text = history[Len(history)] /\ entered[l].text # <<>>
              /\ \A k \in l + 1 .. Len(entered) : entered[k].text = <<>>
        BY <1>3, <3>1
      <3>3. l # j
        BY <1>5, <2>1, <3>1, <3>2
      <3>4. ~(j \in l + 1 .. Len(entered))
        BY <1>5, <2>1, <3>2
      <3>5. l \in j + 1 .. Len(entered)
        BY <1>1, <3>3, <3>4
      <3> QED
        BY <3>2, <3>5
    <2> QED
      BY <1>2, <1>5, <2>1
  <1>6. line = <<>> => ~Fresh(N)'
    BY <1>2
  <1> QED
    BY <1>4, <1>5, <1>6 DEF line

LEMMA PlacedNext == TypeInv /\ LastEntered /\ Placed /\ [Next]_vars => Placed'
  <1> SUFFICES ASSUME TypeInv, LastEntered, Placed, [Next]_vars, build' = "uefi"
               PROVE  \E at : Places(at)'
    BY DEF Placed
  <1>1. /\ build = "uefi" /\ Len(entered) \in Nat /\ Len(history) \in Nat
        /\ HISTORY_MAX \in Nat /\ 1 <= HISTORY_MAX
    BY HistoryStep, HistoryIs
  <1>2. PICK at : Places(at)
    BY <1>1 DEF Placed
  <1>3. ASSUME UNCHANGED <<history, entered>> PROVE \E a : Places(a)'
    <2>1. Places(at)'
      BY <1>2, <1>3 DEF Places, Fresh
    <2> QED
      BY <2>1
  <1>4. ASSUME /\ history' = Pushed(history, input.text) /\ input.text \in Seq(Char)
               /\ \A i \in 1..Len(entered) : entered'[i] = entered[i]
               /\ Len(entered') = Len(entered) + 1
               /\ entered'[Len(entered) + 1].text = input.text
        PROVE  \E a : Places(a)'
    <2>0. PICK N \in Nat : N = Len(entered) + 1
      BY <1>1
    <2> DEFINE L == Len(history)
    <2>1. \A i \in 1..Len(entered) : Fresh(i)' <=> Fresh(i)
      BY <1>1, <1>4, FreshStays
    <2>2. /\ input.text = <<>> => ~Fresh(N)'
          /\ history # <<>> /\ input.text = history[L] => ~Fresh(N)'
          /\ input.text # <<>> /\ (history = <<>> \/ history[L] # input.text) => Fresh(N)'
      BY <1>1, <1>4, <2>0, FreshNew
    <2>3. \A i \in 1..Len(entered') : i \in 1..Len(entered) \/ i = N
      BY <1>1, <1>4, <2>0
    <2>4. /\ at \in [1..L -> 1..Len(entered)]
          /\ \A n \in 1..L : Fresh(at[n]) /\ history[n] = entered[at[n]].text
          /\ \A m, n \in 1..L : m < n => at[m] < at[n]
          /\ \A i \in 1..Len(entered) : Fresh(i) =>
               (\E n \in 1..L : at[n] = i) \/ (L = HISTORY_MAX /\ i < at[1])
      BY <1>2 DEF Places
    <2>5. \A n \in 1..L : at[n] \in 1..Len(entered) /\ at[n] \in 1..Len(entered') /\ at[n] < N
      BY <1>1, <1>4, <2>0, <2>4
    <2>6. CASE history' = history /\ ~Fresh(N)'
      <3>1. at \in [1..Len(history') -> 1..Len(entered')]
        BY <2>4, <2>5, <2>6
      <3>2. ASSUME NEW n \in 1..Len(history')
            PROVE  Fresh(at[n])' /\ history'[n] = entered'[at[n]].text
        <4>1. n \in 1..L /\ at[n] \in 1..Len(entered)
          BY <2>5, <2>6
        <4> QED
          BY <1>4, <2>1, <2>4, <2>6, <4>1
      <3>3. \A i \in 1..Len(entered') : Fresh(i)' =>
              \/ \E n \in 1..Len(history') : at[n] = i
              \/ Len(history') = HISTORY_MAX /\ i < at[1]
        BY <2>1, <2>3, <2>4, <2>6
      <3>4. \A m, n \in 1..Len(history') : m < n => at[m] < at[n]
        BY <2>4, <2>6
      <3>5. Places(at)'
        BY <3>1, <3>2, <3>3, <3>4 DEF Places
      <3> QED
        BY <3>5
    <2>7. CASE /\ Fresh(N)' /\ L < HISTORY_MAX
               /\ Len(history') = L + 1 /\ history'[L + 1] = input.text
               /\ \A n \in 1..L : history'[n] = history[n]
      <3>0. PICK a : a = [n \in 1 .. L + 1 |-> IF n = L + 1 THEN N ELSE at[n]]
        OBVIOUS
      <3>1. \A n \in 1..L : n \in 1..L + 1 /\ n # L + 1 /\ a[n] = at[n]
        BY <1>1, <3>0
      <3>2. a[L + 1] = N /\ L + 1 \in 1 .. L + 1 /\ N \in 1..Len(entered')
        BY <1>1, <1>4, <2>0, <3>0
      <3>3. \A n \in 1 .. L + 1 : n \in 1..L \/ n = L + 1
        BY <1>1
      <3>4. a \in [1 .. L + 1 -> 1..Len(entered')]
        <4>1. \A n \in 1 .. L + 1 : a[n] \in 1..Len(entered')
          BY <2>5, <3>1, <3>2, <3>3
        <4> QED
          BY <3>0, <4>1
      <3>5. ASSUME NEW n \in 1 .. L + 1
            PROVE  Fresh(a[n])' /\ history'[n] = entered'[a[n]].text
        <4>1. CASE n = L + 1
          BY <1>4, <2>0, <2>7, <3>2, <4>1
        <4>2. CASE n \in 1..L
          <5>1. a[n] = at[n] /\ at[n] \in 1..Len(entered)
            BY <2>5, <3>1, <4>2
          <5>2. Fresh(at[n])' /\ entered'[at[n]] = entered[at[n]]
            BY <1>4, <2>1, <2>4, <4>2, <5>1
          <5> QED
            BY <2>4, <2>7, <4>2, <5>1, <5>2
        <4> QED
          BY <3>3, <4>1, <4>2
      <3>6. ASSUME NEW m \in 1 .. L + 1, NEW n \in 1 .. L + 1, m < n PROVE a[m] < a[n]
        <4>1. m \in 1..L
          BY <1>1, <3>6
        <4>2. CASE n = L + 1
          BY <2>5, <3>1, <3>2, <4>1, <4>2
        <4>3. CASE n \in 1..L
          BY <2>4, <3>1, <3>6, <4>1, <4>3
        <4> QED
          BY <3>3, <4>2, <4>3
      <3>7. ASSUME NEW i \in 1..Len(entered'), Fresh(i)'
            PROVE  \E n \in 1 .. L + 1 : a[n] = i
        <4>1. CASE i = N
          BY <3>2, <4>1
        <4>2. CASE i \in 1..Len(entered)
          <5>1. Fresh(i) /\ ~(L = HISTORY_MAX)
            BY <1>1, <2>1, <2>7, <3>7, <4>2
          <5>2. PICK n \in 1..L : at[n] = i
            BY <2>4, <4>2, <5>1
          <5> QED
            BY <3>1, <5>2
        <4> QED
          BY <2>3, <4>1, <4>2
      <3>8. Places(a)'
        BY <2>7, <3>4, <3>5, <3>6, <3>7 DEF Places
      <3> QED
        BY <3>8
    <2>8. CASE /\ Fresh(N)' /\ L = HISTORY_MAX
               /\ Len(history') = L /\ history'[L] = input.text
               /\ \A n \in 1..L - 1 : history'[n] = history[n + 1]
      <3>0. PICK a : a = [n \in 1..L |-> IF n = L THEN N ELSE at[n + 1]]
        OBVIOUS
      <3>1. \A n \in 1..L - 1 : n \in 1..L /\ n + 1 \in 1..L /\ n # L /\ a[n] = at[n + 1]
        BY <1>1, <3>0
      <3>2. a[L] = N /\ L \in 1..L /\ N \in 1..Len(entered')
        BY <1>1, <1>4, <2>0, <2>8, <3>0
      <3>3. \A n \in 1..L : n \in 1..L - 1 \/ n = L
        BY <1>1
      <3>4. a \in [1..L -> 1..Len(entered')]
        <4>1. \A n \in 1..L : a[n] \in 1..Len(entered')
          BY <2>5, <3>1, <3>2, <3>3
        <4> QED
          BY <3>0, <4>1
      <3>5. ASSUME NEW n \in 1..L
            PROVE  Fresh(a[n])' /\ history'[n] = entered'[a[n]].text
        <4>1. CASE n = L
          BY <1>4, <2>0, <2>8, <3>2, <4>1
        <4>2. CASE n \in 1..L - 1
          <5>1. a[n] = at[n + 1] /\ n + 1 \in 1..L /\ at[n + 1] \in 1..Len(entered)
            BY <2>5, <3>1, <4>2
          <5>2. Fresh(at[n + 1])' /\ entered'[at[n + 1]] = entered[at[n + 1]]
            BY <1>4, <2>1, <2>4, <5>1
          <5>3. history[n + 1] = entered[at[n + 1]].text
            BY <2>4, <5>1
          <5> QED
            BY <2>8, <4>2, <5>1, <5>2, <5>3
        <4> QED
          BY <3>3, <4>1, <4>2
      <3>6. ASSUME NEW m \in 1..L, NEW n \in 1..L, m < n PROVE a[m] < a[n]
        <4>1. m \in 1..L - 1
          BY <1>1, <3>6
        <4>2. a[m] = at[m + 1] /\ m + 1 \in 1..L
          BY <3>1, <4>1
        <4>3. CASE n = L
          BY <2>5, <3>2, <4>2, <4>3
        <4>4. CASE n \in 1..L - 1
          <5>1. a[n] = at[n + 1] /\ n + 1 \in 1..L /\ m + 1 < n + 1
            BY <3>1, <3>6, <4>4
          <5> QED
            BY <2>4, <4>2, <5>1
        <4> QED
          BY <3>3, <4>3, <4>4
      <3>7. at[1] < a[1] /\ 1 \in 1..L
        <4>1. CASE L = 1
          BY <2>5, <3>2, <4>1
        <4>2. CASE L # 1
          <5>1. 1 \in 1..L - 1 /\ 1 \in 1..L /\ 1 + 1 \in 1..L /\ 1 < 1 + 1
            BY <1>1, <2>8, <4>2
          <5>2. a[1] = at[1 + 1] /\ at[1] < at[1 + 1]
            BY <2>4, <3>1, <5>1
          <5> QED
            BY <5>1, <5>2
        <4> QED
          BY <4>1, <4>2
      <3>8. ASSUME NEW i \in 1..Len(entered'), Fresh(i)'
            PROVE  (\E n \in 1..L : a[n] = i) \/ i < a[1]
        <4>1. CASE i = N
          BY <3>2, <4>1
        <4>2. CASE i \in 1..Len(entered)
          <5>1. (\E n \in 1..L : at[n] = i) \/ i < at[1]
            BY <2>1, <2>4, <3>8, <4>2
          <5>2. a[1] \in Nat /\ at[1] \in Nat
            BY <2>5, <3>4, <3>7
          <5>3. ASSUME NEW n \in 1..L, at[n] = i PROVE (\E k \in 1..L : a[k] = i) \/ i < a[1]
            <6>1. CASE n = 1
              BY <3>7, <5>3, <6>1
            <6>2. CASE n # 1
              <7>1. n - 1 \in 1..L - 1 /\ (n - 1) + 1 = n
                BY <1>1, <6>2
              <7>2. a[n - 1] = at[(n - 1) + 1] /\ n - 1 \in 1..L
                BY <3>1, <7>1
              <7> QED
                BY <5>3, <7>1, <7>2
            <6> QED
              BY <6>1, <6>2
          <5>4. i < at[1] => i < a[1]
            BY <3>7, <4>2, <5>2
          <5> QED
            BY <5>1, <5>3, <5>4
        <4> QED
          BY <2>3, <4>1, <4>2
      <3>9. Places(a)'
        BY <2>8, <3>4, <3>5, <3>6, <3>8 DEF Places
      <3> QED
        BY <3>9
    <2>9. \/ history' = history /\ ~Fresh(N)'
          \/ /\ Fresh(N)' /\ L < HISTORY_MAX
             /\ Len(history') = L + 1 /\ history'[L + 1] = input.text
             /\ \A n \in 1..L : history'[n] = history[n]
          \/ /\ Fresh(N)' /\ L = HISTORY_MAX
             /\ Len(history') = L /\ history'[L] = input.text
             /\ \A n \in 1..L - 1 : history'[n] = history[n + 1]
      BY <1>4, <2>2, PushedIs
    <2> QED
      BY <2>6, <2>7, <2>8, <2>9
  <1> QED
    BY <1>3, <1>4, HistoryStep

-----------------------------------------------------------------------------
(* Theorems *)

\* The types of console.c, command_core.c and the two line readers, and what the
\* buffers, the history and the pager may hold: no line fills the buffer of its
\* reader, no history passes HISTORY_MAX.
THEOREM TypeCorrect == Spec => []TypeOK
  <1>1. TypeInv => TypeOK
    BY DEF TypeInv
  <1> QED
    BY <1>1, TypeKept, PTL

\* While there is an operator to wait for, no paged command makes more than a page
\* of calls of console_write_line between two reads (console_pager_after_line),
\* however many it makes and however often it clears the screen.
THEOREM PageAlwaysHolds == Spec => []PageHolds
  <1>1. Init => Paged
    BY DEF Init, Paged
  <1>2. TypeInv /\ Paged /\ [Next]_vars => Paged'
    BY PagedNext
  <1>3. Paged => PageHolds
    BY DEF Paged, PageHolds
  <1> QED
    BY <1>1, <1>2, <1>3, TypeKept, PTL DEF Spec

\* Every line read while a note is open goes to the note (editor_run, with the
\* pager ended before its loop).
THEOREM NoteAlwaysTakesEveryLine == Spec => []NoteTakesEveryLine
  <1>1. Init => NoteLines
    BY DEF Init, NoteLines
  <1>2. TypeInv /\ NoteLines /\ [Next]_vars => NoteLines'
    BY NoteLinesNext
  <1>3. TypeInv /\ NoteLines => NoteTakesEveryLine
    BY DEF TypeInv, Roles, NoteLines, NoteTakesEveryLine
  <1> QED
    BY <1>1, <1>2, <1>3, TypeKept, PTL DEF Spec

\* As long as nothing drawn at the prompt has reached the right edge of the screen,
\* its row is the line that Enter would run, with the cursor at its end and no cell
\* of an older line behind it (uefi_redraw_input and last_drawn_len).
THEOREM BufferAlwaysShown == Spec => []ShownIsBuffer
  <1>1. Init => WithoutKeys /\ Rowing /\ Shown
    <2> SUFFICES ASSUME Init PROVE WithoutKeys /\ Rowing /\ Shown
      OBVIOUS
    <2>1. /\ reader = Nobody /\ pager = PagerOff /\ note_open = FALSE /\ row = EmptyRow
          /\ todo = Lines(2)
      BY DEF Init
    <2>2. Len(todo) = 2 /\ \A i \in 1..2 : todo[i] = "line"
      <3>1. 2 \in Nat
        OBVIOUS
      <3> QED
        BY <2>1, <3>1, LinesAre
    <2>3. WithoutKeys
      BY <2>1, <2>2, PagerOffIs DEF WithoutKeys
    <2> QED
      BY <2>1, <2>3 DEF Rowing, Shown, Nobody
  <1>2. TypeInv /\ WithoutKeys /\ Rowing /\ Shown /\ [Next]_vars
        => (WithoutKeys /\ Rowing /\ Shown)'
    BY WithoutKeysNext, RowingNext, ShownNext
  <1>3. TypeInv /\ Shown => ShownIsBuffer
    <2> DEFINE line == Prompt("prompt") \o input.text
               left == SubSeq(row.cells, 1, row.col)
    <2> SUFFICES ASSUME TypeInv, Showing(row, input.text)
                 PROVE  /\ row.col = Len(line) /\ left = line
                        /\ \A i \in row.col + 1 .. Len(row.cells) : row.cells[i] = Blank
      BY DEF Shown, ShownIsBuffer
    <2>1. /\ input.text \in Seq(Char) /\ Len(input.text) \in Nat
          /\ row.cells \in Seq(Cell) /\ row.col \in Nat /\ row.col <= Len(row.cells)
          /\ Len(row.cells) \in Nat /\ row.col = 2 + Len(input.text)
      BY TypeIs, LenProperties DEF TypeInv, TypeOK, IsRow, Showing
    <2>2. input.text \in Seq(Cell) /\ Prompt("prompt") \in Seq(Cell)
      <3>1. Char \subseteq Cell
        BY DEF Cell
      <3> QED
        BY <2>1, <3>1, SeqMonotonic, PromptIs DEF Readers
    <2>3. /\ line \in Seq(Cell) /\ Len(line) = 2 + Len(input.text)
          /\ \A i \in 1 .. 2 + Len(input.text) :
               line[i] = IF i <= 2 THEN Prompt("prompt")[i] ELSE input.text[i - 2]
      BY <2>2, LineIs
    <2>4. left \in Seq(Cell) /\ Len(left) = row.col /\ \A i \in 1..row.col : left[i] = row.cells[i]
      <3>1. \A i \in 1..row.col : row.cells[i] \in Cell
        BY <2>1, ElementOfSeq
      <3>2. 1 \in Int /\ row.col \in Int /\ 1 <= row.col
        BY <2>1
      <3>3. /\ left \in Seq(Cell) /\ Len(left) = IF 1 <= row.col THEN row.col - 1 + 1 ELSE 0
            /\ \A i \in 1 .. row.col - 1 + 1 : left[i] = row.cells[1 + i - 1]
        BY <3>1, <3>2, SubSeqProperties
      <3> HIDE DEF left
      <3> QED
        BY <3>2, <3>3
    <2> HIDE DEF line, left
    <2>5. ASSUME NEW i \in 1..Len(left) PROVE left[i] = line[i]
      <3>1. left[i] = row.cells[i]
        BY <2>4
      <3>2. CASE i <= 2
        <4>1. i \in {1, 2} /\ i \in 1 .. 2 + Len(input.text)
          BY <2>1, <2>4, <3>2
        <4>2. line[i] = Prompt("prompt")[i]
          BY <2>3, <3>2, <4>1
        <4>3. row.cells[1] = Mark /\ row.cells[2] = Blank
          BY DEF Showing
        <4> QED
          BY <3>1, <4>1, <4>2, <4>3, PromptIs
      <3>3. CASE ~(i <= 2)
        <4>1. i - 2 \in 1..Len(input.text) /\ (i - 2) + 2 = i /\ i \in 1 .. 2 + Len(input.text)
          BY <2>1, <2>4, <3>3
        <4>2. row.cells[(i - 2) + 2] = input.text[i - 2]
          BY <4>1 DEF Showing
        <4>3. line[i] = input.text[i - 2]
          BY <2>3, <3>3, <4>1
        <4> QED
          BY <3>1, <4>1, <4>2, <4>3
      <3> QED
        BY <3>2, <3>3
    <2>6. left = line
      <3>1. Len(left) = Len(line)
        BY <2>1, <2>3, <2>4
      <3> QED
        BY <2>3, <2>4, <2>5, <3>1, SeqEqual
    <2> QED
      BY <2>1, <2>3, <2>6 DEF Showing
  <1> QED
    BY <1>1, <1>2, <1>3, TypeKept, PTL DEF Spec

\* uefi_history_push keeps the last lines entered, whatever the reader, without
\* empty lines and repetitions, and drops the oldest when there are too many.
THEOREM HistoryAlwaysRecent == Spec => []HistoryIsRecent
  <1>1. Init => LastEntered /\ Placed
    <2> SUFFICES ASSUME Init PROVE LastEntered /\ Placed
      OBVIOUS
    <2>1. history = <<>> /\ Len(history) = 0 /\ Len(entered) = 0
      BY DEF Init
    <2>2. LastEntered
      BY <2>1 DEF LastEntered
    <2>3. Places([n \in 1..Len(history) |-> n])
      BY <2>1 DEF Places
    <2> QED
      BY <2>2, <2>3 DEF Placed
  <1>2. TypeInv /\ LastEntered /\ Placed /\ [Next]_vars => (LastEntered /\ Placed)'
    BY LastEnteredNext, PlacedNext
  <1>3. TypeInv /\ Placed => HistoryIsRecent
    <2> SUFFICES ASSUME TypeInv, NEW at, Places(at)
                 PROVE  \E a \in [DOMAIN history -> {i \in DOMAIN entered : Fresh(i)}] :
                          /\ \A m, n \in DOMAIN history : m < n => a[m] < a[n]
                          /\ \A n \in DOMAIN history : history[n] = entered[a[n]].text
                          /\ \A i \in DOMAIN entered : Fresh(i) =>
                               \/ \E n \in DOMAIN history : a[n] = i
                               \/ Len(history) = HISTORY_MAX /\ i < a[1]
      BY DEF Placed, HistoryIsRecent
    <2>1. DOMAIN history = 1..Len(history) /\ DOMAIN entered = 1..Len(entered)
      BY HistoryIs
    <2>2. at \in [DOMAIN history -> {i \in DOMAIN entered : Fresh(i)}]
      BY <2>1 DEF Places
    <2> QED
      BY <2>1, <2>2 DEF Places
  <1> QED
    BY <1>1, <1>2, <1>3, TypeKept, PTL DEF Spec

-----------------------------------------------------------------------------
(* Induction and recursion along 0..n *)

LEMMA LeastNumber ==
  ASSUME NEW T, T \subseteq Nat, T # {}
  PROVE  \E x \in T : \A y \in T : x <= y
  <1> DEFINE R == OpToRel(<, Nat)
  <1>1. IsWellFoundedOn(R, Nat)
    BY NatLessThanWellFounded
  <1>2. \A x, y \in Nat : <<x, y>> \in R <=> x < y
    BY DEF OpToRel
  <1> HIDE DEF R
  <1>3. PICK x \in T : \A y \in T : ~ (<<y, x>> \in R)
    BY <1>1, WFMin
  <1>4. \A y \in T : ~ (y < x)
    BY <1>2, <1>3
  <1> QED
    BY <1>3, <1>4

LEMMA Induction ==
  ASSUME NEW n \in Nat, NEW S, 0 \in S,
         \A i \in 0..n : i < n /\ i \in S => i + 1 \in S
  PROVE  0..n \subseteq S
  <1> DEFINE Bad == (0..n) \ S
  <1>1. ASSUME Bad # {} PROVE FALSE
    <2>1. Bad \subseteq Nat
      OBVIOUS
    <2> HIDE DEF Bad
    <2>2. PICK m \in Bad : \A k \in Bad : m <= k
      BY <1>1, <2>1, LeastNumber
    <2>3. m \in 0..n /\ m \notin S /\ m # 0
      BY DEF Bad
    <2>4. m - 1 \in 0..n /\ ~ (m <= m - 1) /\ m - 1 < n /\ (m - 1) + 1 = m
      BY <2>3
    <2>5. m - 1 \in S
      BY <2>2, <2>4 DEF Bad
    <2> QED
      BY <2>3, <2>4, <2>5
  <1> QED
    BY <1>1

\* f is defined step by step: f[i] from f[i - 1].
Recursion(f, n, X, base, step) ==
  /\ f \in [0..n -> X] /\ f[0] = base
  /\ \A i \in 1..n : f[i] = step[i][f[i - 1]]

LEMMA RecursionExists ==
  ASSUME NEW n \in Nat, NEW X, NEW base \in X, NEW step \in [1..n -> [X -> X]]
  PROVE  \E f : Recursion(f, n, X, base, step)
  <1> DEFINE S == {m \in 0..n : \E f : Recursion(f, m, X, base, step)}
  <1>1. 0 \in S
    <2>1. Recursion([i \in 0..0 |-> base], 0, X, base, step)
      BY DEF Recursion
    <2> QED
      BY <2>1
  <1>2. ASSUME NEW m \in 0..n, m < n, m \in S
        PROVE  m + 1 \in S
    <2>1. PICK f : Recursion(f, m, X, base, step)
      BY <1>2
    <2>2. m + 1 \in 1..n /\ f[m] \in X
      BY <1>2, <2>1 DEF Recursion
    <2>3. step[m + 1][f[m]] \in X
      BY <2>2
    <2> DEFINE g == [i \in 0..(m + 1) |-> IF i = m + 1 THEN step[m + 1][f[m]] ELSE f[i]]
    <2>4. g \in [0..(m + 1) -> X]
      BY <2>1, <2>3 DEF Recursion
    <2>5. g[0] = base
      BY <2>1 DEF Recursion
    <2>6. ASSUME NEW i \in 1..(m + 1) PROVE g[i] = step[i][g[i - 1]]
      <3>1. CASE i = m + 1
        BY <3>1
      <3>2. CASE i # m + 1
        <4>1. i \in 1..m /\ i - 1 \in 0..m
          BY <3>2
        <4>2. f[i] = step[i][f[i - 1]]
          BY <2>1, <4>1 DEF Recursion
        <4> QED
          BY <3>2, <4>1, <4>2
      <3> QED
        BY <3>1, <3>2
    <2>7. Recursion(g, m + 1, X, base, step)
      BY <2>4, <2>5, <2>6 DEF Recursion
    <2> QED
      BY <2>2, <2>7
  <1>3. 0..n \subseteq S
    <2> HIDE DEF S
    <2> QED
      BY <1>1, <1>2, Induction
  <1> QED
    BY <1>3

-----------------------------------------------------------------------------
(* The port of "ai connect" *)

PortBounds == BASE \in Nat /\ 1 <= BASE /\ MAX_PORT \in Nat /\ WRAP \in Nat /\ 1 <= WRAP

LEMMA PortBoundsHold == PortBounds /\ MAX_PORT * BASE + BASE <= WRAP /\ Ports \subseteq Seq(0..BASE)
  BY PortsAssumption DEF PortBounds

\* The number of PortMeant and the value of ParsedPort, after each digit.
Number(digits) ==
  LET number[i \in 0..Len(digits)] ==
        IF i = 0 THEN 0 ELSE number[i - 1] * BASE + digits[i]
  IN  number

Value(digits) ==
  LET Refused == -1
      value[i \in 0..Len(digits)] ==
        IF i = 0 THEN 0
        ELSE LET next == (value[i - 1] * BASE + digits[i]) % WRAP
             IN  IF value[i - 1] = Refused \/ digits[i] >= BASE \/ next > MAX_PORT
                 THEN Refused ELSE next
  IN  value

LEMMA NumberIs ==
  ASSUME NEW digits \in Seq(0..BASE)
  PROVE  /\ Number(digits) \in [0..Len(digits) -> Nat]
         /\ Number(digits)[0] = 0
         /\ \A i \in 1..Len(digits) :
              Number(digits)[i] = Number(digits)[i - 1] * BASE + digits[i]
  <1> DEFINE n == Len(digits)
             step == [i \in 1..n |-> [v \in Nat |-> v * BASE + digits[i]]]
  <1>1. n \in Nat /\ BASE \in Nat
    BY PortBoundsHold DEF PortBounds
  <1>2. \A i \in 1..n : digits[i] \in Nat
    BY <1>1
  <1>3. ASSUME NEW i \in 1..n, NEW v \in Nat PROVE v * BASE + digits[i] \in Nat
    BY <1>1, <1>2
  <1>4. step \in [1..n -> [Nat -> Nat]]
    BY <1>3
  <1>5. PICK f : Recursion(f, n, Nat, 0, step)
    <2>1. 0 \in Nat
      OBVIOUS
    <2> HIDE DEF step, n
    <2> QED
      BY <1>1, <1>4, <2>1, RecursionExists
  <1>6. ASSUME NEW i \in 1..n PROVE f[i] = f[i - 1] * BASE + digits[i]
    <2>1. f \in [0..n -> Nat] /\ i - 1 \in 0..n
      BY <1>1, <1>5 DEF Recursion
    <2>2. step[i][f[i - 1]] = f[i - 1] * BASE + digits[i]
      BY <2>1
    <2> QED
      BY <1>5, <2>2 DEF Recursion
  <1>7. f = [i \in 0..n |-> IF i = 0 THEN 0 ELSE f[i - 1] * BASE + digits[i]]
    BY <1>5, <1>6 DEF Recursion
  <1>8. Number(digits) = [i \in 0..n |-> IF i = 0 THEN 0
                                         ELSE Number(digits)[i - 1] * BASE + digits[i]]
    BY <1>7, Zenon DEF Number
  <1> HIDE DEF step
  <1>9. Number(digits)[0] = 0
    BY <1>1, <1>8
  <1>10. ASSUME NEW i \in 1..n
         PROVE  Number(digits)[i] = Number(digits)[i - 1] * BASE + digits[i]
    BY <1>1, <1>8
  <1> DEFINE S == {i \in 0..n : Number(digits)[i] \in Nat}
  <1>11. ASSUME NEW i \in 0..n, i < n, i \in S PROVE i + 1 \in S
    <2>1. i + 1 \in 1..n /\ (i + 1) - 1 = i
      BY <1>1, <1>11
    <2>2. Number(digits)[i + 1] = Number(digits)[i] * BASE + digits[i + 1]
      BY <1>10, <2>1
    <2>3. Number(digits)[i] \in Nat
      BY <1>11
    <2>4. Number(digits)[i] * BASE + digits[i + 1] \in Nat
      BY <1>3, <2>1, <2>3
    <2> QED
      BY <2>1, <2>2, <2>4
  <1>12. 0 \in S
    BY <1>1, <1>9
  <1>13. 0..n \subseteq S
    <2> HIDE DEF S, n
    <2> QED
      BY <1>1, <1>11, <1>12, Induction
  <1>14. Number(digits) \in [0..n -> Nat]
    BY <1>8, <1>13
  <1> QED
    BY <1>9, <1>10, <1>14

LEMMA ValueIs ==
  ASSUME NEW digits \in Seq(0..BASE)
  PROVE  /\ Value(digits)[0] = 0
         /\ \A i \in 1..Len(digits) :
              LET v    == Value(digits)[i - 1]
                  next == (v * BASE + digits[i]) % WRAP
              IN  Value(digits)[i] = IF v = -1 \/ digits[i] >= BASE \/ next > MAX_PORT
                                     THEN -1 ELSE next
  <1> DEFINE n == Len(digits)
             next(v, i) == (v * BASE + digits[i]) % WRAP
             e(v, i) == IF v = -1 \/ digits[i] >= BASE \/ next(v, i) > MAX_PORT
                        THEN -1 ELSE next(v, i)
             step == [i \in 1..n |-> [v \in Int |-> e(v, i)]]
  <1>1. n \in Nat /\ PortBounds
    BY PortBoundsHold
  <1>2. \A i \in 1..n : digits[i] \in Int
    BY <1>1 DEF PortBounds
  <1>3. ASSUME NEW i \in 1..n, NEW v \in Int PROVE e(v, i) \in Int
    BY <1>1, <1>2 DEF PortBounds
  <1> HIDE DEF e
  <1>4. step \in [1..n -> [Int -> Int]]
    BY <1>3
  <1>5. PICK f : Recursion(f, n, Int, 0, step)
    <2>1. 0 \in Int
      OBVIOUS
    <2> HIDE DEF step, n
    <2> QED
      BY <1>1, <1>4, <2>1, RecursionExists
  <1>6. ASSUME NEW i \in 1..n PROVE f[i] = e(f[i - 1], i)
    <2>1. f \in [0..n -> Int] /\ i - 1 \in 0..n
      BY <1>1, <1>5 DEF Recursion
    <2>2. step[i][f[i - 1]] = e(f[i - 1], i)
      BY <2>1
    <2> QED
      BY <1>5, <2>2 DEF Recursion
  <1>7. f = [i \in 0..n |-> IF i = 0 THEN 0 ELSE e(f[i - 1], i)]
    BY <1>5, <1>6 DEF Recursion
  <1>8. Value(digits) = [i \in 0..n |-> IF i = 0 THEN 0 ELSE e(Value(digits)[i - 1], i)]
    BY <1>7, Zenon DEF Value, e
  <1>9. Value(digits)[0] = 0
    BY <1>1, <1>8
  <1>10. ASSUME NEW i \in 1..n PROVE Value(digits)[i] = e(Value(digits)[i - 1], i)
    BY <1>1, <1>8
  <1> QED
    BY <1>9, <1>10 DEF e

\* ParsedPort goes on with the number as long as it is one that is meant.
LEMMA ValueIsNumber ==
  ASSUME NEW digits \in Seq(0..BASE), NEW i \in 0..Len(digits)
  PROVE  Value(digits)[i] =
           IF (\A j \in 1..i : digits[j] < BASE) /\ Number(digits)[i] <= MAX_PORT
           THEN Number(digits)[i] ELSE -1
  <1> DEFINE n == Len(digits)
             N == Number(digits)
             V == Value(digits)
             Meant(k) == (\A j \in 1..k : digits[j] < BASE) /\ N[k] <= MAX_PORT
             S == {k \in 0..n : V[k] = IF Meant(k) THEN N[k] ELSE -1}
  <1>1. n \in Nat /\ PortBounds /\ MAX_PORT * BASE + BASE <= WRAP
    BY PortBoundsHold
  <1>2. N \in [0..n -> Nat] /\ N[0] = 0
    BY NumberIs
  <1>3. V[0] = 0
    BY ValueIs
  <1>4. 0 \in S
    BY <1>1, <1>2, <1>3 DEF PortBounds
  <1>5. ASSUME NEW k \in 0..n, k < n, k \in S PROVE k + 1 \in S
    <2> DEFINE d == digits[k + 1]
               next == (V[k] * BASE + d) % WRAP
    <2>1. k + 1 \in 1..n /\ (k + 1) - 1 = k /\ d \in Nat /\ d <= BASE
      BY <1>1, <1>5 DEF PortBounds
    <2>2. N[k + 1] = N[k] * BASE + d /\ N[k] \in Nat
      BY <1>2, <2>1, NumberIs
    <2>3. V[k + 1] = IF V[k] = -1 \/ d >= BASE \/ next > MAX_PORT THEN -1 ELSE next
      BY <2>1, ValueIs
    <2>4. V[k] = IF Meant(k) THEN N[k] ELSE -1
      BY <1>5
    <2>5. Meant(k + 1) <=> (\A j \in 1..k : digits[j] < BASE) /\ d < BASE /\ N[k + 1] <= MAX_PORT
      <3>1. 1..(k + 1) = (1..k) \union {k + 1}
        BY <2>1
      <3> QED
        BY <3>1
    <2>6. N[k] * BASE \in Nat /\ N[k] <= N[k] * BASE
      BY <1>1, <2>2 DEF PortBounds
    <2> HIDE DEF N, V, n, d
    <2>7. CASE Meant(k) /\ d < BASE
      <3>1. V[k] = N[k] /\ V[k] <= MAX_PORT
        BY <2>4, <2>7
      <3>2. N[k] * BASE <= MAX_PORT * BASE
        BY <1>1, <2>2, <2>7 DEF PortBounds
      <3>3. N[k + 1] \in 0..(WRAP - 1)
        BY <1>1, <2>1, <2>2, <2>6, <2>7, <3>2 DEF PortBounds
      <3>4. next = N[k + 1]
        <4>1. N[k + 1] \in Nat /\ WRAP \in Nat /\ N[k + 1] < WRAP
          BY <1>1, <3>3 DEF PortBounds
        <4>2. N[k + 1] % WRAP = N[k + 1]
          BY <4>1, NoWrap
        <4> QED
          BY <2>2, <3>1, <4>2
      <3>5. V[k + 1] = IF N[k + 1] > MAX_PORT THEN -1 ELSE N[k + 1]
        BY <2>1, <2>2, <2>3, <2>7, <3>1, <3>4, <1>1 DEF PortBounds
      <3>6. V[k + 1] = IF Meant(k + 1) THEN N[k + 1] ELSE -1
        BY <1>1, <2>5, <2>7, <3>3, <3>5 DEF PortBounds
      <3> QED
        BY <1>1, <2>1, <3>6
    <2>8. CASE ~ (Meant(k) /\ d < BASE)
      <3>1. V[k + 1] = -1
        BY <1>1, <2>1, <2>3, <2>4, <2>8 DEF PortBounds
      <3>2. ~ Meant(k + 1)
        BY <1>1, <2>1, <2>2, <2>5, <2>6, <2>8 DEF PortBounds
      <3> QED
        BY <1>1, <2>1, <3>1, <3>2
    <2> QED
      BY <2>7, <2>8
  <1>6. 0..n \subseteq S
    <2> HIDE DEF S, n
    <2> QED
      BY <1>1, <1>4, <1>5, Induction
  <1> QED
    BY <1>6

LEMMA ParsedIsMeant ==
  ASSUME NEW digits \in Ports
  PROVE  ParsedPort(digits) = PortMeant(digits) /\ PortMeant(digits) \in 0..MAX_PORT
  <1> DEFINE n == Len(digits)
             number == Number(digits)[n]
             value == Value(digits)[n]
             Valid == (\A i \in DOMAIN digits : digits[i] < BASE) /\ number <= MAX_PORT
  <1>1. digits \in Seq(0..BASE) /\ n \in Nat /\ DOMAIN digits = 1..n /\ MAX_PORT \in Nat
    BY PortBoundsHold DEF PortBounds
  <1>2. ParsedPort(digits) = IF value = -1 THEN 0 ELSE value
    BY Zenon DEF ParsedPort, Value
  <1>3. PortMeant(digits) = IF Valid THEN number ELSE 0
    BY Zenon DEF PortMeant, Number
  <1>4. number \in Nat
    BY <1>1, NumberIs
  <1>5. value = IF Valid THEN number ELSE -1
    BY <1>1, ValueIsNumber
  <1> HIDE DEF Valid, number, value
  <1>6. Valid => number <= MAX_PORT
    BY DEF Valid
  <1> QED
    BY <1>1, <1>2, <1>3, <1>4, <1>5, <1>6

\* A command line that is not a connect keeps the endpoint or drops it.
LEMMA EndpointDelivered ==
  ASSUME EndpointIsLastValid, NEW line, Delivered(line)
  PROVE  EndpointIsLastValid'
  <1>1. MAX_PORT \in Nat
    BY PortBoundsHold DEF PortBounds
  <1>2. CASE UNCHANGED <<endpoint, asked>>
    BY <1>2 DEF EndpointIsLastValid
  <1>3. ASSUME NEW digits \in Ports, Connect(digits)
        PROVE  EndpointIsLastValid'
    BY <1>3, ParsedIsMeant DEF Connect, EndpointIsLastValid
  <1>4. CASE Disconnect
    BY <1>1, <1>4 DEF Disconnect, EndpointIsLastValid
  <1>5. ASSUME NEW l, Dispatch(l) PROVE EndpointIsLastValid'
    BY <1>2, <1>3, <1>4, <1>5 DEF Dispatch, Run
  <1>6. ASSUME TakeCommand(line) PROVE EndpointIsLastValid'
    BY <1>2, <1>5, <1>6 DEF TakeCommand, Run
  <1>7. ASSUME TakeNote PROVE EndpointIsLastValid'
    BY <1>2, <1>7 DEF TakeNote, Run
  <1> QED
    BY <1>2, <1>6, <1>7 DEF Delivered

\* parse_uint_port takes a text for the number it is, however long: no number that
\* is too large comes out small when it wraps around; a connect it refuses keeps
\* the endpoint of the last one (ai_gateway_connect).
THEOREM EndpointAlwaysLastValid == Spec => []EndpointIsLastValid
  <1>1. Init => EndpointIsLastValid
    BY PortBoundsHold DEF Init, EndpointIsLastValid, PortBounds
  <1>2. EndpointIsLastValid /\ [Next]_vars => EndpointIsLastValid'
    <2> SUFFICES ASSUME EndpointIsLastValid, [Next]_vars PROVE EndpointIsLastValid'
      OBVIOUS
    <2>1. ASSUME UNCHANGED <<endpoint, asked>> PROVE EndpointIsLastValid'
      BY <2>1 DEF EndpointIsLastValid
    <2>2. ASSUME PrintLine \/ ClearScreen \/ OpenEditor \/ StopLoop PROVE EndpointIsLastValid'
      BY <2>1, <2>2 DEF PrintLine, ClearScreen, OpenEditor, StopLoop, seen
    <2>3. ASSUME AskForNote \/ AskForCommand \/ ReadFails PROVE EndpointIsLastValid'
      BY <2>1, <2>3 DEF AskForNote, AskForCommand, ReadFails, work, seen
    <2>4. ASSUME (\E c \in Char : TypeChar(c)) \/ EraseChar \/ RecallOlder \/ RecallNewer
          PROVE  EndpointIsLastValid'
      BY <2>1, <2>4 DEF TypeChar, EraseChar, RecallOlder, RecallNewer, Recall, work, seen
    <2>5. ASSUME (\E c \in Key \union {NewLine} : Supply(c)) \/ CloseInput
          PROVE  EndpointIsLastValid'
      BY <2>1, <2>5 DEF Supply, CloseInput, work, seen
    <2>6. ASSUME ReadLine \/ PressEnter PROVE EndpointIsLastValid'
      BY <2>6, EndpointDelivered DEF ReadLine, PressEnter
    <2>7. CASE UNCHANGED vars
      BY <2>1, <2>7 DEF vars, work, seen
    <2> QED
      BY <2>2, <2>3, <2>4, <2>5, <2>6, <2>7 DEF Next, Step, Operator
  <1> QED
    BY <1>1, <1>2, PTL DEF Spec
=============================================================================
