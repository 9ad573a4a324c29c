------------------------------ MODULE Console ------------------------------
(***************************************************************************)
(* The console: the line readers of the two builds, the history and the    *)
(* screen row of the UEFI reader, the pager of kernel/console.c, the       *)
(* command loop of kernel/command_core.c and the places where the note     *)
(* editor and the pager read lines of their own from the same keyboard.    *)
(*                                                                         *)
(* A command is what it does to the console: how often it calls            *)
(* console_write_line, the screen it clears, the editor it opens, the      *)
(* endpoint it stores, the end of the session. Which text spells which     *)
(* command is left open, and so is whether a handler succeeds, so that a   *)
(* failed command that goes on to the emergency flow is one that makes     *)
(* more calls. What is printed is left open too: the text of one call may  *)
(* be a whole file of many lines. What a note or the storage keeps is in   *)
(* NoteEditor and Storage.                                                 *)
(***************************************************************************)
EXTENDS Integers, Sequences, SequencesExt

CONSTANTS
  Char,          \* the characters uefi_allowed_input_char accepts, but the blank
  LINE_MAX,      \* VITA_CONSOLE_LINE_MAX, the buffer of the loop and the editor
  WAIT_MAX,      \* the buffer the pager reads into
  HISTORY_MAX,   \* VITA_CONSOLE_HISTORY_MAX
  COLUMNS,       \* the columns of the screen: a row that is full goes on in the next
  PAGE_LINES,    \* VITA_CONSOLE_PAGE_LINES_DEFAULT
  Outputs,       \* how many calls of console_write_line a command may make
  Ports,         \* the ports an operator may type: sequences of digits
  BASE,          \* the number of digits; a larger number is another character
  MAX_PORT,      \* 65535
  WRAP,          \* 2 to the width of unsigned int
  MAX_READS,     \* bound: lines entered
  MAX_CELLS,     \* bound: cells in a row in which a line is recalled
  MAX_STDIN      \* bound: characters waiting in the hosted input

ASSUME BuffersAssumption ==
  /\ {LINE_MAX, WAIT_MAX, HISTORY_MAX, COLUMNS, PAGE_LINES} \subseteq Nat \ {0}
  /\ 2 <= WAIT_MAX /\ WAIT_MAX <= LINE_MAX
  /\ Outputs \subseteq Nat
ASSUME PortsAssumption ==
  /\ {BASE, MAX_PORT, WRAP} \subseteq Nat \ {0}
  /\ Ports \subseteq Seq(0..BASE)
  /\ MAX_PORT * BASE + BASE <= WRAP

VARIABLES
  build,       \* the reader bound at boot: "uefi" or "hosted"
  closed,      \* no con_in, or the end of the hosted input
  stdin,       \* what the hosted reader has not read yet
  reader,      \* who waits in console_read_line: Nobody, or one of Readers
  input,       \* the line being typed, last_drawn_len and history_cursor
  history,     \* g_history
  row,         \* the cells since the last line break, and how many precede the cursor
  pager,       \* g_pager_enabled and g_pager_line_count
  todo,        \* the steps of the running command that are left
  note_open,   \* editor_run is in its loop
  stopped,     \* command_loop_run has returned
  endpoint,    \* g_ai_port; 0 if no endpoint is configured
  entered,     \* history: the lines entered, and who read each
  opened,      \* history: how many lines had been entered when the editor opened
  unpaged,     \* history: no page is counted: greeting, editor, completion list
  unread,      \* history: calls of console_write_line since the operator was last waited for
  asked        \* history: the port of the last valid connect, 0 after a disconnect

keyboard == <<closed, stdin>>
screen   == <<input, row>>
work     == <<pager, todo, note_open, stopped, endpoint>>
seen     == <<opened, unpaged, unread, asked>>
vars     == <<build, keyboard, reader, screen, history, work, entered, seen>>

Nobody  == "nobody"
Readers == {"prompt", "pager", "editor"}
NewLine == "newline"
Tab     == "tab"
Blank   == "blank"
Mark    == ">"
Key     == Char \union {Tab}
Steps   == {"line", "clear", "edit", "stop"}   \* "line": a call of console_write_line

Cap(r)  == IF r = "pager" THEN WAIT_MAX ELSE LINE_MAX
Some(n, what) == [i \in 1..n |-> what]
Lines(n) == Some(n, "line")

NoInput  == [text |-> <<>>, drawn |-> 0, recalled |-> 0]
EmptyRow == [cells |-> <<>>, col |-> 0]
PagerOff == [on |-> FALSE, count |-> 0]
PagerOn  == [on |-> TRUE, count |-> 0]

Prompt(r) == CASE r = "prompt" -> <<Mark, Blank>>
               [] r = "editor" -> <<"edit", Mark, Blank>>
               [] r = "pager"  -> <<"more", "more", "more">>

-----------------------------------------------------------------------------
(* What the UEFI console shows of a line: a sequence of cells that takes    *)
(* COLUMNS of them to a screen row. The cursor wraps on output; '\r' and    *)
(* '\b' do not leave the screen row it is in.                               *)

Put(r, text) ==
  LET end == r.col + Len(text)
  IN  [cells |-> [i \in 1..(IF end > Len(r.cells) THEN end ELSE Len(r.cells)) |->
                    IF i \in r.col + 1 .. end THEN text[i - r.col] ELSE r.cells[i]],
       col   |-> end]

Return(r) == [r EXCEPT !.col = @ - (@ % COLUMNS)]

Back(r, n) == [r EXCEPT !.col = @ - (IF n < @ % COLUMNS THEN n ELSE @ % COLUMNS)]

(* uefi_redraw_input *)
Redrawn(r, old, text) ==
  LET gap == IF old > Len(text) THEN old - Len(text) ELSE 0
  IN  Back(Put(Return(r), Prompt("prompt") \o text \o Some(gap, Blank)), gap)

(* Mutant of Pushed: a full history is not shifted. *)
PushedOverLast(h, line) ==
  IF line = <<>> \/ (h # <<>> /\ Last(h) = line) THEN h
  ELSE IF Len(h) < HISTORY_MAX THEN Append(h, line)
  ELSE [h EXCEPT ![HISTORY_MAX] = line]

(* uefi_history_push *)
Pushed(h, line) ==
  IF line = <<>> \/ (h # <<>> /\ Last(h) = line) THEN h
  ELSE IF Len(h) < HISTORY_MAX THEN Append(h, line)
  ELSE Append(Tail(h), line)

-----------------------------------------------------------------------------
(* The port of "ai connect": 0 stands for a refusal. *)

(* Mutant of ParsedPort: the value is looked at when all digits are read. *)
ParsedPortLate(digits) ==
  LET value[i \in 0..Len(digits)] ==
        IF i = 0 THEN 0 ELSE (value[i - 1] * BASE + digits[i]) % WRAP
      port == value[Len(digits)]
  IN  IF (\E i \in DOMAIN digits : digits[i] >= BASE) \/ port > MAX_PORT THEN 0 ELSE port

ParsedPort(digits) ==
  LET Refused == -1
      value[i \in 0..Len(digits)] ==
        IF i = 0 THEN 0
        ELSE LET next == (value[i - 1] * BASE + digits[i]) % WRAP
             IN  IF value[i - 1] = Refused \/ digits[i] >= BASE \/ next > MAX_PORT
                 THEN Refused ELSE next
  IN  IF value[Len(digits)] = Refused THEN 0 ELSE value[Len(digits)]

(* What the usage line promises: a number of decimal digits in 1..65535. *)
PortMeant(digits) ==
  LET number[i \in 0..Len(digits)] ==
        IF i = 0 THEN 0 ELSE number[i - 1] * BASE + digits[i]
  IN  IF (\A i \in DOMAIN digits : digits[i] < BASE) /\ number[Len(digits)] <= MAX_PORT
      THEN number[Len(digits)] ELSE 0

-----------------------------------------------------------------------------
Init ==
  /\ build \in {"uefi", "hosted"}
  /\ closed \in (IF build = "uefi" THEN BOOLEAN ELSE {FALSE})
  /\ stdin = <<>> /\ reader = Nobody
  /\ input = NoInput /\ row = EmptyRow /\ history = <<>>
  /\ pager = PagerOff /\ todo = Lines(2)
  /\ note_open = FALSE /\ stopped = FALSE /\ endpoint = 0
  /\ entered = <<>> /\ opened = 0 /\ unpaged = TRUE /\ unread = 0 /\ asked = 0

Idle == reader = Nobody /\ ~stopped

(* console_read_line by r: the prompt is written after what stands in the   *)
(* row, and the reader waits.                                               *)
Ask(r, before) ==
  /\ reader' = r
  /\ input' = [NoInput EXCEPT !.recalled = Len(history)]
  /\ row' = IF build = "uefi" THEN Put(before, Prompt(r)) ELSE before

(* Mutant of PageFull: one line more. *)
PageFullLate == pager.count >= PAGE_LINES

PageFull == pager.count + 1 >= PAGE_LINES

(* One call of console_write_line, and the pager after it: a call counts as *)
(* one line, whatever its text shows, also when it is a whole file          *)
(* (storage_command_read, journal_show_last_session_file) or wraps.         *)
PrintLine ==
  /\ Idle /\ todo # <<>> /\ Head(todo) = "line"
  /\ todo' = Tail(todo)
  /\ unread' = unread + 1
  /\ pager' = IF pager.on THEN [pager EXCEPT !.count = @ + 1] ELSE pager
  /\ \/ /\ pager.on /\ PageFull /\ Ask("pager", EmptyRow)
     \/ /\ ~(pager.on /\ PageFull)
        /\ row' = EmptyRow /\ UNCHANGED <<reader, input>>
  /\ UNCHANGED <<build, keyboard, history, note_open, stopped, endpoint,
                 entered, opened, unpaged, asked>>

(* console_clear_screen with the clear function both builds bind. *)
ClearScreen ==
  /\ Idle /\ todo # <<>> /\ Head(todo) = "clear"
  /\ todo' = Tail(todo)
  /\ pager' = [pager EXCEPT !.count = 0]
  /\ row' = EmptyRow /\ unread' = 0
  /\ UNCHANGED <<build, keyboard, reader, input, history, note_open, stopped,
                 endpoint, entered, opened, unpaged, asked>>

(* Mutant of EditorPager: the pager stays as the loop has set it. *)
EditorPagerKept == pager' = pager

EditorPager == pager' = PagerOff

(* editor_run up to its loop: the pager is off while a note is edited. *)
OpenEditor ==
  /\ Idle /\ todo # <<>> /\ Head(todo) = "edit"
  /\ todo' = Tail(todo)
  /\ EditorPager
  /\ note_open' = TRUE /\ unpaged' = TRUE /\ opened' = Len(entered)
  /\ UNCHANGED <<build, keyboard, reader, screen, history, stopped, endpoint,
                 entered, unread, asked>>

AskForNote ==
  /\ Idle /\ todo = <<>> /\ note_open
  /\ Ask("editor", row)
  /\ UNCHANGED <<build, keyboard, history, work, entered, seen>>

(* The end of a command: console_pager_end, and the prompt again. *)
AskForCommand ==
  /\ Idle /\ todo = <<>> /\ ~note_open
  /\ pager' = PagerOff /\ unpaged' = FALSE /\ unread' = 0
  /\ Ask("prompt", row)
  /\ UNCHANGED <<build, keyboard, history, todo, note_open, stopped, endpoint,
                 entered, opened, asked>>

StopLoop ==
  /\ Idle /\ todo # <<>> /\ Head(todo) = "stop"
  /\ todo' = <<>> /\ pager' = PagerOff /\ stopped' = TRUE
  /\ UNCHANGED <<build, keyboard, reader, screen, history, note_open, endpoint,
                 entered, seen>>

-----------------------------------------------------------------------------
(* What a command does, once its handler runs. *)

Run(steps) == todo' = steps /\ UNCHANGED <<endpoint, asked>>

Connect(digits) ==
  /\ endpoint' = IF ParsedPort(digits) = 0 THEN endpoint ELSE ParsedPort(digits)
  /\ asked' = IF PortMeant(digits) = 0 THEN asked ELSE PortMeant(digits)
  /\ todo' = Lines(2)

Disconnect == endpoint' = 0 /\ asked' = 0 /\ todo' = Lines(1)

(* command_handle_line, with the pager on. *)
Dispatch(line) ==
  /\ pager' = PagerOn
  /\ UNCHANGED <<note_open, stopped, unpaged>>
  /\ \/ line = <<>> /\ Run(<<>>)
     \/ /\ line # <<>>
        /\ \/ \E n \in Outputs : Run(Lines(n))
           \/ \E n \in Outputs : Run(<<"clear">> \o Lines(n))
           \/ \E n \in Outputs : Run(Lines(1) \o <<"edit">> \o Lines(n))
           \/ \E digits \in Ports : Connect(digits)
           \/ Disconnect
           \/ Run(<<"line", "stop">>)

(* A line of the prompt. console_autocomplete_line answers one with a TAB:  *)
(* it lists what it knows, with the pager off, or puts its only match in    *)
(* the place of the line, which then runs.                                  *)
TakeCommand(line) ==
  \/ Tab \notin Range(line) /\ Dispatch(line)
  \/ /\ Tab \in Range(line)
     /\ \/ \E n \in Outputs : Run(Lines(n)) /\ unpaged' = TRUE
                             /\ UNCHANGED <<pager, note_open, stopped>>
        \/ Dispatch(<<"match">>)

(* A line of the editor: text, a dot command that stays, or one that leaves. *)
TakeNote ==
  /\ note_open' \in BOOLEAN
  /\ Run(Lines(1))
  /\ UNCHANGED <<pager, stopped>>

(* The caller of console_read_line goes on with the line. *)
Delivered(line) ==
  /\ reader' = Nobody /\ row' = EmptyRow /\ input' = NoInput /\ unread' = 0
  /\ entered' = Append(entered, [at |-> reader, text |-> line])
  /\ UNCHANGED <<build, opened>>
  /\ \/ reader = "prompt" /\ TakeCommand(line)
     \/ reader = "editor" /\ TakeNote /\ UNCHANGED unpaged
     \/ /\ reader = "pager" /\ UNCHANGED unpaged
        /\ pager' = [pager EXCEPT !.count = 0]
        /\ UNCHANGED <<todo, note_open, stopped, endpoint, asked>>

-----------------------------------------------------------------------------
(* uefi_console_read_line, a key at a time. *)

AtKeys == build = "uefi" /\ reader # Nobody /\ ~closed

(* Mutant of Typed: last_drawn_len is left to the redrawing. *)
TypedUndrawn(text) == [input EXCEPT !.text = text]

Typed(text) == [input EXCEPT !.text = text, !.drawn = Len(text)]

(* Mutant of HasRoom: the end of the string takes no room. *)
HasRoomForAll == Len(input.text) < Cap(reader)

HasRoom == Len(input.text) + 1 < Cap(reader)

TypeChar(c) ==
  /\ AtKeys /\ HasRoom
  /\ input' = Typed(Append(input.text, c))
  /\ row' = Put(row, <<c>>)
  /\ UNCHANGED <<build, keyboard, reader, history, work, entered, seen>>

EraseChar ==
  /\ AtKeys /\ input.text # <<>>
  /\ input' = Typed(Front(input.text))
  /\ row' = Back(Put(Back(row, 1), <<Blank>>), 1)
  /\ UNCHANGED <<build, keyboard, reader, history, work, entered, seen>>

(* A line of the history, as far as the buffer holds it. *)
Recall(at) ==
  LET line == IF at < Len(history) THEN history[at + 1] ELSE <<>>
      text == SubSeq(line, 1, IF Len(line) < Cap(reader) THEN Len(line) ELSE Cap(reader) - 1)
  IN  /\ Len(row.cells) <= MAX_CELLS
      /\ input' = [text |-> text, drawn |-> Len(text), recalled |-> at]
      /\ row' = Redrawn(row, input.drawn, text)
      /\ UNCHANGED <<build, keyboard, reader, history, work, entered, seen>>

RecallOlder == AtKeys /\ input.recalled > 0 /\ Recall(input.recalled - 1)
RecallNewer == AtKeys /\ input.recalled < Len(history) /\ Recall(input.recalled + 1)

PressEnter ==
  /\ AtKeys /\ Len(entered) < MAX_READS
  /\ history' = Pushed(history, input.text)
  /\ Delivered(input.text)
  /\ UNCHANGED keyboard

-----------------------------------------------------------------------------
(* host_console_read_line: fgets, and what the operator or a pipe supplies. *)

Supply(c) ==
  /\ build = "hosted" /\ ~closed /\ ~stopped
  /\ Len(stdin) < MAX_STDIN /\ Len(entered) < MAX_READS
  /\ stdin' = Append(stdin, c)
  /\ UNCHANGED <<build, closed, reader, screen, history, work, entered, seen>>

CloseInput ==
  /\ build = "hosted" /\ ~closed /\ ~stopped
  /\ closed' = TRUE
  /\ UNCHANGED <<build, stdin, reader, screen, history, work, entered, seen>>

(* Where fgets stops: at a newline, or when the buffer is full. *)
StopsAt(n) == stdin[n] = NewLine \/ n = Cap(reader) - 1

(* fgets takes what comes first, or at the end of the input what there is;  *)
(* the newline is taken off.                                                *)
ReadLine ==
  /\ build = "hosted" /\ reader # Nobody
  /\ \E n \in DOMAIN stdin :
       /\ StopsAt(n) \/ (closed /\ n = Len(stdin))
       /\ \A m \in 1..(n - 1) : ~StopsAt(m)
       /\ stdin' = SubSeq(stdin, n + 1, Len(stdin))
       /\ Delivered(SubSeq(stdin, 1, IF stdin[n] = NewLine THEN n - 1 ELSE n))
  /\ UNCHANGED <<closed, history>>

(* Mutant of EditorClosed: the editor asks for the next line. *)
EditorClosedStays == UNCHANGED <<todo, pager, note_open>>

EditorClosed ==
  /\ note_open' = FALSE /\ UNCHANGED pager
  /\ \E n \in Outputs : todo' = Lines(1) \o Lines(n)

(* console_read_line returns false: the loop stops, the editor is left and  *)
(* the line that opened it goes on to the emergency flow, the pager goes on. *)
ReadFails ==
  /\ closed /\ reader # Nobody /\ stdin = <<>>
  /\ reader' = Nobody /\ input' = NoInput
  /\ \/ reader = "prompt" /\ todo' = <<"line", "stop">> /\ UNCHANGED <<pager, note_open>>
     \/ reader = "editor" /\ EditorClosed
     \/ /\ reader = "pager" /\ pager' = [pager EXCEPT !.count = 0]
        /\ UNCHANGED <<todo, note_open>>
  /\ UNCHANGED <<build, keyboard, row, history, stopped, endpoint, entered, seen>>

-----------------------------------------------------------------------------
(* What the program does by itself, and what it does with a line it has. *)
Step ==
  \/ PrintLine \/ ClearScreen \/ OpenEditor \/ StopLoop
  \/ AskForNote \/ AskForCommand
  \/ ReadLine \/ ReadFails

Operator ==
  \/ \E c \in Char : TypeChar(c)
  \/ EraseChar \/ RecallOlder \/ RecallNewer \/ PressEnter
  \/ \E c \in Key \union {NewLine} : Supply(c)
  \/ CloseInput

Next == Step \/ Operator
Spec == Init /\ [][Next]_vars
FairSpec == Spec /\ WF_vars(Step)

-----------------------------------------------------------------------------
(* Properties. *)

(* The types, and what the buffers, the history and the pager may hold. *)
Cell == Char \union {Mark, Blank, "edit", "more"}
Text == Seq(Key \union {NewLine})

TypeOK ==
  /\ build \in {"uefi", "hosted"} /\ closed \in BOOLEAN
  /\ stdin \in Text
  /\ reader \in Readers \union {Nobody}
  /\ input \in [text : Seq(Char), drawn : 0..LINE_MAX, recalled : 0..Len(history)]
  /\ reader # Nobody => Len(input.text) < Cap(reader)
  /\ history \in Seq(Seq(Char)) /\ Len(history) <= HISTORY_MAX
  /\ row \in [cells : Seq(Cell), col : 0..Len(row.cells)]
  /\ pager \in [on : BOOLEAN, count : 0..PAGE_LINES]
  /\ todo \in Seq(Steps) /\ {note_open, stopped, unpaged} \subseteq BOOLEAN
  /\ entered \in Seq([at : Readers, text : Text])
  /\ \A i \in DOMAIN entered : Len(entered[i].text) < Cap(entered[i].at)
  /\ opened \in 0..Len(entered) /\ unread \in Nat

(* What the operator sees after the prompt of the loop is what Enter would  *)
(* run: typing, erasing and recalling lines leave no cell of an older line  *)
(* behind, and the cursor stands at the end of the line (uefi_redraw_input  *)
(* and last_drawn_len), as long as nothing drawn at this prompt has reached *)
(* the right edge of the screen. Once a line has wrapped, '\r' and '\b'     *)
(* reach its last screen row only, and cells of it may stay.                *)
ShownIsBuffer ==
  LET shown == Prompt("prompt") \o input.text
  IN  build = "uefi" /\ reader = "prompt" /\ Len(row.cells) < COLUMNS =>
        /\ row.col = Len(shown)
        /\ SubSeq(row.cells, 1, row.col) = shown
        /\ \A i \in row.col + 1 .. Len(row.cells) : row.cells[i] = Blank

(* Line i is neither empty nor, empty lines aside, the line before again. *)
Fresh(i) ==
  /\ entered[i].text # <<>>
  /\ \A j \in 1..(i - 1) :
       entered[j].text = entered[i].text =>
         \E k \in (j + 1)..(i - 1) : entered[k].text # <<>>

(* The history holds the last HISTORY_MAX lines the operator entered, at    *)
(* whatever prompt, without empty lines and repetitions, also after it has  *)
(* been full and shifted (uefi_history_push): "at" says where its lines     *)
(* have been entered, and none but older ones may be missing.               *)
HistoryIsRecent ==
  build = "uefi" =>
    \E at \in [DOMAIN history -> {i \in DOMAIN entered : Fresh(i)}] :
      /\ \A m, n \in DOMAIN history : m < n => at[m] < at[n]
      /\ \A n \in DOMAIN history : history[n] = entered[at[n]].text
      /\ \A i \in DOMAIN entered : Fresh(i) =>
           \/ \E n \in DOMAIN history : at[n] = i
           \/ Len(history) = HISTORY_MAX /\ i < at[1]

(* From the moment an editor is open until it is left, every line goes to   *)
(* the note: the pager, which would swallow one, asks for none              *)
(* (console_pager_end in editor_run).                                       *)
NoteTakesEveryLine ==
  note_open => /\ reader # "pager"
               /\ \A i \in opened + 1 .. Len(entered) : entered[i].at = "editor"

(* While there is an operator to wait for, no command makes more than a     *)
(* page of calls of console_write_line between two reads, however many it   *)
(* makes and however often it clears the screen (console_pager_after_line); *)
(* a command that opened the editor, a completion list and the greeting are *)
(* not paged. It is a bound on calls, as the code counts them, and not on   *)
(* what one call shows.                                                     *)
PageHolds == ~unpaged /\ ~closed => unread <= PAGE_LINES

(* The endpoint is the one of the last connect with a port from 1 to 65535, *)
(* for any number of digits; a refused connect keeps the one before it      *)
(* (parse_uint_port, ai_gateway_connect).                                   *)
EndpointIsLastValid == endpoint = asked /\ endpoint \in 0..MAX_PORT

(* Once the input is closed the session ends, whoever was waiting for a     *)
(* line: the loop, the pager or an editor (the callers of                   *)
(* console_read_line).                                                      *)
SessionEnds == closed ~> stopped

=============================================================================
