------------------------------- MODULE Console -------------------------------
(***************************************************************************)
(* From key to command: the keyboard interrupt, the key logic, the         *)
(* terminal's callback on keys, the rows of the VGA driver with their two  *)
(* histories, and the commands, which are read back from the screen. All   *)
(* of it runs inside keyboard_irq with interrupts disabled, so a key is    *)
(* one step. kprintf writes to the serial line and nothing else writes to  *)
(* the screen; colours, sounds and the timer keys are left out.            *)
(***************************************************************************)
EXTENDS Integers, Sequences, FiniteSets, SequencesExt, TLC

CONSTANTS
  WIDTH, HEIGHT,     \* of the screen (80 and 25)
  Characters,        \* what a cell of the screen, or a text, can hold
  Letters,           \* keys of letters
  Symbols,           \* other keys that print: digits, punctuation, space
  Shifted,           \* what each prints with shift
  DEFAULT_PROMPT,    \* "> "
  TAB,               \* the spaces of a tab
  Echo, Help,        \* the words of the two commands
  HelpText,          \* what help prints
  Error,             \* what a command that is not understood prints
  MaxKeys            \* bound: keys pressed

ASSUME ConsoleAssumption ==
  /\ WIDTH \in Nat /\ HEIGHT \in Nat /\ HEIGHT > 1
  /\ WIDTH > Len(DEFAULT_PROMPT) + 1 /\ WIDTH > Len(TAB)
  /\ {" ", "\t", "\n"} \subseteq Characters
  /\ Letters \cup Symbols \subseteq Characters /\ Letters \cap Symbols = {}
  /\ Shifted \in [Letters \cup Symbols -> Characters]
  /\ {DEFAULT_PROMPT, TAB, Echo, Help, HelpText, Error} \subseteq Seq(Characters)
  /\ MaxKeys \in Nat

\* What a key prints is one visible character or a space.
ASSUME KeysAssumption ==
  \A key \in Letters \cup Symbols :
    {key, Shifted[key]} \cap {"\n", "\t", "BACKSPACE", "UP_ARROW", "LEFT_ARROW",
                              "RIGHT_ARROW", "DOWN_ARROW"} = {}

LineFeeds(text) == {i \in DOMAIN text : text[i] = "\n"}

\* Every line of the text is shorter than one of the screen.
ShortLines(text) ==
  \A i \in 0..Len(text) - WIDTH : \E j \in i + 1..i + WIDTH : text[j] = "\n"

\* The prompt and a tab are on one line, and commands print whole lines, help the
\* most of them.
ASSUME TextsAssumption ==
  /\ \A i \in 1..Len(DEFAULT_PROMPT) : DEFAULT_PROMPT[i] # "\n"
  /\ \A i \in 1..Len(TAB) : TAB[i] # "\n"
  /\ HelpText # <<>> /\ HelpText[Len(HelpText)] = "\n"
  /\ Error # <<>> /\ Error[Len(Error)] = "\n"
  /\ ShortLines(HelpText) /\ ShortLines(Error)
  /\ Cardinality(LineFeeds(Error)) <= Cardinality(LineFeeds(HelpText))

VARIABLES
  keyboard,   \* default_keyboard_map_state: lshift, rshift, caps_lock
  terminal,   \* vga_driver_context and default_terminal_context
  typed,      \* history: what was typed since the last prompt, and only typed
  keys        \* history: keys pressed so far

vars == <<keyboard, terminal, typed, keys>>

Blank == [x \in 1..WIDTH |-> " "]

\* The user has pressed no key but those of the text, within one line.
FreshLine == [plain |-> TRUE, text |-> <<>>]

-----------------------------------------------------------------------------
(* The VGA driver. rows is terminal_buffer; the histories grow by rows and *)
(* hold as many as the screen. A full one starts again from nothing.       *)

default_terminal_shift_start_only(t) ==    \* mutant
  [t EXCEPT !.start_of_command = @ - WIDTH]

\* Both are size_t: below 0 they wrap around.
default_terminal_shift(t) ==
  [t EXCEPT !.start_of_command = @ - WIDTH, !.end_of_command = @ - WIDTH]

Remembered(history, row) ==
  Append(IF Len(history) >= HEIGHT THEN <<>> ELSE history, row)

terminal_scroll_down(t) ==
  default_terminal_shift(
    [t EXCEPT !.up = Remembered(@, t.rows[1]),
              !.rows = Append(Tail(@), IF t.down = <<>> THEN Blank ELSE Last(t.down)),
              !.down = IF @ = <<>> THEN @ ELSE Front(@),
              !.row = HEIGHT - 1,
              !.column = 0])

\* Mutant: the oldest row of the history comes back.
ScrolledUpToOldest(t) ==
  IF t.up = <<>> THEN t
  ELSE [t EXCEPT !.down = Remembered(@, Last(t.rows)),
                 !.rows = <<Head(t.up)>> \o Front(@),
                 !.up = Tail(@),
                 !.row = 0,
                 !.column = 0]

terminal_scroll_up(t) ==
  IF t.up = <<>> THEN t
  ELSE [t EXCEPT !.down = Remembered(@, Last(t.rows)),
                 !.rows = <<Last(t.up)>> \o Front(@),
                 !.up = Front(@),
                 !.row = 0,
                 !.column = 0]

NextLine(t) ==
  IF t.row + 1 = HEIGHT THEN terminal_scroll_down(t)
  ELSE [t EXCEPT !.row = @ + 1, !.column = 0]

terminal_swapchar(t, c) == [t EXCEPT !.rows[t.row + 1][t.column + 1] = c]

terminal_putchar(t, c) ==
  LET put == terminal_swapchar(t, c)
  IN CASE c = "\n" -> NextLine(t)
       [] c # "\n" /\ t.column + 1 = WIDTH -> NextLine(put)
       [] OTHER -> [put EXCEPT !.column = @ + 1]

terminal_writestring(t, text) ==
  LET written[i \in 0..Len(text)] ==
        IF i = 0 THEN t ELSE terminal_putchar(written[i - 1], text[i])
  IN written[Len(text)]

terminal_cursor_up(t) ==
  IF t.row = 0 THEN terminal_scroll_up(t) ELSE [t EXCEPT !.row = @ - 1]

terminal_cursor_left(t) == [t EXCEPT !.column = IF @ = 0 THEN 0 ELSE @ - 1]

CursorRightToEdge(t) ==    \* mutant: off by one
  [t EXCEPT !.column = IF @ + 1 > WIDTH THEN WIDTH - 1 ELSE @ + 1]
terminal_cursor_right(t) ==
  [t EXCEPT !.column = IF @ + 1 > WIDTH - 1 THEN WIDTH - 1 ELSE @ + 1]

terminal_cursor_down(t) ==
  IF t.row + 1 <= HEIGHT - 1 THEN [t EXCEPT !.row = @ + 1]
  ELSE IF t.down = <<>> THEN t ELSE terminal_scroll_down(t)

\* Mutant: over the start of a line into the one above.
BackspaceOverLines(t) ==
  IF t.column > 0 THEN terminal_swapchar([t EXCEPT !.column = @ - 1], " ")
  ELSE IF t.row = 0 THEN t
  ELSE terminal_swapchar([t EXCEPT !.row = @ - 1, !.column = WIDTH - 1], " ")

terminal_backspace(t) ==
  IF t.column = 0 THEN t
  ELSE terminal_swapchar([t EXCEPT !.column = @ - 1], " ")

-----------------------------------------------------------------------------
(* The terminal: where the command starts and ends on the screen, and what *)
(* becomes of it.                                                          *)

Position(t) == t.row * WIDTH + t.column

default_init_context(t) ==
  [t EXCEPT !.start_of_command = Position(t), !.end_of_command = Position(t)]

default_terminal_end(t) == [t EXCEPT !.end_of_command = Position(t)]

CommandLength(t) == t.end_of_command - t.start_of_command

\* A length of more than 79 is cut, one below 0 being a large size_t.
Cut(t) ==
  IF CommandLength(t) \in 1..WIDTH - 1 THEN t
  ELSE [t EXCEPT !.end_of_command = t.start_of_command + WIDTH - 1]

\* Behind the screen there are some cells that nobody writes.
Cell(t, i) ==
  IF i < WIDTH * HEIGHT THEN t.rows[(i \div WIDTH) + 1][(i % WIDTH) + 1] ELSE " "

default_get_command(t) ==
  [j \in 1..CommandLength(t) |-> Cell(t, t.start_of_command + j - 1)]

\* What a command prints. echo's argument is what follows one character, and
\* the space may be anywhere.
Output(command) ==
  LET argument == SubSeq(command, Len(Echo) + 2, Len(command))
  IN CASE IsPrefix(Echo, command) ->
            IF " " \in Range(command) /\ argument # <<>>
              THEN Append(argument, "\n") ELSE Error
       [] ~IsPrefix(Echo, command) /\ IsPrefix(Help, command) -> HelpText
       [] OTHER -> Error

default_run_command(t, command) ==
  terminal_writestring(terminal_writestring(t, Output(command)), DEFAULT_PROMPT)

\* If the start has wrapped around, the command is read from a page below the
\* screen's, which is not mapped.
default_terminal_process_command(t) ==
  IF CommandLength(t) = 0
    THEN default_init_context(terminal_writestring(t, DEFAULT_PROMPT))
  ELSE IF t.start_of_command < 0 THEN [t EXCEPT !.fault = TRUE]
  ELSE default_init_context(default_run_command(Cut(t), default_get_command(Cut(t))))

\* A key at the start of a line: the prompt is written and a command begins.
Prompted(t) ==
  IF t.column # 0 THEN t
  ELSE [terminal_writestring(default_init_context(t), DEFAULT_PROMPT)
          EXCEPT !.start_of_command = @ + Len(DEFAULT_PROMPT)]

InCommand(t) == t.start_of_command >= 0 /\ Position(t) >= t.start_of_command

\* The line feed of the enter key, the command still to be processed.
Entered(t) == terminal_putchar(default_terminal_end(t), "\n")

NormalKey(t, c) ==
  LET p == Prompted(t)
  IN CASE c = "\n" -> default_terminal_end(default_terminal_process_command(Entered(p)))
       [] c # "\n" /\ ~InCommand(p) -> p
       [] c = "\t" /\ InCommand(p) -> default_terminal_end(terminal_writestring(p, TAB))
       [] OTHER -> default_terminal_end(terminal_putchar(p, c))

Arrows == {"UP_ARROW", "LEFT_ARROW", "RIGHT_ARROW", "DOWN_ARROW"}

catch_keycode(t, key) ==
  CASE key = "UP_ARROW" -> terminal_cursor_up(t)
    [] key = "LEFT_ARROW" -> terminal_cursor_left(t)
    [] key = "RIGHT_ARROW" -> terminal_cursor_right(t)
    [] key = "DOWN_ARROW" -> terminal_cursor_down(t)
    [] key = "BACKSPACE" -> terminal_backspace(t)
    [] OTHER -> NormalKey(t, key)

-----------------------------------------------------------------------------
(* The keyboard.                                                           *)

Init ==
  /\ keyboard = [lshift |-> FALSE, rshift |-> FALSE, caps_lock |-> FALSE]
  /\ terminal = [rows |-> [y \in 1..HEIGHT |-> Blank], row |-> 0, column |-> 0,
                 up |-> <<>>, down |-> <<>>,
                 start_of_command |-> 0, end_of_command |-> 0, fault |-> FALSE]
  /\ typed = FreshLine
  /\ keys = 0

\* What a printing key sends: caps lock changes letters only.
Printed(key) ==
  LET shift == keyboard.lshift \/ keyboard.rshift
      changed == IF key \in Letters THEN keyboard.caps_lock # shift ELSE shift
  IN IF changed THEN Shifted[key] ELSE key

Typed(c) ==
  LET line == IF terminal.column = 0 THEN FreshLine ELSE typed
      text == line.text \o IF c = "\t" THEN TAB ELSE <<c>>
  IN [plain |-> line.plain /\ Len(DEFAULT_PROMPT) + Len(text) < WIDTH, text |-> text]

Unknown == [plain |-> FALSE, text |-> <<>>]

Key == keys < MaxKeys /\ ~terminal.fault /\ keys' = keys + 1

PressPrinting(key) ==
  /\ Key
  /\ terminal' = catch_keycode(terminal, Printed(key))
  /\ typed' = Typed(Printed(key))
  /\ UNCHANGED keyboard

PressTab ==
  /\ Key
  /\ terminal' = catch_keycode(terminal, "\t")
  /\ typed' = Typed("\t")
  /\ UNCHANGED keyboard

PressEnter ==
  /\ Key
  /\ terminal' = catch_keycode(terminal, "\n")
  /\ typed' = FreshLine
  /\ UNCHANGED keyboard

PressBackspace ==
  /\ Key
  /\ terminal' = catch_keycode(terminal, "BACKSPACE")
  /\ typed' = IF typed.text = <<>> THEN Unknown ELSE [typed EXCEPT !.text = Front(@)]
  /\ UNCHANGED keyboard

PressArrow(arrow) ==
  /\ Key
  /\ terminal' = catch_keycode(terminal, arrow)
  /\ typed' = Unknown
  /\ UNCHANGED keyboard

\* The event of a key without a case of its own is an uninitialised local: the
\* terminal ignores it, or takes it for any key, or for one whose code (<= 0) adds
\* nothing to the prompt of a new line.
Garbage ==
  \/ UNCHANGED <<terminal, typed>>
  \/ /\ \/ \E key \in Arrows \cup Letters \cup Symbols \cup {"BACKSPACE", "\t", "\n"} :
             terminal' = catch_keycode(terminal, key)
        \/ terminal' = Prompted(terminal)
     /\ typed' = Unknown

PressShift(side) ==
  /\ Key
  /\ keyboard' = [keyboard EXCEPT ![side] = TRUE]
  /\ Garbage

ReleaseShift(side) ==
  /\ Key
  /\ keyboard' = [keyboard EXCEPT ![side] = FALSE]
  /\ UNCHANGED <<terminal, typed>>

\* Alt, control, the function keys, and the like.
PressOther ==
  /\ Key
  /\ Garbage
  /\ UNCHANGED keyboard

PressCapsLock ==
  /\ Key
  /\ keyboard' = [keyboard EXCEPT !.caps_lock = ~@]
  /\ Garbage

Next ==
  \/ \E key \in Letters \cup Symbols : PressPrinting(key)
  \/ PressTab
  \/ PressEnter
  \/ PressBackspace
  \/ \E arrow \in Arrows : PressArrow(arrow)
  \/ \E side \in {"lshift", "rshift"} : PressShift(side)
  \/ \E side \in {"lshift", "rshift"} : ReleaseShift(side)
  \/ PressCapsLock
  \/ PressOther

Spec == Init /\ [][Next]_vars

-----------------------------------------------------------------------------
(* Properties.                                                             *)

\* The cursor is on the screen, so that every character is written there, and
\* the histories keep their size. [terminal_putchar, terminal_scroll_up]
TypeOK ==
  /\ keyboard \in [{"lshift", "rshift", "caps_lock"} -> BOOLEAN]
  /\ terminal.row \in 0..HEIGHT - 1 /\ terminal.column \in 0..WIDTH - 1
  /\ Len(terminal.rows) = HEIGHT
  /\ \A y \in 1..HEIGHT : Len(terminal.rows[y]) = WIDTH
  /\ Len(terminal.up) <= HEIGHT /\ Len(terminal.down) <= HEIGHT
  /\ terminal.start_of_command \in Int /\ terminal.end_of_command \in Int

\* What was typed on one line, tabs and backspaces included, is what the enter
\* key runs, wherever the line is on the screen and however much the command
\* scrolls. [the start and end of the command follow the text: vga_driver.c:147]
PlainCommandsRun ==
  LET entered == Entered(terminal)
  IN typed.plain /\ typed.text # <<>> =>
       /\ entered.start_of_command >= 0
       /\ default_get_command(entered) = typed.text

\* The rows one can scroll to, from the oldest to the newest.
Text(t) == t.up \o t.rows \o Reverse(t.down)

\* Moving the cursor, over the edges of the screen as well, changes no line, no
\* order, and forgets none: together the histories never hold more rows than one
\* of them can. [vga_driver.c:124-196]
ScrollingKeepsText ==
  \A arrow \in Arrows : Text(catch_keycode(terminal, arrow)) = Text(terminal)

\* The lines the cursor moves down in the longest command.
LinesOfCommand == 1 + Cardinality(LineFeeds(HelpText))

\* Keys that type, and the commands they run, leave every line above the cursor
\* as it is, those that have left the screen included. Lines are forgotten only
\* when a full history starts again. [keyboard_callbacks.c:6-68, vga_driver.c:126]
EarlierLinesStay ==
  LET above == SubSeq(Text(terminal), 1, Len(terminal.up) + terminal.row)
      Forgotten(t) == {n \in {k * HEIGHT : k \in 0..LinesOfCommand} :
                         n <= Len(terminal.up) - Len(t.up) + LinesOfCommand}
  IN \A c \in Letters \cup Symbols \cup {"BACKSPACE", "\t", "\n"} :
       LET t == catch_keycode(terminal, c)
       IN \E n \in Forgotten(t) :
            /\ c = "\n" \/ n = 0 \/ Len(terminal.up) = n
            /\ IsPrefix(SubSeq(above, n + 1, Len(above)), Text(t))
=============================================================================
