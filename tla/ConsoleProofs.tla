---------------------------- MODULE ConsoleProofs ----------------------------
(***************************************************************************)
(* Theorems about Console, for every size of the screen, every keyboard    *)
(* and every text of the commands.                                         *)
(***************************************************************************)
EXTENDS Console, NatLemmas, FiniteSetTheorems, TLAPS

-----------------------------------------------------------------------------
(* Sequences *)

\* A sequence with one element replaced.
LEMMA ReplaceOne ==
    ASSUME NEW S, NEW s \in Seq(S), NEW i \in 1 .. Len(s), NEW e \in S
    PROVE  LET r == [s EXCEPT ![i] = e]
           IN  /\ r \in Seq(S) /\ Len(r) = Len(s)
               /\ \A j \in 1 .. Len(s) : r[j] = IF j = i THEN e ELSE s[j]
OBVIOUS

\* A sequence without its last element.
LEMMA FrontLast ==
    ASSUME NEW S, NEW s \in Seq(S), s # << >>
    PROVE  /\ Front(s) \in Seq(S) /\ Len(Front(s)) = Len(s) - 1 /\ Len(s) \in Nat \ {0}
           /\ \A i \in 1 .. Len(s) - 1 : Front(s)[i] = s[i]
           /\ Last(s) \in S /\ Last(s) = s[Len(s)]
<1>1. Len(s) \in Nat \ {0} /\ Len(s) \in 1 .. Len(s)
    OBVIOUS
<1>2. Last(s) \in S /\ Last(s) = s[Len(s)]
    BY <1>1 DEF Last
<1>3. Front(s) = [i \in 1 .. Len(s) - 1 |-> s[i]]
    BY <1>1 DEF Front
<1>4. \A i \in 1 .. Len(s) - 1 : s[i] \in S
    BY <1>1
<1>5. Front(s) \in Seq(S) /\ Len(Front(s)) = Len(s) - 1
    BY <1>1, <1>3, <1>4
<1> QED BY <1>1, <1>2, <1>3, <1>5

\* A sequence backwards.
LEMMA ReverseElements ==
    ASSUME NEW S, NEW s \in Seq(S)
    PROVE  /\ Reverse(s) \in Seq(S) /\ Len(Reverse(s)) = Len(s)
           /\ \A i \in 1 .. Len(s) : Reverse(s)[i] = s[Len(s) - i + 1]
<1>1. Reverse(s) = [i \in 1 .. Len(s) |-> s[Len(s) - i + 1]]
    BY DEF Reverse
<1>2. \A i \in 1 .. Len(s) : s[Len(s) - i + 1] \in S
    <2> SUFFICES ASSUME NEW i \in 1 .. Len(s) PROVE s[Len(s) - i + 1] \in S
        OBVIOUS
    <2>1. Len(s) - i + 1 \in 1 .. Len(s)
        OBVIOUS
    <2> QED BY <2>1
<1>3. Len(s) \in Nat
    OBVIOUS
<1> QED BY <1>1, <1>2, <1>3

\* The parts of a concatenation.
LEMMA ConcatElements ==
    ASSUME NEW S, NEW s \in Seq(S), NEW t \in Seq(S)
    PROVE  /\ s \o t \in Seq(S) /\ Len(s \o t) = Len(s) + Len(t)
           /\ \A i \in 1 .. Len(s) + Len(t) :
                 (s \o t)[i] = IF i <= Len(s) THEN s[i] ELSE t[i - Len(s)]
OBVIOUS

\* A sequence with an element added.
LEMMA Appended ==
    ASSUME NEW S, NEW s \in Seq(S), NEW e \in S
    PROVE  /\ Append(s, e) \in Seq(S) /\ Append(s, e) # << >>
           /\ Len(Append(s, e)) = Len(s) + 1 /\ Append(s, e)[Len(Append(s, e))] = e
           /\ \A i \in 1 .. Len(s) : Append(s, e)[i] = s[i]
OBVIOUS

\* A sequence that loses its first element and gets another last one.
LEMMA TailElements ==
    ASSUME NEW S, NEW s \in Seq(S), s # << >>, NEW e \in S
    PROVE  /\ Append(Tail(s), e) \in Seq(S) /\ Len(Append(Tail(s), e)) = Len(s)
           /\ \A i \in 1 .. Len(s) - 1 : Append(Tail(s), e)[i] = s[i + 1]
           /\ Append(Tail(s), e)[Len(s)] = e
OBVIOUS

-----------------------------------------------------------------------------
(* The terminal's type. One of the histories holds what the other lacks:   *)
(* that a scroll to and fro forgets nothing needs them bounded together.   *)

\* What is written to a cell: no line feed.
Cells == Characters \ {"\n"}
Row == [1 .. WIDTH -> Cells]

Terminals ==
    [rows : Seq(Row), row : 0 .. HEIGHT - 1, column : 0 .. WIDTH - 1,
     up : Seq(Row), down : Seq(Row),
     start_of_command : Int, end_of_command : Int, fault : BOOLEAN]

\* A terminal of this type whose rows are the screen's.
Sound(t) ==
    t \in Terminals /\ Len(t.rows) = HEIGHT /\ Len(t.up) + Len(t.down) <= HEIGHT

\* The row scrolled in at the bottom, and what is left of the rows below it.
RowBelow(t) == IF t.down = << >> THEN Blank ELSE Last(t.down)
RowsBelow(t) == IF t.down = << >> THEN t.down ELSE Front(t.down)

\* The blank row is a row.
LEMMA BlankType == Blank \in Row
BY ConsoleAssumption DEF Blank, Row, Cells

\* A terminal with other rows and another cursor.
WithRows(t, up, rows, down, row, column) ==
    [t EXCEPT !.up = up, !.rows = rows, !.down = down, !.row = row, !.column = column]

\* Its type and its fields.
LEMMA Scrolled ==
    ASSUME NEW t \in Terminals, NEW up \in Seq(Row), NEW rows \in Seq(Row), NEW down \in Seq(Row),
           NEW row \in 0 .. HEIGHT - 1, NEW column \in 0 .. WIDTH - 1
    PROVE  LET r == WithRows(t, up, rows, down, row, column)
           IN  /\ r \in Terminals
               /\ r.up = up /\ r.rows = rows /\ r.down = down /\ r.row = row /\ r.column = column
               /\ r.start_of_command = t.start_of_command
               /\ r.end_of_command = t.end_of_command /\ r.fault = t.fault
BY DEF Terminals, WithRows

\* A terminal whose command has moved.
WithCommand(t, start, end) ==
    [t EXCEPT !.start_of_command = start, !.end_of_command = end]

\* Its type and its fields.
LEMMA CommandMoved ==
    ASSUME NEW t \in Terminals, NEW start \in Int, NEW end \in Int
    PROVE  LET r == WithCommand(t, start, end)
           IN  /\ r \in Terminals /\ r.start_of_command = start /\ r.end_of_command = end
               /\ r.fault = t.fault /\ r.rows = t.rows /\ r.up = t.up /\ r.down = t.down
               /\ r.row = t.row /\ r.column = t.column
BY DEF Terminals, WithCommand

\* The size of the screen.
LEMMA ScreenSize == HEIGHT \in Nat /\ HEIGHT > 1 /\ WIDTH \in Nat /\ WIDTH > 1
<1>1. HEIGHT \in Nat /\ HEIGHT > 1 /\ WIDTH \in Nat /\ WIDTH > Len(DEFAULT_PROMPT) + 1
    BY ConsoleAssumption
<1>2. DEFAULT_PROMPT \in Seq(Characters)
    BY ConsoleAssumption
<1>3. Len(DEFAULT_PROMPT) \in Nat
    BY <1>2
<1> QED BY <1>1, <1>3

\* What is remembered are rows.
LEMMA RememberedType ==
    ASSUME NEW h \in Seq(Row), NEW r \in Row, Len(h) <= HEIGHT
    PROVE  /\ Remembered(h, r) \in Seq(Row)
           /\ Len(h) = HEIGHT => Len(Remembered(h, r)) = 1
           /\ Len(h) < HEIGHT => Remembered(h, r) = Append(h, r) /\ Len(Remembered(h, r)) = Len(h) + 1
<1>1. Len(h) \in Nat /\ HEIGHT \in Nat
    BY ScreenSize
<1>2. CASE Len(h) = HEIGHT
    <2>1. Remembered(h, r) = Append(<< >>, r)
        BY <1>1, <1>2 DEF Remembered
    <2>2. Append(<< >>, r) \in Seq(Row) /\ Len(Append(<< >>, r)) = 1
        OBVIOUS
    <2> QED BY <1>1, <1>2, <2>1, <2>2
<1>3. CASE Len(h) < HEIGHT
    <2>1. Remembered(h, r) = Append(h, r)
        BY <1>1, <1>3 DEF Remembered
    <2>2. Append(h, r) \in Seq(Row) /\ Len(Append(h, r)) = Len(h) + 1
        OBVIOUS
    <2> QED BY <1>1, <1>3, <2>1, <2>2
<1> QED BY <1>1, <1>2, <1>3

\* Sums of natural numbers.
LEMMA SumBounds ==
    ASSUME NEW u \in Nat, NEW w \in Nat, u + w <= HEIGHT
    PROVE  /\ u <= HEIGHT /\ w <= HEIGHT
           /\ w > 0 => u < HEIGHT /\ (u + 1) + (w - 1) <= HEIGHT
           /\ u > 0 => w < HEIGHT /\ (u - 1) + (w + 1) <= HEIGHT
           /\ w = 0 /\ u < HEIGHT => u + 1 <= HEIGHT
           /\ u = HEIGHT => w = 0
BY ScreenSize

\* The parts of a terminal.
LEMMA Fields ==
    ASSUME NEW t, Sound(t)
    PROVE  /\ t \in Terminals /\ t.rows \in Seq(Row) /\ t.up \in Seq(Row) /\ t.down \in Seq(Row)
           /\ t.row \in 0 .. HEIGHT - 1 /\ t.column \in 0 .. WIDTH - 1
           /\ t.start_of_command \in Int /\ t.end_of_command \in Int /\ t.fault \in BOOLEAN
           /\ Len(t.rows) = HEIGHT /\ Len(t.up) + Len(t.down) <= HEIGHT
           /\ Len(t.up) \in Nat /\ Len(t.down) \in Nat
           /\ Len(t.up) <= HEIGHT /\ Len(t.down) <= HEIGHT /\ t.rows # << >>
<1>1. /\ t \in Terminals /\ t.rows \in Seq(Row) /\ t.up \in Seq(Row) /\ t.down \in Seq(Row)
      /\ t.row \in 0 .. HEIGHT - 1 /\ t.column \in 0 .. WIDTH - 1
      /\ t.start_of_command \in Int /\ t.end_of_command \in Int /\ t.fault \in BOOLEAN
    BY DEF Sound, Terminals
<1>2. Len(t.rows) = HEIGHT /\ Len(t.up) + Len(t.down) <= HEIGHT
    BY DEF Sound
<1>3. Len(t.up) \in Nat /\ Len(t.down) \in Nat
    BY <1>1
<1>4. Len(t.up) <= HEIGHT /\ Len(t.down) <= HEIGHT
    BY <1>2, <1>3, SumBounds
<1>5. t.rows # << >>
    BY <1>1, <1>2, ScreenSize
<1> QED BY <1>1, <1>2, <1>3, <1>4, <1>5

\* Positions next to the one of the cursor.
LEMMA Neighbours ==
    ASSUME NEW n \in Nat, NEW i \in 0 .. n - 1
    PROVE  /\ i + 1 \in 1 .. n /\ (i + 1 # n => i + 1 \in 0 .. n - 1)
           /\ (i # 0 => i - 1 \in 0 .. n - 1 /\ i \in 1 .. n)
OBVIOUS

\* The cursor and its neighbours.
LEMMA Cursor ==
    ASSUME NEW t, Sound(t)
    PROVE  /\ t.row \in 0 .. HEIGHT - 1 /\ t.column \in 0 .. WIDTH - 1
           /\ t.row + 1 \in 1 .. HEIGHT /\ t.column + 1 \in 1 .. WIDTH
           /\ t.row + 1 # HEIGHT => t.row + 1 \in 0 .. HEIGHT - 1
           /\ t.column + 1 # WIDTH => t.column + 1 \in 0 .. WIDTH - 1
           /\ t.row # 0 => t.row - 1 \in 0 .. HEIGHT - 1
           /\ t.column # 0 => t.column - 1 \in 0 .. WIDTH - 1
           /\ 0 \in 0 .. WIDTH - 1 /\ 0 \in 0 .. HEIGHT - 1
<1>1. HEIGHT \in Nat /\ WIDTH \in Nat /\ 0 \in 0 .. WIDTH - 1 /\ 0 \in 0 .. HEIGHT - 1
    BY ScreenSize
<1>2. t.row \in 0 .. HEIGHT - 1 /\ t.column \in 0 .. WIDTH - 1
    BY Fields
<1> QED BY <1>1, <1>2, Neighbours

\* Scrolling down: the type and the fields of what comes out.
LEMMA ScrollDown ==
    ASSUME NEW t, Sound(t)
    PROVE  LET d == terminal_scroll_down(t)
           IN  /\ Sound(d)
               /\ d.rows = Append(Tail(t.rows), RowBelow(t)) /\ d.row = HEIGHT - 1 /\ d.column = 0
               /\ d.up = Remembered(t.up, t.rows[1]) /\ d.down = RowsBelow(t)
               /\ d.start_of_command = t.start_of_command - WIDTH
               /\ d.end_of_command = t.end_of_command - WIDTH /\ d.fault = t.fault
<1>1. /\ t \in Terminals /\ t.rows \in Seq(Row) /\ t.up \in Seq(Row) /\ t.down \in Seq(Row)
      /\ Len(t.rows) = HEIGHT /\ Len(t.up) + Len(t.down) <= HEIGHT
      /\ t.start_of_command \in Int /\ t.end_of_command \in Int
      /\ Len(t.up) \in Nat /\ Len(t.down) \in Nat /\ Len(t.up) <= HEIGHT /\ t.rows # << >>
    BY Fields
<1>2. HEIGHT - 1 \in 0 .. HEIGHT - 1 /\ 0 \in 0 .. WIDTH - 1 /\ WIDTH \in Int
      /\ HEIGHT \in Nat /\ 1 <= HEIGHT /\ 1 \in 1 .. HEIGHT
    BY ScreenSize
<1>3. /\ RowBelow(t) \in Row /\ RowsBelow(t) \in Seq(Row)
      /\ t.down = << >> => Len(t.down) = 0 /\ Len(RowsBelow(t)) = 0
      /\ t.down # << >> => Len(t.down) > 0 /\ Len(RowsBelow(t)) = Len(t.down) - 1
    <2>1. CASE t.down = << >>
        BY <2>1, BlankType DEF RowBelow, RowsBelow
    <2>2. CASE t.down # << >>
        <3> DEFINE w == t.down
        <3>1. w \in Seq(Row) /\ w # << >>
            BY <1>1, <2>2
        <3>2. RowBelow(t) = Last(w) /\ RowsBelow(t) = Front(w)
            BY <2>2 DEF RowBelow, RowsBelow
        <3> HIDE DEF w
        <3>3. /\ Front(w) \in Seq(Row) /\ Len(Front(w)) = Len(w) - 1
              /\ Last(w) \in Row /\ Len(w) \in Nat \ {0}
            BY ONLY <3>1, FrontLast
        <3>4. Len(w) > 0
            BY ONLY <3>3
        <3> QED BY <2>2, <3>2, <3>3, <3>4 DEF w
    <2> QED BY <2>1, <2>2
<1>4. t.rows[1] \in Row
    BY <1>1, <1>2
<1>5. /\ Append(Tail(t.rows), RowBelow(t)) \in Seq(Row)
      /\ Len(Append(Tail(t.rows), RowBelow(t))) = HEIGHT
    BY <1>1, <1>3, TailElements
<1> DEFINE up == Remembered(t.up, t.rows[1])
<1>6. /\ up \in Seq(Row)
      /\ Len(t.up) = HEIGHT => Len(up) = 1
      /\ Len(t.up) < HEIGHT => Len(up) = Len(t.up) + 1
    BY <1>1, <1>4, RememberedType
<1> HIDE DEF up
<1>7. Len(t.up) = HEIGHT \/ Len(t.up) < HEIGHT
    BY <1>1, <1>2
<1>8. Len(up) + Len(RowsBelow(t)) <= HEIGHT
    <2>1. CASE t.down = << >>
        <3>1. Len(up) <= HEIGHT
            BY <1>1, <1>2, <1>3, <1>6, <1>7, <2>1, SumBounds
        <3>2. Len(up) \in Nat
            BY <1>6
        <3> QED BY <1>2, <1>3, <2>1, <3>1, <3>2
    <2>2. CASE t.down # << >>
        <3>1. Len(t.up) < HEIGHT /\ (Len(t.up) + 1) + (Len(t.down) - 1) <= HEIGHT
            BY <1>1, <1>3, <2>2, SumBounds
        <3>2. Len(up) = Len(t.up) + 1 /\ Len(RowsBelow(t)) = Len(t.down) - 1
            BY <1>3, <1>6, <2>2, <3>1
        <3> QED BY <3>1, <3>2
    <2> QED BY <2>1, <2>2
<1> DEFINE r == WithRows(t, up, Append(Tail(t.rows), RowBelow(t)), RowsBelow(t), HEIGHT - 1, 0)
           d == WithCommand(r, t.start_of_command - WIDTH, t.end_of_command - WIDTH)
<1>9. /\ r \in Terminals
      /\ r.up = up /\ r.rows = Append(Tail(t.rows), RowBelow(t)) /\ r.down = RowsBelow(t)
      /\ r.row = HEIGHT - 1 /\ r.column = 0
      /\ r.start_of_command = t.start_of_command /\ r.end_of_command = t.end_of_command
      /\ r.fault = t.fault
    <2> DEFINE rows == Append(Tail(t.rows), RowBelow(t))
               row == HEIGHT - 1
    <2>1. t \in Terminals /\ up \in Seq(Row) /\ rows \in Seq(Row) /\ RowsBelow(t) \in Seq(Row)
          /\ row \in 0 .. HEIGHT - 1 /\ 0 \in 0 .. WIDTH - 1
        BY <1>1, <1>2, <1>3, <1>5, <1>6
    <2>2. r = WithRows(t, up, rows, RowsBelow(t), row, 0)
        OBVIOUS
    <2> HIDE DEF rows, row, r
    <2>3. /\ r \in Terminals
          /\ r.up = up /\ r.rows = rows /\ r.down = RowsBelow(t) /\ r.row = row /\ r.column = 0
          /\ r.start_of_command = t.start_of_command /\ r.end_of_command = t.end_of_command
          /\ r.fault = t.fault
        BY <2>1, <2>2, Scrolled
    <2> QED BY <2>3 DEF rows, row
<1> HIDE DEF r
<1>10. terminal_scroll_down(t) = d
    <2>1. terminal_scroll_down(t) = default_terminal_shift(r)
        BY DEF terminal_scroll_down, r, WithRows, RowBelow, RowsBelow, up
    <2>2. default_terminal_shift(r) = d
        BY <1>9 DEF default_terminal_shift, WithCommand
    <2> QED BY <2>1, <2>2
<1>11. t.start_of_command - WIDTH \in Int /\ t.end_of_command - WIDTH \in Int
    BY <1>1, <1>2
<1>12. /\ d \in Terminals
       /\ d.start_of_command = t.start_of_command - WIDTH
       /\ d.end_of_command = t.end_of_command - WIDTH
       /\ d.fault = r.fault /\ d.rows = r.rows /\ d.up = r.up /\ d.down = r.down
       /\ d.row = r.row /\ d.column = r.column
    BY <1>9, <1>11, CommandMoved
<1> HIDE DEF d
<1>13. Sound(d)
    BY <1>5, <1>8, <1>9, <1>12 DEF Sound
<1> QED BY <1>9, <1>10, <1>12, <1>13 DEF up

\* Scrolling up, when there is something above: the type and the fields.
LEMMA ScrollUp ==
    ASSUME NEW t, Sound(t), t.up # << >>
    PROVE  LET d == terminal_scroll_up(t)
           IN  /\ Sound(d) /\ Len(t.down) < HEIGHT
               /\ d.rows = <<Last(t.up)>> \o Front(t.rows) /\ d.row = 0 /\ d.column = 0
               /\ d.up = Front(t.up) /\ d.down = Append(t.down, Last(t.rows))
               /\ d.start_of_command = t.start_of_command
               /\ d.end_of_command = t.end_of_command /\ d.fault = t.fault
<1>1. /\ t \in Terminals /\ t.rows \in Seq(Row) /\ t.up \in Seq(Row) /\ t.down \in Seq(Row)
      /\ Len(t.rows) = HEIGHT /\ Len(t.up) + Len(t.down) <= HEIGHT
      /\ Len(t.up) \in Nat /\ Len(t.down) \in Nat /\ Len(t.down) <= HEIGHT /\ t.rows # << >>
    BY Fields
<1>2. 0 \in 0 .. HEIGHT - 1 /\ 0 \in 0 .. WIDTH - 1 /\ HEIGHT \in Nat
    BY ScreenSize
<1>3. /\ Front(t.rows) \in Seq(Row) /\ Len(Front(t.rows)) = HEIGHT - 1 /\ Last(t.rows) \in Row
    BY <1>1, FrontLast
<1>4. /\ Front(t.up) \in Seq(Row) /\ Len(Front(t.up)) = Len(t.up) - 1 /\ Last(t.up) \in Row
      /\ Len(t.up) \in Nat \ {0}
    BY <1>1, FrontLast
<1>5. /\ <<Last(t.up)>> \o Front(t.rows) \in Seq(Row)
      /\ Len(<<Last(t.up)>> \o Front(t.rows)) = HEIGHT
    <2>1. <<Last(t.up)>> \in Seq(Row) /\ Len(<<Last(t.up)>>) = 1
        BY <1>4
    <2> QED BY <1>2, <1>3, <2>1, ConcatElements
<1>6. Len(t.up) > 0
    BY <1>4
<1>7. Len(t.down) < HEIGHT /\ (Len(t.up) - 1) + (Len(t.down) + 1) <= HEIGHT
    BY <1>1, <1>6, SumBounds
<1>8. /\ Remembered(t.down, Last(t.rows)) = Append(t.down, Last(t.rows))
      /\ Append(t.down, Last(t.rows)) \in Seq(Row)
      /\ Len(Append(t.down, Last(t.rows))) = Len(t.down) + 1
    BY <1>1, <1>3, <1>7, RememberedType
<1> DEFINE d == WithRows(t, Front(t.up), <<Last(t.up)>> \o Front(t.rows),
                         Append(t.down, Last(t.rows)), 0, 0)
<1>9. terminal_scroll_up(t) = [t EXCEPT !.down = Remembered(t.down, Last(t.rows)),
                                        !.rows = <<Last(t.up)>> \o Front(t.rows),
                                        !.up = Front(t.up), !.row = 0, !.column = 0]
    BY DEF terminal_scroll_up
<1>10. terminal_scroll_up(t) = d
    BY <1>8, <1>9 DEF WithRows
<1>11. /\ d \in Terminals
       /\ d.up = Front(t.up) /\ d.rows = <<Last(t.up)>> \o Front(t.rows)
       /\ d.down = Append(t.down, Last(t.rows)) /\ d.row = 0 /\ d.column = 0
       /\ d.start_of_command = t.start_of_command /\ d.end_of_command = t.end_of_command
       /\ d.fault = t.fault
    <2> DEFINE rows == <<Last(t.up)>> \o Front(t.rows)
               down == Append(t.down, Last(t.rows))
               up == Front(t.up)
    <2>1. t \in Terminals /\ up \in Seq(Row) /\ rows \in Seq(Row) /\ down \in Seq(Row)
        BY <1>1, <1>4, <1>5, <1>8
    <2>2. d = WithRows(t, up, rows, down, 0, 0)
        OBVIOUS
    <2> HIDE DEF rows, down, up, d
    <2>3. /\ d \in Terminals /\ d.up = up /\ d.rows = rows /\ d.down = down
          /\ d.row = 0 /\ d.column = 0
          /\ d.start_of_command = t.start_of_command /\ d.end_of_command = t.end_of_command
          /\ d.fault = t.fault
        BY <1>2, <2>1, <2>2, Scrolled
    <2> QED BY <2>3 DEF rows, down, up
<1> HIDE DEF d
<1>12. Sound(d)
    BY <1>4, <1>5, <1>7, <1>8, <1>11 DEF Sound
<1> QED BY <1>7, <1>10, <1>11, <1>12

-----------------------------------------------------------------------------
(* Writing on the screen. *)

\* A terminal with other rows on the screen, and one with another cursor.
WithScreen(t, rows) == [t EXCEPT !.rows = rows]
WithCursor(t, row, column) == [t EXCEPT !.row = row, !.column = column]

\* The type and the fields of the first.
LEMMA ScreenChanged ==
    ASSUME NEW t \in Terminals, NEW rows \in Seq(Row)
    PROVE  LET r == WithScreen(t, rows)
           IN  /\ r \in Terminals /\ r.rows = rows /\ r.row = t.row /\ r.column = t.column
               /\ r.up = t.up /\ r.down = t.down /\ r.start_of_command = t.start_of_command
               /\ r.end_of_command = t.end_of_command /\ r.fault = t.fault
BY DEF Terminals, WithScreen

\* The type and the fields of the second.
LEMMA CursorMoved ==
    ASSUME NEW t \in Terminals, NEW row \in 0 .. HEIGHT - 1, NEW column \in 0 .. WIDTH - 1
    PROVE  LET r == WithCursor(t, row, column)
           IN  /\ r \in Terminals /\ r.rows = t.rows /\ r.row = row /\ r.column = column
               /\ r.up = t.up /\ r.down = t.down /\ r.start_of_command = t.start_of_command
               /\ r.end_of_command = t.end_of_command /\ r.fault = t.fault
BY DEF Terminals, WithCursor

\* All that a terminal has but its screen and its cursor is the same.
SameBut(t, r) ==
    /\ r.up = t.up /\ r.down = t.down /\ r.fault = t.fault
    /\ r.start_of_command = t.start_of_command /\ r.end_of_command = t.end_of_command

\* r is t with c in the cell of the cursor.
CellSet(t, r, c) ==
    /\ Sound(r) /\ r.row = t.row /\ r.column = t.column /\ SameBut(t, r)
    /\ \A y \in 1 .. HEIGHT, x \in 1 .. WIDTH :
         r.rows[y][x] = IF y = t.row + 1 /\ x = t.column + 1 THEN c ELSE t.rows[y][x]

\* One cell is written.
LEMMA CellWritten ==
    ASSUME NEW t, Sound(t), NEW c \in Cells
    PROVE  CellSet(t, terminal_swapchar(t, c), c)
<1>1. /\ t \in Terminals /\ t.rows \in Seq(Row) /\ Len(t.rows) = HEIGHT
      /\ t.row + 1 \in 1 .. HEIGHT /\ t.column + 1 \in 1 .. WIDTH
      /\ Len(t.up) + Len(t.down) <= HEIGHT
    BY Fields, Cursor
<1> DEFINE y0 == t.row + 1
           x0 == t.column + 1
           line == [t.rows[y0] EXCEPT ![x0] = c]
           rows == [t.rows EXCEPT ![y0] = line]
           r == WithScreen(t, rows)
<1>2. terminal_swapchar(t, c) = r
    BY DEF terminal_swapchar, WithScreen
<1>3. y0 \in 1 .. HEIGHT /\ x0 \in 1 .. WIDTH /\ y0 \in 1 .. Len(t.rows)
    BY <1>1
<1>4. t.rows[y0] \in Row
    BY <1>1, <1>3
<1>5. line \in Row /\ \A x \in 1 .. WIDTH : line[x] = IF x = x0 THEN c ELSE t.rows[y0][x]
    <2> HIDE DEF y0, x0
    <2> QED BY <1>3, <1>4 DEF Row
<1> HIDE DEF line, x0, y0
<1>6. rows \in Seq(Row) /\ Len(rows) = HEIGHT
      /\ \A y \in 1 .. HEIGHT : rows[y] = IF y = y0 THEN line ELSE t.rows[y]
    BY <1>1, <1>3, <1>5, ReplaceOne
<1> HIDE DEF rows
<1>7. /\ r \in Terminals /\ r.rows = rows /\ r.row = t.row /\ r.column = t.column
      /\ r.up = t.up /\ r.down = t.down /\ r.start_of_command = t.start_of_command
      /\ r.end_of_command = t.end_of_command /\ r.fault = t.fault
    BY <1>1, <1>6, ScreenChanged
<1> HIDE DEF r
<1>8. Sound(r)
    BY <1>1, <1>6, <1>7 DEF Sound
<1>9. ASSUME NEW y \in 1 .. HEIGHT, NEW x \in 1 .. WIDTH
      PROVE  r.rows[y][x] = IF y = y0 /\ x = x0 THEN c ELSE t.rows[y][x]
    <2>1. r.rows[y] = IF y = y0 THEN line ELSE t.rows[y]
        BY <1>6, <1>7
    <2> QED BY <1>5, <2>1
<1>10. SameBut(t, r)
    BY <1>7 DEF SameBut
<1> QED BY <1>2, <1>7, <1>8, <1>9, <1>10 DEF CellSet, y0, x0

\* The cursor goes to the start of the next line.
LEMMA LineFeed ==
    ASSUME NEW t, Sound(t)
    PROVE  /\ Sound(NextLine(t)) /\ NextLine(t).column = 0
           /\ t.row + 1 # HEIGHT =>
                /\ NextLine(t).row = t.row + 1 /\ NextLine(t).rows = t.rows
                /\ SameBut(t, NextLine(t))
           /\ t.row + 1 = HEIGHT => NextLine(t) = terminal_scroll_down(t)
<1>1. CASE t.row + 1 = HEIGHT
    BY <1>1, ScrollDown DEF NextLine
<1>2. CASE t.row + 1 # HEIGHT
    <2> DEFINE row == t.row + 1
               r == WithCursor(t, row, 0)
    <2>1. /\ t \in Terminals /\ row \in 0 .. HEIGHT - 1 /\ 0 \in 0 .. WIDTH - 1
        BY <1>2, Fields, Cursor
    <2>2. NextLine(t) = r
        BY <1>2 DEF NextLine, WithCursor
    <2> HIDE DEF row
    <2>3. /\ r \in Terminals /\ r.rows = t.rows /\ r.row = row /\ r.column = 0
          /\ r.up = t.up /\ r.down = t.down /\ r.start_of_command = t.start_of_command
          /\ r.end_of_command = t.end_of_command /\ r.fault = t.fault
        BY <2>1, CursorMoved
    <2> HIDE DEF r
    <2>4. Sound(r)
        BY <2>3 DEF Sound
    <2> QED BY <1>2, <2>2, <2>3, <2>4 DEF SameBut, row
<1> QED BY <1>1, <1>2

\* A character that leaves room on its line.
LEMMA PutInLine ==
    ASSUME NEW t, Sound(t), NEW c \in Characters, c # "\n", t.column + 1 # WIDTH
    PROVE  LET r == terminal_putchar(t, c)
           IN  /\ Sound(r) /\ r.row = t.row /\ r.column = t.column + 1 /\ SameBut(t, r)
               /\ \A y \in 1 .. HEIGHT, x \in 1 .. WIDTH :
                    r.rows[y][x] = IF y = t.row + 1 /\ x = t.column + 1 THEN c ELSE t.rows[y][x]
<1> DEFINE s == terminal_swapchar(t, c)
           column == t.column + 1
           r == WithCursor(s, s.row, column)
<1>1. /\ Sound(s) /\ s.row = t.row /\ s.column = t.column /\ SameBut(t, s)
      /\ \A y \in 1 .. HEIGHT, x \in 1 .. WIDTH :
           s.rows[y][x] = IF y = t.row + 1 /\ x = t.column + 1 THEN c ELSE t.rows[y][x]
    <2>1. CellSet(t, s, c)
        BY CellWritten DEF Cells
    <2> HIDE DEF s
    <2> QED BY <2>1 DEF CellSet
<1>2. terminal_putchar(t, c) = [s EXCEPT !.column = s.column + 1]
    BY DEF terminal_putchar
<1> HIDE DEF s
<1>3. s \in Terminals /\ s.row \in 0 .. HEIGHT - 1 /\ column \in 0 .. WIDTH - 1
    BY <1>1, Fields, Cursor
<1>4. terminal_putchar(t, c) = r
    <2>1. [s EXCEPT !.column = s.column + 1] = [s EXCEPT !.row = s.row, !.column = column]
        BY <1>1, <1>3 DEF Terminals
    <2> QED BY <1>2, <2>1 DEF WithCursor
<1> HIDE DEF column
<1>5. /\ r \in Terminals /\ r.rows = s.rows /\ r.row = s.row /\ r.column = column
      /\ r.up = s.up /\ r.down = s.down /\ r.start_of_command = s.start_of_command
      /\ r.end_of_command = s.end_of_command /\ r.fault = s.fault
    BY <1>3, CursorMoved
<1> HIDE DEF r
<1>6. Sound(r)
    BY <1>1, <1>5 DEF Sound
<1> QED BY <1>1, <1>4, <1>5, <1>6 DEF SameBut, column

\* Whatever the character, what comes out is a terminal.
LEMMA PutSound ==
    ASSUME NEW t, Sound(t), NEW c \in Characters
    PROVE  Sound(terminal_putchar(t, c)) /\ (c = "\n" => terminal_putchar(t, c).column = 0)
<1>1. CASE c = "\n"
    <2>1. terminal_putchar(t, c) = NextLine(t)
        BY <1>1 DEF terminal_putchar
    <2> QED BY <2>1, LineFeed
<1>2. CASE c # "\n" /\ t.column + 1 = WIDTH
    <2>1. terminal_putchar(t, c) = NextLine(terminal_swapchar(t, c))
        BY <1>2 DEF terminal_putchar
    <2>2. CellSet(t, terminal_swapchar(t, c), c)
        BY <1>2, CellWritten DEF Cells
    <2>3. /\ Sound(terminal_swapchar(t, c))
          /\ terminal_swapchar(t, c).row = t.row /\ terminal_swapchar(t, c).column = t.column
        BY <2>2 DEF CellSet
    <2> QED BY <1>2, <2>1, <2>3, LineFeed
<1>3. CASE c # "\n" /\ t.column + 1 # WIDTH
    BY <1>3, PutInLine
<1> QED BY <1>1, <1>2, <1>3

\* The terminals while a text is written.
Writes(t, text, f) ==
    /\ f[0] = t
    /\ \A i \in 1 .. Len(text) : f[i] = terminal_putchar(f[i - 1], text[i])
    /\ \A i \in 0 .. Len(text) : Sound(f[i])

\* A text is written character by character.
LEMMA WrittenByCharacters ==
    ASSUME NEW t, Sound(t), NEW text \in Seq(Characters)
    PROVE  \E f : Writes(t, text, f) /\ terminal_writestring(t, text) = f[Len(text)]
<1> DEFINE S == {s \in Terminals : Sound(s)}
           n == Len(text)
           g == [is \in (1 .. n) \X S |-> terminal_putchar(is[2], text[is[1]])]
           T(w) == [i \in 0 .. n |-> IF i = 0 THEN t ELSE terminal_putchar(w[i - 1], text[i])]
<1>1. t \in S /\ n \in Nat
    <2>1. n \in Nat
        OBVIOUS
    <2>2. t \in Terminals
        BY DEF Sound
    <2> QED BY <2>1, <2>2
<1>2. \A i \in 1 .. n : text[i] \in Characters
    OBVIOUS
<1>3. ASSUME NEW i \in 1 .. n, NEW s \in S PROVE terminal_putchar(s, text[i]) \in S
    <2>1. Sound(s) /\ text[i] \in Characters
        BY <1>2
    <2>2. Sound(terminal_putchar(s, text[i]))
        BY <2>1, PutSound
    <2> QED BY <2>2 DEF Sound
<1>4. \A s \in S : Sound(s)
    OBVIOUS
<1> HIDE DEF S, n
<1>5. g \in [(1 .. n) \X S -> S]
    BY <1>3
<1>6. \A i \in 1 .. n, s \in S : g[<<i, s>>] = terminal_putchar(s, text[i])
    OBVIOUS
<1> HIDE DEF g
<1>0. PICK f : RecursionTo(S, t, g, n, f)
    BY <1>1, <1>5, RecursionUpTo
<1>7. f \in [0 .. n -> S] /\ f[0] = t /\ \A i \in 1 .. n : f[i] = g[<<i, f[i - 1]>>]
    BY <1>0 DEF RecursionTo
<1>8. ASSUME NEW i \in 1 .. n PROVE f[i] = terminal_putchar(f[i - 1], text[i])
    <2>1. i - 1 \in 0 .. n
        BY <1>1
    <2>2. f[i - 1] \in S
        BY <1>7, <2>1
    <2> QED BY <1>6, <1>7, <2>2
<1>9. f = T(f)
    <2>1. ASSUME NEW i \in 0 .. n
          PROVE  f[i] = IF i = 0 THEN t ELSE terminal_putchar(f[i - 1], text[i])
        <3>1. i = 0 \/ i \in 1 .. n
            BY <1>1
        <3> QED BY <1>7, <1>8, <3>1
    <2> QED BY <1>7, <2>1
<1> DEFINE w == CHOOSE v : v = T(v)
<1>10. w = T(w)
    <2> HIDE DEF T
    <2> QED BY <1>9
<1>11. terminal_writestring(t, text) = w[n]
    BY DEF terminal_writestring, n
<1> HIDE DEF w
<1>12. \A i \in 0 .. n : w[i] = IF i = 0 THEN t ELSE terminal_putchar(w[i - 1], text[i])
    BY <1>10
<1>13. w[0] = t /\ \A i \in 1 .. n : w[i] = terminal_putchar(w[i - 1], text[i])
    <2>1. 0 \in 0 .. n
        BY <1>1
    <2>2. \A i \in 1 .. n : i \in 0 .. n /\ i # 0
        BY <1>1
    <2> QED BY <1>12, <2>1, <2>2
<1>14. \A i \in 0 .. n : w[i] \in S
    <2> DEFINE N == {i \in Nat : i <= n => w[i] \in S}
    <2>1. 0 \in N
        BY <1>1, <1>13
    <2>2. ASSUME NEW i \in Nat, i \in N PROVE i + 1 \in N
        <3> SUFFICES ASSUME i + 1 <= n PROVE w[i + 1] \in S
            OBVIOUS
        <3>1. i <= n /\ i + 1 \in 1 .. n /\ (i + 1) - 1 = i
            BY <1>1
        <3>2. w[i + 1] = terminal_putchar(w[i], text[i + 1])
            BY <1>13, <3>1
        <3> QED BY <1>3, <2>2, <3>1, <3>2
    <2>3. Nat \subseteq N
        <3> HIDE DEF N
        <3> QED BY <2>1, <2>2, SetInduction
    <2> QED BY <1>1, <2>3
<1>15. \A i \in 0 .. n : Sound(w[i])
    BY <1>4, <1>14
<1>16. Writes(t, text, w)
    BY <1>13, <1>15 DEF Writes, n
<1> QED BY <1>11, <1>16 DEF n

\* Writing a text gives a terminal, at the start of a line if the text ends one.
LEMMA WriteSound ==
    ASSUME NEW t, Sound(t), NEW text \in Seq(Characters)
    PROVE  /\ Sound(terminal_writestring(t, text))
           /\ text # << >> /\ text[Len(text)] = "\n" => terminal_writestring(t, text).column = 0
<1> DEFINE n == Len(text)
<1>1. n \in Nat /\ (text # << >> => n \in 1 .. n /\ n - 1 \in 0 .. n) /\ n \in 0 .. n
    OBVIOUS
<1>2. PICK f : Writes(t, text, f) /\ terminal_writestring(t, text) = f[n]
    BY WrittenByCharacters
<1>3. /\ \A i \in 1 .. n : f[i] = terminal_putchar(f[i - 1], text[i])
      /\ \A i \in 0 .. n : Sound(f[i])
    BY <1>2 DEF Writes
<1>4. ASSUME text # << >>, text[n] = "\n" PROVE f[n].column = 0
    <2>1. n \in 1 .. n /\ n - 1 \in 0 .. n
        BY <1>1, <1>4
    <2>2. f[n] = terminal_putchar(f[n - 1], text[n]) /\ Sound(f[n - 1])
        BY <1>3, <2>1
    <2>3. text[n] \in Characters
        BY <2>1
    <2> QED BY <1>4, <2>2, <2>3, PutSound
<1> HIDE DEF n
<1>5. Sound(f[n])
    BY <1>1, <1>3
<1> QED BY <1>2, <1>4, <1>5 DEF n

\* A text that fits on the line of the cursor: it is in the cells from the cursor on,
\* the cursor is behind it, and nothing else has changed.
InLine(t, r, text, k) ==
    /\ Sound(r) /\ r.row = t.row /\ r.column = t.column + k /\ SameBut(t, r)
    /\ \A y \in 1 .. HEIGHT, x \in 1 .. WIDTH :
         r.rows[y][x] = IF y = t.row + 1 /\ x \in t.column + 1 .. t.column + k
                        THEN text[x - t.column] ELSE t.rows[y][x]

\* It is written like this.
LEMMA WriteInLine ==
    ASSUME NEW t, Sound(t), NEW text \in Seq(Characters), t.column + Len(text) < WIDTH,
           \A i \in 1 .. Len(text) : text[i] # "\n"
    PROVE  InLine(t, terminal_writestring(t, text), text, Len(text))
<1> DEFINE n == Len(text)
           col == t.column
<1>1. n \in Nat /\ col \in Nat /\ col + n < WIDTH /\ WIDTH \in Nat /\ n \in 0 .. n
    <2>1. n \in Nat /\ n \in 0 .. n
        OBVIOUS
    <2>2. col \in 0 .. WIDTH - 1 /\ WIDTH \in Nat
        BY Cursor, ScreenSize
    <2> QED BY <2>1, <2>2
<1>2. PICK f : Writes(t, text, f) /\ terminal_writestring(t, text) = f[n]
    BY WrittenByCharacters
<1>3. /\ f[0] = t
      /\ \A i \in 1 .. n : f[i] = terminal_putchar(f[i - 1], text[i])
      /\ \A i \in 0 .. n : Sound(f[i])
    BY <1>2 DEF Writes
<1>4. \A i \in 1 .. n : text[i] \in Characters /\ text[i] # "\n"
    OBVIOUS
<1> DEFINE N == {k \in Nat : k <= n => InLine(t, f[k], text, k)}
<1> HIDE DEF n
<1>5. 0 \in N
    <2>1. \A x \in Nat : x \notin col + 1 .. col + 0
        BY <1>1
    <2>2. t.column = t.column + 0
        BY <1>1
    <2> QED BY <1>3, <2>1, <2>2 DEF InLine, SameBut
<1>6. ASSUME NEW k \in Nat, k \in N PROVE k + 1 \in N
    <2> SUFFICES ASSUME k + 1 <= n PROVE InLine(t, f[k + 1], text, k + 1)
        OBVIOUS
    <2> DEFINE s == f[k]
               r == f[k + 1]
               c == text[k + 1]
    <2>1. k <= n /\ k + 1 \in 1 .. n /\ (k + 1) - 1 = k
        BY <1>1
    <2>2. InLine(t, s, text, k)
        BY <1>6, <2>1
    <2>3. r = terminal_putchar(s, c) /\ c \in Characters /\ c # "\n"
        BY <1>3, <1>4, <2>1
    <2>4. /\ Sound(s) /\ s.row = t.row /\ s.column = col + k /\ SameBut(t, s)
          /\ \A y \in 1 .. HEIGHT, x \in 1 .. WIDTH :
               s.rows[y][x] = IF y = t.row + 1 /\ x \in col + 1 .. col + k
                              THEN text[x - col] ELSE t.rows[y][x]
        BY <2>2 DEF InLine
    <2> HIDE DEF s, r, c, col
    <2>5. s.column + 1 # WIDTH /\ s.column + 1 = col + (k + 1)
        BY <1>1, <2>1, <2>4
    <2>6. /\ Sound(r) /\ r.row = s.row /\ r.column = s.column + 1 /\ SameBut(s, r)
          /\ \A y \in 1 .. HEIGHT, x \in 1 .. WIDTH :
               r.rows[y][x] = IF y = s.row + 1 /\ x = s.column + 1 THEN c ELSE s.rows[y][x]
        BY <2>3, <2>4, <2>5, PutInLine
    <2>7. ASSUME NEW y \in 1 .. HEIGHT, NEW x \in 1 .. WIDTH
          PROVE  r.rows[y][x] = IF y = t.row + 1 /\ x \in col + 1 .. col + (k + 1)
                                THEN text[x - col] ELSE t.rows[y][x]
        <3>1. /\ x \in col + 1 .. col + (k + 1) <=> x \in col + 1 .. col + k \/ x = col + (k + 1)
              /\ x = col + (k + 1) => x \notin col + 1 .. col + k /\ x - col = k + 1
            BY <1>1
        <3>2. /\ r.rows[y][x] = IF y = t.row + 1 /\ x = col + (k + 1) THEN c ELSE s.rows[y][x]
              /\ s.rows[y][x] = IF y = t.row + 1 /\ x \in col + 1 .. col + k
                                THEN text[x - col] ELSE t.rows[y][x]
            BY <2>4, <2>5, <2>6
        <3>3. CASE x = col + (k + 1)
            <4>1. x - col = k + 1 /\ x \in col + 1 .. col + (k + 1) /\ x \notin col + 1 .. col + k
                BY <3>1, <3>3
            <4> QED BY <3>2, <3>3, <4>1 DEF c
        <3>4. CASE x # col + (k + 1)
            <4>1. x \in col + 1 .. col + (k + 1) <=> x \in col + 1 .. col + k
                BY <3>1, <3>4
            <4> QED BY <3>2, <3>4, <4>1
        <3> QED BY <3>3, <3>4
    <2>8. SameBut(t, r)
        BY <2>4, <2>6 DEF SameBut
    <2>9. r.row = t.row /\ r.column = col + (k + 1)
        BY <2>4, <2>5, <2>6
    <2> QED BY <2>6, <2>7, <2>8, <2>9 DEF InLine, r, col
<1>7. Nat \subseteq N
    <2> HIDE DEF N
    <2> QED BY <1>5, <1>6, SetInduction
<1> QED BY <1>1, <1>2, <1>7 DEF n

-----------------------------------------------------------------------------
(* Moving the cursor. *)

\* A cursor that moves within the screen.
LEMMA CursorSound ==
    ASSUME NEW t, Sound(t), NEW row \in 0 .. HEIGHT - 1, NEW column \in 0 .. WIDTH - 1
    PROVE  LET r == WithCursor(t, row, column)
           IN  /\ Sound(r) /\ r.rows = t.rows /\ r.row = row /\ r.column = column
               /\ SameBut(t, r)
<1> DEFINE r == WithCursor(t, row, column)
<1>1. t \in Terminals
    BY Fields
<1>2. /\ r \in Terminals /\ r.rows = t.rows /\ r.row = row /\ r.column = column
      /\ r.up = t.up /\ r.down = t.down /\ r.start_of_command = t.start_of_command
      /\ r.end_of_command = t.end_of_command /\ r.fault = t.fault
    BY <1>1, CursorMoved
<1> HIDE DEF r
<1>3. Sound(r)
    BY <1>2 DEF Sound
<1> QED BY <1>2, <1>3 DEF SameBut, r

\* A new row or a new column alone.
LEMMA OneCoordinate ==
    ASSUME NEW t \in Terminals, NEW row, NEW column
    PROVE  /\ [t EXCEPT !.row = row] = WithCursor(t, row, t.column)
           /\ [t EXCEPT !.column = column] = WithCursor(t, t.row, column)
BY DEF Terminals, WithCursor

\* Up, down, left and right: over the edge the screen scrolls, if there is a row.
LEMMA ArrowMoves ==
    ASSUME NEW t, Sound(t)
    PROVE  /\ \/ terminal_cursor_up(t) = terminal_scroll_up(t)
              \/ /\ Sound(terminal_cursor_up(t)) /\ SameBut(t, terminal_cursor_up(t))
                 /\ terminal_cursor_up(t).rows = t.rows
           /\ \/ t.down # << >> /\ terminal_cursor_down(t) = terminal_scroll_down(t)
              \/ /\ Sound(terminal_cursor_down(t)) /\ SameBut(t, terminal_cursor_down(t))
                 /\ terminal_cursor_down(t).rows = t.rows
           /\ Sound(terminal_cursor_left(t)) /\ SameBut(t, terminal_cursor_left(t))
           /\ terminal_cursor_left(t).rows = t.rows
           /\ Sound(terminal_cursor_right(t)) /\ SameBut(t, terminal_cursor_right(t))
           /\ terminal_cursor_right(t).rows = t.rows
<1>1. t \in Terminals
    BY Fields
<1>2. ASSUME NEW row \in 0 .. HEIGHT - 1, NEW column \in 0 .. WIDTH - 1,
             NEW r, r = WithCursor(t, row, column)
      PROVE  Sound(r) /\ SameBut(t, r) /\ r.rows = t.rows
    BY <1>2, CursorSound
<1>3. t.row \in 0 .. HEIGHT - 1 /\ t.column \in 0 .. WIDTH - 1
    BY Cursor
<1>6. \/ terminal_cursor_up(t) = terminal_scroll_up(t)
      \/ /\ Sound(terminal_cursor_up(t)) /\ SameBut(t, terminal_cursor_up(t))
         /\ terminal_cursor_up(t).rows = t.rows
    <2>1. CASE t.row = 0
        BY <2>1 DEF terminal_cursor_up
    <2>2. CASE t.row # 0
        <3>1. t.row - 1 \in 0 .. HEIGHT - 1
            BY <2>2, Cursor
        <3>2. terminal_cursor_up(t) = WithCursor(t, t.row - 1, t.column)
            BY <1>1, <2>2, OneCoordinate DEF terminal_cursor_up
        <3> QED BY <1>2, <1>3, <3>1, <3>2
    <2> QED BY <2>1, <2>2
<1>7. \/ t.down # << >> /\ terminal_cursor_down(t) = terminal_scroll_down(t)
      \/ /\ Sound(terminal_cursor_down(t)) /\ SameBut(t, terminal_cursor_down(t))
         /\ terminal_cursor_down(t).rows = t.rows
    <2>1. CASE t.row + 1 <= HEIGHT - 1
        <3>1. t.row + 1 \in 0 .. HEIGHT - 1
            <4>1. t.row + 1 # HEIGHT
                BY <1>3, <2>1, ScreenSize
            <4> QED BY <4>1, Cursor
        <3>2. terminal_cursor_down(t) = WithCursor(t, t.row + 1, t.column)
            BY <1>1, <2>1, OneCoordinate DEF terminal_cursor_down
        <3> QED BY <1>2, <1>3, <3>1, <3>2
    <2>2. CASE ~(t.row + 1 <= HEIGHT - 1) /\ t.down = << >>
        <3>1. terminal_cursor_down(t) = t
            BY <2>2 DEF terminal_cursor_down
        <3> QED BY <3>1 DEF SameBut
    <2>3. CASE ~(t.row + 1 <= HEIGHT - 1) /\ t.down # << >>
        BY <2>3 DEF terminal_cursor_down
    <2> QED BY <2>1, <2>2, <2>3
<1>8. /\ Sound(terminal_cursor_left(t)) /\ SameBut(t, terminal_cursor_left(t))
      /\ terminal_cursor_left(t).rows = t.rows
    <2> DEFINE column == IF t.column = 0 THEN 0 ELSE t.column - 1
    <2>1. column \in 0 .. WIDTH - 1
        BY Cursor
    <2>2. terminal_cursor_left(t) = [t EXCEPT !.column = column]
        BY DEF terminal_cursor_left
    <2> HIDE DEF column
    <2>3. terminal_cursor_left(t) = WithCursor(t, t.row, column)
        BY <1>1, <2>2, OneCoordinate
    <2> QED BY <1>2, <1>3, <2>1, <2>3
<1>9. /\ Sound(terminal_cursor_right(t)) /\ SameBut(t, terminal_cursor_right(t))
      /\ terminal_cursor_right(t).rows = t.rows
    <2> DEFINE column == IF t.column + 1 > WIDTH - 1 THEN WIDTH - 1 ELSE t.column + 1
    <2>1. column \in 0 .. WIDTH - 1
        <3>1. WIDTH \in Nat /\ WIDTH > 1
            BY ScreenSize
        <3> QED BY <1>3, <3>1
    <2>2. terminal_cursor_right(t) = [t EXCEPT !.column = column]
        BY DEF terminal_cursor_right
    <2> HIDE DEF column
    <2>3. terminal_cursor_right(t) = WithCursor(t, t.row, column)
        BY <1>1, <2>2, OneCoordinate
    <2> QED BY <1>2, <1>3, <2>1, <2>3
<1> QED BY <1>6, <1>7, <1>8, <1>9

\* Of the cells of t, r has another in row y and column x.
OneCell(t, r, y, x, c) ==
    \A b \in 1 .. HEIGHT, a \in 1 .. WIDTH :
       r.rows[b][a] = IF b = y /\ a = x THEN c ELSE t.rows[b][a]

\* Backspace blanks the cell before the cursor and goes there.
LEMMA Backspaced ==
    ASSUME NEW t, Sound(t), t.column # 0
    PROVE  LET r == terminal_backspace(t)
           IN  /\ Sound(r) /\ r.row = t.row /\ r.column = t.column - 1 /\ SameBut(t, r)
               /\ OneCell(t, r, t.row + 1, t.column, " ")
<1> DEFINE column == t.column - 1
           s == WithCursor(t, t.row, column)
           r == terminal_swapchar(s, " ")
<1>1. t \in Terminals /\ t.row \in 0 .. HEIGHT - 1 /\ column \in 0 .. WIDTH - 1
      /\ column + 1 = t.column
    <2>1. t.column \in Int
        BY Cursor
    <2>2. column + 1 = t.column
        BY <2>1
    <2> QED BY <2>2, Cursor, Fields
<1>2. terminal_backspace(t) = terminal_swapchar([t EXCEPT !.column = column], " ")
    BY DEF terminal_backspace
<1> HIDE DEF column
<1>3. terminal_backspace(t) = r
    BY <1>1, <1>2, OneCoordinate
<1>4. Sound(s) /\ s.rows = t.rows /\ s.row = t.row /\ s.column = column /\ SameBut(t, s)
    BY <1>1, CursorSound
<1> HIDE DEF s
<1>5. " " \in Cells
    BY ConsoleAssumption DEF Cells
<1>6. /\ Sound(r) /\ r.row = s.row /\ r.column = s.column /\ SameBut(s, r)
      /\ \A y \in 1 .. HEIGHT, x \in 1 .. WIDTH :
           r.rows[y][x] = IF y = s.row + 1 /\ x = s.column + 1 THEN " " ELSE s.rows[y][x]
    <2>1. CellSet(s, r, " ")
        BY <1>4, <1>5, CellWritten
    <2> HIDE DEF r
    <2> QED BY <2>1 DEF CellSet
<1> HIDE DEF r
<1>7. SameBut(t, r)
    BY <1>4, <1>6 DEF SameBut
<1>8. OneCell(t, r, t.row + 1, t.column, " ")
    <2>1. s.row + 1 = t.row + 1 /\ s.column + 1 = t.column
        BY <1>1, <1>4
    <2>2. ASSUME NEW y \in 1 .. HEIGHT, NEW x \in 1 .. WIDTH
          PROVE  r.rows[y][x] = IF y = t.row + 1 /\ x = t.column THEN " " ELSE t.rows[y][x]
        <3>1. r.rows[y][x] = IF y = s.row + 1 /\ x = s.column + 1 THEN " " ELSE s.rows[y][x]
            BY Zenon, <1>6
        <3> QED BY Zenon, <1>4, <2>1, <3>1
    <2> QED BY Zenon, <2>2 DEF OneCell
<1> QED BY <1>1, <1>3, <1>4, <1>6, <1>7, <1>8 DEF column

\* In every case it gives a terminal.
LEMMA BackspaceSound ==
    ASSUME NEW t, Sound(t)
    PROVE  Sound(terminal_backspace(t))
<1>1. CASE t.column = 0
    BY <1>1 DEF terminal_backspace
<1>2. CASE t.column # 0
    BY <1>2, Backspaced
<1> QED BY <1>1, <1>2

-----------------------------------------------------------------------------
(* Commands. *)

\* The screen, the cursor and the histories are the same.
SameScreen(t, r) ==
    /\ r.rows = t.rows /\ r.row = t.row /\ r.column = t.column
    /\ r.up = t.up /\ r.down = t.down /\ r.fault = t.fault

\* A position on the screen is a number.
LEMMA PositionType ==
    ASSUME NEW t, Sound(t)
    PROVE  Position(t) \in Nat
<1>1. t.row \in Nat /\ t.column \in Nat /\ WIDTH \in Nat
    BY Cursor, ScreenSize
<1> QED BY <1>1 DEF Position

\* A new start or a new end alone.
LEMMA OneEnd ==
    ASSUME NEW t \in Terminals, NEW start, NEW end
    PROVE  /\ [t EXCEPT !.start_of_command = start] = WithCommand(t, start, t.end_of_command)
           /\ [t EXCEPT !.end_of_command = end] = WithCommand(t, t.start_of_command, end)
BY DEF Terminals, WithCommand

\* A terminal whose command has moved is a terminal.
LEMMA CommandSound ==
    ASSUME NEW t, Sound(t), NEW start \in Int, NEW end \in Int
    PROVE  LET r == WithCommand(t, start, end)
           IN  /\ Sound(r) /\ SameScreen(t, r)
               /\ r.start_of_command = start /\ r.end_of_command = end
<1> DEFINE r == WithCommand(t, start, end)
<1>1. t \in Terminals
    BY Fields
<1>2. /\ r \in Terminals /\ r.start_of_command = start /\ r.end_of_command = end
      /\ r.fault = t.fault /\ r.rows = t.rows /\ r.up = t.up /\ r.down = t.down
      /\ r.row = t.row /\ r.column = t.column
    BY <1>1, CommandMoved
<1> HIDE DEF r
<1>3. Sound(r)
    BY <1>2 DEF Sound
<1> QED BY <1>2, <1>3 DEF SameScreen, r

\* Where the command starts and where it ends is where the cursor is.
LEMMA CommandAtCursor ==
    ASSUME NEW t, Sound(t)
    PROVE  /\ Sound(default_init_context(t)) /\ SameScreen(t, default_init_context(t))
           /\ default_init_context(t).start_of_command = Position(t)
           /\ Sound(default_terminal_end(t)) /\ SameScreen(t, default_terminal_end(t))
           /\ default_terminal_end(t).start_of_command = t.start_of_command
           /\ default_terminal_end(t).end_of_command = Position(t)
<1>1. t \in Terminals /\ t.start_of_command \in Int /\ Position(t) \in Int
    <2>1. t \in Terminals /\ t.start_of_command \in Int /\ Position(t) \in Nat
        BY Fields, PositionType
    <2> QED BY <2>1
<1>2. default_init_context(t) = WithCommand(t, Position(t), Position(t))
    BY DEF default_init_context, WithCommand
<1>3. default_terminal_end(t) = WithCommand(t, t.start_of_command, Position(t))
    BY <1>1, OneEnd DEF default_terminal_end
<1> QED BY <1>1, <1>2, <1>3, CommandSound

\* What is below n.
LEMMA BelowRange ==
    ASSUME NEW n \in Nat, NEW a \in Nat, a < n
    PROVE  a \in 0 .. n - 1
OBVIOUS

\* Products of natural numbers.
LEMMA ProductCommutes ==
    ASSUME NEW a \in Nat, NEW b \in Nat
    PROVE  a * b = b * a
OBVIOUS

\* A cell holds a character.
LEMMA CellType ==
    ASSUME NEW t, Sound(t), NEW i \in Nat
    PROVE  Cell(t, i) \in Cells
<1>1. WIDTH \in Nat \ {0} /\ HEIGHT \in Nat /\ " " \in Cells
    <2>1. WIDTH \in Nat \ {0} /\ HEIGHT \in Nat
        BY ScreenSize
    <2> QED BY <2>1, ConsoleAssumption DEF Cells
<1>2. CASE i < WIDTH * HEIGHT
    <2> DEFINE y == i \div WIDTH
               x == i % WIDTH
    <2>1. i < HEIGHT * WIDTH
        BY <1>1, <1>2, ProductCommutes
    <2>2. y \in Nat /\ y < HEIGHT
        BY <1>1, <2>1, QuotientType, QuotientBelow
    <2>3. x \in 0 .. WIDTH - 1
        BY <1>1, RemainderType
    <2>4. Cell(t, i) = t.rows[y + 1][x + 1]
        BY <1>2 DEF Cell
    <2> HIDE DEF x, y
    <2>5. y + 1 \in 1 .. HEIGHT /\ x + 1 \in 1 .. WIDTH
        <3>1. y \in 0 .. HEIGHT - 1
            BY <1>1, <2>2, BelowRange
        <3>2. WIDTH \in Nat /\ HEIGHT \in Nat
            BY ScreenSize
        <3> QED BY <2>3, <3>1, <3>2, Neighbours
    <2>6. t.rows \in Seq(Row) /\ Len(t.rows) = HEIGHT
        BY Fields
    <2>7. t.rows[y + 1] \in Row
        BY <2>5, <2>6
    <2>8. t.rows[y + 1][x + 1] \in Cells
        BY <2>5, <2>7 DEF Row
    <2> QED BY <2>4, <2>8
<1>3. CASE ~(i < WIDTH * HEIGHT)
    BY <1>1, <1>3 DEF Cell
<1> QED BY <1>2, <1>3

\* The length of a command that has been cut is that of an array.
LEMMA CutSound ==
    ASSUME NEW t, Sound(t)
    PROVE  /\ Sound(Cut(t)) /\ SameScreen(t, Cut(t))
           /\ Cut(t).start_of_command = t.start_of_command
           /\ CommandLength(Cut(t)) \in 1 .. WIDTH - 1
<1> DEFINE start == t.start_of_command
           end == start + WIDTH - 1
<1>1. start \in Int /\ t.end_of_command \in Int /\ WIDTH \in Nat /\ WIDTH > 1 /\ t \in Terminals
    BY Fields, ScreenSize
<1>2. end \in Int /\ end - start \in 1 .. WIDTH - 1
    BY <1>1
<1>3. CASE CommandLength(t) \in 1 .. WIDTH - 1
    BY <1>3 DEF Cut, SameScreen
<1>4. CASE CommandLength(t) \notin 1 .. WIDTH - 1
    <2>1. Cut(t) = WithCommand(t, start, end)
        BY <1>1, <1>4, OneEnd DEF Cut
    <2> HIDE DEF end, start
    <2>2. /\ Sound(Cut(t)) /\ SameScreen(t, Cut(t))
          /\ Cut(t).start_of_command = start /\ Cut(t).end_of_command = end
        BY <1>1, <1>2, <2>1, CommandSound
    <2> QED BY <1>2, <2>2 DEF CommandLength, start
<1> QED BY <1>3, <1>4

\* What is read back from the screen is a text.
LEMMA CommandType ==
    ASSUME NEW t, Sound(t), t.start_of_command >= 0, CommandLength(t) \in Nat
    PROVE  /\ default_get_command(t) \in Seq(Characters) /\ default_get_command(t) \in Seq(Cells)
           /\ Len(default_get_command(t)) = CommandLength(t)
           /\ \A j \in 1 .. CommandLength(t) :
                default_get_command(t)[j] = Cell(t, t.start_of_command + j - 1)
<1> DEFINE n == CommandLength(t)
<1>1. t.start_of_command \in Nat
    <2>1. t.start_of_command \in Int
        BY Fields
    <2> QED BY <2>1
<1>2. \A j \in 1 .. n : t.start_of_command + j - 1 \in Nat
    BY <1>1
<1>3. default_get_command(t) = [j \in 1 .. n |-> Cell(t, t.start_of_command + j - 1)]
    BY DEF default_get_command
<1> HIDE DEF n
<1>4. \A j \in 1 .. n : Cell(t, t.start_of_command + j - 1) \in Cells
    BY <1>2, CellType
<1>5. n \in Nat
    BY DEF n
<1>6. \A c \in Cells : c \in Characters
    BY DEF Cells
<1>7. default_get_command(t) \in Seq(Cells) /\ default_get_command(t) \in Seq(Characters)
    BY <1>3, <1>4, <1>5, <1>6
<1> QED BY <1>3, <1>5, <1>7 DEF n

\* What a command prints ends a line.
LEMMA OutputLine ==
    ASSUME NEW command \in Seq(Characters)
    PROVE  /\ Output(command) \in Seq(Characters) /\ Output(command) # << >>
           /\ Output(command)[Len(Output(command))] = "\n"
<1>1. /\ HelpText \in Seq(Characters) /\ Error \in Seq(Characters) /\ "\n" \in Characters
      /\ Echo \in Seq(Characters)
    BY ConsoleAssumption
<1>2. /\ HelpText # << >> /\ HelpText[Len(HelpText)] = "\n"
      /\ Error # << >> /\ Error[Len(Error)] = "\n"
    BY TextsAssumption
<1> DEFINE argument == SubSeq(command, Len(Echo) + 2, Len(command))
<1>3. argument \in Seq(Characters)
    <2>1. Len(Echo) + 2 \in 1 .. Len(Echo) + 2 /\ Len(command) \in Nat
        BY <1>1
    <2> QED BY <2>1
<1> HIDE DEF argument
<1>4. /\ Append(argument, "\n") \in Seq(Characters) /\ Append(argument, "\n") # << >>
      /\ Append(argument, "\n")[Len(Append(argument, "\n"))] = "\n"
    BY <1>1, <1>3, Appended
<1>5. Output(command) \in {Append(argument, "\n"), Error, HelpText}
    <2>1. CASE IsPrefix(Echo, command)
        BY <2>1 DEF Output, argument
    <2>2. CASE ~IsPrefix(Echo, command) /\ IsPrefix(Help, command)
        BY <2>2 DEF Output
    <2>3. CASE ~IsPrefix(Echo, command) /\ ~IsPrefix(Help, command)
        BY <2>3 DEF Output
    <2> QED BY <2>1, <2>2, <2>3
<1> QED BY <1>1, <1>2, <1>4, <1>5

\* The length of the prompt.
P == Len(DEFAULT_PROMPT)

\* The texts are on one line, and the prompt leaves room behind it.
LEMMA Texts ==
    /\ DEFAULT_PROMPT \in Seq(Characters) /\ TAB \in Seq(Characters)
    /\ P \in Nat /\ WIDTH \in Nat /\ P + 1 < WIDTH /\ P < WIDTH /\ P + 0 = P
    /\ \A i \in 1 .. P : DEFAULT_PROMPT[i] # "\n"
    /\ \A i \in 1 .. Len(TAB) : TAB[i] # "\n"
<1>1. DEFAULT_PROMPT \in Seq(Characters) /\ TAB \in Seq(Characters)
    BY ConsoleAssumption
<1>2. P \in Nat
    BY <1>1 DEF P
<1>3. WIDTH \in Nat /\ WIDTH > P + 1
    BY ConsoleAssumption DEF P
<1>4. P + 1 < WIDTH /\ P < WIDTH /\ P + 0 = P
    BY <1>2, <1>3
<1> QED BY <1>1, <1>2, <1>3, <1>4, TextsAssumption DEF P

\* The text of the command is on the line of the cursor, behind the prompt and up
\* to the cursor.
OnLine(t, text) ==
    /\ t.start_of_command = t.row * WIDTH + P
    /\ t.column = P + Len(text)
    /\ \A i \in 1 .. Len(text) : t.rows[t.row + 1][P + i] = text[i]

\* The first cell of the line of the cursor.
LEMMA LineStart ==
    ASSUME NEW t, Sound(t)
    PROVE  t.row * WIDTH \in Nat
<1>1. t.row \in Nat /\ WIDTH \in Nat
    BY Cursor, ScreenSize
<1> QED BY <1>1

\* The prompt at the start of a line.
LEMMA PromptWritten ==
    ASSUME NEW t, Sound(t), t.column = 0
    PROVE  LET r == terminal_writestring(t, DEFAULT_PROMPT)
           IN  Sound(r) /\ r.row = t.row /\ r.column = P /\ SameBut(t, r)
<1>1. t.column + P < WIDTH /\ t.column + P = P
    BY Texts
<1>2. InLine(t, terminal_writestring(t, DEFAULT_PROMPT), DEFAULT_PROMPT, P)
    BY <1>1, Texts, WriteInLine DEF P
<1> QED BY <1>1, <1>2 DEF InLine

\* No text has been typed behind a prompt.
LEMMA NothingTyped ==
    ASSUME NEW t, t.start_of_command = t.row * WIDTH + P, t.column = P
    PROVE  OnLine(t, << >>)
<1>1. Len(<< >>) = 0 /\ t.column = P + 0
    BY Texts
<1>2. \A i \in 1 .. Len(<< >>) : FALSE
    BY <1>1
<1> QED BY <1>1, <1>2 DEF OnLine

\* A command starts behind the prompt that has just been written.
LEMMA CommandBehindPrompt ==
    ASSUME NEW t, Sound(t), t.column = P
    PROVE  Sound(default_init_context(t)) /\ OnLine(default_init_context(t), << >>)
<1> DEFINE r == default_init_context(t)
<1>1. Sound(r) /\ SameScreen(t, r) /\ r.start_of_command = Position(t)
    BY CommandAtCursor
<1> HIDE DEF r
<1>2. r.start_of_command = r.row * WIDTH + P /\ r.column = P
    BY <1>1 DEF SameScreen, Position
<1> QED BY <1>1, <1>2, NothingTyped DEF r

\* A command leaves the cursor behind a new prompt.
LEMMA CommandRun ==
    ASSUME NEW t, Sound(t), NEW command \in Seq(Characters)
    PROVE  Sound(default_run_command(t, command)) /\ default_run_command(t, command).column = P
<1> DEFINE w == terminal_writestring(t, Output(command))
<1>1. Sound(w) /\ w.column = 0
    BY OutputLine, WriteSound
<1> HIDE DEF w
<1>2. /\ Sound(terminal_writestring(w, DEFAULT_PROMPT))
      /\ terminal_writestring(w, DEFAULT_PROMPT).column = P
    BY <1>1, PromptWritten
<1> QED BY <1>2 DEF default_run_command, w

\* A terminal whose fault is set.
LEMMA Faulted ==
    ASSUME NEW t, Sound(t)
    PROVE  LET r == [t EXCEPT !.fault = TRUE] IN Sound(r) /\ r.column = t.column
<1> DEFINE r == [t EXCEPT !.fault = TRUE]
<1>1. t \in Terminals /\ Len(t.rows) = HEIGHT /\ Len(t.up) + Len(t.down) <= HEIGHT
    BY DEF Sound
<1>2. r \in Terminals /\ r.rows = t.rows /\ r.up = t.up /\ r.down = t.down
      /\ r.column = t.column
    BY <1>1 DEF Terminals
<1> HIDE DEF r
<1>3. Sound(r)
    BY <1>1, <1>2 DEF Sound
<1> QED BY <1>2, <1>3 DEF r

\* Processing a command at the start of a line leaves the cursor behind a prompt, or
\* where it is.
LEMMA CommandProcessed ==
    ASSUME NEW t, Sound(t), t.column = 0
    PROVE  LET r == default_terminal_process_command(t)
           IN  Sound(r) /\ (r.column = 0 \/ OnLine(r, << >>))
<1>1. CASE CommandLength(t) = 0
    <2> DEFINE w == terminal_writestring(t, DEFAULT_PROMPT)
    <2>1. Sound(w) /\ w.column = P
        BY PromptWritten
    <2>2. default_terminal_process_command(t) = default_init_context(w)
        BY <1>1 DEF default_terminal_process_command
    <2> HIDE DEF w
    <2> QED BY <2>1, <2>2, CommandBehindPrompt
<1>2. CASE CommandLength(t) # 0 /\ t.start_of_command < 0
    <2>1. default_terminal_process_command(t) = [t EXCEPT !.fault = TRUE]
        BY <1>2 DEF default_terminal_process_command
    <2> QED BY <2>1, Faulted
<1>3. CASE CommandLength(t) # 0 /\ ~(t.start_of_command < 0)
    <2> DEFINE c == Cut(t)
               w == default_run_command(c, default_get_command(c))
    <2>1. Sound(c) /\ c.start_of_command = t.start_of_command
          /\ CommandLength(c) \in 1 .. WIDTH - 1
        BY CutSound
    <2>2. default_terminal_process_command(t) = default_init_context(w)
        BY <1>3 DEF default_terminal_process_command
    <2>3. c.start_of_command >= 0 /\ CommandLength(c) \in Nat
        <3>1. t.start_of_command \in Int /\ WIDTH \in Nat
            BY Fields, ScreenSize
        <3> HIDE DEF c
        <3>2. CommandLength(c) \in Nat
            BY <2>1, <3>1
        <3>3. t.start_of_command >= 0
            BY <1>3, <3>1
        <3> QED BY <2>1, <3>2, <3>3
    <2> HIDE DEF c
    <2>4. default_get_command(c) \in Seq(Characters)
        BY <2>1, <2>3, CommandType
    <2>5. Sound(w) /\ w.column = P
        BY <2>1, <2>4, CommandRun
    <2> HIDE DEF w
    <2> QED BY <2>2, <2>5, CommandBehindPrompt
<1> QED BY <1>1, <1>2, <1>3

\* A key at the start of a line begins a command.
LEMMA PromptedSound ==
    ASSUME NEW t, Sound(t)
    PROVE  /\ Sound(Prompted(t)) /\ (t.column # 0 => Prompted(t) = t)
           /\ t.column = 0 => OnLine(Prompted(t), << >>)
<1>1. CASE t.column # 0
    BY <1>1 DEF Prompted
<1>2. CASE t.column = 0
    <2> DEFINE i == default_init_context(t)
               w == terminal_writestring(i, DEFAULT_PROMPT)
               start == w.start_of_command + P
               r == WithCommand(w, start, w.end_of_command)
    <2>1. Sound(i) /\ SameScreen(t, i) /\ i.start_of_command = Position(t)
        BY CommandAtCursor
    <2>2. i.column = 0 /\ i.row = t.row
        BY <1>2, <2>1 DEF SameScreen
    <2>3. Prompted(t) = [w EXCEPT !.start_of_command = start]
        BY <1>2 DEF Prompted, P
    <2> HIDE DEF i
    <2>4. Sound(w) /\ w.row = i.row /\ w.column = P /\ SameBut(i, w)
        BY <2>1, <2>2, PromptWritten
    <2> HIDE DEF w
    <2>5. w \in Terminals /\ w.start_of_command \in Int /\ w.end_of_command \in Int
        BY <2>4, Fields
    <2>6. start \in Int
        BY <2>5, Texts
    <2>7. start = t.row * WIDTH + P
        <3> DEFINE k == t.row * WIDTH
        <3>1. k \in Nat
            BY LineStart
        <3>2. w.start_of_command = k + t.column
            BY <2>1, <2>4 DEF SameBut, Position
        <3> HIDE DEF k
        <3>3. w.start_of_command = k
            BY <1>2, <3>1, <3>2
        <3> QED BY <3>3 DEF k
    <2> HIDE DEF start
    <2>8. Prompted(t) = r
        BY <2>3, <2>5, OneEnd
    <2>9. Sound(r) /\ SameScreen(w, r) /\ r.start_of_command = start
        BY <2>4, <2>5, <2>6, CommandSound
    <2> HIDE DEF r
    <2>10. r.start_of_command = r.row * WIDTH + P /\ r.column = P
        BY <2>2, <2>4, <2>7, <2>9 DEF SameScreen
    <2> QED BY <1>2, <2>8, <2>9, <2>10, NothingTyped
<1> QED BY <1>1, <1>2

\* The line feed of the enter key.
LEMMA EnteredSound ==
    ASSUME NEW t, Sound(t)
    PROVE  Sound(Entered(t)) /\ Entered(t).column = 0
<1>1. Sound(default_terminal_end(t)) /\ "\n" \in Characters
    BY CommandAtCursor, ConsoleAssumption
<1> QED BY <1>1, PutSound DEF Entered

\* The enter key leaves the cursor behind a prompt or at the start of a line.
LEMMA EnterKey ==
    ASSUME NEW t, Sound(t)
    PROVE  LET r == NormalKey(t, "\n")
           IN  Sound(r) /\ (r.column = 0 \/ OnLine(r, << >>))
<1> DEFINE e == Entered(Prompted(t))
           p == default_terminal_process_command(e)
           r == default_terminal_end(p)
<1>1. Sound(e) /\ e.column = 0
    BY PromptedSound, EnteredSound
<1>2. NormalKey(t, "\n") = r
    BY DEF NormalKey
<1> HIDE DEF e
<1>3. Sound(p) /\ (p.column = 0 \/ OnLine(p, << >>))
    BY <1>1, CommandProcessed
<1> HIDE DEF p
<1>4. Sound(r) /\ SameScreen(p, r) /\ r.start_of_command = p.start_of_command
    BY <1>3, CommandAtCursor
<1> HIDE DEF r
<1>5. r.column = 0 \/ OnLine(r, << >>)
    BY <1>3, <1>4 DEF SameScreen, OnLine
<1> QED BY <1>2, <1>4, <1>5

\* Every key gives a terminal.
LEMMA NormalKeySound ==
    ASSUME NEW t, Sound(t), NEW c \in Characters
    PROVE  Sound(NormalKey(t, c))
<1> DEFINE p == Prompted(t)
<1>1. Sound(p)
    BY PromptedSound
<1>2. CASE c = "\n"
    BY <1>2, EnterKey
<1>3. CASE c # "\n" /\ ~InCommand(p)
    <2>1. NormalKey(t, c) = p
        BY <1>3 DEF NormalKey
    <2> QED BY <1>1, <2>1
<1>4. CASE c = "\t" /\ InCommand(p)
    <2>1. NormalKey(t, c) = default_terminal_end(terminal_writestring(p, TAB))
        BY <1>4 DEF NormalKey
    <2> HIDE DEF p
    <2> QED BY <1>1, <2>1, Texts, WriteSound, CommandAtCursor
<1>5. CASE c # "\n" /\ c # "\t" /\ InCommand(p)
    <2>1. NormalKey(t, c) = default_terminal_end(terminal_putchar(p, c))
        BY <1>5 DEF NormalKey
    <2> HIDE DEF p
    <2> QED BY <1>1, <2>1, PutSound, CommandAtCursor
<1> QED BY <1>2, <1>3, <1>4, <1>5

-----------------------------------------------------------------------------
(* What was typed and what is on the screen. *)

\* At the start of a line nothing has been typed on it; elsewhere it is on the line.
TypedLine(t, text) == IF t.column = 0 THEN text = << >> ELSE OnLine(t, text)

\* A text on the line of the cursor is a typed line.
LEMMA OnLineIsTyped ==
    ASSUME NEW t, NEW text \in Seq(Characters), OnLine(t, text)
    PROVE  TypedLine(t, text)
<1> DEFINE n == Len(text)
<1>1. n \in Nat /\ (n = 0 => text = << >>)
    OBVIOUS
<1>2. t.column = P + n
    BY DEF OnLine
<1>3. P \in Nat
    BY Texts
<1> HIDE DEF n
<1>4. t.column = 0 => n = 0
    BY <1>1, <1>2, <1>3
<1> QED BY <1>1, <1>4 DEF TypedLine

\* What is written behind the text is added to it.
LEMMA TextGrows ==
    ASSUME NEW t, Sound(t), NEW text \in Seq(Characters), OnLine(t, text), NEW r,
           NEW extra \in Seq(Characters), InLine(t, r, extra, Len(extra))
    PROVE  OnLine(r, text \o extra)
<1> DEFINE n == Len(text)
           k == Len(extra)
           all == text \o extra
           col == t.column
           y == t.row + 1
<1>1. n \in Nat /\ k \in Nat
    OBVIOUS
<1>2. /\ Len(all) = n + k
      /\ \A i \in 1 .. n + k : all[i] = IF i <= n THEN text[i] ELSE extra[i - n]
    BY ConcatElements
<1>3. /\ t.start_of_command = t.row * WIDTH + P /\ col = P + n
      /\ \A i \in 1 .. n : t.rows[y][P + i] = text[i]
    BY DEF OnLine
<1>4. /\ Sound(r) /\ r.row = t.row /\ r.column = col + k
      /\ r.start_of_command = t.start_of_command
      /\ \A z \in 1 .. HEIGHT, x \in 1 .. WIDTH :
           r.rows[z][x] = IF z = y /\ x \in col + 1 .. col + k
                          THEN extra[x - col] ELSE t.rows[z][x]
    BY DEF InLine, SameBut
<1>5. r.column \in 0 .. WIDTH - 1 /\ y \in 1 .. HEIGHT
    BY <1>4, Cursor
<1> HIDE DEF n, k, all, col, y
<1>6. P \in Nat /\ WIDTH \in Nat /\ P + (n + k) < WIDTH /\ r.column = P + (n + k)
    BY <1>1, <1>3, <1>4, <1>5, Texts
<1>7. ASSUME NEW i \in 1 .. n + k PROVE r.rows[y][P + i] = all[i]
    <2> SUFFICES ASSUME NEW x, x = P + i PROVE r.rows[y][x] = all[i]
        OBVIOUS
    <2>1. x \in 1 .. WIDTH
        BY <1>1, <1>6
    <2>2. r.rows[y][x] = IF x \in col + 1 .. col + k THEN extra[x - col] ELSE t.rows[y][x]
        BY <1>4, <1>5, <2>1
    <2>3. CASE i <= n
        <3>1. x \notin col + 1 .. col + k /\ i \in 1 .. n
            BY <1>1, <1>3, <1>6, <2>3
        <3>2. t.rows[y][x] = text[i]
            BY <1>3, <3>1
        <3> QED BY <1>2, <2>2, <2>3, <3>1, <3>2
    <2>4. CASE ~(i <= n)
        <3>1. x \in col + 1 .. col + k /\ x - col = i - n
            BY <1>1, <1>3, <1>6, <2>4
        <3> QED BY <1>2, <2>2, <2>4, <3>1
    <2> QED BY <2>3, <2>4
<1>8. r.start_of_command = r.row * WIDTH + P
    BY <1>3, <1>4
<1>9. r.row + 1 = y /\ r.column = P + Len(all)
    BY <1>2, <1>4, <1>6 DEF y
<1> QED BY <1>2, <1>7, <1>8, <1>9 DEF OnLine, all

\* A key that prints adds a character to a typed line, the tab key its spaces.
LEMMA TypingKey ==
    ASSUME NEW t, Sound(t), NEW text \in Seq(Characters), TypedLine(t, text),
           NEW c \in Characters, c # "\n",
           NEW extra \in Seq(Characters), extra = (IF c = "\t" THEN TAB ELSE <<c>>),
           P + Len(text \o extra) < WIDTH
    PROVE  OnLine(NormalKey(t, c), text \o extra)
<1> DEFINE p == Prompted(t)
           n == Len(text)
           k == Len(extra)
<1>1. Sound(p)
    BY PromptedSound
<1>2. OnLine(p, text)
    <2>1. CASE t.column = 0
        BY <2>1, PromptedSound DEF TypedLine
    <2>2. CASE t.column # 0
        BY <2>2, PromptedSound DEF TypedLine
    <2> QED BY <2>1, <2>2
<1> HIDE DEF p
<1>3. n \in Nat /\ k \in Nat /\ Len(text \o extra) = n + k
    BY ConcatElements
<1>4. p.column = P + n /\ p.start_of_command = p.row * WIDTH + P
    BY <1>2 DEF OnLine
<1>5. P \in Nat /\ WIDTH \in Nat /\ P + (n + k) < WIDTH
    BY <1>3, Texts
<1>6. InCommand(p)
    <2> DEFINE l == p.row * WIDTH
    <2>1. l \in Nat
        BY <1>1, LineStart
    <2>2. p.start_of_command = l + P /\ Position(p) = l + (P + n)
        BY <1>4 DEF Position
    <2> HIDE DEF l, n
    <2>3. l + P >= 0 /\ l + (P + n) >= l + P
        BY <1>3, <1>5, <2>1
    <2> QED BY <2>2, <2>3 DEF InCommand
<1>7. p.column + k < WIDTH
    <2> HIDE DEF n, k
    <2> QED BY <1>3, <1>4, <1>5
<1>8. \E w : NormalKey(t, c) = default_terminal_end(w) /\ InLine(p, w, extra, k)
    <2>1. CASE c = "\t"
        <3>1. NormalKey(t, c) = default_terminal_end(terminal_writestring(p, TAB))
            BY <1>6, <2>1 DEF NormalKey, p
        <3>2. extra = TAB /\ \A i \in 1 .. Len(extra) : extra[i] # "\n"
            BY <2>1, Texts
        <3>3. InLine(p, terminal_writestring(p, extra), extra, Len(extra))
            BY <1>1, <1>7, <3>2, WriteInLine
        <3> QED BY <3>1, <3>2, <3>3
    <2>2. CASE c # "\t"
        <3> DEFINE w == terminal_putchar(p, c)
                   col == p.column
        <3>1. NormalKey(t, c) = default_terminal_end(w)
            BY <1>6, <2>2 DEF NormalKey, p
        <3>2. extra = <<c>> /\ k = 1 /\ extra[1] = c
            BY <2>2
        <3>3. col + 1 # WIDTH /\ col \in Nat
            <4>1. col \in 0 .. WIDTH - 1
                BY <1>1, Cursor
            <4> HIDE DEF k, col
            <4> QED BY <1>5, <1>7, <3>2, <4>1 DEF col
        <3>4. /\ Sound(w) /\ w.row = p.row /\ w.column = col + 1 /\ SameBut(p, w)
              /\ \A y \in 1 .. HEIGHT, x \in 1 .. WIDTH :
                   w.rows[y][x] = IF y = p.row + 1 /\ x = col + 1 THEN c ELSE p.rows[y][x]
            BY <1>1, <3>3, PutInLine
        <3> HIDE DEF w
        <3>5. ASSUME NEW y \in 1 .. HEIGHT, NEW x \in 1 .. WIDTH
              PROVE  w.rows[y][x] = IF y = p.row + 1 /\ x \in col + 1 .. col + 1
                                    THEN extra[x - col] ELSE p.rows[y][x]
            <4> HIDE DEF col
            <4>1. (x \in col + 1 .. col + 1 <=> x = col + 1) /\ (x = col + 1 => x - col = 1)
                BY <3>3
            <4>2. w.rows[y][x] = IF y = p.row + 1 /\ x = col + 1 THEN c ELSE p.rows[y][x]
                BY <3>4
            <4>3. CASE x = col + 1
                <5>1. extra[x - col] = c
                    BY <3>2, <4>1, <4>3
                <5> QED BY <4>1, <4>2, <4>3, <5>1
            <4>4. CASE x # col + 1
                BY <4>1, <4>2, <4>4
            <4> QED BY <4>3, <4>4
        <3>6. InLine(p, w, extra, 1)
            BY <3>4, <3>5 DEF InLine
        <3> QED BY <3>1, <3>2, <3>6
    <2> QED BY <2>1, <2>2
<1>9. PICK w : NormalKey(t, c) = default_terminal_end(w) /\ InLine(p, w, extra, k)
    BY <1>8
<1>10. OnLine(w, text \o extra) /\ Sound(w)
    <2>1. Sound(w)
        BY <1>9 DEF InLine
    <2>2. OnLine(w, text \o extra)
        BY <1>1, <1>2, <1>9, TextGrows
    <2> QED BY <2>1, <2>2
<1> DEFINE r == default_terminal_end(w)
<1>11. SameScreen(w, r) /\ r.start_of_command = w.start_of_command
    BY <1>10, CommandAtCursor
<1> HIDE DEF r
<1>12. OnLine(r, text \o extra)
    BY <1>10, <1>11 DEF OnLine, SameScreen
<1> QED BY <1>9, <1>12 DEF r

\* Backspace takes the last character from a typed line.
LEMMA BackspaceKey ==
    ASSUME NEW t, Sound(t), NEW text \in Seq(Characters), text # << >>, TypedLine(t, text)
    PROVE  OnLine(terminal_backspace(t), Front(text))
<1> DEFINE r == terminal_backspace(t)
           n == Len(text)
           y == t.row + 1
<1>1. t.column # 0 /\ OnLine(t, text)
    BY DEF TypedLine
<1>2. /\ t.start_of_command = t.row * WIDTH + P /\ t.column = P + n
      /\ \A i \in 1 .. n : t.rows[y][P + i] = text[i]
    BY <1>1 DEF OnLine
<1>3. /\ Sound(r) /\ r.row = t.row /\ r.column = t.column - 1
      /\ r.start_of_command = t.start_of_command
      /\ \A z \in 1 .. HEIGHT, x \in 1 .. WIDTH :
           r.rows[z][x] = IF z = y /\ x = t.column THEN " " ELSE t.rows[z][x]
    <2>1. /\ Sound(r) /\ r.row = t.row /\ r.column = t.column - 1 /\ SameBut(t, r)
          /\ OneCell(t, r, y, t.column, " ")
        BY <1>1, Backspaced
    <2> HIDE DEF r, y
    <2>2. r.start_of_command = t.start_of_command
        BY <2>1 DEF SameBut
    <2> QED BY <2>1, <2>2 DEF OneCell
<1>4. /\ Len(Front(text)) = n - 1 /\ n \in Nat \ {0}
      /\ \A i \in 1 .. n - 1 : Front(text)[i] = text[i]
    BY FrontLast
<1>5. y \in 1 .. HEIGHT /\ t.column \in 0 .. WIDTH - 1 /\ P \in Nat /\ WIDTH \in Nat
    BY Cursor, Texts
<1> HIDE DEF r, n, y
<1>6. ASSUME NEW i \in 1 .. n - 1 PROVE r.rows[y][P + i] = Front(text)[i]
    <2>1. P + i \in 1 .. WIDTH /\ P + i # t.column /\ i \in 1 .. n
        BY <1>2, <1>4, <1>5
    <2>2. r.rows[y][P + i] = t.rows[y][P + i]
        BY <1>3, <1>5, <2>1
    <2> QED BY <1>2, <1>4, <2>1, <2>2
<1>7. r.column = P + (n - 1)
    <2> DEFINE k == t.column
    <2>1. k = P + n /\ r.column = k - 1
        BY <1>2, <1>3
    <2> HIDE DEF k
    <2> QED BY <1>4, <1>5, <2>1
<1>8. r.start_of_command = r.row * WIDTH + P /\ r.row + 1 = y
    BY <1>2, <1>3 DEF y
<1> QED BY <1>4, <1>6, <1>7, <1>8 DEF OnLine, r

-----------------------------------------------------------------------------
(* The enter key runs what was typed. *)

\* A position in a row of the screen is on the screen.
LEMMA OnScreen ==
    ASSUME NEW b \in Nat, NEW h \in Nat, NEW c \in 0 .. h - 1, NEW r \in 0 .. b - 1
    PROVE  c * b + r \in Nat /\ c * b + r < b * h
<1>1. c * b \in Nat /\ c + 1 <= h /\ (c + 1) * b = c * b + b
    BY Z3
<1>2. (c + 1) * b <= b * h
    <2>1. h - (c + 1) \in Nat
        OBVIOUS
    <2>2. (h - (c + 1)) * b >= 0
        BY <2>1, Z3
    <2>3. (h - (c + 1)) * b = h * b - (c + 1) * b
        BY Z3
    <2>4. h * b = b * h /\ h * b \in Int /\ (c + 1) * b \in Int
        BY Z3
    <2> QED BY <2>2, <2>3, <2>4
<1> DEFINE k == c * b
           m == b * h
<1>3. k \in Nat /\ k + b <= m /\ m \in Nat
    BY <1>1, <1>2
<1> HIDE DEF k, m
<1>4. k + r \in Nat /\ k + r < m
    BY <1>3
<1> QED BY <1>4 DEF k, m

\* A text in row q, behind the prompt, between the start and the end of the command,
\* is what is read back.
LEMMA ReadBack ==
    ASSUME NEW t, Sound(t), NEW text \in Seq(Characters), NEW q \in 0 .. HEIGHT - 1,
           P + Len(text) < WIDTH, t.start_of_command = q * WIDTH + P,
           t.end_of_command = t.start_of_command + Len(text),
           \A i \in 1 .. Len(text) : t.rows[q + 1][P + i] = text[i]
    PROVE  t.start_of_command >= 0 /\ default_get_command(t) = text
<1> DEFINE n == Len(text)
           l == q * WIDTH
           start == t.start_of_command
<1>1. WIDTH \in Nat \ {0} /\ HEIGHT \in Nat /\ q \in Nat /\ l \in Nat /\ n \in Nat /\ P \in Nat
    <2>1. WIDTH \in Nat \ {0} /\ HEIGHT \in Nat
        BY ScreenSize
    <2>2. q \in Nat /\ n \in Nat /\ P \in Nat
        BY <2>1, Texts
    <2>3. l \in Nat
        BY <2>1, <2>2
    <2> QED BY <2>1, <2>2, <2>3
<1>2. start = l + P /\ t.end_of_command = start + n /\ P + n < WIDTH
      /\ \A i \in 1 .. n : t.rows[q + 1][P + i] = text[i]
    OBVIOUS
<1> HIDE DEF n, l, start
<1>3. start >= 0 /\ start \in Nat /\ t.end_of_command - start = n
    BY <1>1, <1>2
<1>4. CommandLength(t) = n
    BY <1>3 DEF CommandLength, start
<1>5. ASSUME NEW j \in 1 .. n PROVE Cell(t, start + j - 1) = text[j]
    <2> DEFINE x == P + j - 1
               i == start + j - 1
    <2>1. x \in 0 .. WIDTH - 1 /\ i = l + x /\ x + 1 = P + j
        <3>1. j \in Nat /\ 1 <= j /\ j <= n
            BY <1>1
        <3>2. start = l + P /\ P + n < WIDTH
            BY <1>2
        <3>3. x \in Nat /\ x < WIDTH /\ x + 1 = P + j
            BY <1>1, <3>1, <3>2
        <3>4. i = l + x
            BY <1>1, <3>1, <3>2
        <3> QED BY <1>1, <3>3, <3>4
    <2> HIDE DEF x, i
    <2>2. i \in Nat /\ i < WIDTH * HEIGHT
        BY <1>1, <2>1, OnScreen DEF l
    <2>3. i \div WIDTH = q /\ i % WIDTH = x
        <3>1. i = q * WIDTH + x
            BY <2>1 DEF l
        <3>2. (q * WIDTH + x) \div WIDTH = q /\ (q * WIDTH + x) % WIDTH = x
            <4>1. q \in Nat /\ WIDTH \in Nat \ {0} /\ x \in 0 .. WIDTH - 1
                BY <1>1, <2>1
            <4> QED BY <4>1, QuotientAndRemainder
        <3> QED BY <3>1, <3>2
    <2>4. Cell(t, i) = t.rows[q + 1][x + 1]
        BY <2>2, <2>3 DEF Cell
    <2>5. t.rows[q + 1][P + j] = text[j]
        BY Zenon, <1>2
    <2>6. Cell(t, i) = text[j]
        BY Zenon, <2>1, <2>4, <2>5
    <2> QED BY Zenon, <2>6 DEF i
<1>6. /\ default_get_command(t) \in Seq(Characters) /\ Len(default_get_command(t)) = n
      /\ \A j \in 1 .. n : default_get_command(t)[j] = Cell(t, start + j - 1)
    BY <1>1, <1>3, <1>4, CommandType DEF start
<1>7. default_get_command(t) = text
    <2> DEFINE c == default_get_command(t)
    <2>1. \A j \in 1 .. n : c[j] = text[j]
        BY <1>5, <1>6
    <2> HIDE DEF c
    <2>2. c \in Seq(Characters) /\ Len(c) = Len(text) /\ \A j \in 1 .. Len(text) : c[j] = text[j]
        BY <1>6, <2>1 DEF c, n
    <2>3. c = text
        BY <2>2
    <2> QED BY <2>3 DEF c
<1> QED BY <1>3, <1>7 DEF start

\* After the line feed of the enter key the text is still where the command is, be it
\* that the screen has scrolled.
LEMMA CommandReadBack ==
    ASSUME NEW t, Sound(t), NEW text \in Seq(Characters), OnLine(t, text)
    PROVE  Entered(t).start_of_command >= 0 /\ default_get_command(Entered(t)) = text
<1> DEFINE e == default_terminal_end(t)
           r == Entered(t)
           n == Len(text)
           l == t.row * WIDTH
           row == t.row
<1>1. /\ Sound(e) /\ SameScreen(t, e) /\ e.start_of_command = t.start_of_command
      /\ e.end_of_command = l + t.column
    BY CommandAtCursor DEF Position
<1>2. /\ t.start_of_command = l + P /\ t.column = P + n
      /\ \A i \in 1 .. n : t.rows[row + 1][P + i] = text[i]
    BY DEF OnLine
<1>3. r = NextLine(e)
    BY DEF Entered, terminal_putchar
<1> HIDE DEF e, r, n
<1>4. e.rows = t.rows /\ e.row = row
    BY <1>1 DEF SameScreen
<1>5. n \in Nat /\ P \in Nat /\ l \in Nat /\ P + n < WIDTH /\ WIDTH \in Nat /\ HEIGHT \in Nat
      /\ row \in 0 .. HEIGHT - 1 /\ row + 1 \in 1 .. HEIGHT
    <2>1. n \in Nat /\ P \in Nat /\ l \in Nat /\ WIDTH \in Nat /\ HEIGHT \in Nat
          /\ row \in 0 .. HEIGHT - 1 /\ row + 1 \in 1 .. HEIGHT
        BY Texts, LineStart, ScreenSize, Cursor DEF n
    <2>2. t.column \in 0 .. WIDTH - 1
        BY Cursor
    <2> HIDE DEF l, row
    <2> QED BY <1>2, <2>1, <2>2
<1> HIDE DEF l, row
<1>6. e.start_of_command = l + P /\ e.end_of_command = e.start_of_command + n
    BY <1>1, <1>2, <1>5
<1>7. CASE row + 1 # HEIGHT
    <2>1. Sound(r) /\ r.rows = e.rows /\ SameBut(e, r)
        BY <1>1, <1>3, <1>4, <1>7, LineFeed
    <2>2. /\ r.start_of_command = row * WIDTH + P
          /\ r.end_of_command = r.start_of_command + n
          /\ \A i \in 1 .. n : r.rows[row + 1][P + i] = text[i]
        BY <1>2, <1>4, <1>6, <2>1 DEF SameBut, l, row
    <2> QED BY <1>5, <2>1, <2>2, ReadBack DEF n, r
<1>8. CASE row + 1 = HEIGHT
    <2> DEFINE q == HEIGHT - 2
               k == q * WIDTH
    <2>1. Sound(e) /\ r = terminal_scroll_down(e)
        BY <1>1, <1>3, <1>4, <1>8, LineFeed
    <2>2. /\ Sound(r) /\ r.rows = Append(Tail(e.rows), RowBelow(e))
          /\ r.start_of_command = e.start_of_command - WIDTH
          /\ r.end_of_command = e.end_of_command - WIDTH
        BY <2>1, ScrollDown
    <2>3. q \in 0 .. HEIGHT - 1 /\ q + 1 \in 1 .. HEIGHT - 1 /\ q + 2 = row + 1 /\ q + 1 = row
        BY <1>5, <1>8, ScreenSize
    <2>4. l = k + WIDTH /\ k \in Int
        <3> HIDE DEF q
        <3>1. q \in Nat /\ (q + 1) * WIDTH = q * WIDTH + WIDTH /\ q * WIDTH \in Int
            BY <1>5, <2>3, Z3
        <3> QED BY <2>3, <3>1 DEF l, row
    <2> HIDE DEF q, k
    <2>5. r.start_of_command = k + P /\ r.end_of_command = r.start_of_command + n
        BY <1>5, <1>6, <2>2, <2>4
    <2>6. r.rows[q + 1] = e.rows[(q + 1) + 1]
        <3>1. e.rows \in Seq(Row) /\ e.rows # << >> /\ Len(e.rows) = HEIGHT
            BY <2>1, Fields
        <3>2. RowBelow(e) \in Row
            <4>1. CASE e.down = << >>
                BY <4>1, BlankType DEF RowBelow
            <4>2. CASE e.down # << >>
                <5>1. e.down \in Seq(Row)
                    BY <2>1, Fields
                <5> QED BY <4>2, <5>1, FrontLast DEF RowBelow
            <4> QED BY <4>1, <4>2
        <3>3. \A i \in 1 .. HEIGHT - 1 : Append(Tail(e.rows), RowBelow(e))[i] = e.rows[i + 1]
            BY <3>1, <3>2, TailElements
        <3>4. Append(Tail(e.rows), RowBelow(e))[q + 1] = e.rows[(q + 1) + 1]
            <4> DEFINE rows == Append(Tail(e.rows), RowBelow(e))
            <4>1. \A i \in 1 .. HEIGHT - 1 : rows[i] = e.rows[i + 1]
                BY <3>3
            <4> HIDE DEF rows
            <4>2. rows[q + 1] = e.rows[(q + 1) + 1]
                BY <2>3, <4>1
            <4> QED BY <4>2 DEF rows
        <3> QED BY <2>2, <3>4
    <2>7. \A i \in 1 .. n : r.rows[q + 1][P + i] = text[i]
        <3>1. (q + 1) + 1 = row + 1
            BY <2>3, <1>5
        <3> QED BY <1>2, <1>4, <2>6, <3>1
    <2>8. r.start_of_command = q * WIDTH + P
        BY <2>5 DEF k
    <2> QED BY <1>5, <2>2, <2>3, <2>5, <2>7, <2>8, ReadBack DEF n, r
<1> QED BY <1>7, <1>8

-----------------------------------------------------------------------------
(* Scrolling keeps the text. *)

\* Sequences with the same elements.
LEMMA SameElements ==
    ASSUME NEW S, NEW s \in Seq(S), NEW t \in Seq(S), Len(s) = Len(t),
           \A i \in 1 .. Len(s) : s[i] = t[i]
    PROVE  s = t
OBVIOUS

\* Three sequences in a row, joined from the left or from the right.
Associates(a, b, c) == (a \o b) \o c = a \o (b \o c)

\* Concatenation is associative.
LEMMA ConcatGroups ==
    ASSUME NEW S, NEW a \in Seq(S), NEW b \in Seq(S), NEW c \in Seq(S)
    PROVE  Associates(a, b, c)
<1> DEFINE ab == a \o b
           bc == b \o c
           n == Len(a)
           m == Len(b)
           k == Len(c)
<1>1. n \in Nat /\ m \in Nat /\ k \in Nat
    OBVIOUS
<1>2. ab \in Seq(S) /\ Len(ab) = n + m
      /\ \A i \in 1 .. n + m : ab[i] = IF i <= n THEN a[i] ELSE b[i - n]
    BY ConcatElements
<1>3. bc \in Seq(S) /\ Len(bc) = m + k
      /\ \A i \in 1 .. m + k : bc[i] = IF i <= m THEN b[i] ELSE c[i - m]
    BY ConcatElements
<1> HIDE DEF ab, bc
<1> DEFINE l == ab \o c
           r == a \o bc
<1>4. l \in Seq(S) /\ Len(l) = (n + m) + k
      /\ \A i \in 1 .. (n + m) + k : l[i] = IF i <= n + m THEN ab[i] ELSE c[i - (n + m)]
    <2>3. ab \in Seq(S)
        BY <1>2
    <2>1. /\ l \in Seq(S) /\ Len(l) = Len(ab) + Len(c)
          /\ \A i \in 1 .. Len(ab) + Len(c) :
                l[i] = IF i <= Len(ab) THEN ab[i] ELSE c[i - Len(ab)]
        BY <2>3, ConcatElements
    <2> HIDE DEF l, n, m
    <2>2. Len(ab) = n + m
        BY <1>2
    <2> QED BY <2>1, <2>2, Zenon
<1>5. r \in Seq(S) /\ Len(r) = n + (m + k)
      /\ \A i \in 1 .. n + (m + k) : r[i] = IF i <= n THEN a[i] ELSE bc[i - n]
    <2>3. bc \in Seq(S)
        BY <1>3
    <2>1. /\ r \in Seq(S) /\ Len(r) = Len(a) + Len(bc)
          /\ \A i \in 1 .. Len(a) + Len(bc) :
                r[i] = IF i <= Len(a) THEN a[i] ELSE bc[i - Len(a)]
        BY <2>3, ConcatElements
    <2> HIDE DEF r, m, k
    <2>2. Len(bc) = m + k
        BY <1>3
    <2> QED BY <2>1, <2>2, Zenon
<1> HIDE DEF l, r, n, m, k
<1>6. (n + m) + k = n + (m + k) /\ (n + m) + k \in Nat
    BY <1>1
<1>7. ASSUME NEW i \in 1 .. (n + m) + k PROVE l[i] = r[i]
    <2>1. l[i] = IF i <= n + m THEN ab[i] ELSE c[i - (n + m)]
        BY <1>4
    <2>2. r[i] = IF i <= n THEN a[i] ELSE bc[i - n]
        BY <1>5, <1>6
    <2>3. CASE i <= n
        <3>1. i <= n + m /\ i \in 1 .. n + m
            BY <1>1, <2>3
        <3> QED BY <1>2, <2>1, <2>2, <2>3, <3>1
    <2>4. CASE ~(i <= n) /\ i <= n + m
        <3>1. i \in 1 .. n + m
            BY <1>1, <2>4
        <3> SUFFICES ASSUME NEW j, j = i - n PROVE l[i] = r[i]
            OBVIOUS
        <3>2. j \in 1 .. m + k /\ j <= m
            BY <1>1, <2>4
        <3>3. l[i] = b[j]
            BY <1>2, <2>1, <2>4, <3>1
        <3>4. r[i] = b[j]
            BY <1>3, <2>2, <2>4, <3>2
        <3> QED BY <3>3, <3>4
    <2>5. CASE ~(i <= n + m)
        <3>1. ~(i <= n)
            BY <1>1, <2>5
        <3> SUFFICES ASSUME NEW j, j = i - n PROVE l[i] = r[i]
            OBVIOUS
        <3>2. j \in 1 .. m + k /\ ~(j <= m) /\ j - m = i - (n + m)
            BY <1>1, <2>5
        <3>3. r[i] = c[j - m]
            BY <1>3, <2>2, <3>1, <3>2
        <3> QED BY <2>1, <2>5, <3>2, <3>3
    <2> QED BY <2>3, <2>4, <2>5
<1>8. l = r
    BY <1>4, <1>5, <1>6, <1>7, SameElements
<1> QED BY <1>8 DEF l, r, ab, bc, Associates

\* A sequence is its last element behind the others, and its first before them.
LEMMA FrontAndLast ==
    ASSUME NEW S, NEW s \in Seq(S), s # << >>
    PROVE  Append(Front(s), Last(s)) = s
<1>1. /\ Front(s) \in Seq(S) /\ Len(Front(s)) = Len(s) - 1 /\ Len(s) \in Nat \ {0}
      /\ \A i \in 1 .. Len(s) - 1 : Front(s)[i] = s[i]
      /\ Last(s) \in S /\ Last(s) = s[Len(s)]
    BY FrontLast
<1> DEFINE f == Front(s)
           r == Append(f, Last(s))
           n == Len(s)
<1>2. /\ r \in Seq(S) /\ Len(r) = Len(f) + 1 /\ r[Len(r)] = Last(s)
      /\ \A i \in 1 .. Len(f) : r[i] = f[i]
    BY <1>1, Appended
<1> HIDE DEF r, f
<1>3. Len(f) = n - 1 /\ \A i \in 1 .. n - 1 : f[i] = s[i]
    BY <1>1 DEF f
<1> HIDE DEF n
<1>4. n \in Nat \ {0} /\ Last(s) = s[n]
    BY <1>1 DEF n
<1>5. Len(r) = n
    BY <1>2, <1>3, <1>4
<1>6. ASSUME NEW i \in 1 .. n PROVE r[i] = s[i]
    <2>1. i = n \/ i \in 1 .. n - 1
        BY <1>4
    <2> QED BY <1>2, <1>3, <1>4, <1>5, <2>1
<1>7. r = s
    BY <1>2, <1>5, <1>6, SameElements DEF n
<1> QED BY <1>7 DEF r, f

\* The same with the first element.
LEMMA HeadAndTail ==
    ASSUME NEW S, NEW s \in Seq(S), s # << >>
    PROVE  <<s[1]>> \o Tail(s) = s /\ s[1] \in S /\ Tail(s) \in Seq(S)
<1> DEFINE n == Len(s)
           t == Tail(s)
           one == <<s[1]>>
           r == one \o t
<1>1. n \in Nat \ {0} /\ s[1] \in S /\ t \in Seq(S) /\ Len(t) = n - 1
      /\ \A i \in 1 .. n - 1 : t[i] = s[i + 1]
    OBVIOUS
<1>2. one \in Seq(S) /\ Len(one) = 1 /\ one[1] = s[1]
    BY <1>1
<1> HIDE DEF one, t
<1>a. r \in Seq(S) /\ Len(r) = Len(one) + Len(t)
      /\ \A i \in 1 .. Len(one) + Len(t) :
            r[i] = IF i <= Len(one) THEN one[i] ELSE t[i - Len(one)]
    BY <1>1, <1>2, ConcatElements
<1> HIDE DEF r, n
<1>4. 1 + (n - 1) = n
    BY <1>1
<1>3. r \in Seq(S) /\ Len(r) = 1 + (n - 1)
      /\ \A i \in 1 .. 1 + (n - 1) : r[i] = IF i <= 1 THEN one[i] ELSE t[i - 1]
    BY <1>1, <1>2, <1>a, Zenon
<1>5. ASSUME NEW i \in 1 .. n PROVE r[i] = s[i]
    <2>1. CASE i = 1
        BY <1>2, <1>3, <1>4, <2>1
    <2>2. CASE i # 1
        <3> SUFFICES ASSUME NEW j, j = i - 1 PROVE r[i] = s[i]
            OBVIOUS
        <3>1. j \in 1 .. n - 1 /\ ~(i <= 1) /\ j + 1 = i
            BY <1>1, <2>2
        <3> QED BY <1>1, <1>3, <1>4, <3>1
    <2> QED BY <2>1, <2>2
<1>6. r = s
    BY <1>3, <1>4, <1>5, SameElements DEF n
<1> QED BY <1>1, <1>6 DEF r, one, t

\* Adding an element is concatenation.
LEMMA AppendIsConcat ==
    ASSUME NEW S, NEW s \in Seq(S), NEW e \in S
    PROVE  Append(s, e) = s \o <<e>> /\ <<e>> \in Seq(S)
OBVIOUS

\* Backwards, the element added is the first.
LEMMA ReverseAppend ==
    ASSUME NEW S, NEW s \in Seq(S), NEW e \in S
    PROVE  Reverse(Append(s, e)) = <<e>> \o Reverse(s)
<1> DEFINE n == Len(s)
           a == Append(s, e)
           l == Reverse(a)
           b == Reverse(s)
           one == <<e>>
           r == one \o b
<1>1. a \in Seq(S) /\ n \in Nat /\ Len(a) = n + 1 /\ a[n + 1] = e
      /\ \A i \in 1 .. n : a[i] = s[i]
    BY Appended
<1> HIDE DEF a
<1>2. l \in Seq(S) /\ Len(l) = n + 1 /\ \A i \in 1 .. n + 1 : l[i] = a[(n + 1) - i + 1]
    BY <1>1, ReverseElements
<1>3. b \in Seq(S) /\ Len(b) = n /\ \A i \in 1 .. n : b[i] = s[n - i + 1]
    BY ReverseElements
<1>4. one \in Seq(S) /\ Len(one) = 1 /\ one[1] = e
    OBVIOUS
<1> HIDE DEF one, b
<1>5. r \in Seq(S) /\ Len(r) = 1 + n
      /\ \A i \in 1 .. 1 + n : r[i] = IF i <= 1 THEN one[i] ELSE b[i - 1]
    <2>1. /\ r \in Seq(S) /\ Len(r) = Len(one) + Len(b)
          /\ \A i \in 1 .. Len(one) + Len(b) :
               r[i] = IF i <= Len(one) THEN one[i] ELSE b[i - Len(one)]
        <3>1. one \in Seq(S) /\ b \in Seq(S)
            BY <1>3, <1>4
        <3> QED BY <3>1, ConcatElements
    <2> HIDE DEF r
    <2> QED BY <1>3, <1>4, <2>1
<1> HIDE DEF r, l, n
<1>6. 1 + n = n + 1
    BY <1>1
<1>7. ASSUME NEW i \in 1 .. n + 1 PROVE l[i] = r[i]
    <2> SUFFICES ASSUME NEW k, k = (n + 1) - i + 1 PROVE l[i] = r[i]
        OBVIOUS
    <2>1. l[i] = a[k]
        BY <1>2
    <2>2. CASE i = 1
        <3>1. k = n + 1
            BY <1>1, <2>2
        <3> QED BY <1>1, <1>4, <1>5, <1>6, <2>1, <2>2, <3>1
    <2>3. CASE i # 1
        <3> SUFFICES ASSUME NEW j, j = i - 1 PROVE l[i] = r[i]
            OBVIOUS
        <3>1. j \in 1 .. n /\ ~(i <= 1) /\ n - j + 1 = k /\ k \in 1 .. n
            BY <1>1, <2>3
        <3>2. r[i] = b[j]
            BY <1>5, <1>6, <3>1
        <3>3. b[j] = s[k]
            BY <1>3, <3>1
        <3> QED BY <1>1, <2>1, <3>1, <3>2, <3>3
    <2> QED BY <2>2, <2>3
<1>8. l = r
    BY <1>2, <1>5, <1>6, <1>7, SameElements
<1> QED BY <1>8 DEF l, a, r, one, b

\* A row comes down from the history above, and one goes to that below.
ShiftsDown(up, rows, down) ==
  Front(up) \o (<<Last(up)>> \o Front(rows)) \o Reverse(Append(down, Last(rows)))
    = up \o rows \o Reverse(down)

\* The last row above the screen becomes the first on it, and the last on it the
\* first below it: the text is the same.
LEMMA ShiftDown ==
    ASSUME NEW S, NEW up \in Seq(S), up # << >>, NEW rows \in Seq(S), rows # << >>,
           NEW down \in Seq(S)
    PROVE  ShiftsDown(up, rows, down)
<1> DEFINE a == Front(up)
           x == <<Last(up)>>
           b == Front(rows)
           y == <<Last(rows)>>
           c == Reverse(down)
           d == Reverse(Append(down, Last(rows)))
           xb == x \o b
           yc == y \o c
           upb == up \o b
<1>1. a \in Seq(S) /\ Last(up) \in S /\ b \in Seq(S) /\ Last(rows) \in S
    BY FrontLast
<1>2. x \in Seq(S) /\ y \in Seq(S)
    BY <1>1
<1>3. a \o x = up
    BY <1>1, FrontAndLast, AppendIsConcat
<1>4. b \o y = rows
    BY <1>1, FrontAndLast, AppendIsConcat
<1>5. c \in Seq(S)
    BY ReverseElements
<1>6. d = yc
    BY <1>1, ReverseAppend
<1> HIDE DEF a, x, b, y, c, d
<1>7. upb \in Seq(S)
    BY <1>1, ConcatElements
<1>8. a \o xb = upb
    <2>1. Associates(a, x, b)
        BY <1>1, <1>2, ConcatGroups
    <2> QED BY <1>3, <2>1 DEF Associates
<1>9. upb \o y = up \o rows
    <2>1. Associates(up, b, y)
        BY <1>1, <1>2, ConcatGroups
    <2> QED BY <1>4, <2>1 DEF Associates
<1> HIDE DEF xb, upb
<1>10. upb \o yc = (up \o rows) \o c
    <2>1. Associates(upb, y, c)
        BY <1>2, <1>5, <1>7, ConcatGroups
    <2> QED BY <1>9, <2>1 DEF Associates
<1> HIDE DEF yc
<1>11. (a \o xb) \o d = (up \o rows) \o c
    BY <1>6, <1>8, <1>10
<1> QED BY <1>11 DEF a, x, b, xb, c, d, ShiftsDown

\* A row goes up, and one comes from the history below.
ShiftsUp(up, rows, down) ==
  Append(up, rows[1]) \o Append(Tail(rows), Last(down)) \o Reverse(Front(down))
    = up \o rows \o Reverse(down)

\* The other way round the text is the same as well.
LEMMA ShiftUp ==
    ASSUME NEW S, NEW up \in Seq(S), NEW rows \in Seq(S), rows # << >>,
           NEW down \in Seq(S), down # << >>
    PROVE  ShiftsUp(up, rows, down)
<1> DEFINE x == <<rows[1]>>
           b == Tail(rows)
           y == <<Last(down)>>
           f == Front(down)
           c == Reverse(f)
           upx == Append(up, rows[1])
           by == Append(b, Last(down))
           uprows == up \o rows
           d == Reverse(down)
<1>1. f \in Seq(S) /\ Last(down) \in S
    BY FrontLast
<1>2. rows[1] \in S /\ b \in Seq(S) /\ x \o b = rows
    BY HeadAndTail
<1>3. x \in Seq(S) /\ y \in Seq(S)
    BY <1>1, <1>2
<1>4. upx = up \o x
    BY <1>2, AppendIsConcat
<1>5. by = b \o y
    BY <1>1, <1>2, AppendIsConcat
<1>6. c \in Seq(S)
    BY <1>1, ReverseElements
<1>7. d = y \o c
    <2>1. Append(f, Last(down)) = down
        BY FrontAndLast
    <2>2. Reverse(Append(f, Last(down))) = y \o c
        BY <1>1, ReverseAppend
    <2> QED BY <2>1, <2>2
<1>8. upx \in Seq(S) /\ uprows \in Seq(S)
    BY <1>2, <1>3, <1>4, ConcatElements
<1> HIDE DEF x, y, c, b, f, d, upx, by
<1>9. upx \o b = uprows
    <2>1. Associates(up, x, b)
        BY <1>2, <1>3, ConcatGroups
    <2> QED BY <1>2, <1>4, <2>1 DEF Associates
<1> HIDE DEF uprows
<1>10. upx \o by = uprows \o y
    <2>1. Associates(upx, b, y)
        BY <1>2, <1>3, <1>8, ConcatGroups
    <2> QED BY <1>5, <1>9, <2>1 DEF Associates
<1>11. (upx \o by) \o c = uprows \o d
    <2>1. Associates(uprows, y, c)
        BY <1>3, <1>6, <1>8, ConcatGroups
    <2> QED BY <1>7, <1>10, <2>1 DEF Associates
<1> QED BY <1>11 DEF uprows, upx, by, b, c, d, f, ShiftsUp

\* Scrolling moves rows between the histories and the screen and keeps the text.
LEMMA ScrollUpText ==
    ASSUME NEW t, Sound(t), t.up # << >>
    PROVE  Text(terminal_scroll_up(t)) = Text(t)
<1>1. t.up \in Seq(Row) /\ t.rows \in Seq(Row) /\ t.down \in Seq(Row) /\ t.rows # << >>
    BY Fields
<1>2. /\ terminal_scroll_up(t).rows = <<Last(t.up)>> \o Front(t.rows)
      /\ terminal_scroll_up(t).up = Front(t.up)
      /\ terminal_scroll_up(t).down = Append(t.down, Last(t.rows))
    BY ScrollUp
<1>3. ShiftsDown(t.up, t.rows, t.down)
    BY <1>1, ShiftDown
<1> QED BY <1>2, <1>3 DEF Text, ShiftsDown

\* Downwards this is so when there is a row below the screen.
LEMMA ScrollDownText ==
    ASSUME NEW t, Sound(t), t.down # << >>
    PROVE  Text(terminal_scroll_down(t)) = Text(t)
<1>1. /\ t.up \in Seq(Row) /\ t.rows \in Seq(Row) /\ t.down \in Seq(Row) /\ t.rows # << >>
      /\ Len(t.up) \in Nat /\ Len(t.down) \in Nat /\ Len(t.up) + Len(t.down) <= HEIGHT
      /\ Len(t.up) <= HEIGHT
    BY Fields
<1>2. t.rows[1] \in Row
    BY <1>1, HeadAndTail
<1>3. Len(t.up) < HEIGHT
    <2>1. Len(t.down) > 0
        BY <1>1
    <2> QED BY <1>1, <2>1, SumBounds
<1>4. Remembered(t.up, t.rows[1]) = Append(t.up, t.rows[1])
    BY <1>1, <1>2, <1>3, RememberedType
<1>5. /\ terminal_scroll_down(t).rows = Append(Tail(t.rows), Last(t.down))
      /\ terminal_scroll_down(t).up = Append(t.up, t.rows[1])
      /\ terminal_scroll_down(t).down = Front(t.down)
    BY <1>4, ScrollDown DEF RowBelow, RowsBelow
<1>6. ShiftsUp(t.up, t.rows, t.down)
    BY <1>1, ShiftUp
<1> QED BY <1>5, <1>6 DEF Text, ShiftsUp

\* An arrow key moves the cursor or scrolls.
LEMMA ArrowKey ==
    ASSUME NEW t, Sound(t), NEW arrow \in Arrows
    PROVE  Sound(catch_keycode(t, arrow)) /\ Text(catch_keycode(t, arrow)) = Text(t)
<1>1. ASSUME NEW r, Sound(r), SameBut(t, r), r.rows = t.rows
      PROVE  Sound(r) /\ Text(r) = Text(t)
    BY <1>1 DEF SameBut, Text
<1>2. Sound(terminal_scroll_up(t)) /\ Text(terminal_scroll_up(t)) = Text(t)
    <2>1. CASE t.up = << >>
        <3>1. terminal_scroll_up(t) = t
            BY <2>1 DEF terminal_scroll_up
        <3> QED BY <3>1
    <2>2. CASE t.up # << >>
        BY <2>2, ScrollUp, ScrollUpText
    <2> QED BY <2>1, <2>2
<1>3. t.down # << >> =>
        Sound(terminal_scroll_down(t)) /\ Text(terminal_scroll_down(t)) = Text(t)
    BY ScrollDown, ScrollDownText
<1>4. CASE arrow = "UP_ARROW"
    <2>1. catch_keycode(t, arrow) = terminal_cursor_up(t)
        BY <1>4 DEF catch_keycode
    <2> QED BY <1>1, <1>2, <2>1, ArrowMoves
<1>5. CASE arrow = "LEFT_ARROW"
    <2>1. catch_keycode(t, arrow) = terminal_cursor_left(t)
        BY <1>5 DEF catch_keycode
    <2> QED BY <1>1, <2>1, ArrowMoves
<1>6. CASE arrow = "RIGHT_ARROW"
    <2>1. catch_keycode(t, arrow) = terminal_cursor_right(t)
        BY <1>6 DEF catch_keycode
    <2> QED BY <1>1, <2>1, ArrowMoves
<1>7. CASE arrow = "DOWN_ARROW"
    <2>1. catch_keycode(t, arrow) = terminal_cursor_down(t)
        BY <1>7 DEF catch_keycode
    <2> QED BY <1>1, <1>3, <2>1, ArrowMoves
<1> QED BY <1>4, <1>5, <1>6, <1>7 DEF Arrows

-----------------------------------------------------------------------------
(* Keys *)

\* A key that is no arrow and not backspace types.
LEMMA OtherKey ==
    ASSUME NEW t, NEW key, key \notin Arrows, key # "BACKSPACE"
    PROVE  catch_keycode(t, key) = NormalKey(t, key)
BY DEF catch_keycode, Arrows

\* What a printing key sends is a character, with or without shift, and none of
\* those the terminal treats apart.
LEMMA PrintingKey ==
    ASSUME NEW key \in Letters \cup Symbols, NEW c \in {key, Shifted[key]}
    PROVE  /\ c \in Characters /\ c # "\n" /\ c # "\t"
           /\ c \notin Arrows /\ c # "BACKSPACE"
<1>1. c \in Characters
    BY ConsoleAssumption
<1>2. {key, Shifted[key]} \cap {"\n", "\t", "BACKSPACE", "UP_ARROW", "LEFT_ARROW",
                                "RIGHT_ARROW", "DOWN_ARROW"} = {}
    BY KeysAssumption
<1>3. c \notin {"\n", "\t", "BACKSPACE", "UP_ARROW", "LEFT_ARROW", "RIGHT_ARROW", "DOWN_ARROW"}
    BY <1>2
<1> QED BY <1>1, <1>3 DEF Arrows

\* So is what it sends in the state of the keyboard.
LEMMA PrintedKey ==
    ASSUME NEW key \in Letters \cup Symbols
    PROVE  /\ Printed(key) \in Characters /\ Printed(key) # "\n" /\ Printed(key) # "\t"
           /\ Printed(key) \notin Arrows /\ Printed(key) # "BACKSPACE"
<1>1. Printed(key) \in {key, Shifted[key]}
    BY DEF Printed
<1> QED BY <1>1, PrintingKey

\* Whatever key the terminal gets, it stays sound.
LEMMA KeySound ==
    ASSUME NEW t, Sound(t),
           NEW key \in Arrows \cup Letters \cup Symbols \cup {"BACKSPACE", "\t", "\n"}
    PROVE  Sound(catch_keycode(t, key))
<1>1. CASE key \in Arrows
    BY <1>1, ArrowKey
<1>2. CASE key = "BACKSPACE"
    <2>1. catch_keycode(t, key) = terminal_backspace(t)
        BY <1>2 DEF catch_keycode
    <2> QED BY <2>1, BackspaceSound
<1>3. CASE key \notin Arrows /\ key # "BACKSPACE"
    <2>1. key \in Characters
        BY <1>3, ConsoleAssumption
    <2> QED BY <1>3, <2>1, OtherKey, NormalKeySound
<1> QED BY <1>1, <1>2, <1>3

-----------------------------------------------------------------------------
(* The invariant *)

Sides == {"lshift", "rshift", "caps_lock"}

\* While only characters, tabs and backspaces were typed, the text of the line
\* stands behind the prompt on the line of the cursor, its start and end known.
ConsoleInv ==
  /\ keyboard \in [Sides -> BOOLEAN]
  /\ Sound(terminal)
  /\ typed \in [plain : BOOLEAN, text : Seq(Characters)]
  /\ typed.plain => TypedLine(terminal, typed.text)

\* The terminal starts sound: nothing is on the screen and no row is remembered.
LEMMA FirstTerminal ==
    ASSUME NEW t, t = [rows |-> [y \in 1..HEIGHT |-> Blank], row |-> 0, column |-> 0,
                       up |-> <<>>, down |-> <<>>,
                       start_of_command |-> 0, end_of_command |-> 0, fault |-> FALSE]
    PROVE  Sound(t) /\ TypedLine(t, << >>)
<1> DEFINE rows == [y \in 1..HEIGHT |-> Blank]
<1>1. rows \in Seq(Row) /\ Len(rows) = HEIGHT
    <2>1. Blank \in Row
        BY BlankType
    <2>2. rows \in [1 .. HEIGHT -> Row] /\ HEIGHT \in Nat
        BY <2>1, ConsoleAssumption
    <2> HIDE DEF rows
    <2> QED BY <2>2
<1>2. 0 \in 0 .. HEIGHT - 1 /\ 0 \in 0 .. WIDTH - 1 /\ 0 <= HEIGHT
    BY ScreenSize
<1>3. << >> \in Seq(Row) /\ Len(<< >>) = 0
    OBVIOUS
<1> HIDE DEF rows
<1>4. t = [rows |-> rows, row |-> 0, column |-> 0, up |-> <<>>, down |-> <<>>,
           start_of_command |-> 0, end_of_command |-> 0, fault |-> FALSE]
    BY DEF rows
<1>5. t \in Terminals
    BY <1>1, <1>2, <1>3, <1>4 DEF Terminals
<1>6. t.rows = rows /\ t.up = <<>> /\ t.down = <<>> /\ t.column = 0
    BY <1>4
<1>7. Len(t.up) + Len(t.down) <= HEIGHT
    BY <1>2, <1>6
<1> QED BY <1>1, <1>5, <1>6, <1>7 DEF Sound, TypedLine

\* The invariant holds at first.
LEMMA InitInv == Init => ConsoleInv
<1> SUFFICES ASSUME Init PROVE ConsoleInv
    OBVIOUS
<1>1. keyboard \in [Sides -> BOOLEAN]
    <2>1. keyboard \in [lshift : BOOLEAN, rshift : BOOLEAN, caps_lock : BOOLEAN]
        BY DEF Init
    <2> QED BY <2>1, SMT DEF Sides
<1>2. Sound(terminal) /\ TypedLine(terminal, << >>)
    BY FirstTerminal DEF Init
<1>3. typed = [plain |-> TRUE, text |-> << >>]
    BY DEF Init, FreshLine
<1>4. typed \in [plain : BOOLEAN, text : Seq(Characters)] /\ typed.text = << >>
    BY <1>3
<1> QED BY <1>1, <1>2, <1>4 DEF ConsoleInv

\* A character or tab typed: the text of the line is longer by it, or the line
\* is full and nothing is known of it.
LEMMA TypedKey ==
    ASSUME ConsoleInv, NEW c \in Characters, c # "\n", c \notin Arrows, c # "BACKSPACE",
           terminal' = catch_keycode(terminal, c), typed' = Typed(c), keyboard' = keyboard
    PROVE  ConsoleInv'
<1> DEFINE line == IF terminal.column = 0 THEN FreshLine ELSE typed
           extra == IF c = "\t" THEN TAB ELSE <<c>>
           text == line.text \o extra
<1>1. terminal' = NormalKey(terminal, c)
    BY OtherKey
<1>2. Sound(terminal) /\ typed \in [plain : BOOLEAN, text : Seq(Characters)]
      /\ (typed.plain => TypedLine(terminal, typed.text)) /\ keyboard' \in [Sides -> BOOLEAN]
    BY DEF ConsoleInv
<1>3. Sound(terminal')
    BY <1>1, <1>2, NormalKeySound
<1>4. /\ line.plain \in BOOLEAN /\ line.text \in Seq(Characters)
      /\ line.plain => TypedLine(terminal, line.text)
    <2>1. CASE terminal.column = 0
        <3>1. line = FreshLine
            BY <2>1
        <3>2. FreshLine.plain = TRUE /\ FreshLine.text = << >>
            BY DEF FreshLine
        <3>3. << >> \in Seq(Characters)
            OBVIOUS
        <3>4. TypedLine(terminal, << >>)
            BY <2>1 DEF TypedLine
        <3> HIDE DEF line
        <3> QED BY <3>1, <3>2, <3>3, <3>4
    <2>2. CASE terminal.column # 0
        <3>1. line = typed
            BY <2>2
        <3> HIDE DEF line
        <3> QED BY <1>2, <3>1
    <2> QED BY <2>1, <2>2
<1>5. extra \in Seq(Characters)
    <2>1. TAB \in Seq(Characters)
        BY ConsoleAssumption
    <2>2. <<c>> \in Seq(Characters)
        OBVIOUS
    <2> QED BY <2>1, <2>2
<1>6. typed' = [plain |-> line.plain /\ Len(DEFAULT_PROMPT) + Len(text) < WIDTH,
                text |-> text]
    BY DEF Typed
<1> HIDE DEF line
<1>7. text \in Seq(Characters)
    <2> HIDE DEF extra
    <2> QED BY <1>4, <1>5, ConcatElements
<1>8. /\ typed' \in [plain : BOOLEAN, text : Seq(Characters)]
      /\ typed.plain' = (line.plain /\ P + Len(text) < WIDTH) /\ typed.text' = text
    <2> HIDE DEF text
    <2>1. (line.plain /\ Len(DEFAULT_PROMPT) + Len(text) < WIDTH) \in BOOLEAN
        OBVIOUS
    <2> QED BY <1>6, <1>7, <2>1 DEF P
<1>9. typed.plain' => TypedLine(terminal', typed.text')
    <2> SUFFICES ASSUME typed.plain' PROVE TypedLine(terminal', text)
        BY <1>8
    <2>1. line.plain /\ P + Len(text) < WIDTH
        BY <1>8
    <2>2. TypedLine(terminal, line.text)
        BY <1>4, <2>1
    <2>3. OnLine(NormalKey(terminal, c), text)
        BY <1>2, <1>4, <1>5, <2>1, <2>2, TypingKey
    <2> HIDE DEF text
    <2> QED BY <1>1, <1>7, <2>3, OnLineIsTyped
<1> QED BY <1>2, <1>3, <1>8, <1>9 DEF ConsoleInv

\* Enter: the command is processed, and what follows is a typed line with no text.
LEMMA EnterStep ==
    ASSUME ConsoleInv, PressEnter
    PROVE  ConsoleInv'
<1>1. /\ terminal' = catch_keycode(terminal, "\n") /\ typed' = FreshLine
      /\ keyboard' = keyboard /\ Sound(terminal) /\ keyboard \in [Sides -> BOOLEAN]
    BY DEF PressEnter, ConsoleInv
<1>2. terminal' = NormalKey(terminal, "\n")
    BY <1>1, OtherKey DEF Arrows
<1>3. Sound(terminal') /\ (terminal'.column = 0 \/ OnLine(terminal', << >>))
    BY <1>1, <1>2, EnterKey
<1>4. << >> \in Seq(Characters)
    OBVIOUS
<1>5. TypedLine(terminal', << >>)
    BY <1>3, <1>4, OnLineIsTyped DEF TypedLine
<1>6. typed' \in [plain : BOOLEAN, text : Seq(Characters)] /\ typed.text' = << >>
    BY <1>1, <1>4 DEF FreshLine
<1> QED BY <1>1, <1>3, <1>5, <1>6 DEF ConsoleInv

\* Backspace takes the last character from the text, on the screen as well.
LEMMA BackspaceStep ==
    ASSUME ConsoleInv, PressBackspace
    PROVE  ConsoleInv'
<1>1. /\ terminal' = catch_keycode(terminal, "BACKSPACE")
      /\ typed' = IF typed.text = <<>> THEN Unknown ELSE [typed EXCEPT !.text = Front(@)]
      /\ keyboard' \in [Sides -> BOOLEAN] /\ Sound(terminal)
      /\ typed \in [plain : BOOLEAN, text : Seq(Characters)]
      /\ (typed.plain => TypedLine(terminal, typed.text))
    BY DEF PressBackspace, ConsoleInv
<1>2. terminal' = terminal_backspace(terminal)
    BY <1>1 DEF catch_keycode
<1>3. Sound(terminal')
    BY <1>1, <1>2, BackspaceSound
<1>4. CASE typed.text = << >>
    <2>1. typed' = Unknown
        BY <1>1, <1>4
    <2>2. typed' \in [plain : BOOLEAN, text : Seq(Characters)] /\ ~typed.plain'
        BY <2>1 DEF Unknown
    <2> QED BY <1>1, <1>3, <2>2 DEF ConsoleInv
<1>5. CASE typed.text # << >>
    <2>1. typed.text \in Seq(Characters)
        BY <1>1
    <2>2. Front(typed.text) \in Seq(Characters)
        BY <1>5, <2>1, FrontLast
    <2>3. typed' = [typed EXCEPT !.text = Front(typed.text)]
        BY <1>1, <1>5
    <2>4. /\ typed' \in [plain : BOOLEAN, text : Seq(Characters)]
          /\ typed.plain' = typed.plain /\ typed.text' = Front(typed.text)
        BY <1>1, <2>2, <2>3
    <2>5. typed.plain => TypedLine(terminal', Front(typed.text))
        <3> SUFFICES ASSUME typed.plain PROVE TypedLine(terminal', Front(typed.text))
            OBVIOUS
        <3>1. OnLine(terminal', Front(typed.text))
            BY <1>1, <1>2, <1>5, <2>1, BackspaceKey
        <3> QED BY <2>2, <3>1, OnLineIsTyped
    <2> QED BY <1>1, <1>3, <2>4, <2>5 DEF ConsoleInv
<1> QED BY <1>4, <1>5

\* A key that makes the text unknown: only the terminal has to stay sound.
LEMMA UnknownStep ==
    ASSUME Sound(terminal'), typed' = Unknown, keyboard' \in [Sides -> BOOLEAN]
    PROVE  ConsoleInv'
<1>1. typed' \in [plain : BOOLEAN, text : Seq(Characters)] /\ ~typed.plain'
    BY DEF Unknown
<1> QED BY <1>1 DEF ConsoleInv

\* An event that was never written is ignored, or taken for any key.
LEMMA GarbageStep ==
    ASSUME ConsoleInv, Garbage, keyboard' \in [Sides -> BOOLEAN]
    PROVE  ConsoleInv'
<1>1. CASE UNCHANGED <<terminal, typed>>
    BY <1>1 DEF ConsoleInv
<1>2. ASSUME NEW key \in Arrows \cup Letters \cup Symbols \cup {"BACKSPACE", "\t", "\n"},
             terminal' = catch_keycode(terminal, key), typed' = Unknown
      PROVE  ConsoleInv'
    <2>1. Sound(terminal)
        BY DEF ConsoleInv
    <2>2. Sound(terminal')
        BY <1>2, <2>1, KeySound
    <2> QED BY <1>2, <2>2, UnknownStep
<1>3. CASE terminal' = Prompted(terminal) /\ typed' = Unknown
    <2>1. Sound(terminal)
        BY DEF ConsoleInv
    <2>2. Sound(terminal')
        BY <1>3, <2>1, PromptedSound
    <2> QED BY <1>3, <2>2, UnknownStep
<1> QED BY <1>1, <1>2, <1>3 DEF Garbage

\* Every step keeps the invariant.
LEMMA NextInv == ConsoleInv /\ [Next]_vars => ConsoleInv'
<1> SUFFICES ASSUME ConsoleInv, [Next]_vars PROVE ConsoleInv'
    OBVIOUS
<1>0. keyboard \in [Sides -> BOOLEAN] /\ Sound(terminal)
    BY DEF ConsoleInv
<1>1. ASSUME NEW key \in Letters \cup Symbols, PressPrinting(key) PROVE ConsoleInv'
    <2>1. /\ terminal' = catch_keycode(terminal, Printed(key))
          /\ typed' = Typed(Printed(key)) /\ keyboard' = keyboard
        BY <1>1 DEF PressPrinting
    <2> QED BY <2>1, PrintedKey, TypedKey
<1>2. CASE PressTab
    <2>1. terminal' = catch_keycode(terminal, "\t") /\ typed' = Typed("\t") /\ keyboard' = keyboard
        BY <1>2 DEF PressTab
    <2>2. "\t" \in Characters /\ "\t" # "\n" /\ "\t" \notin Arrows /\ "\t" # "BACKSPACE"
        BY ConsoleAssumption DEF Arrows
    <2> QED BY <2>1, <2>2, TypedKey
<1>3. CASE PressEnter
    BY <1>3, EnterStep
<1>4. CASE PressBackspace
    BY <1>4, BackspaceStep
<1>5. ASSUME NEW arrow \in Arrows, PressArrow(arrow) PROVE ConsoleInv'
    <2>1. terminal' = catch_keycode(terminal, arrow) /\ typed' = Unknown /\ keyboard' = keyboard
        BY <1>5 DEF PressArrow
    <2>2. Sound(terminal')
        BY <1>0, <2>1, KeySound
    <2> QED BY <1>0, <2>1, <2>2, UnknownStep
<1>6. ASSUME NEW side \in {"lshift", "rshift"}, PressShift(side) PROVE ConsoleInv'
    <2>1. keyboard' = [keyboard EXCEPT ![side] = TRUE] /\ Garbage
        BY <1>6 DEF PressShift
    <2>2. keyboard' \in [Sides -> BOOLEAN]
        BY <1>0, <2>1 DEF Sides
    <2> QED BY <2>1, <2>2, GarbageStep
<1>7. ASSUME NEW side \in {"lshift", "rshift"}, ReleaseShift(side) PROVE ConsoleInv'
    <2>1. keyboard' = [keyboard EXCEPT ![side] = FALSE] /\ UNCHANGED <<terminal, typed>>
        BY <1>7 DEF ReleaseShift
    <2>2. keyboard' \in [Sides -> BOOLEAN]
        BY <1>0, <2>1 DEF Sides
    <2> QED BY <2>1, <2>2 DEF ConsoleInv
<1>8. CASE PressCapsLock
    <2>1. keyboard' = [keyboard EXCEPT !.caps_lock = ~@] /\ Garbage
        BY <1>8 DEF PressCapsLock
    <2>2. keyboard' \in [Sides -> BOOLEAN]
        BY <1>0, <2>1, Zenon DEF Sides
    <2> QED BY <2>1, <2>2, GarbageStep
<1>9. CASE PressOther
    BY <1>0, <1>9, GarbageStep DEF PressOther
<1>10. CASE UNCHANGED vars
    BY <1>10 DEF vars, ConsoleInv
<1> QED BY <1>1, <1>2, <1>3, <1>4, <1>5, <1>6, <1>7, <1>8, <1>9, <1>10 DEF Next

\* The invariant holds always.
THEOREM ConsoleInvariant == Spec => []ConsoleInv
BY InitInv, NextInv, PTL DEF Spec

\* The cursor never leaves the screen, every row stays as wide as it, and both
\* histories hold at most as many rows as it: whatever is typed, scrolled or run.
THEOREM TypeCorrect == Spec => []TypeOK
<1>1. ConsoleInv => TypeOK
    <2> SUFFICES ASSUME ConsoleInv PROVE TypeOK
        OBVIOUS
    <2>1. Sound(terminal) /\ keyboard \in [{"lshift", "rshift", "caps_lock"} -> BOOLEAN]
        BY DEF ConsoleInv, Sides
    <2>2. /\ terminal.row \in 0 .. HEIGHT - 1 /\ terminal.column \in 0 .. WIDTH - 1
          /\ terminal.rows \in Seq(Row) /\ Len(terminal.rows) = HEIGHT
          /\ Len(terminal.up) <= HEIGHT /\ Len(terminal.down) <= HEIGHT
          /\ terminal.start_of_command \in Int /\ terminal.end_of_command \in Int
        BY <2>1, Fields
    <2>3. ASSUME NEW y \in 1 .. HEIGHT PROVE Len(terminal.rows[y]) = WIDTH
        <3>1. terminal.rows[y] \in Row
            BY <2>2
        <3>2. WIDTH \in Nat
            BY ConsoleAssumption
        <3>3. ASSUME NEW r \in [1 .. WIDTH -> Cells] PROVE Len(r) = WIDTH
            BY <3>2
        <3> QED BY <3>1, <3>3 DEF Row
    <2> QED BY <2>1, <2>2, <2>3 DEF TypeOK
<1> QED BY <1>1, ConsoleInvariant, PTL

\* The arrow keys move the cursor and scroll, and keep every line the screen and
\* its two histories hold, in its place.
THEOREM ArrowsKeepText == Spec => []ScrollingKeepsText
<1>1. ConsoleInv => ScrollingKeepsText
    BY ArrowKey DEF ConsoleInv, ScrollingKeepsText
<1> QED BY <1>1, ConsoleInvariant, PTL

\* The command the enter key reads back from the screen is the text that was
\* typed on the line, wherever the line is.
THEOREM TypedCommandsRun == Spec => []PlainCommandsRun
<1>1. ConsoleInv => PlainCommandsRun
    <2> SUFFICES ASSUME ConsoleInv, typed.plain, typed.text # << >>
                 PROVE  /\ Entered(terminal).start_of_command >= 0
                        /\ default_get_command(Entered(terminal)) = typed.text
        BY DEF PlainCommandsRun
    <2>1. Sound(terminal) /\ typed.text \in Seq(Characters) /\ TypedLine(terminal, typed.text)
        BY DEF ConsoleInv
    <2>2. OnLine(terminal, typed.text)
        BY <2>1 DEF TypedLine
    <2> QED BY <2>1, <2>2, CommandReadBack
<1> QED BY <1>1, ConsoleInvariant, PTL

-----------------------------------------------------------------------------
(* Earlier lines: what keys that type leave of the text above the cursor.  *)

\* The number of rows above the cursor, from the oldest in the history on.
Above(t) == Len(t.up) + t.row

\* The i-th row of the text, for the rows that are not below the screen.
Line(t, i) == IF i <= Len(t.up) THEN t.up[i] ELSE t.rows[i - Len(t.up)]

\* The cursor has come down by k lines, and n rows were forgotten on the way, those of full
\* histories; the other rows that were above the cursor are there still, in their order.
Advanced(t, r, n, k) ==
    /\ n \in Nat /\ k \in Nat /\ \E j \in 0 .. k : n = j * HEIGHT
    /\ r.row >= t.row /\ Above(r) + n = Above(t) + k
    /\ n = 0 => Len(r.up) >= Len(t.up)
    /\ n # 0 => Len(r.up) >= 1
    /\ \A i \in n + 1 .. Above(t) : Line(r, i - n) = Line(t, i)

Moves(t, r, k) == \E n : Advanced(t, r, n, k)

\* The numbers of rows.
LEMMA RowNumbers ==
    ASSUME NEW t, Sound(t)
    PROVE  /\ t.row \in Nat /\ Len(t.up) \in Nat /\ Above(t) \in Nat /\ Len(t.up) <= HEIGHT
           /\ t.row + 1 <= HEIGHT /\ Above(t) = Len(t.up) + t.row
           /\ HEIGHT \in Nat /\ HEIGHT > 1
           /\ t.up \in Seq(Row) /\ t.rows \in Seq(Row) /\ Len(t.rows) = HEIGHT
<1>1. /\ t.up \in Seq(Row) /\ t.rows \in Seq(Row) /\ Len(t.rows) = HEIGHT /\ Len(t.up) <= HEIGHT
      /\ Len(t.up) \in Nat
    BY Fields
<1>2. t.row \in 0 .. HEIGHT - 1 /\ HEIGHT \in Nat /\ HEIGHT > 1
    BY ScreenSize DEF Sound, Terminals
<1>3. t.row \in Nat /\ t.row + 1 <= HEIGHT
    BY <1>2
<1> QED BY <1>1, <1>2, <1>3 DEF Above

\* Some histories and some more.
LEMMA ProductOfSum ==
    ASSUME NEW i \in Nat, NEW j \in Nat, NEW h \in Nat
    PROVE  i * h + j * h = (i + j) * h /\ i * h \in Nat
OBVIOUS

\* Whatever is forgotten, some of the history is left.
LEMMA HistoryLeft ==
    ASSUME NEW n \in Nat, NEW m \in Nat, NEW a \in Nat, NEW b \in Nat, NEW c \in Nat,
           n = 0 => b >= a, n # 0 => b >= 1, m = 0 => c >= b, m # 0 => c >= 1
    PROVE  (n + m = 0 => c >= a) /\ (n + m # 0 => c >= 1)
OBVIOUS

\* Two moves are one.
LEMMA MovesTwice ==
    ASSUME NEW t, Sound(t), NEW s, Sound(s), NEW r, Sound(r), NEW k, NEW l,
           Moves(t, s, k), Moves(s, r, l)
    PROVE  Moves(t, r, k + l)
<1>1. PICK n : Advanced(t, s, n, k)
    BY Zenon DEF Moves
<1>2. PICK m : Advanced(s, r, m, l)
    BY Zenon DEF Moves
<1>3. /\ n \in Nat /\ k \in Nat /\ s.row >= t.row /\ Above(s) + n = Above(t) + k
      /\ n = 0 => Len(s.up) >= Len(t.up)
      /\ n # 0 => Len(s.up) >= 1
      /\ \A i \in n + 1 .. Above(t) : Line(s, i - n) = Line(t, i)
    BY Zenon, <1>1 DEF Advanced
<1>4. /\ m \in Nat /\ l \in Nat /\ r.row >= s.row /\ Above(r) + m = Above(s) + l
      /\ m = 0 => Len(r.up) >= Len(s.up)
      /\ m # 0 => Len(r.up) >= 1
      /\ \A i \in m + 1 .. Above(s) : Line(r, i - m) = Line(s, i)
    BY Zenon, <1>2 DEF Advanced
<1>5. /\ t.row \in Nat /\ s.row \in Nat /\ r.row \in Nat
      /\ Above(t) \in Nat /\ Above(s) \in Nat /\ Above(r) \in Nat
      /\ Len(t.up) \in Nat /\ Len(s.up) \in Nat /\ Len(r.up) \in Nat
    BY RowNumbers
<1>6. \E j \in 0 .. k + l : n + m = j * HEIGHT
    <2>1. PICK i \in 0 .. k : n = i * HEIGHT
        BY Zenon, <1>1 DEF Advanced
    <2>2. PICK j \in 0 .. l : m = j * HEIGHT
        BY Zenon, <1>2 DEF Advanced
    <2>3. i \in Nat /\ j \in Nat /\ HEIGHT \in Nat /\ i + j \in 0 .. k + l
        BY <1>3, <1>4, RowNumbers
    <2>4. i * HEIGHT + j * HEIGHT = (i + j) * HEIGHT
        BY <2>3, ProductOfSum
    <2> QED BY <2>1, <2>2, <2>3, <2>4
<1>7. /\ n + m \in Nat /\ k + l \in Nat /\ r.row >= t.row
      /\ Above(r) + (n + m) = Above(t) + (k + l)
    <2>1. n \in Nat /\ k \in Nat /\ s.row >= t.row /\ Above(s) + n = Above(t) + k
        BY Zenon, <1>3
    <2>2. m \in Nat /\ l \in Nat /\ r.row >= s.row /\ Above(r) + m = Above(s) + l
        BY Zenon, <1>4
    <2> DEFINE a == Above(t)
               b == Above(s)
               c == Above(r)
               x == t.row
               y == s.row
               z == r.row
    <2>3. /\ a \in Nat /\ b \in Nat /\ c \in Nat /\ x \in Nat /\ y \in Nat /\ z \in Nat
          /\ n \in Nat /\ k \in Nat /\ m \in Nat /\ l \in Nat
        BY Zenon, <1>5, <2>1, <2>2
    <2>4. y >= x /\ b + n = a + k /\ z >= y /\ c + m = b + l
        BY Zenon, <2>1, <2>2
    <2> HIDE DEF a, b, c, x, y, z
    <2>5. n + m \in Nat /\ k + l \in Nat /\ z >= x /\ c + (n + m) = a + (k + l)
        BY <2>3, <2>4
    <2> QED BY Zenon, <2>5 DEF a, c, x, z
<1>8. /\ n + m = 0 => Len(r.up) >= Len(t.up)
      /\ n + m # 0 => Len(r.up) >= 1
    <2>1. n \in Nat /\ (n = 0 => Len(s.up) >= Len(t.up)) /\ (n # 0 => Len(s.up) >= 1)
        BY Zenon, <1>3
    <2>2. m \in Nat /\ (m = 0 => Len(r.up) >= Len(s.up)) /\ (m # 0 => Len(r.up) >= 1)
        BY Zenon, <1>4
    <2> QED BY <1>5, <2>1, <2>2, HistoryLeft
<1>9. ASSUME NEW i \in (n + m) + 1 .. Above(t)
      PROVE  Line(r, i - (n + m)) = Line(t, i)
    <2>1. i \in n + 1 .. Above(t) /\ i - n \in m + 1 .. Above(s) /\ (i - n) - m = i - (n + m)
        BY <1>3, <1>4, <1>5
    <2>2. Line(s, i - n) = Line(t, i)
        BY <1>3, <2>1
    <2>3. Line(r, (i - n) - m) = Line(s, i - n)
        BY <1>4, <2>1
    <2> QED BY <2>1, <2>2, <2>3
<1>10. Advanced(t, r, n + m, k + l)
    BY Zenon, <1>6, <1>7, <1>8, <1>9 DEF Advanced
<1> QED BY Zenon, <1>10 DEF Moves

\* Nothing moves if the rows above the cursor are the same.
LEMMA SameAbove ==
    ASSUME NEW t, Sound(t), NEW r, r.up = t.up, r.row = t.row,
           \A y \in 1 .. t.row : r.rows[y] = t.rows[y]
    PROVE  Moves(t, r, 0)
<1>1. t.row \in Nat /\ Len(t.up) \in Nat /\ Above(t) \in Nat /\ HEIGHT \in Nat
      /\ Above(t) = Len(t.up) + t.row
    BY RowNumbers
<1>2. Above(r) = Above(t)
    BY DEF Above
<1>3. ASSUME NEW i \in 0 + 1 .. Above(t) PROVE Line(r, i - 0) = Line(t, i)
    <2>1. i - 0 = i /\ (i <= Len(t.up) \/ i - Len(t.up) \in 1 .. t.row)
        BY <1>1
    <2>2. Line(r, i) = Line(t, i)
        BY <2>1 DEF Line
    <2> QED BY <2>1, <2>2
<1>4. \E j \in 0 .. 0 : 0 = j * HEIGHT
    BY <1>1
<1>5. r.row >= t.row /\ Above(r) + 0 = Above(t) + 0 /\ Len(r.up) >= Len(t.up) /\ 0 \in Nat
    BY <1>1, <1>2
<1>6. Advanced(t, r, 0, 0)
    BY <1>3, <1>4, <1>5 DEF Advanced
<1> QED BY Zenon, <1>6 DEF Moves

\* Rows with the same cells are the same.
LEMMA RowsAlike ==
    ASSUME NEW t, Sound(t), NEW r, Sound(r), NEW y \in 1 .. HEIGHT,
           \A x \in 1 .. WIDTH : r.rows[y][x] = t.rows[y][x]
    PROVE  r.rows[y] = t.rows[y]
<1>1. /\ t.rows \in Seq(Row) /\ Len(t.rows) = HEIGHT /\ r.rows \in Seq(Row) /\ Len(r.rows) = HEIGHT
    BY RowNumbers
<1> DEFINE v == t.rows[y]
           w == r.rows[y]
<1>2. v \in Row /\ w \in Row /\ \A x \in 1 .. WIDTH : w[x] = v[x]
    BY <1>1
<1> HIDE DEF v, w
<1>3. w = v
    <2>1. w = [x \in 1 .. WIDTH |-> w[x]] /\ v = [x \in 1 .. WIDTH |-> v[x]]
        BY <1>2 DEF Row
    <2> QED BY <1>2, <2>1
<1> QED BY <1>3 DEF v, w

\* Nothing moves if only cells on the line of the cursor change.
LEMMA CellsMove ==
    ASSUME NEW t, Sound(t), NEW r, Sound(r), r.row = t.row, SameBut(t, r),
           \A y \in 1 .. HEIGHT, x \in 1 .. WIDTH : y # t.row + 1 => r.rows[y][x] = t.rows[y][x]
    PROVE  Moves(t, r, 0)
<1>1. t.row \in Nat /\ t.row + 1 <= HEIGHT /\ HEIGHT \in Nat
    BY RowNumbers
<1>2. ASSUME NEW y \in 1 .. t.row PROVE r.rows[y] = t.rows[y]
    <2>1. y \in 1 .. HEIGHT /\ y # t.row + 1
        BY <1>1
    <2> QED BY <2>1, RowsAlike
<1> QED BY <1>2, SameAbove DEF SameBut

\* A line feed moves the cursor down by one line.
LEMMA FeedMoves ==
    ASSUME NEW t, Sound(t)
    PROVE  Moves(t, NextLine(t), 1)
<1> DEFINE r == NextLine(t)
           u == Len(t.up)
<1>1. /\ t.row \in Nat /\ u \in Nat /\ Above(t) \in Nat /\ u <= HEIGHT
      /\ t.row + 1 <= HEIGHT /\ Above(t) = u + t.row /\ HEIGHT \in Nat /\ HEIGHT > 1
      /\ t.up \in Seq(Row) /\ t.rows \in Seq(Row) /\ Len(t.rows) = HEIGHT
    BY RowNumbers
<1>2. /\ 0 = 0 * HEIGHT /\ HEIGHT = 1 * HEIGHT /\ 0 \in 0 .. 1 /\ 1 \in 0 .. 1 /\ 1 \in Nat
      /\ 0 \in Nat /\ HEIGHT # 0
    BY <1>1
<1>3. CASE t.row + 1 # HEIGHT
    <2>1. r.row = t.row + 1 /\ r.rows = t.rows /\ r.up = t.up
        BY <1>3, LineFeed DEF SameBut
    <2> HIDE DEF r
    <2>2. r.row >= t.row /\ Above(r) + 0 = Above(t) + 1 /\ Len(r.up) >= Len(t.up)
        BY <1>1, <2>1 DEF Above
    <2>3. ASSUME NEW i \in 0 + 1 .. Above(t) PROVE Line(r, i - 0) = Line(t, i)
        <3>1. i - 0 = i
            BY <1>1
        <3>2. Line(r, i) = Line(t, i)
            BY <2>1 DEF Line
        <3> QED BY <3>1, <3>2
    <2>4. Advanced(t, r, 0, 1)
        BY <1>2, <2>2, <2>3 DEF Advanced
    <2> QED BY Zenon, <2>4 DEF Moves, r
<1>4. CASE t.row + 1 = HEIGHT
    <2>1. /\ r.rows = Append(Tail(t.rows), RowBelow(t)) /\ r.row = HEIGHT - 1
          /\ r.up = Remembered(t.up, t.rows[1]) /\ Sound(r)
        <3>1. r = terminal_scroll_down(t)
            BY <1>4 DEF NextLine
        <3> HIDE DEF r
        <3> QED BY <3>1, ScrollDown
    <2> HIDE DEF r
    <2>2. /\ t.rows[1] \in Row /\ r.rows \in Seq(Row) /\ Len(r.rows) = HEIGHT /\ Len(r.up) \in Nat
          /\ r.row = t.row
        <3>1. 1 \in 1 .. Len(t.rows)
            BY <1>1
        <3>2. t.rows[1] \in Row
            BY <1>1, <3>1
        <3>3. r.rows \in Seq(Row) /\ Len(r.rows) = HEIGHT /\ Len(r.up) \in Nat
            BY <2>1, RowNumbers
        <3>4. r.row = t.row
            BY <1>1, <1>4, <2>1
        <3> QED BY <3>2, <3>3, <3>4
    <2>3. \A y \in 1 .. HEIGHT - 1 : r.rows[y] = t.rows[y + 1]
        <3>1. RowBelow(t) \in Row
            <4>1. r.rows[HEIGHT] \in Row /\ r.rows[HEIGHT] = RowBelow(t)
                BY <1>1, <2>1, <2>2
            <4> QED BY <4>1
        <3>2. t.rows # << >>
            BY <1>1
        <3> QED BY <1>1, <2>1, <3>1, <3>2, TailElements
    <2>4. CASE u = HEIGHT
        <3>1. r.up = <<t.rows[1]>>
            BY <1>1, <2>1, <2>4 DEF Remembered
        <3>2. Len(r.up) = 1 /\ r.up[1] = t.rows[1]
            BY <3>1
        <3>3. r.row >= t.row /\ Above(r) + HEIGHT = Above(t) + 1 /\ Len(r.up) >= 1
            <4>1. Above(r) = 1 + t.row /\ r.row = t.row
                BY <2>2, <3>2 DEF Above
            <4>2. t.row = HEIGHT - 1 /\ Above(t) = HEIGHT + t.row
                BY <1>1, <1>4, <2>4
            <4> QED BY <1>1, <3>2, <4>1, <4>2
        <3>4. ASSUME NEW i \in HEIGHT + 1 .. Above(t) PROVE Line(r, i - HEIGHT) = Line(t, i)
            <4>1. Line(t, i) = t.rows[i - HEIGHT] /\ i - HEIGHT \in 1 .. HEIGHT - 1
                BY <1>1, <1>4, <2>4 DEF Line
            <4>2. CASE i - HEIGHT = 1
                <5>1. Line(r, 1) = r.up[1]
                    BY <3>2 DEF Line
                <5> QED BY <3>2, <4>1, <4>2, <5>1
            <4>3. CASE i - HEIGHT # 1
                <5>1. (i - HEIGHT) - 1 \in 1 .. HEIGHT - 1
                      /\ ((i - HEIGHT) - 1) + 1 = i - HEIGHT /\ ~(i - HEIGHT <= 1)
                    BY <1>1, <4>1, <4>3
                <5>2. Line(r, i - HEIGHT) = r.rows[(i - HEIGHT) - 1]
                    BY <3>2, <5>1 DEF Line
                <5>3. r.rows[(i - HEIGHT) - 1] = t.rows[((i - HEIGHT) - 1) + 1]
                    BY <2>3, <5>1
                <5> QED BY <4>1, <5>1, <5>2, <5>3
            <4> QED BY <4>2, <4>3
        <3>5. Advanced(t, r, HEIGHT, 1)
            BY <1>1, <1>2, <3>3, <3>4 DEF Advanced
        <3> QED BY Zenon, <3>5 DEF Moves, r
    <2>5. CASE u # HEIGHT
        <3>1. r.up = Append(t.up, t.rows[1])
            BY <1>1, <2>1, <2>5 DEF Remembered
        <3>2. /\ Len(r.up) = u + 1 /\ r.up[u + 1] = t.rows[1]
              /\ \A i \in 1 .. u : r.up[i] = t.up[i]
            BY <1>1, <2>2, <3>1, Appended
        <3>3. r.row >= t.row /\ Above(r) + 0 = Above(t) + 1 /\ Len(r.up) >= Len(t.up)
            <4>1. Above(r) = (u + 1) + t.row /\ r.row = t.row
                BY <2>2, <3>2 DEF Above
            <4>2. u = Len(t.up) /\ u \in Nat /\ t.row \in Nat /\ Above(t) = u + t.row
                BY <1>1
            <4> HIDE DEF u
            <4>3. r.row >= t.row /\ Above(r) + 0 = Above(t) + 1
                BY <4>1, <4>2
            <4>4. u + 1 >= u
                BY <1>1
            <4> QED BY <3>2, <4>2, <4>3, <4>4
        <3>4. ASSUME NEW i \in 0 + 1 .. Above(t) PROVE Line(r, i - 0) = Line(t, i)
            <4>1. i - 0 = i /\ i \in Nat
                BY <1>1
            <4>2. CASE i <= u
                <5>1. i \in 1 .. u /\ i <= u + 1
                    BY <1>1, <4>2
                <5>2. Line(r, i) = r.up[i] /\ Line(t, i) = t.up[i]
                    BY <3>2, <4>2, <5>1 DEF Line
                <5> QED BY <3>2, <4>1, <5>1, <5>2
            <4>3. CASE i = u + 1
                <5>1. ~(i <= u) /\ i <= u + 1 /\ i - u = 1
                    BY <1>1, <4>3
                <5>2. Line(r, i) = r.up[i] /\ Line(t, i) = t.rows[i - u]
                    BY <3>2, <5>1 DEF Line
                <5> QED BY <3>2, <4>1, <4>3, <5>1, <5>2
            <4>4. CASE i > u + 1
                <5>1. ~(i <= u) /\ ~(i <= u + 1) /\ i - (u + 1) \in 1 .. HEIGHT - 1
                      /\ (i - (u + 1)) + 1 = i - u
                    BY <1>1, <1>4, <4>4
                <5>2. Line(r, i) = r.rows[i - (u + 1)] /\ Line(t, i) = t.rows[i - u]
                    BY <3>2, <5>1 DEF Line
                <5>3. r.rows[i - (u + 1)] = t.rows[(i - (u + 1)) + 1]
                    BY <2>3, <5>1
                <5> QED BY <4>1, <5>1, <5>2, <5>3
            <4> QED BY <1>1, <4>1, <4>2, <4>3, <4>4
        <3>5. Advanced(t, r, 0, 1)
            BY <1>2, <3>3, <3>4 DEF Advanced
        <3> QED BY Zenon, <3>5 DEF Moves, r
    <2> QED BY <2>4, <2>5
<1> QED BY <1>3, <1>4

\* A character moves the cursor down if it is a line feed or the last of its line.
LEMMA PutMoves ==
    ASSUME NEW t, Sound(t), NEW c \in Characters
    PROVE  LET r == terminal_putchar(t, c)
           IN  /\ Sound(r)
               /\ c # "\n" /\ t.column + 1 # WIDTH => Moves(t, r, 0) /\ r.column = t.column + 1
               /\ c = "\n" \/ t.column + 1 = WIDTH => Moves(t, r, 1) /\ r.column = 0
<1> DEFINE r == terminal_putchar(t, c)
           s == terminal_swapchar(t, c)
<1>0. Sound(r)
    BY PutSound
<1>1. CASE c = "\n"
    <2>1. r = NextLine(t)
        BY <1>1 DEF terminal_putchar
    <2>2. Moves(t, NextLine(t), 1) /\ NextLine(t).column = 0
        BY FeedMoves, LineFeed
    <2> HIDE DEF r
    <2> QED BY <1>0, <1>1, <2>1, <2>2 DEF r
<1>2. CASE c # "\n" /\ t.column + 1 = WIDTH
    <2>1. r = NextLine(s)
        BY <1>2 DEF terminal_putchar
    <2>2. CellSet(t, s, c)
        BY <1>2, CellWritten DEF Cells
    <2> HIDE DEF r, s
    <2>3. /\ Sound(s) /\ s.row = t.row /\ SameBut(t, s)
          /\ \A y \in 1 .. HEIGHT, x \in 1 .. WIDTH :
               y # t.row + 1 => s.rows[y][x] = t.rows[y][x]
        BY <2>2 DEF CellSet
    <2>4. Moves(t, s, 0)
        BY Zenon, <2>3, CellsMove
    <2>5. Moves(s, r, 1) /\ r.column = 0
        BY <2>1, <2>3, FeedMoves, LineFeed
    <2>6. Moves(t, r, 0 + 1)
        BY Zenon, <1>0, <2>3, <2>4, <2>5, MovesTwice DEF r
    <2>7. 0 + 1 = 1
        OBVIOUS
    <2> QED BY <1>0, <1>2, <2>5, <2>6, <2>7 DEF r
<1>3. CASE c # "\n" /\ t.column + 1 # WIDTH
    <2>1. /\ r.row = t.row /\ r.column = t.column + 1 /\ SameBut(t, r)
          /\ \A y \in 1 .. HEIGHT, x \in 1 .. WIDTH :
               r.rows[y][x] = IF y = t.row + 1 /\ x = t.column + 1 THEN c ELSE t.rows[y][x]
        BY <1>3, PutInLine
    <2> HIDE DEF r
    <2>2. \A y \in 1 .. HEIGHT, x \in 1 .. WIDTH :
            y # t.row + 1 => r.rows[y][x] = t.rows[y][x]
        BY <2>1
    <2>3. Moves(t, r, 0)
        BY Zenon, <1>0, <2>1, <2>2, CellsMove DEF r
    <2> QED BY <1>0, <1>3, <2>1, <2>3 DEF r
<1> QED BY <1>1, <1>2, <1>3

\* A text that fits on the line of the cursor moves nothing.
LEMMA LineMoves ==
    ASSUME NEW t, Sound(t), NEW r, NEW text, NEW k, InLine(t, r, text, k)
    PROVE  Moves(t, r, 0)
<1>1. /\ Sound(r) /\ r.row = t.row /\ SameBut(t, r)
      /\ \A y \in 1 .. HEIGHT, x \in 1 .. WIDTH :
           y # t.row + 1 => r.rows[y][x] = t.rows[y][x]
    BY DEF InLine
<1> QED BY Zenon, <1>1, CellsMove

\* The prompt is such a text.
LEMMA PromptMoves ==
    ASSUME NEW t, Sound(t), t.column = 0
    PROVE  Moves(t, terminal_writestring(t, DEFAULT_PROMPT), 0)
<1>1. t.column + P < WIDTH
    BY Texts
<1>2. InLine(t, terminal_writestring(t, DEFAULT_PROMPT), DEFAULT_PROMPT, P)
    BY <1>1, Texts, WriteInLine DEF P
<1> QED BY Zenon, <1>2, LineMoves

\* A tab moves the cursor down by a line at most: r has been written up to the i-th of its
\* characters, on the first line or on the second.
UpToTwoLines(t, r, i) ==
    \/ Moves(t, r, 0) /\ r.column = t.column + i
    \/ Moves(t, r, 1) /\ r.column + WIDTH = t.column + i

\* One character more.
LEMMA CharacterOfTwoLines ==
    ASSUME NEW t, Sound(t), NEW s, Sound(s), NEW i \in Nat, i + 1 < WIDTH, UpToTwoLines(t, s, i),
           NEW c \in Characters, c # "\n"
    PROVE  UpToTwoLines(t, terminal_putchar(s, c), i + 1)
<1> DEFINE r == terminal_putchar(s, c)
<1>1. /\ t.column \in Nat /\ t.column < WIDTH /\ WIDTH \in Nat
      /\ s.column \in Nat /\ s.column < WIDTH
    <2>1. t.column \in 0 .. WIDTH - 1 /\ s.column \in 0 .. WIDTH - 1 /\ WIDTH \in Nat
        BY Cursor, ScreenSize
    <2> QED BY <2>1
<1>2. /\ Sound(r)
      /\ s.column + 1 # WIDTH => Moves(s, r, 0) /\ r.column = s.column + 1
      /\ s.column + 1 = WIDTH => Moves(s, r, 1) /\ r.column = 0
    BY PutMoves
<1> HIDE DEF r
<1>3. 0 + 0 = 0 /\ 0 + 1 = 1 /\ 1 + 0 = 1
    OBVIOUS
<1>4. CASE Moves(t, s, 0) /\ s.column = t.column + i
    <2>1. CASE s.column + 1 # WIDTH
        <3>1. Moves(t, r, 0 + 0)
            BY Zenon, <1>2, <1>4, <2>1, MovesTwice
        <3>2. r.column = t.column + (i + 1)
            BY <1>1, <1>2, <1>4, <2>1
        <3> QED BY <1>3, <3>1, <3>2 DEF UpToTwoLines, r
    <2>2. CASE s.column + 1 = WIDTH
        <3>1. Moves(t, r, 0 + 1)
            BY Zenon, <1>2, <1>4, <2>2, MovesTwice
        <3>2. r.column + WIDTH = t.column + (i + 1)
            BY <1>1, <1>2, <1>4, <2>2
        <3> QED BY <1>3, <3>1, <3>2 DEF UpToTwoLines, r
    <2> QED BY <2>1, <2>2
<1>5. CASE Moves(t, s, 1) /\ s.column + WIDTH = t.column + i
    <2>1. s.column + 1 # WIDTH
        BY <1>1, <1>5
    <2>2. Moves(t, r, 1 + 0)
        BY Zenon, <1>2, <1>5, <2>1, MovesTwice
    <2>3. r.column + WIDTH = t.column + (i + 1)
        BY <1>1, <1>2, <1>5, <2>1
    <2> QED BY <1>3, <2>2, <2>3 DEF UpToTwoLines, r
<1> QED BY <1>4, <1>5 DEF UpToTwoLines

\* The tab.
LEMMA TabMoves ==
    ASSUME NEW t, Sound(t)
    PROVE  \E k \in 0 .. 1 : Moves(t, terminal_writestring(t, TAB), k)
<1> DEFINE n == Len(TAB)
<1>1. n \in Nat /\ n < WIDTH /\ n \in 0 .. n /\ WIDTH \in Nat
    <2>1. TAB \in Seq(Characters)
        BY Texts
    <2>2. n \in Nat
        BY <2>1
    <2>3. WIDTH > n
        BY Zenon, ConsoleAssumption
    <2>4. WIDTH \in Nat
        BY ScreenSize
    <2> HIDE DEF n
    <2> QED BY <2>2, <2>3, <2>4
<1>2. PICK f : Writes(t, TAB, f) /\ terminal_writestring(t, TAB) = f[n]
    BY Texts, WrittenByCharacters
<1>3. /\ f[0] = t
      /\ \A i \in 1 .. n : f[i] = terminal_putchar(f[i - 1], TAB[i])
      /\ \A i \in 0 .. n : Sound(f[i])
    BY <1>2 DEF Writes
<1>4. \A i \in 1 .. n : TAB[i] \in Characters /\ TAB[i] # "\n"
    BY Texts
<1> DEFINE N == {i \in Nat : i <= n => UpToTwoLines(t, f[i], i)}
<1> HIDE DEF n
<1>5. 0 \in N
    <2>1. Moves(t, t, 0)
        BY SameAbove
    <2>2. t.column = t.column + 0
        BY Cursor, ScreenSize
    <2>3. UpToTwoLines(t, f[0], 0)
        BY <1>3, <2>1, <2>2 DEF UpToTwoLines
    <2> QED BY <2>3
<1>6. ASSUME NEW i \in Nat, i \in N PROVE i + 1 \in N
    <2> SUFFICES ASSUME i + 1 <= n PROVE UpToTwoLines(t, f[i + 1], i + 1)
        OBVIOUS
    <2>1. i <= n /\ i + 1 \in 1 .. n /\ (i + 1) - 1 = i /\ i \in 0 .. n /\ i + 1 < WIDTH
        BY <1>1
    <2>2. UpToTwoLines(t, f[i], i)
        BY <1>6, <2>1
    <2>3. f[i + 1] = terminal_putchar(f[i], TAB[i + 1]) /\ Sound(f[i])
        BY <1>3, <2>1
    <2>4. TAB[i + 1] \in Characters /\ TAB[i + 1] # "\n"
        BY <1>4, <2>1
    <2>5. UpToTwoLines(t, terminal_putchar(f[i], TAB[i + 1]), i + 1)
        BY <2>1, <2>2, <2>3, <2>4, CharacterOfTwoLines
    <2> QED BY <2>3, <2>5
<1>7. Nat \subseteq N
    <2> HIDE DEF N
    <2> QED BY <1>5, <1>6, SetInduction
<1>8. UpToTwoLines(t, terminal_writestring(t, TAB), n)
    <2>1. n <= n /\ n \in N
        BY <1>1, <1>7
    <2> QED BY <1>2, <2>1 DEF n
<1>9. 0 \in 0 .. 1 /\ 1 \in 0 .. 1
    OBVIOUS
<1> QED BY Zenon, <1>8, <1>9 DEF UpToTwoLines

\* The line feeds among the first i characters.
FeedsUpTo(text, i) == {j \in 1 .. i : text[j] = "\n"}

\* One character more.
LEMMA OneMoreFeed ==
    ASSUME NEW text, NEW i \in Nat
    PROVE  /\ Cardinality(FeedsUpTo(text, i)) \in Nat
           /\ text[i + 1] # "\n" => FeedsUpTo(text, i + 1) = FeedsUpTo(text, i)
           /\ text[i + 1] = "\n" =>
                Cardinality(FeedsUpTo(text, i + 1)) = Cardinality(FeedsUpTo(text, i)) + 1
<1> DEFINE F == FeedsUpTo(text, i)
<1>1. IsFiniteSet(F)
    <2>1. 1 \in Int /\ i \in Int
        OBVIOUS
    <2>2. IsFiniteSet(1 .. i)
        BY <2>1, FS_Interval
    <2>3. F \subseteq 1 .. i
        BY DEF FeedsUpTo
    <2> HIDE DEF F
    <2> QED BY Zenon, <2>2, <2>3, FS_Subset
<1>2. Cardinality(F) \in Nat
    BY <1>1, FS_CardinalityType
<1>3. \A j \in 1 .. i + 1 : j \in 1 .. i \/ j = i + 1
    OBVIOUS
<1>4. 1 .. i \subseteq 1 .. i + 1 /\ i + 1 \in 1 .. i + 1 /\ i + 1 \notin 1 .. i
    OBVIOUS
<1>5. ASSUME text[i + 1] # "\n" PROVE FeedsUpTo(text, i + 1) = F
    BY Zenon, <1>3, <1>4, <1>5 DEF FeedsUpTo
<1>6. ASSUME text[i + 1] = "\n" PROVE Cardinality(FeedsUpTo(text, i + 1)) = Cardinality(F) + 1
    <2>1. FeedsUpTo(text, i + 1) = F \cup {i + 1} /\ i + 1 \notin F
        BY <1>3, <1>4, <1>6 DEF FeedsUpTo
    <2> HIDE DEF F
    <2> QED BY <1>1, <2>1, FS_AddElement
<1> QED BY <1>2, <1>5, <1>6

\* r is t with the first i characters of a text written from the start of a line; the last
\* line feed among them is the m-th.
UpToCharacter(t, r, text, i) ==
    /\ Moves(t, r, Cardinality(FeedsUpTo(text, i)))
    /\ \E m \in 0 .. i : r.column = i - m /\ \A j \in m + 1 .. i : text[j] # "\n"

\* One character more.
LEMMA CharacterOfLines ==
    ASSUME NEW t, Sound(t), NEW s, Sound(s), NEW text \in Seq(Characters), ShortLines(text),
           NEW i \in Nat, i + 1 <= Len(text), UpToCharacter(t, s, text, i)
    PROVE  UpToCharacter(t, terminal_putchar(s, text[i + 1]), text, i + 1)
<1> DEFINE c == text[i + 1]
           r == terminal_putchar(s, c)
           k == Cardinality(FeedsUpTo(text, i))
           n == Len(text)
<1>1. c \in Characters /\ n \in Nat /\ WIDTH \in Nat /\ i + 1 <= n
    BY ScreenSize
<1>2. PICK m \in 0 .. i : s.column = i - m /\ \A j \in m + 1 .. i : text[j] # "\n"
    BY Zenon DEF UpToCharacter
<1>3. Moves(t, s, k) /\ k \in Nat
    BY OneMoreFeed DEF UpToCharacter
<1>4. /\ Sound(r)
      /\ c # "\n" /\ s.column + 1 # WIDTH => Moves(s, r, 0) /\ r.column = s.column + 1
      /\ c = "\n" \/ s.column + 1 = WIDTH => Moves(s, r, 1) /\ r.column = 0
    BY <1>1, PutMoves
<1> HIDE DEF r
<1>5. CASE c = "\n"
    <2>1. Cardinality(FeedsUpTo(text, i + 1)) = k + 1
        BY <1>5, OneMoreFeed
    <2> HIDE DEF k
    <2>2. Moves(t, r, k + 1)
        BY Zenon, <1>3, <1>4, <1>5, MovesTwice
    <2>3. i + 1 \in 0 .. i + 1 /\ r.column = (i + 1) - (i + 1) /\ (i + 1) + 1 .. i + 1 = {}
        BY <1>4, <1>5
    <2>4. \A j \in (i + 1) + 1 .. i + 1 : text[j] # "\n"
        BY <2>3
    <2> QED BY <2>1, <2>2, <2>3, <2>4 DEF UpToCharacter, r
<1>6. CASE c # "\n"
    <2>1. FeedsUpTo(text, i + 1) = FeedsUpTo(text, i) /\ k + 0 = k
        BY <1>3, <1>6, OneMoreFeed
    <2>2. \A j \in m + 1 .. i + 1 : text[j] # "\n"
        <3>1. \A j \in m + 1 .. i + 1 : j \in m + 1 .. i \/ j = i + 1
            BY <1>2
        <3> QED BY <1>2, <1>6, <3>1
    <2>3. s.column + 1 # WIDTH
        <3> SUFFICES ASSUME s.column + 1 = WIDTH PROVE FALSE
            OBVIOUS
        <3> HIDE DEF c
        <3>1. (i + 1) - m = WIDTH
            BY <1>1, <1>2
        <3>2. m \in 0 .. n - WIDTH /\ m + WIDTH = i + 1
            BY <1>1, <3>1
        <3>3. \E j \in m + 1 .. m + WIDTH : text[j] = "\n"
            BY <3>2 DEF ShortLines
        <3> QED BY <2>2, <3>2, <3>3
    <2>4. Moves(t, r, k + 0)
        <3> HIDE DEF k
        <3> QED BY Zenon, <1>3, <1>4, <1>6, <2>3, MovesTwice
    <2>5. m \in 0 .. i + 1 /\ r.column = (i + 1) - m
        BY <1>2, <1>4, <1>6, <2>3
    <2> QED BY <2>1, <2>2, <2>4, <2>5 DEF UpToCharacter, r
<1> QED BY <1>5, <1>6

\* A text of short lines moves the cursor down by as many lines as it has.
LEMMA LinesMove ==
    ASSUME NEW t, Sound(t), t.column = 0, NEW text \in Seq(Characters), ShortLines(text)
    PROVE  Moves(t, terminal_writestring(t, text), Cardinality(LineFeeds(text)))
<1> DEFINE n == Len(text)
<1>1. n \in Nat /\ n \in 0 .. n
    OBVIOUS
<1>2. PICK f : Writes(t, text, f) /\ terminal_writestring(t, text) = f[n]
    BY WrittenByCharacters
<1>3. /\ f[0] = t
      /\ \A i \in 1 .. n : f[i] = terminal_putchar(f[i - 1], text[i])
      /\ \A i \in 0 .. n : Sound(f[i])
    BY <1>2 DEF Writes
<1> DEFINE N == {i \in Nat : i <= n => UpToCharacter(t, f[i], text, i)}
<1>4. LineFeeds(text) = FeedsUpTo(text, n)
    BY DEF LineFeeds, FeedsUpTo
<1>5. 0 \in N
    <2>1. Moves(t, t, 0)
        BY SameAbove
    <2>2. FeedsUpTo(text, 0) = {}
        BY DEF FeedsUpTo
    <2>3. Cardinality(FeedsUpTo(text, 0)) = 0
        BY <2>2, FS_EmptySet
    <2>4. 0 \in 0 .. 0 /\ t.column = 0 - 0 /\ \A j \in 0 + 1 .. 0 : text[j] # "\n"
        OBVIOUS
    <2>5. UpToCharacter(t, f[0], text, 0)
        BY <1>3, <2>1, <2>3, <2>4 DEF UpToCharacter
    <2> QED BY <2>5
<1>6. ASSUME NEW i \in Nat, i \in N PROVE i + 1 \in N
    <2> SUFFICES ASSUME i + 1 <= n PROVE UpToCharacter(t, f[i + 1], text, i + 1)
        OBVIOUS
    <2>1. i <= n /\ i + 1 \in 1 .. n /\ (i + 1) - 1 = i /\ i \in 0 .. n
        BY <1>1
    <2>2. UpToCharacter(t, f[i], text, i)
        BY <1>6, <2>1
    <2>3. f[i + 1] = terminal_putchar(f[i], text[i + 1]) /\ Sound(f[i])
        BY <1>3, <2>1
    <2>4. UpToCharacter(t, terminal_putchar(f[i], text[i + 1]), text, i + 1)
        BY <2>2, <2>3, CharacterOfLines
    <2> QED BY <2>3, <2>4
<1>7. Nat \subseteq N
    <2> HIDE DEF N
    <2> QED BY <1>5, <1>6, SetInduction
<1>8. UpToCharacter(t, f[n], text, n)
    BY <1>1, <1>7
<1> HIDE DEF n
<1> QED BY Zenon, <1>2, <1>4, <1>8 DEF UpToCharacter

\* The line feeds of a text can be counted.
LEMMA FeedsCount ==
    ASSUME NEW text \in Seq(Characters)
    PROVE  IsFiniteSet(LineFeeds(text)) /\ Cardinality(LineFeeds(text)) \in Nat
<1>1. 1 \in Int /\ Len(text) \in Int
    OBVIOUS
<1>2. IsFiniteSet(1 .. Len(text))
    BY <1>1, FS_Interval
<1>3. LineFeeds(text) \subseteq 1 .. Len(text)
    BY DEF LineFeeds
<1>4. IsFiniteSet(LineFeeds(text))
    BY Zenon, <1>2, <1>3, FS_Subset
<1> QED BY <1>4, FS_CardinalityType

\* The lines of help's text.
HelpLines == Cardinality(LineFeeds(HelpText))

\* Help prints a line at least, and a command that is not understood no more than help.
LEMMA TextsOfCommands ==
    /\ HelpLines \in Nat /\ HelpLines >= 1 /\ LinesOfCommand = 1 + HelpLines
    /\ HelpText \in Seq(Characters) /\ Error \in Seq(Characters)
    /\ ShortLines(HelpText) /\ ShortLines(Error)
    /\ Cardinality(LineFeeds(Error)) \in 0 .. HelpLines
<1>1. HelpText \in Seq(Characters) /\ Error \in Seq(Characters)
    BY ConsoleAssumption
<1>2. /\ HelpText # << >> /\ HelpText[Len(HelpText)] = "\n"
      /\ ShortLines(HelpText) /\ ShortLines(Error)
      /\ Cardinality(LineFeeds(Error)) <= HelpLines
    BY Zenon, TextsAssumption DEF HelpLines
<1>3. IsFiniteSet(LineFeeds(HelpText)) /\ HelpLines \in Nat
    BY <1>1, FeedsCount DEF HelpLines
<1>4. Cardinality(LineFeeds(Error)) \in Nat
    BY <1>1, FeedsCount
<1>5. HelpLines # 0
    <2>1. Len(HelpText) \in 1 .. Len(HelpText)
        BY <1>1, <1>2
    <2>2. Len(HelpText) \in LineFeeds(HelpText)
        BY <1>1, <1>2, <2>1 DEF LineFeeds
    <2> QED BY <1>3, <2>2, FS_EmptySet DEF HelpLines
<1>6. HelpLines >= 1
    BY <1>3, <1>5
<1>7. Cardinality(LineFeeds(Error)) \in 0 .. HelpLines
    BY <1>2, <1>3, <1>4
<1> QED BY <1>1, <1>2, <1>3, <1>6, <1>7 DEF LinesOfCommand, HelpLines

\* What echo prints is one line, shorter than one of the screen.
LEMMA OneLine ==
    ASSUME NEW a \in Seq(Cells), Len(a) + 1 < WIDTH
    PROVE  ShortLines(Append(a, "\n")) /\ LineFeeds(Append(a, "\n")) = {Len(a) + 1}
<1> DEFINE o == Append(a, "\n")
           n == Len(a)
<1>1. n \in Nat /\ WIDTH \in Nat /\ n + 1 < WIDTH
    BY ScreenSize
<1>2. /\ Len(o) = n + 1 /\ o[n + 1] = "\n" /\ DOMAIN o = 1 .. n + 1
      /\ \A i \in 1 .. n : o[i] = a[i] /\ a[i] \in Cells
    <2>1. a \in Seq(Characters)
        BY DEF Cells
    <2>2. "\n" \in Characters
        BY ConsoleAssumption
    <2>3. /\ o \in Seq(Characters) /\ Len(o) = n + 1 /\ o[Len(o)] = "\n"
          /\ \A i \in 1 .. n : o[i] = a[i]
        BY <2>1, <2>2, Appended
    <2>4. \A i \in 1 .. n : a[i] \in Cells
        OBVIOUS
    <2> HIDE DEF o, n
    <2>5. DOMAIN o = 1 .. Len(o)
        BY <2>3
    <2> QED BY <2>3, <2>4, <2>5
<1> HIDE DEF o, n
<1>3. ShortLines(o)
    <2>1. 0 .. Len(o) - WIDTH = {}
        BY <1>1, <1>2
    <2> QED BY <2>1 DEF ShortLines
<1>4. ASSUME NEW i \in 1 .. n + 1 PROVE o[i] = "\n" <=> i = n + 1
    <2>1. CASE i = n + 1
        BY <1>2, <2>1
    <2>2. CASE i # n + 1
        <3>1. i \in 1 .. n
            BY <1>1, <2>2
        <3> QED BY <1>2, <2>2, <3>1 DEF Cells
    <2> QED BY <2>1, <2>2
<1>5. n + 1 \in 1 .. n + 1
    BY <1>1
<1>6. LineFeeds(o) = {n + 1}
    BY <1>2, <1>4, <1>5 DEF LineFeeds
<1> QED BY <1>3, <1>6 DEF o, n

\* What a command prints has short lines, no more than help.
LEMMA OutputLines ==
    ASSUME NEW command \in Seq(Cells), Len(command) \in 1 .. WIDTH - 1
    PROVE  ShortLines(Output(command)) /\ Cardinality(LineFeeds(Output(command))) \in 0 .. HelpLines
<1> DEFINE argument == SubSeq(command, Len(Echo) + 2, Len(command))
           e == Len(Echo)
           n == Len(command)
<1>1. e \in Nat /\ n \in Nat /\ n < WIDTH /\ WIDTH \in Nat
    <2>1. Echo \in Seq(Characters)
        BY ConsoleAssumption
    <2> QED BY <2>1, ScreenSize
<1>2. argument \in Seq(Cells) /\ Len(argument) + 1 < WIDTH
    <2>1. argument \in Seq(Cells) /\ Len(argument) = IF e + 2 <= n THEN n - (e + 2) + 1 ELSE 0
        BY <1>1
    <2> DEFINE l == Len(argument)
    <2>2. l = IF e + 2 <= n THEN n - (e + 2) + 1 ELSE 0
        BY <2>1
    <2>3. WIDTH > 1
        BY ScreenSize
    <2> HIDE DEF l, e, n, argument
    <2>4. l + 1 < WIDTH
        BY <1>1, <2>2, <2>3
    <2> QED BY <2>1, <2>4 DEF l
<1> HIDE DEF argument, e, n
<1>3. /\ ShortLines(Append(argument, "\n"))
      /\ Cardinality(LineFeeds(Append(argument, "\n"))) = 1
    <2>1. /\ ShortLines(Append(argument, "\n"))
          /\ LineFeeds(Append(argument, "\n")) = {Len(argument) + 1}
        BY <1>2, OneLine
    <2> QED BY Zenon, <2>1, FS_Singleton
<1>4. 1 \in 0 .. HelpLines /\ HelpLines \in 0 .. HelpLines
    BY TextsOfCommands
<1>5. Output(command) \in {Append(argument, "\n"), Error, HelpText}
    <2>1. CASE IsPrefix(Echo, command)
        BY <2>1 DEF Output, argument
    <2>2. CASE ~IsPrefix(Echo, command) /\ IsPrefix(Help, command)
        BY <2>2 DEF Output
    <2>3. CASE ~IsPrefix(Echo, command) /\ ~IsPrefix(Help, command)
        BY <2>3 DEF Output
    <2> QED BY <2>1, <2>2, <2>3
<1>6. CASE Output(command) = Append(argument, "\n")
    BY <1>3, <1>4, <1>6
<1>7. CASE Output(command) = Error
    BY Zenon, <1>7, TextsOfCommands
<1>8. CASE Output(command) = HelpText
    BY Zenon, <1>4, <1>8, TextsOfCommands DEF HelpLines
<1> QED BY <1>5, <1>6, <1>7, <1>8

\* A move before or after nothing moves is the same move.
LEMMA MovesOnce ==
    ASSUME NEW t, Sound(t), NEW s, Sound(s), NEW r, Sound(r), NEW k \in Nat
    PROVE  /\ Moves(t, s, 0) /\ Moves(s, r, k) => Moves(t, r, k)
           /\ Moves(t, s, k) /\ Moves(s, r, 0) => Moves(t, r, k)
<1>1. 0 + k = k /\ k + 0 = k
    OBVIOUS
<1>2. Moves(t, s, 0) /\ Moves(s, r, k) => Moves(t, r, 0 + k)
    BY Zenon, MovesTwice
<1>3. Moves(t, s, k) /\ Moves(s, r, 0) => Moves(t, r, k + 0)
    BY Zenon, MovesTwice
<1> QED BY <1>1, <1>2, <1>3

\* Where the command starts and ends moves nothing.
LEMMA SameScreenMoves ==
    ASSUME NEW t, Sound(t), NEW r, SameScreen(t, r)
    PROVE  Moves(t, r, 0)
<1>1. r.up = t.up /\ r.row = t.row /\ \A y \in 1 .. t.row : r.rows[y] = t.rows[y]
    BY DEF SameScreen
<1> QED BY Zenon, <1>1, SameAbove

\* A command moves the cursor down by the lines it prints.
LEMMA CommandMoves ==
    ASSUME NEW t, Sound(t), t.column = 0, NEW command \in Seq(Cells),
           Len(command) \in 1 .. WIDTH - 1
    PROVE  \E k \in 0 .. HelpLines : Moves(t, default_run_command(t, command), k)
<1> DEFINE o == Output(command)
           w == terminal_writestring(t, o)
           r == terminal_writestring(w, DEFAULT_PROMPT)
           k == Cardinality(LineFeeds(o))
<1>1. command \in Seq(Characters)
    BY DEF Cells
<1>2. o \in Seq(Characters) /\ o # << >> /\ o[Len(o)] = "\n"
    BY <1>1, OutputLine
<1>3. ShortLines(o) /\ k \in 0 .. HelpLines
    BY OutputLines
<1>4. k \in Nat
    BY <1>3, TextsOfCommands
<1>5. default_run_command(t, command) = r
    BY DEF default_run_command
<1> HIDE DEF o
<1>6. Moves(t, w, k)
    BY Zenon, <1>2, <1>3, LinesMove
<1>7. Sound(w) /\ w.column = 0
    BY <1>2, WriteSound
<1> HIDE DEF k, w
<1>8. Moves(w, r, 0) /\ Sound(r)
    BY <1>7, PromptMoves, PromptWritten
<1> HIDE DEF r
<1>9. Moves(t, r, k)
    BY Zenon, <1>4, <1>6, <1>7, <1>8, MovesOnce
<1> QED BY <1>3, <1>5, <1>9

\* So does processing the line that was entered, whatever it holds.
LEMMA ProcessingMoves ==
    ASSUME NEW t, Sound(t), t.column = 0
    PROVE  \E k \in 0 .. HelpLines : Moves(t, default_terminal_process_command(t), k)
<1>0. 0 \in 0 .. HelpLines /\ 0 \in Nat /\ 0 .. HelpLines \subseteq Nat
    BY TextsOfCommands
<1>1. CASE CommandLength(t) = 0
    <2> DEFINE w == terminal_writestring(t, DEFAULT_PROMPT)
               i == default_init_context(w)
    <2>1. Sound(w) /\ Moves(t, w, 0)
        BY PromptWritten, PromptMoves
    <2>2. default_terminal_process_command(t) = i
        BY <1>1 DEF default_terminal_process_command
    <2> HIDE DEF w
    <2>3. Sound(i) /\ SameScreen(w, i)
        BY <2>1, CommandAtCursor
    <2> HIDE DEF i
    <2>4. Moves(w, i, 0)
        BY Zenon, <2>1, <2>3, SameScreenMoves
    <2>5. Moves(t, i, 0)
        BY Zenon, <1>0, <2>1, <2>3, <2>4, MovesOnce
    <2> QED BY <1>0, <2>2, <2>5
<1>2. CASE CommandLength(t) # 0 /\ t.start_of_command < 0
    <2> DEFINE f == [t EXCEPT !.fault = TRUE]
    <2>1. default_terminal_process_command(t) = f
        BY <1>2 DEF default_terminal_process_command
    <2>2. f.up = t.up /\ f.row = t.row /\ \A y \in 1 .. t.row : f.rows[y] = t.rows[y]
        BY DEF Sound, Terminals
    <2> HIDE DEF f
    <2>3. Moves(t, f, 0)
        BY Zenon, <2>2, SameAbove
    <2> QED BY <1>0, <2>1, <2>3
<1>3. CASE CommandLength(t) # 0 /\ ~(t.start_of_command < 0)
    <2> DEFINE c == Cut(t)
               command == default_get_command(c)
               w == default_run_command(c, command)
               i == default_init_context(w)
    <2>1. Sound(c) /\ SameScreen(t, c) /\ c.start_of_command = t.start_of_command
          /\ CommandLength(c) \in 1 .. WIDTH - 1
        BY CutSound
    <2>2. default_terminal_process_command(t) = i
        BY <1>3 DEF default_terminal_process_command
    <2>3. c.start_of_command >= 0 /\ CommandLength(c) \in Nat
        <3>1. t.start_of_command \in Int /\ WIDTH \in Nat
            BY Fields, ScreenSize
        <3> HIDE DEF c
        <3>2. CommandLength(c) \in Nat
            BY <2>1, <3>1
        <3>3. t.start_of_command >= 0
            BY <1>3, <3>1
        <3> QED BY <2>1, <3>2, <3>3
    <2> HIDE DEF c
    <2>4. /\ command \in Seq(Characters) /\ command \in Seq(Cells)
          /\ Len(command) = CommandLength(c)
        BY <2>1, <2>3, CommandType
    <2> HIDE DEF command
    <2>5. Len(command) \in 1 .. WIDTH - 1
        BY Zenon, <2>1, <2>4
    <2>6. c.column = 0 /\ Moves(t, c, 0)
        <3>1. Moves(t, c, 0)
            BY Zenon, <2>1, SameScreenMoves
        <3> QED BY <2>1, <3>1 DEF SameScreen
    <2>7. PICK k \in 0 .. HelpLines : Moves(c, w, k)
        BY <2>1, <2>4, <2>5, <2>6, CommandMoves
    <2>8. Sound(w)
        BY <2>1, <2>4, CommandRun
    <2> HIDE DEF w
    <2>9. Sound(i) /\ SameScreen(w, i)
        BY <2>8, CommandAtCursor
    <2> HIDE DEF i
    <2>10. Moves(w, i, 0)
        BY Zenon, <2>8, <2>9, SameScreenMoves
    <2>11. k \in Nat
        BY <1>0
    <2>12. Moves(t, w, k)
        BY Zenon, <2>1, <2>6, <2>7, <2>8, <2>11, MovesOnce
    <2>13. Moves(t, i, k)
        BY Zenon, <2>8, <2>9, <2>10, <2>11, <2>12, MovesOnce
    <2> QED BY <2>2, <2>7, <2>13
<1> QED BY <1>1, <1>2, <1>3

\* The prompt that a key writes at the start of a line moves nothing.
LEMMA PromptedMoves ==
    ASSUME NEW t, Sound(t)
    PROVE  Moves(t, Prompted(t), 0)
<1>1. CASE t.column # 0
    <2>1. Prompted(t) = t
        BY <1>1 DEF Prompted
    <2>2. SameScreen(t, t)
        BY DEF SameScreen
    <2> QED BY Zenon, <2>1, <2>2, SameScreenMoves
<1>2. CASE t.column = 0
    <2> DEFINE i == default_init_context(t)
               w == terminal_writestring(i, DEFAULT_PROMPT)
               start == w.start_of_command + P
               r == WithCommand(w, start, w.end_of_command)
    <2>1. Sound(i) /\ SameScreen(t, i)
        BY CommandAtCursor
    <2>2. i.column = 0 /\ Moves(t, i, 0)
        <3>1. Moves(t, i, 0)
            BY Zenon, <2>1, SameScreenMoves
        <3> QED BY <1>2, <2>1, <3>1 DEF SameScreen
    <2>3. Prompted(t) = [w EXCEPT !.start_of_command = start]
        BY <1>2 DEF Prompted, P
    <2> HIDE DEF i
    <2>4. Sound(w) /\ Moves(i, w, 0)
        BY <2>1, <2>2, PromptWritten, PromptMoves
    <2> HIDE DEF w
    <2>5. w \in Terminals /\ w.start_of_command \in Int /\ w.end_of_command \in Int
        BY <2>4, Fields
    <2>6. start \in Int
        BY <2>5, Texts
    <2> HIDE DEF start
    <2>7. Prompted(t) = r
        BY <2>3, <2>5, OneEnd
    <2>8. Sound(r) /\ SameScreen(w, r)
        BY <2>4, <2>5, <2>6, CommandSound
    <2> HIDE DEF r
    <2>9. Moves(w, r, 0)
        BY Zenon, <2>4, <2>8, SameScreenMoves
    <2>10. 0 \in Nat
        OBVIOUS
    <2>11. Moves(t, w, 0)
        BY Zenon, <2>1, <2>2, <2>4, <2>10, MovesOnce
    <2>12. Moves(t, r, 0)
        BY Zenon, <2>4, <2>8, <2>9, <2>10, <2>11, MovesOnce
    <2> QED BY <2>7, <2>12
<1> QED BY <1>1, <1>2

\* The enter key moves the cursor down by one line and those of the command.
LEMMA EnterMoves ==
    ASSUME NEW t, Sound(t)
    PROVE  \E k \in 0 .. LinesOfCommand : Moves(t, NormalKey(t, "\n"), k)
<1> DEFINE s == Prompted(t)
           d == default_terminal_end(s)
           e == terminal_putchar(d, "\n")
           p == default_terminal_process_command(e)
           r == default_terminal_end(p)
<1>1. Sound(s) /\ Moves(t, s, 0)
    BY PromptedSound, PromptedMoves
<1>2. NormalKey(t, "\n") = r
    BY DEF NormalKey, Entered
<1>3. "\n" \in Characters /\ 0 \in Nat /\ 1 \in Nat
    BY ConsoleAssumption
<1> HIDE DEF s
<1>4. Sound(d) /\ SameScreen(s, d)
    BY <1>1, CommandAtCursor
<1> HIDE DEF d
<1>5. Moves(s, d, 0)
    BY Zenon, <1>1, <1>4, SameScreenMoves
<1>6. Moves(t, d, 0)
    BY Zenon, <1>1, <1>3, <1>4, <1>5, MovesOnce
<1>7. Sound(e) /\ Moves(d, e, 1) /\ e.column = 0
    BY <1>3, <1>4, PutMoves
<1> HIDE DEF e
<1>8. Moves(t, e, 1)
    BY Zenon, <1>3, <1>4, <1>6, <1>7, MovesOnce
<1>9. Sound(p)
    BY <1>7, CommandProcessed
<1>10. PICK k \in 0 .. HelpLines : Moves(e, p, k)
    BY <1>7, ProcessingMoves
<1> HIDE DEF p
<1>11. Sound(r) /\ SameScreen(p, r)
    BY <1>9, CommandAtCursor
<1> HIDE DEF r
<1>12. Moves(p, r, 0)
    BY Zenon, <1>9, <1>11, SameScreenMoves
<1>13. 1 + k \in Nat /\ 1 + k \in 0 .. LinesOfCommand
    BY TextsOfCommands
<1>14. Moves(t, p, 1 + k)
    BY Zenon, <1>7, <1>8, <1>9, <1>10, MovesTwice
<1>15. Moves(t, r, 1 + k)
    BY Zenon, <1>9, <1>11, <1>12, <1>13, <1>14, MovesOnce
<1> QED BY <1>2, <1>13, <1>15

\* Every other key that types moves it by one line at most.
LEMMA TypingMoves ==
    ASSUME NEW t, Sound(t), NEW c \in Characters, c # "\n"
    PROVE  \E k \in 0 .. 1 : Moves(t, NormalKey(t, c), k)
<1> DEFINE p == Prompted(t)
<1>1. Sound(p) /\ Moves(t, p, 0)
    BY PromptedSound, PromptedMoves
<1>2. 0 \in 0 .. 1 /\ 1 \in 0 .. 1 /\ 0 \in Nat /\ 0 .. 1 \subseteq Nat
    OBVIOUS
<1>3. ASSUME NEW w, Sound(w), NEW k \in 0 .. 1, Moves(p, w, k),
             NormalKey(t, c) = default_terminal_end(w)
      PROVE  Moves(t, NormalKey(t, c), k)
    <2> DEFINE d == default_terminal_end(w)
    <2> HIDE DEF p
    <2>1. Sound(d) /\ SameScreen(w, d)
        BY <1>3, CommandAtCursor
    <2>2. NormalKey(t, c) = d
        BY <1>3
    <2> HIDE DEF d
    <2>3. Moves(w, d, 0)
        BY Zenon, <1>3, <2>1, SameScreenMoves
    <2>4. k \in Nat
        BY <1>2
    <2>5. Moves(t, w, k)
        BY Zenon, <1>1, <1>3, <2>4, MovesOnce
    <2>6. Moves(t, d, k)
        BY Zenon, <1>3, <2>1, <2>3, <2>4, <2>5, MovesOnce
    <2> QED BY <2>2, <2>6
<1>4. CASE ~InCommand(p)
    <2>1. NormalKey(t, c) = p
        BY <1>4 DEF NormalKey
    <2> HIDE DEF p
    <2> QED BY <1>1, <1>2, <2>1
<1>5. CASE c = "\t" /\ InCommand(p)
    <2> DEFINE w == terminal_writestring(p, TAB)
    <2>1. NormalKey(t, c) = default_terminal_end(w)
        BY <1>5 DEF NormalKey
    <2> HIDE DEF p
    <2>2. Sound(w)
        BY <1>1, Texts, WriteSound
    <2>3. PICK k \in 0 .. 1 : Moves(p, w, k)
        BY <1>1, TabMoves
    <2> HIDE DEF w
    <2>4. Moves(t, NormalKey(t, c), k)
        BY Zenon, <1>3, <2>1, <2>2, <2>3
    <2> QED BY <2>4
<1>6. CASE c # "\t" /\ InCommand(p)
    <2> DEFINE w == terminal_putchar(p, c)
    <2>1. NormalKey(t, c) = default_terminal_end(w)
        BY <1>6 DEF NormalKey
    <2> HIDE DEF p
    <2>2. Sound(w) /\ (Moves(p, w, 0) \/ Moves(p, w, 1))
        BY <1>1, PutMoves
    <2> HIDE DEF w
    <2>3. PICK k \in 0 .. 1 : Moves(p, w, k)
        BY <1>2, <2>2
    <2>4. Moves(t, NormalKey(t, c), k)
        BY Zenon, <1>3, <2>1, <2>2, <2>3
    <2> QED BY <2>4
<1> QED BY <1>4, <1>5, <1>6

\* The backspace moves nothing.
LEMMA BackspaceMoves ==
    ASSUME NEW t, Sound(t)
    PROVE  Moves(t, terminal_backspace(t), 0)
<1>1. CASE t.column = 0
    <2>1. terminal_backspace(t) = t
        BY <1>1 DEF terminal_backspace
    <2>2. SameScreen(t, t)
        BY DEF SameScreen
    <2> QED BY Zenon, <2>1, <2>2, SameScreenMoves
<1>2. CASE t.column # 0
    <2> DEFINE r == terminal_backspace(t)
    <2>1. /\ Sound(r) /\ r.row = t.row /\ SameBut(t, r)
          /\ OneCell(t, r, t.row + 1, t.column, " ")
        BY <1>2, Backspaced
    <2> HIDE DEF r
    <2>2. \A y \in 1 .. HEIGHT, x \in 1 .. WIDTH :
            y # t.row + 1 => r.rows[y][x] = t.rows[y][x]
        BY <2>1 DEF OneCell
    <2>3. Moves(t, r, 0)
        BY Zenon, <2>1, <2>2, CellsMove
    <2> QED BY <2>3 DEF r
<1> QED BY <1>1, <1>2

\* A sequence whose elements are the first of another is a prefix of it.
LEMMA PrefixByElements ==
    ASSUME NEW S, NEW s \in Seq(S), NEW t \in Seq(S), Len(s) <= Len(t),
           \A i \in 1 .. Len(s) : s[i] = t[i]
    PROVE  IsPrefix(s, t)
<1> DEFINE u == SubSeq(t, 1, Len(s))
<1>1. u \in Seq(S) /\ Len(u) = Len(s) /\ \A i \in 1 .. Len(s) : u[i] = t[i]
    OBVIOUS
<1>2. SubSeq(s, 1, Len(s)) = s
    OBVIOUS
<1> HIDE DEF u
<1>3. \A i \in 1 .. Len(s) : s[i] = u[i]
    BY <1>1
<1>4. s = u
    BY <1>1, <1>3, SameElements
<1> QED BY <1>2, <1>4 DEF IsPrefix, u

\* The first a elements of a sequence but for the first n of them.
LEMMA RestOfStart ==
    ASSUME NEW S, NEW s \in Seq(S), NEW a \in 0 .. Len(s), NEW n \in Nat
    PROVE  LET above == SubSeq(s, 1, a)
               rest  == SubSeq(above, n + 1, Len(above))
           IN  /\ rest \in Seq(S)
               /\ n >= a => Len(rest) = 0
               /\ n < a => Len(rest) = a - n /\ \A i \in 1 .. a - n : rest[i] = s[n + i]
<1> DEFINE above == SubSeq(s, 1, a)
           rest  == SubSeq(above, n + 1, a)
<1>1. above \in Seq(S) /\ Len(above) = a /\ \A i \in 1 .. a : above[i] = s[i]
    OBVIOUS
<1>2. a \in Nat
    OBVIOUS
<1>3. rest = SubSeq(above, n + 1, Len(above))
    BY <1>1
<1> HIDE DEF above
<1>4. rest \in Seq(S)
    BY <1>1, <1>2
<1>5. ASSUME n >= a PROVE Len(rest) = 0
    BY <1>1, <1>2, <1>5
<1>6. ASSUME n < a
      PROVE  Len(rest) = a - n /\ \A i \in 1 .. a - n : rest[i] = s[n + i]
    <2>1. Len(rest) = a - n
        BY <1>1, <1>2, <1>6
    <2>2. ASSUME NEW i \in 1 .. a - n PROVE rest[i] = s[n + i]
        <3>1. n + i \in 1 .. a /\ (n + 1) + i - 1 = n + i
            BY <1>2, <1>6
        <3>2. rest[i] = above[n + i]
            BY <1>1, <1>2, <1>6, <3>1
        <3> QED BY <1>1, <3>1, <3>2
    <2> QED BY <2>1, <2>2
<1> QED BY <1>3, <1>4, <1>5, <1>6 DEF above

\* The text, by its rows down to the last of the screen.
LEMMA TextLines ==
    ASSUME NEW t, Sound(t)
    PROVE  /\ Text(t) \in Seq(Row) /\ Len(t.up) + HEIGHT <= Len(Text(t))
           /\ \A i \in 1 .. Len(t.up) + HEIGHT : Text(t)[i] = Line(t, i)
<1> DEFINE u == t.up
           b == t.rows
           d == Reverse(t.down)
           s == u \o b
<1>1. u \in Seq(Row) /\ b \in Seq(Row) /\ Len(b) = HEIGHT /\ t.down \in Seq(Row)
    BY Fields
<1>2. d \in Seq(Row)
    BY <1>1, ReverseElements
<1>3. Text(t) = s \o d
    BY DEF Text
<1>4. Len(u) \in Nat /\ HEIGHT \in Nat /\ Len(d) \in Nat
    BY <1>1, <1>2, ScreenSize
<1>5. \A i \in 1 .. Len(u) + HEIGHT : Line(t, i) = IF i <= Len(u) THEN u[i] ELSE b[i - Len(u)]
    BY DEF Line
<1> HIDE DEF u, b, d
<1>6. /\ s \in Seq(Row) /\ Len(s) = Len(u) + HEIGHT
      /\ \A i \in 1 .. Len(u) + HEIGHT : s[i] = IF i <= Len(u) THEN u[i] ELSE b[i - Len(u)]
    BY <1>1, ConcatElements
<1> HIDE DEF s
<1>7. /\ s \o d \in Seq(Row) /\ Len(s \o d) = Len(s) + Len(d)
      /\ \A i \in 1 .. Len(s) + Len(d) :
           (s \o d)[i] = IF i <= Len(s) THEN s[i] ELSE d[i - Len(s)]
    BY <1>2, <1>6, ConcatElements
<1>8. ASSUME NEW i \in 1 .. Len(u) + HEIGHT PROVE Text(t)[i] = Line(t, i)
    <2>1. i \in 1 .. Len(s) + Len(d) /\ i <= Len(s)
        BY <1>4, <1>6
    <2>2. (s \o d)[i] = s[i]
        BY <1>7, <2>1
    <2> QED BY <1>3, <1>5, <1>6, <2>2
<1>9. Len(u) + HEIGHT <= Len(s) + Len(d)
    BY <1>4, <1>6
<1> QED BY <1>3, <1>7, <1>8, <1>9 DEF u

\* The lines that are forgotten when the terminal becomes r: some full histories.
ForgottenLines(t, r) ==
    {n \in {k * HEIGHT : k \in 0 .. LinesOfCommand} : n <= Len(t.up) - Len(r.up) + LinesOfCommand}

\* The lines above the cursor but for the first n are the first of r.
Stay(t, r, n) ==
    LET above == SubSeq(Text(t), 1, Len(t.up) + t.row)
    IN  IsPrefix(SubSeq(above, n + 1, Len(above)), Text(r))

\* A terminal that has moved has kept them.
LEMMA MovedStay ==
    ASSUME NEW t, Sound(t), NEW r, Sound(r), NEW n, NEW k, Advanced(t, r, n, k)
    PROVE  Stay(t, r, n)
<1>1. /\ n \in Nat /\ k \in Nat /\ r.row >= t.row /\ Above(r) + n = Above(t) + k
      /\ \A i \in n + 1 .. Above(t) : Line(r, i - n) = Line(t, i)
    BY Zenon DEF Advanced
<1> DEFINE T == Text(t)
           R == Text(r)
           a == Above(t)
           b == Above(r)
           above == SubSeq(T, 1, a)
           rest == SubSeq(above, n + 1, Len(above))
<1>2. /\ T \in Seq(Row) /\ Len(t.up) + HEIGHT <= Len(T)
      /\ \A i \in 1 .. Len(t.up) + HEIGHT : T[i] = Line(t, i)
    BY Zenon, TextLines
<1>3. /\ R \in Seq(Row) /\ Len(r.up) + HEIGHT <= Len(R)
      /\ \A i \in 1 .. Len(r.up) + HEIGHT : R[i] = Line(r, i)
    BY Zenon, TextLines
<1>4. /\ Len(t.up) \in Nat /\ t.row \in Nat /\ t.row + 1 <= HEIGHT /\ a = Len(t.up) + t.row
      /\ Len(r.up) \in Nat /\ r.row \in Nat /\ r.row + 1 <= HEIGHT /\ b = Len(r.up) + r.row
      /\ HEIGHT \in Nat
    BY Zenon, RowNumbers
<1>5. Stay(t, r, n) <=> IsPrefix(rest, R)
    BY DEF Stay, Above
<1> DEFINE lt == Len(T)
           lr == Len(R)
           ut == Len(t.up)
           ur == Len(r.up)
           x == t.row
           y == r.row
<1>6. lt \in Nat /\ lr \in Nat
    <2> HIDE DEF T, R
    <2> QED BY <1>2, <1>3
<1>7. a \in 0 .. lt /\ a - n <= lr /\ a - n <= ur + HEIGHT /\ a <= ut + HEIGHT /\ a \in Nat
    <2>1. /\ ut + HEIGHT <= lt /\ ur + HEIGHT <= lr /\ ut \in Nat /\ ur \in Nat /\ x \in Nat
          /\ y \in Nat /\ x + 1 <= HEIGHT /\ y + 1 <= HEIGHT /\ a = ut + x /\ b = ur + y
          /\ HEIGHT \in Nat /\ n \in Nat /\ k \in Nat /\ b + n = a + k
          /\ lt \in Nat /\ lr \in Nat
        BY Zenon, <1>1, <1>2, <1>3, <1>4, <1>6
    <2> HIDE DEF lt, lr, ut, ur, x, y, a, b
    <2>2. a <= ut + HEIGHT /\ a \in Nat /\ a <= lt
        BY <2>1
    <2>3. a - n <= b /\ b <= ur + HEIGHT
        BY <2>1, <2>2
    <2>4. a - n <= ur + HEIGHT /\ a - n <= lr
        BY <2>1, <2>2, <2>3
    <2> QED BY <2>1, <2>2, <2>4
<1> HIDE DEF T, R, a, b
<1>8. /\ rest \in Seq(Row)
      /\ n >= a => Len(rest) = 0
      /\ n < a => Len(rest) = a - n /\ \A i \in 1 .. a - n : rest[i] = T[n + i]
    BY <1>1, <1>2, <1>7, RestOfStart
<1> HIDE DEF rest
<1>9. CASE n >= a
    <2>1. Len(rest) <= Len(R) /\ 1 .. Len(rest) = {}
        BY <1>6, <1>8, <1>9
    <2>2. IsPrefix(rest, R)
        BY <1>3, <1>8, <2>1, PrefixByElements
    <2> QED BY <1>5, <2>2
<1>10. CASE ~(n >= a)
    <2>1. n < a
        BY <1>1, <1>7, <1>10
    <2>2. Len(rest) = a - n /\ \A i \in 1 .. a - n : rest[i] = T[n + i]
        BY <1>8, <2>1
    <2>3. Len(rest) <= Len(R)
        BY <1>7, <2>2
    <2>4. ASSUME NEW i \in 1 .. a - n PROVE rest[i] = R[i]
        <3>1. /\ n + i \in n + 1 .. a /\ n + i \in 1 .. ut + HEIGHT /\ i \in 1 .. ur + HEIGHT
              /\ (n + i) - n = i
            <4>1. /\ a \in Nat /\ n \in Nat /\ n < a /\ a - n <= ur + HEIGHT /\ a <= ut + HEIGHT
                  /\ ut \in Nat /\ ur \in Nat /\ HEIGHT \in Nat
                BY Zenon, <1>1, <1>4, <1>7, <2>1
            <4> HIDE DEF ut, ur
            <4> QED BY <4>1
        <3>2. rest[i] = T[n + i]
            BY Zenon, <2>2
        <3>3. T[n + i] = Line(t, n + i)
            BY Zenon, <1>2, <3>1
        <3>4. R[i] = Line(r, i)
            BY Zenon, <1>3, <3>1
        <3>5. Line(r, (n + i) - n) = Line(t, n + i)
            BY Zenon, <1>1, <3>1 DEF a
        <3> QED BY <3>1, <3>2, <3>3, <3>4, <3>5
    <2>5. IsPrefix(rest, R)
        BY <1>3, <1>8, <2>2, <2>3, <2>4, PrefixByElements
    <2> QED BY <1>5, <2>5
<1> QED BY <1>9, <1>10

\* The n lines are full histories, and only the one if the cursor has come down by a line.
HistoriesForgotten(t, r, n, k) ==
    n \in ForgottenLines(t, r) /\ (k <= 1 => n = 0 \/ Len(t.up) = n)

\* So are those that a terminal that has moved has forgotten.
LEMMA MovedForgets ==
    ASSUME NEW t, Sound(t), NEW r, Sound(r), NEW k \in 0 .. LinesOfCommand, NEW n,
           Advanced(t, r, n, k)
    PROVE  HistoriesForgotten(t, r, n, k)
<1>1. /\ n \in Nat /\ r.row >= t.row /\ Above(r) + n = Above(t) + k
      /\ n # 0 => Len(r.up) >= 1
    BY Zenon DEF Advanced
<1>2. PICK j \in 0 .. k : n = j * HEIGHT
    BY Zenon DEF Advanced
<1> DEFINE ut == Len(t.up)
           ur == Len(r.up)
           x == t.row
           y == r.row
           l == LinesOfCommand
<1>3. /\ ut \in Nat /\ ut <= HEIGHT /\ x \in Nat /\ Above(t) = ut + x
      /\ ur \in Nat /\ y \in Nat /\ Above(r) = ur + y /\ HEIGHT \in Nat
    BY Zenon, RowNumbers
<1>4. l \in Nat
    BY TextsOfCommands
<1>5. (ur + y) + n = (ut + x) + k /\ y >= x /\ (n # 0 => ur >= 1)
    BY Zenon, <1>1, <1>3
<1>6. ForgottenLines(t, r) = {i \in {m * HEIGHT : m \in 0 .. l} : i <= ut - ur + l}
    BY DEF ForgottenLines
<1> HIDE DEF ut, ur, x, y, l
<1>7. k \in 0 .. l /\ k \in Nat /\ k <= l /\ j \in Nat /\ j <= k /\ j \in 0 .. l
    BY <1>4 DEF l
<1>8. ur + n <= ut + k
    BY <1>1, <1>3, <1>5, <1>7
<1>9. n <= ut - ur + l
    BY <1>1, <1>3, <1>4, <1>7, <1>8
<1>10. n \in {m * HEIGHT : m \in 0 .. l}
    BY Zenon, <1>2, <1>7
<1>11. ASSUME k <= 1, n # 0 PROVE ut = n
    <2>1. n <= ut
        BY <1>1, <1>3, <1>5, <1>7, <1>8, <1>11
    <2>2. j = 1
        <3>1. j # 0
            BY <1>2, <1>3, <1>11
        <3> QED BY <1>7, <1>11, <3>1
    <2>3. n = HEIGHT
        BY <1>2, <1>3, <2>2
    <2> QED BY <1>1, <1>3, <2>1, <2>3
<1>12. n \in ForgottenLines(t, r) /\ (k <= 1 => n = 0 \/ ut = n)
    BY <1>6, <1>9, <1>10, <1>11
<1> QED BY <1>12 DEF HistoriesForgotten, ut

\* The keys that type.
TypingKeys == Letters \cup Symbols \cup {"BACKSPACE", "\t", "\n"}

\* Every one of them moves the cursor down, by a line at most if it is not the enter key.
LEMMA KeysMove ==
    ASSUME NEW t, Sound(t), NEW c \in TypingKeys
    PROVE  \E k \in 0 .. LinesOfCommand :
             Moves(t, catch_keycode(t, c), k) /\ (c # "\n" => k <= 1)
<1>1. /\ 0 \in 0 .. LinesOfCommand /\ 0 <= 1
      /\ \A k \in 0 .. 1 : k \in 0 .. LinesOfCommand /\ k <= 1
    BY TextsOfCommands
<1>2. CASE c = "BACKSPACE"
    <2>1. catch_keycode(t, c) = terminal_backspace(t)
        BY <1>2 DEF catch_keycode
    <2>2. Moves(t, terminal_backspace(t), 0)
        BY BackspaceMoves
    <2> QED BY Zenon, <1>1, <2>1, <2>2
<1>3. CASE c = "\n"
    <2>1. catch_keycode(t, c) = NormalKey(t, "\n")
        BY <1>3, OtherKey DEF Arrows
    <2>2. PICK k \in 0 .. LinesOfCommand : Moves(t, NormalKey(t, "\n"), k)
        BY EnterMoves
    <2> QED BY Zenon, <1>3, <2>1, <2>2
<1>4. CASE c # "BACKSPACE" /\ c # "\n"
    <2>1. c \in Characters /\ c \notin Arrows
        <3>1. CASE c = "\t"
            BY <3>1, ConsoleAssumption DEF Arrows
        <3>2. CASE c # "\t"
            <4>1. c \in Letters \cup Symbols
                BY <1>4, <3>2 DEF TypingKeys
            <4>2. c \in {c, Shifted[c]}
                OBVIOUS
            <4> QED BY <4>1, <4>2, PrintingKey
        <3> QED BY <3>1, <3>2
    <2>2. catch_keycode(t, c) = NormalKey(t, c)
        BY <1>4, <2>1, OtherKey
    <2>3. PICK k \in 0 .. 1 : Moves(t, NormalKey(t, c), k)
        BY <1>4, <2>1, TypingMoves
    <2> QED BY Zenon, <1>1, <2>2, <2>3
<1> QED BY <1>2, <1>3, <1>4

\* A key that types keeps the lines above the cursor.
LEMMA TypingKeeps ==
    ASSUME NEW t, Sound(t), NEW c \in TypingKeys
    PROVE  \E n \in ForgottenLines(t, catch_keycode(t, c)) :
             /\ c = "\n" \/ n = 0 \/ Len(t.up) = n
             /\ Stay(t, catch_keycode(t, c), n)
<1> DEFINE r == catch_keycode(t, c)
<1>1. Sound(r)
    <2>1. c \in Arrows \cup Letters \cup Symbols \cup {"BACKSPACE", "\t", "\n"}
        BY DEF TypingKeys
    <2> QED BY Zenon, <2>1, KeySound
<1>2. PICK k \in 0 .. LinesOfCommand : Moves(t, r, k) /\ (c # "\n" => k <= 1)
    BY Zenon, KeysMove
<1> HIDE DEF r
<1>3. PICK n : Advanced(t, r, n, k)
    BY Zenon, <1>2 DEF Moves
<1>4. HistoriesForgotten(t, r, n, k)
    BY Zenon, <1>1, <1>3, MovedForgets
<1>5. Stay(t, r, n)
    BY Zenon, <1>1, <1>3, MovedStay
<1> QED BY Zenon, <1>2, <1>4, <1>5 DEF HistoriesForgotten, r

\* Whatever was typed and run before, a key that types, and the command it runs, leaves the
\* lines above the cursor as they are, in their order; only full histories are forgotten.
THEOREM EarlierLinesAlwaysStay == Spec => []EarlierLinesStay
<1>1. ConsoleInv => EarlierLinesStay
    <2> SUFFICES ASSUME ConsoleInv PROVE EarlierLinesStay
        OBVIOUS
    <2>1. Sound(terminal)
        BY DEF ConsoleInv
    <2>2. ASSUME NEW c \in TypingKeys
          PROVE  \E n \in ForgottenLines(terminal, catch_keycode(terminal, c)) :
                   /\ c = "\n" \/ n = 0 \/ Len(terminal.up) = n
                   /\ Stay(terminal, catch_keycode(terminal, c), n)
        BY Zenon, <2>1, TypingKeeps
    <2> QED BY Zenon, <2>2 DEF EarlierLinesStay, ForgottenLines, Stay, TypingKeys
<1> QED BY <1>1, ConsoleInvariant, PTL
=============================================================================
