------------------------------- MODULE Terminal -------------------------------
(***************************************************************************)
(* kernel/src/terminal.c: the VGA text screen.  Its state is the record    *)
(*   [vga, row, column, reserved, astray]                                  *)
(* where vga maps the index of a cell of screen memory, row * Width +      *)
(* column, to the character shown there (colours are left out) and astray  *)
(* records that a write fell outside of the screen.  Every operation of    *)
(* the terminal is an operator from such a record to the next.             *)
(***************************************************************************)
EXTENDS Integers, Sequences

CONSTANTS
  Width,        \* VGA_WIDTH, 80
  Height,       \* VGA_HEIGHT, 25
  HeaderRows,   \* what terminal_draw_header reserves, 6
  Prompt,       \* the cells of "snsx> "
  Blank,        \* ' '
  HeaderCell,   \* any cell of the header
  LineFeed,     \* '\n' as output
  CarriageReturn \* '\r': no caller in the kernel prints it

ASSUME TerminalAssumption ==
  /\ Width \in Nat /\ Height \in Nat
  /\ HeaderRows \in Nat /\ HeaderRows < Height
  /\ Prompt \in Seq({Prompt[i] : i \in 1 .. Len(Prompt)}) /\ Len(Prompt) \in 1 .. Width

Cells == 0 .. Width * Height - 1

terminal_put_entry_at(t, character, x, y) ==
  LET index == y * Width + x
  IN  IF index \in Cells THEN [t EXCEPT !.vga[index] = character]
                         ELSE [t EXCEPT !.astray = TRUE]

terminal_set_cursor(t, row, column) == [t EXCEPT !.row = row, !.column = column]

\* Mutant: the scroll starts at the top of the screen.
ScrollAll(t) ==
  [t EXCEPT !.vga = [i \in Cells |-> IF i < Width * (Height - 1) THEN t.vga[i + Width] ELSE Blank],
            !.row = Height - 1, !.column = 0]

\* Rows below the reserved ones move up by one; the last is filled with blanks.
terminal_scroll(t) ==
  [t EXCEPT !.vga = [i \in Cells |->
                       CASE i < Width * t.reserved -> t.vga[i]
                         [] i >= Width * t.reserved /\ i < Width * (Height - 1) -> t.vga[i + Width]
                         [] OTHER -> Blank],
            !.row = Height - 1,
            !.column = 0]

terminal_newline(t) ==
  LET next == terminal_set_cursor(t, t.row + 1, 0)
  IN  IF next.row >= Height THEN terminal_scroll(next) ELSE next

terminal_clear(t) ==
  terminal_set_cursor([t EXCEPT !.vga = [i \in Cells |-> Blank]], 0, 0)

terminal_draw_header(t) ==
  terminal_set_cursor(
    [t EXCEPT !.vga = [i \in Cells |-> IF i < Width * HeaderRows THEN HeaderCell ELSE t.vga[i]],
              !.reserved = HeaderRows],
    HeaderRows, 0)

terminal_init(t) == terminal_draw_header(terminal_clear([t EXCEPT !.reserved = 0]))

\* A full row is left only when the next character comes.
terminal_write_char(t, character) ==
  LET u == IF t.column >= Width THEN terminal_newline(t) ELSE t
      v == terminal_put_entry_at(u, character, u.column, u.row)
  IN  CASE character = LineFeed -> terminal_newline(t)
        [] character = CarriageReturn -> [t EXCEPT !.column = 0]
        [] OTHER -> [v EXCEPT !.column = u.column + 1]

\* Stops at the left edge: it does not go back over a wrapped row.
terminal_backspace(t) ==
  IF t.column = 0
    THEN t
    ELSE terminal_put_entry_at([t EXCEPT !.column = t.column - 1], Blank, t.column - 1, t.row)

\* The loop of terminal_prompt: the cells from the cursor on, whatever the column.
terminal_prompt(t) ==
  LET first == t.row * Width + t.column
      Under(i) == i - first \in 0 .. Len(Prompt) - 1
  IN  [t EXCEPT !.vga = [i \in Cells |-> IF Under(i) THEN Prompt[i - first + 1] ELSE t.vga[i]],
                !.column = t.column + Len(Prompt),
                !.astray = t.astray \/ first + Len(Prompt) > Width * Height]
=============================================================================
