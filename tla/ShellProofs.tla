------------------------------ MODULE ShellProofs ------------------------------
(***************************************************************************)
(* The screen shows what was printed, the line on it is the line that      *)
(* Enter executes, and what shell_execute finds is what was typed, for     *)
(* every size of the screen and of the line and for every set of commands. *)
(***************************************************************************)
EXTENDS Shell, TLAPS

\* Sequences that agree everywhere are equal.
LEMMA SameSequence ==
  ASSUME NEW S, NEW s \in Seq(S), NEW t \in Seq(S), Len(s) = Len(t),
         \A i \in 1 .. Len(s) : s[i] = t[i]
  PROVE  s = t
OBVIOUS

\* Functions on 1 .. n are sequences.
LEMMA AsSequence ==
  ASSUME NEW S, NEW n \in Nat, NEW f \in [1 .. n -> S]
  PROVE  f \in Seq(S) /\ Len(f) = n
OBVIOUS

\* Two sequences, one after the other.
LEMMA Joined ==
  ASSUME NEW S, NEW s \in Seq(S), NEW t \in Seq(S)
  PROVE  s \o t \in Seq(S) /\ Len(s \o t) = Len(s) + Len(t)
OBVIOUS

-----------------------------------------------------------------------------
\* The cells of the screen.

\* More rows are more cells.
LEMMA Monotone ==
  ASSUME NEW a \in Nat, NEW b \in Nat, NEW w \in Nat, a <= b
  PROVE  a * w <= b * w
OBVIOUS

\* What is assumed of the screen.
LEMMA Sizes ==
  /\ Width \in Nat /\ Width >= 1 /\ Height \in Nat /\ HeaderRows \in Nat /\ HeaderRows < Height
  /\ Len(Prompt) \in Nat /\ Len(Prompt) >= 1 /\ Len(Prompt) <= Width
BY TerminalAssumption

\* Column c, counted from 1, of row r.
CellOf(r, c) == r * Width + c - 1

\* Rows of cells do not overlap, and the header's come first.
LEMMA Geometry ==
  ASSUME NEW r \in 0 .. Height - 1, NEW c \in 1 .. Width
  PROVE  /\ CellOf(r, c) \in Cells
         /\ r < Height - 1 => CellOf(r, c) < Width * (Height - 1)
         /\ r = Height - 1 => CellOf(r, c) >= Width * (Height - 1)
         /\ CellOf(r, c) + Width = CellOf(r + 1, c)
         /\ r >= HeaderRows => CellOf(r, c) >= Width * HeaderRows
         /\ \A q \in 0 .. Height - 1, d \in 1 .. Width : CellOf(r, c) = CellOf(q, d) => r = q /\ c = d
<1>0. Width \in Nat /\ Width >= 1 /\ Height \in Nat /\ HeaderRows \in Nat /\ r \in Nat /\ c \in Nat
  BY Sizes
<1>1. r <= Height - 1 => r * Width <= (Height - 1) * Width
  BY <1>0
<1>2. (Height - 1) * Width = Width * Height - Width /\ Width * (Height - 1) = Width * Height - Width
  BY <1>0
<1>3. r < Height - 1 => (r + 1) * Width <= (Height - 1) * Width
  BY <1>0
<1>4. (r + 1) * Width = r * Width + Width /\ r * Width \in Nat /\ Width * Height \in Nat
  BY <1>0
<1>5. r >= HeaderRows => r * Width >= HeaderRows * Width /\ HeaderRows * Width = Width * HeaderRows
  BY <1>0
<1>6. CellOf(r, c) \in Cells
  BY <1>0, <1>1, <1>2, <1>4 DEF CellOf, Cells
<1>7. r < Height - 1 => CellOf(r, c) < Width * (Height - 1)
  BY <1>0, <1>2, <1>3, <1>4 DEF CellOf
<1>8. r = Height - 1 => CellOf(r, c) >= Width * (Height - 1)
  BY <1>0, <1>2, <1>4 DEF CellOf
<1>9. CellOf(r, c) + Width = CellOf(r + 1, c)
  BY <1>0, <1>4 DEF CellOf
<1>10. r >= HeaderRows => CellOf(r, c) >= Width * HeaderRows
  BY <1>0, <1>4, <1>5 DEF CellOf
<1>11. ASSUME NEW q \in 0 .. Height - 1, NEW d \in 1 .. Width, CellOf(r, c) = CellOf(q, d)
       PROVE  r = q /\ c = d
  <2>0. q \in Nat /\ d \in Nat /\ q * Width \in Nat /\ (q + 1) * Width = q * Width + Width
    BY <1>0
  <2>1. ~(r < q)
    <3>1. r < q => (r + 1) * Width <= q * Width
      BY <1>0, <2>0
    <3>2. QED BY <1>0, <1>4, <1>11, <2>0, <3>1 DEF CellOf
  <2>2. ~(q < r)
    <3>1. q < r => (q + 1) * Width <= r * Width
      BY <1>0, <2>0
    <3>2. QED BY <1>0, <1>4, <1>11, <2>0, <3>1 DEF CellOf
  <2>3. r = q
    BY <1>0, <2>0, <2>1, <2>2
  <2>4. QED BY <1>0, <1>4, <1>11, <2>3 DEF CellOf
<1>12. QED BY <1>6, <1>7, <1>8, <1>9, <1>10, <1>11

IsScreen(t) ==
  /\ t = [vga |-> t.vga, row |-> t.row, column |-> t.column, reserved |-> t.reserved,
          astray |-> t.astray]
  /\ t.vga = [i \in Cells |-> t.vga[i]]
  /\ t.row \in HeaderRows .. Height - 1 /\ t.column \in 0 .. Width
  /\ t.reserved = HeaderRows

HeaderKept(t) == \A i \in Cells : i < Width * HeaderRows => t.vga[i] = HeaderCell

\* A row of cells, read off screen memory.
LEMMA RowCells ==
  ASSUME NEW t, NEW r
  PROVE  Row(t, r) = [c \in 1 .. Width |-> t.vga[CellOf(r, c)]]
BY Zenon DEF Row, CellOf

\* Screen u is screen t with a character in row y, column x.
PutIn(t, u, character, x, y) ==
  /\ IsScreen(u) /\ u.row = t.row /\ u.column = t.column /\ u.astray = t.astray
  /\ HeaderKept(t) => HeaderKept(u)
  /\ Row(u, y) = [Row(t, y) EXCEPT ![x + 1] = character]
  /\ \A r \in 0 .. Height - 1 : r # y => Row(u, r) = Row(t, r)

\* That is what terminal_put_entry_at does below the header.
LEMMA PutEntry ==
  ASSUME NEW t, IsScreen(t), NEW character, NEW x \in 0 .. Width - 1,
         NEW y \in HeaderRows .. Height - 1
  PROVE  PutIn(t, terminal_put_entry_at(t, character, x, y), character, x, y)
<1> DEFINE index == y * Width + x
<1> DEFINE u == terminal_put_entry_at(t, character, x, y)
<1>0. y \in 0 .. Height - 1 /\ x + 1 \in 1 .. Width /\ y \in Nat /\ x \in Nat /\ y >= HeaderRows
  BY Sizes
<1>1. index = CellOf(y, x + 1)
  <2>1. y * Width \in Nat
    BY <1>0, Sizes
  <2>2. QED BY <1>0, <2>1 DEF CellOf
<1>2. index \in Cells /\ index >= Width * HeaderRows
  BY <1>0, <1>1, Geometry
<1> HIDE DEF index
<1>3. u = [t EXCEPT !.vga[index] = character]
  BY <1>2 DEF terminal_put_entry_at, index
<1> HIDE DEF u
<1>4. /\ u.vga = [t.vga EXCEPT ![index] = character] /\ u.row = t.row /\ u.column = t.column
      /\ u.reserved = t.reserved /\ u.astray = t.astray
      /\ u = [vga |-> u.vga, row |-> u.row, column |-> u.column, reserved |-> u.reserved,
              astray |-> u.astray]
  BY <1>3 DEF IsScreen
<1>5. /\ u.vga = [i \in Cells |-> u.vga[i]] /\ u.vga[index] = character
      /\ \A i \in Cells : i # index => u.vga[i] = t.vga[i]
  BY <1>2, <1>4 DEF IsScreen
<1>6. IsScreen(u)
  BY <1>4, <1>5 DEF IsScreen
<1>7. HeaderKept(t) => HeaderKept(u)
  <2>1. \A i \in Cells : i < Width * HeaderRows => i # index
    <3>1. Width * HeaderRows \in Nat /\ Width * Height \in Nat
      BY Sizes
    <3>2. QED BY <1>2, <3>1 DEF Cells
  <2>2. QED BY <1>5, <2>1 DEF HeaderKept
<1>8. ASSUME NEW c \in 1 .. Width
      PROVE  u.vga[CellOf(y, c)] = IF c = x + 1 THEN character ELSE t.vga[CellOf(y, c)]
  <2>1. CellOf(y, c) \in Cells /\ (CellOf(y, c) = CellOf(y, x + 1) => c = x + 1)
    BY <1>0, Geometry
  <2>2. QED BY <1>1, <1>5, <2>1
<1>9. Row(u, y) = [Row(t, y) EXCEPT ![x + 1] = character]
  <2>1. /\ Row(u, y) = [c \in 1 .. Width |-> u.vga[CellOf(y, c)]]
        /\ Row(t, y) = [c \in 1 .. Width |-> t.vga[CellOf(y, c)]]
    BY RowCells
  <2>2. QED BY <1>8, <2>1
<1>10. ASSUME NEW r \in 0 .. Height - 1, r # y PROVE Row(u, r) = Row(t, r)
  <2>1. /\ Row(u, r) = [c \in 1 .. Width |-> u.vga[CellOf(r, c)]]
        /\ Row(t, r) = [c \in 1 .. Width |-> t.vga[CellOf(r, c)]]
    BY RowCells
  <2>2. \A c \in 1 .. Width : CellOf(r, c) \in Cells /\ CellOf(r, c) # CellOf(y, x + 1)
    BY <1>0, <1>10, Geometry
  <2>3. \A c \in 1 .. Width : u.vga[CellOf(r, c)] = t.vga[CellOf(r, c)]
    BY <1>1, <1>5, <2>2
  <2>4. QED BY <2>1, <2>3
<1>11. QED BY <1>4, <1>6, <1>7, <1>9, <1>10 DEF PutIn, u

\* Screen u is screen t after terminal_newline.
NewlineIn(t, u) ==
  /\ IsScreen(u) /\ u.column = 0 /\ u.astray = t.astray
  /\ HeaderKept(t) => HeaderKept(u)
  /\ t.row < Height - 1 =>
       u.row = t.row + 1 /\ \A r \in 0 .. Height - 1 : Row(u, r) = Row(t, r)
  /\ t.row = Height - 1 =>
       /\ u.row = Height - 1 /\ Row(u, Height - 1) = Padded(<< >>)
       /\ \A r \in HeaderRows .. Height - 2 : Row(u, r) = Row(t, r + 1)

\* The rows under the header move up only when the cursor was on the last.
LEMMA Newline ==
  ASSUME NEW t, IsScreen(t)
  PROVE  NewlineIn(t, terminal_newline(t))
<1> DEFINE n == terminal_set_cursor(t, t.row + 1, 0)
<1> DEFINE u == terminal_newline(t)
<1>1. /\ n.vga = t.vga /\ n.row = t.row + 1 /\ n.column = 0 /\ n.reserved = HeaderRows
      /\ n.astray = t.astray
      /\ n = [vga |-> n.vga, row |-> n.row, column |-> n.column, reserved |-> n.reserved,
              astray |-> n.astray]
  <2>1. /\ t = [vga |-> t.vga, row |-> t.row, column |-> t.column, reserved |-> t.reserved,
                astray |-> t.astray]
        /\ t.reserved = HeaderRows
    BY DEF IsScreen
  <2>2. n = [t EXCEPT !.row = t.row + 1, !.column = 0]
    BY DEF terminal_set_cursor
  <2> HIDE DEF n
  <2>3. QED BY <2>1, <2>2
<1>2. u = IF n.row >= Height THEN terminal_scroll(n) ELSE n
  BY DEF terminal_newline
<1>3. t.row \in HeaderRows .. Height - 1 /\ t.row \in Int
  BY Sizes DEF IsScreen
<1> HIDE DEF n, u
<1>4. CASE t.row < Height - 1
  <2>1. u = n
    BY <1>1, <1>2, <1>3, <1>4, Sizes
  <2>2. u.vga = [i \in Cells |-> u.vga[i]]
    BY <1>1, <2>1 DEF IsScreen
  <2>3. u.row \in HeaderRows .. Height - 1 /\ u.column \in 0 .. Width
    BY <1>1, <1>3, <1>4, <2>1, Sizes
  <2>4. \A r \in 0 .. Height - 1 : Row(u, r) = Row(t, r)
    BY <1>1, <2>1 DEF Row
  <2>5. IsScreen(u)
    BY <1>1, <2>1, <2>2, <2>3 DEF IsScreen
  <2>6. QED BY <1>1, <1>3, <1>4, <2>1, <2>4, <2>5, Sizes DEF NewlineIn, HeaderKept, u
<1>5. CASE t.row = Height - 1
  <2>1. u = terminal_scroll(n)
    BY <1>1, <1>2, <1>5, Sizes
  <2> DEFINE v == [i \in Cells |->
                     CASE i < Width * HeaderRows -> t.vga[i]
                       [] i >= Width * HeaderRows /\ i < Width * (Height - 1) -> t.vga[i + Width]
                       [] OTHER -> Blank]
  <2>2. u = [n EXCEPT !.vga = v, !.row = Height - 1, !.column = 0]
    BY <1>1, <2>1 DEF terminal_scroll
  <2> HIDE DEF v
  <2>3. /\ u.vga = v /\ u.row = Height - 1 /\ u.column = 0 /\ u.reserved = HeaderRows
        /\ u.astray = t.astray
        /\ u = [vga |-> u.vga, row |-> u.row, column |-> u.column, reserved |-> u.reserved,
                astray |-> u.astray]
    BY <1>1, <2>2
  <2>4. Width * HeaderRows \in Nat /\ Width * (Height - 1) \in Nat /\ Cells \subseteq Int
    BY Sizes DEF Cells
  <2>5. v = [i \in Cells |-> v[i]]
    BY DEF v
  <2>6. ASSUME NEW i \in Cells, i < Width * HeaderRows PROVE v[i] = t.vga[i]
    <3>1. ~(i >= Width * HeaderRows)
      BY <2>4, <2>6
    <3>2. QED BY Zenon, <2>6, <3>1 DEF v
  <2>7. ASSUME NEW i \in Cells, i >= Width * HeaderRows, i < Width * (Height - 1)
        PROVE  v[i] = t.vga[i + Width]
    <3>1. ~(i < Width * HeaderRows)
      BY <2>4, <2>7
    <3>2. QED BY Zenon, <2>7, <3>1 DEF v
  <2>8. ASSUME NEW i \in Cells, i >= Width * HeaderRows, i >= Width * (Height - 1)
        PROVE  v[i] = Blank
    <3>1. ~(i < Width * HeaderRows) /\ ~(i < Width * (Height - 1))
      BY <2>4, <2>8
    <3>2. QED BY Zenon, <2>8, <3>1 DEF v
  <2>9. IsScreen(u)
    <3>1. Height - 1 \in HeaderRows .. Height - 1 /\ 0 \in 0 .. Width
      BY Sizes
    <3>2. QED BY <2>3, <2>5, <3>1 DEF IsScreen
  <2>10. HeaderKept(t) => HeaderKept(u)
    BY <2>3, <2>6 DEF HeaderKept
  <2>11. ASSUME NEW r \in HeaderRows .. Height - 2 PROVE Row(u, r) = Row(t, r + 1)
    <3>0. r \in 0 .. Height - 1 /\ r < Height - 1 /\ r >= HeaderRows
      BY Sizes
    <3>1. ASSUME NEW c \in 1 .. Width PROVE u.vga[CellOf(r, c)] = t.vga[CellOf(r + 1, c)]
      <4>1. /\ CellOf(r, c) \in Cells /\ CellOf(r, c) < Width * (Height - 1)
            /\ CellOf(r, c) >= Width * HeaderRows /\ CellOf(r, c) + Width = CellOf(r + 1, c)
        BY <3>0, Geometry
      <4>2. QED BY <2>3, <2>7, <4>1
    <3>2. QED BY <3>1, RowCells
  <2>12. Row(u, Height - 1) = Padded(<< >>)
    <3>0. Height - 1 \in 0 .. Height - 1 /\ Height - 1 >= HeaderRows
      BY Sizes
    <3>1. ASSUME NEW c \in 1 .. Width PROVE u.vga[CellOf(Height - 1, c)] = Blank
      <4>1. /\ CellOf(Height - 1, c) \in Cells /\ CellOf(Height - 1, c) >= Width * (Height - 1)
            /\ CellOf(Height - 1, c) >= Width * HeaderRows
        BY <3>0, Geometry
      <4>2. QED BY <2>3, <2>8, <4>1
    <3>2. Padded(<< >>) = [c \in 1 .. Width |-> Blank]
      BY Sizes DEF Padded
    <3>3. QED BY <3>1, <3>2, RowCells
  <2>13. QED BY <1>5, <2>3, <2>9, <2>10, <2>11, <2>12, Sizes DEF NewlineIn, u
<1>6. QED BY <1>3, <1>4, <1>5, Sizes

-----------------------------------------------------------------------------
\* The paper, and the screen as a window on it.

\* What can stand on the paper.
Glyphs == Typed \cup Output \cup {Prompt[i] : i \in 1 .. Len(Prompt)}

IsPaper(paper) ==
  /\ paper \in Seq(Seq(Glyphs)) /\ Len(paper) >= 1
  /\ \A k \in 1 .. Len(paper) : Len(paper[k]) <= Width

Window(t, paper) == IsScreen(t) /\ IsPaper(paper) /\ Shows(t, paper)

\* What a window says, piece by piece.
LEMMA WindowParts ==
  ASSUME NEW t, NEW paper, Window(t, paper)
  PROVE  /\ Len(paper) \in Nat /\ Len(paper) >= 1
         /\ t.row \in Int /\ t.row >= HeaderRows /\ t.row <= Height - 1
         /\ ~t.astray /\ HeaderKept(t) /\ t.column = Len(paper[Len(paper)])
         /\ Len(paper) >= Height - HeaderRows => t.row = Height - 1
         /\ Len(paper) < Height - HeaderRows => t.row = HeaderRows + Len(paper) - 1
         /\ \A k \in 1 .. Len(paper) :
              t.row - (Len(paper) - k) >= HeaderRows =>
                Row(t, t.row - (Len(paper) - k)) = Padded(paper[k])
         /\ \A r \in t.row + 1 .. Height - 1 : Row(t, r) = Padded(<< >>)
<1>1. Len(paper) \in Nat /\ Len(paper) >= 1
  BY DEF Window, IsPaper
<1>2. t.row \in Int /\ t.row >= HeaderRows /\ t.row <= Height - 1
  BY Sizes DEF Window, IsScreen
<1>3. Len(paper) < Height - HeaderRows => t.row = HeaderRows + Len(paper) - 1
  <2>1. Len(paper) < Height - HeaderRows => t.row - (Len(paper) - 1) = HeaderRows
    BY DEF Window, Shows, RowOf
  <2>2. QED BY <1>1, <1>2, <2>1, Sizes
<1>4. QED BY <1>1, <1>2, <1>3 DEF Window, Shows, RowOf, HeaderKept

\* The converse.
LEMMA WindowFromParts ==
  ASSUME NEW t, NEW paper, IsScreen(t), IsPaper(paper), ~t.astray, HeaderKept(t),
         t.column = Len(paper[Len(paper)]),
         Len(paper) >= Height - HeaderRows => t.row = Height - 1,
         Len(paper) < Height - HeaderRows => t.row = HeaderRows + Len(paper) - 1,
         \A k \in 1 .. Len(paper) :
           t.row - (Len(paper) - k) >= HeaderRows =>
             Row(t, t.row - (Len(paper) - k)) = Padded(paper[k]),
         \A r \in t.row + 1 .. Height - 1 : Row(t, r) = Padded(<< >>)
  PROVE  Window(t, paper)
<1>1. Len(paper) \in Nat
  BY DEF IsPaper
<1>2. Len(paper) < Height - HeaderRows => RowOf(t, paper, 1) = HeaderRows
  BY <1>1, Sizes DEF RowOf
<1>3. QED BY <1>2 DEF Window, Shows, RowOf, HeaderKept

\* A new line on the screen is a new row on the paper.
LEMMA NewlineWindow ==
  ASSUME NEW t, NEW paper, Window(t, paper),
         NEW u, u = terminal_newline(t), NEW new, new = Append(paper, << >>)
  PROVE  Window(u, new)
<1> DEFINE n == Len(paper)
<1>1. NewlineIn(t, u)
  BY Newline DEF Window
<1>2. /\ n \in Nat /\ n >= 1 /\ Len(new) = n + 1 /\ new[n + 1] = << >>
      /\ \A k \in 1 .. n : new[k] = paper[k]
  BY DEF Window, IsPaper
<1>3. IsPaper(new)
  <2>1. << >> \in Seq(Glyphs) /\ Len(<< >>) <= Width
    BY Sizes
  <2>2. new \in Seq(Seq(Glyphs))
    BY <2>1 DEF Window, IsPaper
  <2>3. \A k \in 1 .. Len(new) : Len(new[k]) <= Width
    BY <1>2, <2>1 DEF Window, IsPaper
  <2>4. QED BY <1>2, <2>2, <2>3 DEF IsPaper
<1>4. /\ t.row \in Int /\ t.row >= HeaderRows /\ t.row <= Height - 1 /\ ~t.astray /\ HeaderKept(t)
      /\ n >= Height - HeaderRows => t.row = Height - 1
      /\ n < Height - HeaderRows => t.row = HeaderRows + n - 1
  BY WindowParts
<1>5. \A k \in 1 .. n : t.row - (n - k) >= HeaderRows => Row(t, t.row - (n - k)) = Padded(paper[k])
  BY WindowParts
<1>6. \A r \in t.row + 1 .. Height - 1 : Row(t, r) = Padded(<< >>)
  BY WindowParts
<1>7. IsScreen(u) /\ ~u.astray /\ HeaderKept(u) /\ u.column = Len(new[Len(new)])
  BY <1>1, <1>2, <1>4 DEF NewlineIn
<1> HIDE DEF n
<1>8. CASE t.row < Height - 1
  <2>0. u.row = t.row + 1
    BY <1>1, <1>8 DEF NewlineIn
  <2>1. u.row = t.row + 1 /\ \A r \in 0 .. Height - 1 : Row(u, r) = Row(t, r)
    BY <1>1, <1>8 DEF NewlineIn
  <2>2. /\ Len(new) >= Height - HeaderRows => u.row = Height - 1
        /\ Len(new) < Height - HeaderRows => u.row = HeaderRows + Len(new) - 1
    <3>1. n \in Int /\ t.row \in Int /\ Height \in Int /\ HeaderRows \in Int
      BY <1>2, <1>4, Sizes
    <3>2. n < Height - HeaderRows
      BY <1>4, <1>8, <3>1
    <3>3. t.row = HeaderRows + n - 1
      BY <1>4, <3>2
    <3>4. n + 1 >= Height - HeaderRows => t.row + 1 = Height - 1
      BY <3>1, <3>2, <3>3
    <3>5. n + 1 < Height - HeaderRows => t.row + 1 = HeaderRows + (n + 1) - 1
      BY <3>1, <3>3
    <3>6. QED BY <1>2, <2>0, <3>4, <3>5
  <2>3. ASSUME NEW k \in 1 .. Len(new), u.row - (Len(new) - k) >= HeaderRows
        PROVE  Row(u, u.row - (Len(new) - k)) = Padded(new[k])
    <3>1. u.row - (Len(new) - k) = t.row - (n - k) /\ t.row - (n - k) \in 0 .. Height - 1
      BY <1>2, <1>4, <1>8, <2>1, <2>3, Sizes
    <3>2. CASE k <= n
      <4>1. k \in 1 .. n
        BY <1>2, <3>2
      <4>2. QED BY <1>2, <1>5, <2>1, <2>3, <3>1, <4>1
    <3>3. CASE k = n + 1
      <4>1. t.row - (n - k) = t.row + 1 /\ t.row + 1 \in t.row + 1 .. Height - 1
        BY <1>2, <1>4, <1>8, <3>3, Sizes
      <4>2. QED BY <1>2, <1>6, <2>1, <3>1, <3>3, <4>1
    <3>4. QED BY <1>2, <3>2, <3>3
  <2>4. ASSUME NEW r \in u.row + 1 .. Height - 1 PROVE Row(u, r) = Padded(<< >>)
    <3>1. r \in t.row + 1 .. Height - 1 /\ r \in 0 .. Height - 1
      BY <1>4, <2>1, Sizes
    <3>2. QED BY <1>6, <2>1, <3>1
  <2>5. QED BY <1>3, <1>7, <2>2, <2>3, <2>4, WindowFromParts
<1>9. CASE t.row = Height - 1
  <2>1. /\ u.row = Height - 1 /\ Row(u, Height - 1) = Padded(<< >>)
        /\ \A r \in HeaderRows .. Height - 2 : Row(u, r) = Row(t, r + 1)
    BY <1>1, <1>9 DEF NewlineIn
  <2>2. /\ Len(new) >= Height - HeaderRows => u.row = Height - 1
        /\ Len(new) < Height - HeaderRows => u.row = HeaderRows + Len(new) - 1
    BY <1>2, <1>4, <1>9, <2>1, Sizes
  <2>3. ASSUME NEW k \in 1 .. Len(new), u.row - (Len(new) - k) >= HeaderRows
        PROVE  Row(u, u.row - (Len(new) - k)) = Padded(new[k])
    <3>1. CASE k <= n
      <4> DEFINE r == u.row - (Len(new) - k)
      <4>1. r \in HeaderRows .. Height - 2 /\ r + 1 = t.row - (n - k) /\ k \in 1 .. n
            /\ t.row - (n - k) >= HeaderRows
        BY <1>2, <1>4, <1>9, <2>1, <2>3, <3>1, Sizes
      <4> HIDE DEF r
      <4>2. Row(u, r) = Row(t, t.row - (n - k))
        BY <2>1, <4>1
      <4>3. QED BY <1>2, <1>5, <4>1, <4>2 DEF r
    <3>2. CASE k = n + 1
      <4>1. u.row - (Len(new) - k) = Height - 1
        BY <1>2, <2>1, <3>2, Sizes
      <4>2. QED BY <1>2, <2>1, <3>2, <4>1
    <3>3. QED BY <1>2, <3>1, <3>2
  <2>4. \A r \in u.row + 1 .. Height - 1 : Row(u, r) = Padded(<< >>)
    BY <2>1, Sizes
  <2>5. QED BY <1>3, <1>7, <2>2, <2>3, <2>4, WindowFromParts
<1>10. QED BY <1>4, <1>8, <1>9, Sizes

\* A screen and a paper that change in the row of the cursor only, to the same text.
LEMMA LastRowWindow ==
  ASSUME NEW t, NEW paper, Window(t, paper), NEW row \in Seq(Glyphs), Len(row) <= Width,
         NEW u, IsScreen(u), u.row = t.row, u.column = Len(row), ~u.astray, HeaderKept(u),
         Row(u, t.row) = Padded(row),
         \A r \in 0 .. Height - 1 : r # t.row => Row(u, r) = Row(t, r)
  PROVE  Window(u, [paper EXCEPT ![Len(paper)] = row])
<1> DEFINE n == Len(paper)
<1> DEFINE new == [paper EXCEPT ![Len(paper)] = row]
<1>1. /\ n \in Nat /\ n >= 1 /\ Len(new) = n /\ new[n] = row /\ new \in Seq(Seq(Glyphs))
      /\ \A k \in 1 .. n : k # n => new[k] = paper[k]
  BY DEF Window, IsPaper
<1>2. IsPaper(new)
  BY <1>1 DEF Window, IsPaper
<1>3. /\ t.row \in Int /\ t.row >= HeaderRows /\ t.row <= Height - 1
      /\ n >= Height - HeaderRows => t.row = Height - 1
      /\ n < Height - HeaderRows => t.row = HeaderRows + n - 1
  BY WindowParts
<1>4. \A k \in 1 .. n : t.row - (n - k) >= HeaderRows => Row(t, t.row - (n - k)) = Padded(paper[k])
  BY WindowParts
<1>5. \A r \in t.row + 1 .. Height - 1 : Row(t, r) = Padded(<< >>)
  BY WindowParts
<1> HIDE DEF n, new
<1>6. ASSUME NEW k \in 1 .. n, t.row - (n - k) >= HeaderRows
      PROVE  Row(u, t.row - (n - k)) = Padded(new[k])
  <2>1. CASE k = n
    <3>1. t.row - (n - k) = t.row
      BY <1>1, <1>3, <2>1
    <3>2. QED BY <1>1, <2>1, <3>1
  <2>2. CASE k # n
    <3>1. t.row - (n - k) \in 0 .. Height - 1 /\ t.row - (n - k) # t.row
      BY <1>1, <1>3, <1>6, <2>2, Sizes
    <3>2. Row(u, t.row - (n - k)) = Row(t, t.row - (n - k))
      BY <3>1
    <3>3. QED BY <1>1, <1>4, <1>6, <2>2, <3>2
  <2>3. QED BY <2>1, <2>2
<1>7. ASSUME NEW r \in t.row + 1 .. Height - 1 PROVE Row(u, r) = Padded(<< >>)
  <2>1. r \in 0 .. Height - 1 /\ r # t.row
    BY <1>3, Sizes
  <2>2. QED BY <1>5, <2>1
<1>8. Window(u, new)
  BY <1>1, <1>2, <1>3, <1>6, <1>7, WindowFromParts
<1>9. QED BY <1>8 DEF new

\* The row of the cursor.
LEMMA CursorRow ==
  ASSUME NEW t, NEW paper, Window(t, paper), NEW row, row = paper[Len(paper)]
  PROVE  /\ row \in Seq(Glyphs) /\ Len(row) \in Nat /\ Len(row) <= Width /\ t.column = Len(row)
         /\ t.row \in HeaderRows .. Height - 1 /\ t.row \in 0 .. Height - 1
         /\ Row(t, t.row) = Padded(row)
<1>1. Len(paper) \in Nat /\ Len(paper) >= 1 /\ t.row \in Int /\ t.row >= HeaderRows
      /\ t.row <= Height - 1 /\ t.column = Len(row)
  BY WindowParts
<1>2. Len(paper) \in 1 .. Len(paper) /\ t.row - (Len(paper) - Len(paper)) = t.row
  BY <1>1
<1>3. row \in Seq(Glyphs) /\ Len(row) <= Width
  BY <1>2 DEF Window, IsPaper
<1>4. Row(t, t.row) = Padded(row)
  BY <1>1, <1>2, WindowParts
<1>5. QED BY <1>1, <1>3, <1>4, Sizes

\* Fields of a screen of which only the column changes.
LEMMA ColumnOnly ==
  ASSUME NEW t, IsScreen(t), NEW x \in 0 .. Width, NEW u, u = [t EXCEPT !.column = x]
  PROVE  /\ IsScreen(u) /\ u.column = x /\ u.row = t.row /\ u.astray = t.astray /\ u.vga = t.vga
         /\ \A r : Row(u, r) = Row(t, r)
         /\ HeaderKept(t) => HeaderKept(u)
<1>1. t = [vga |-> t.vga, row |-> t.row, column |-> t.column, reserved |-> t.reserved,
           astray |-> t.astray]
  BY DEF IsScreen
<1>2. /\ u.vga = t.vga /\ u.row = t.row /\ u.column = x /\ u.reserved = t.reserved
      /\ u.astray = t.astray
      /\ u = [vga |-> u.vga, row |-> u.row, column |-> u.column, reserved |-> u.reserved,
              astray |-> u.astray]
  BY <1>1
<1>3. IsScreen(u)
  BY <1>2 DEF IsScreen
<1>4. QED BY <1>2, <1>3 DEF Row, HeaderKept

\* A character at a cursor that is not behind the last cell.
LEMMA PutWindow ==
  ASSUME NEW t, NEW paper, Window(t, paper), NEW character \in Glyphs,
         Len(paper[Len(paper)]) < Width
  PROVE  Window([terminal_put_entry_at(t, character, t.column, t.row) EXCEPT !.column = t.column + 1],
                [paper EXCEPT ![Len(paper)] = Append(paper[Len(paper)], character)])
<1> DEFINE row == paper[Len(paper)]
<1> DEFINE v == terminal_put_entry_at(t, character, t.column, t.row)
<1> DEFINE u == [v EXCEPT !.column = t.column + 1]
<1>1. /\ row \in Seq(Glyphs) /\ Len(row) \in Nat /\ t.column = Len(row)
      /\ t.row \in HeaderRows .. Height - 1 /\ Row(t, t.row) = Padded(row)
  BY CursorRow
<1>2. t.column \in 0 .. Width - 1 /\ t.column + 1 \in 0 .. Width /\ IsScreen(t)
  BY <1>1, Sizes DEF Window
<1>3. PutIn(t, v, character, t.column, t.row)
  BY <1>1, <1>2, PutEntry
<1>4. /\ IsScreen(v) /\ v.row = t.row /\ v.astray = t.astray /\ (HeaderKept(t) => HeaderKept(v))
      /\ Row(v, t.row) = [Padded(row) EXCEPT ![Len(row) + 1] = character]
      /\ \A r \in 0 .. Height - 1 : r # t.row => Row(v, r) = Row(t, r)
  BY <1>1, <1>3 DEF PutIn
<1>5. /\ IsScreen(u) /\ u.column = t.column + 1 /\ u.row = v.row /\ u.astray = v.astray
      /\ \A r : Row(u, r) = Row(v, r)
      /\ HeaderKept(v) => HeaderKept(u)
  BY <1>2, <1>4, ColumnOnly
<1> HIDE DEF u, v, row
<1> DEFINE longer == Append(row, character)
<1>6. /\ longer \in Seq(Glyphs) /\ Len(longer) = Len(row) + 1 /\ longer[Len(row) + 1] = character
      /\ \A c \in 1 .. Len(row) : longer[c] = row[c]
  BY <1>1
<1> HIDE DEF longer
<1>7. Padded(longer) = [Padded(row) EXCEPT ![Len(row) + 1] = character]
  <2>1. \A c \in 1 .. Width : (IF c <= Len(longer) THEN longer[c] ELSE Blank) =
           IF c = Len(row) + 1 THEN character ELSE IF c <= Len(row) THEN row[c] ELSE Blank
    BY <1>1, <1>6, Sizes
  <2>2. QED BY <2>1 DEF Padded
<1>8. ~t.astray /\ HeaderKept(t)
  BY WindowParts
<1>9. Len(longer) <= Width /\ u.column = Len(longer)
  BY <1>1, <1>5, <1>6, Sizes DEF row
<1>10. IsScreen(u) /\ u.row = t.row /\ ~u.astray /\ HeaderKept(u) /\ Row(u, t.row) = Padded(longer)
  BY <1>4, <1>5, <1>7, <1>8
<1>11. \A r \in 0 .. Height - 1 : r # t.row => Row(u, r) = Row(t, r)
  BY <1>4, <1>5
<1>12. Window(u, [paper EXCEPT ![Len(paper)] = longer])
  BY <1>6, <1>9, <1>10, <1>11, LastRowWindow
<1>13. QED BY <1>12 DEF u, v, row, longer

\* What terminal_write_char does to the screen, Printed does to the paper.
LEMMA WriteWindow ==
  ASSUME NEW t, NEW paper, Window(t, paper), NEW character \in Typed \cup Output \cup {LineFeed}
  PROVE  Window(terminal_write_char(t, character), Printed(paper, character))
<1> DEFINE row == paper[Len(paper)]
<1>1. /\ row \in Seq(Glyphs) /\ Len(row) \in Nat /\ Len(row) <= Width /\ t.column = Len(row)
  BY CursorRow
<1>2. CASE character = LineFeed
  <2>1. terminal_write_char(t, character) = terminal_newline(t)
    BY <1>2, ShellAssumption DEF terminal_write_char
  <2>2. Printed(paper, character) = Append(paper, << >>)
    BY <1>2 DEF Printed
  <2>3. QED BY <2>1, <2>2, NewlineWindow
<1>3. CASE character # LineFeed
  <2>0. character # CarriageReturn /\ character \in Glyphs
    BY <1>3, ShellAssumption DEF Glyphs
  <2> DEFINE s == IF t.column >= Width THEN terminal_newline(t) ELSE t
  <2> DEFINE v == terminal_put_entry_at(s, character, s.column, s.row)
  <2>1. terminal_write_char(t, character) = [v EXCEPT !.column = s.column + 1]
    BY <1>3, <2>0 DEF terminal_write_char
  <2>2. CASE Len(row) = Width
    <3>1. s = terminal_newline(t)
      BY <1>1, <2>2, Sizes
    <3> DEFINE new == Append(paper, << >>)
    <3>2. Window(s, new)
      BY <3>1, NewlineWindow
    <3>3. /\ paper \in Seq(Seq(Glyphs)) /\ Len(paper) \in Nat /\ Len(new) = Len(paper) + 1
          /\ new[Len(new)] = << >> /\ << >> \in Seq(Glyphs)
      BY DEF Window, IsPaper
    <3>4. Len(new[Len(new)]) < Width
      BY <3>3, Sizes
    <3> HIDE DEF s, new
    <3>5. Window([v EXCEPT !.column = s.column + 1],
                 [new EXCEPT ![Len(new)] = Append(new[Len(new)], character)])
      BY <2>0, <3>2, <3>4, PutWindow
    <3>6. [new EXCEPT ![Len(new)] = Append(new[Len(new)], character)] = Append(paper, <<character>>)
      <4>1. new[Len(new)] = << >> /\ Append(<< >>, character) = <<character>>
        BY <3>3
      <4>2. <<character>> \in Seq(Glyphs)
        BY <2>0
      <4> DEFINE one == [new EXCEPT ![Len(new)] = <<character>>]
      <4> DEFINE two == Append(paper, <<character>>)
      <4>3. /\ new \in Seq(Seq(Glyphs)) /\ Len(new) = Len(paper) + 1
            /\ \A k \in 1 .. Len(paper) : new[k] = paper[k]
        BY <3>3 DEF new
      <4>4. /\ one \in Seq(Seq(Glyphs)) /\ Len(one) = Len(paper) + 1 /\ one[Len(paper) + 1] = <<character>>
            /\ \A k \in 1 .. Len(paper) : one[k] = paper[k]
        BY <3>3, <4>2, <4>3
      <4>5. /\ two \in Seq(Seq(Glyphs)) /\ Len(two) = Len(paper) + 1 /\ two[Len(paper) + 1] = <<character>>
            /\ \A k \in 1 .. Len(paper) : two[k] = paper[k]
        BY <3>3, <4>2
      <4> HIDE DEF one, two
      <4>6. \A k \in 1 .. Len(paper) + 1 : one[k] = two[k]
        <5>1. \A k \in 1 .. Len(paper) + 1 : k \in 1 .. Len(paper) \/ k = Len(paper) + 1
          BY <3>3
        <5>2. QED BY <4>4, <4>5, <5>1
      <4>7. one = two
        BY <4>4, <4>5, <4>6, SameSequence
      <4>8. QED BY <4>1, <4>7 DEF one, two
    <3>7. Printed(paper, character) = Append(paper, <<character>>)
      BY <1>3, <2>2 DEF Printed
    <3>8. QED BY <2>1, <3>5, <3>6, <3>7
  <2>3. CASE Len(row) # Width
    <3>1. s = t /\ Len(row) < Width
      BY <1>1, <2>3, Sizes
    <3>2. Printed(paper, character) = [paper EXCEPT ![Len(paper)] = Append(row, character)]
      BY <1>3, <2>3 DEF Printed
    <3> HIDE DEF s
    <3>3. Window([terminal_put_entry_at(t, character, t.column, t.row) EXCEPT !.column = t.column + 1],
                 [paper EXCEPT ![Len(paper)] = Append(row, character)])
      BY <2>0, <3>1, PutWindow
    <3>4. QED BY <2>1, <3>1, <3>2, <3>3
  <2>4. QED BY <2>2, <2>3
<1>4. QED BY <1>2, <1>3

\* A row without its last character.
LEMMA Shorter ==
  ASSUME NEW S, NEW row \in Seq(S), row # << >>
  PROVE  /\ Len(row) \in Nat \ {0} /\ Front(row) \in Seq(S) /\ Len(Front(row)) = Len(row) - 1
         /\ \A c \in 1 .. Len(row) - 1 : Front(row)[c] = row[c]
<1>1. Len(row) \in Nat \ {0}
  OBVIOUS
<1>2. Front(row) = SubSeq(row, 1, Len(row) - 1)
  BY DEF Front
<1> DEFINE n == Len(row) - 1
<1>3. n \in Nat /\ \A i \in 1 .. n : i \in 1 .. Len(row)
  BY <1>1
<1> HIDE DEF n
<1>4. /\ SubSeq(row, 1, n) \in Seq(S) /\ Len(SubSeq(row, 1, n)) = n
      /\ \A c \in 1 .. n : SubSeq(row, 1, n)[c] = row[c]
  BY <1>3
<1>5. QED BY <1>1, <1>2, <1>4 DEF n

\* What terminal_backspace does to the screen, Erased does to the paper.
LEMMA BackspaceWindow ==
  ASSUME NEW t, NEW paper, Window(t, paper), NEW row, row = paper[Len(paper)]
  PROVE  Window(terminal_backspace(t),
                IF row = << >> THEN paper ELSE [paper EXCEPT ![Len(paper)] = Front(row)])
<1>1. /\ row \in Seq(Glyphs) /\ Len(row) \in Nat /\ Len(row) <= Width /\ t.column = Len(row)
      /\ t.row \in HeaderRows .. Height - 1 /\ Row(t, t.row) = Padded(row)
  BY CursorRow
<1>2. CASE row = << >>
  <2>1. terminal_backspace(t) = t
    BY <1>1, <1>2 DEF terminal_backspace
  <2>2. QED BY <1>2, <2>1
<1>3. CASE row # << >>
  <2> DEFINE less == Front(row)
  <2>1. /\ Len(row) \in Nat \ {0} /\ less \in Seq(Glyphs) /\ Len(less) = Len(row) - 1
        /\ \A c \in 1 .. Len(row) - 1 : less[c] = row[c]
    BY <1>1, <1>3, Shorter
  <2> HIDE DEF less
  <2> DEFINE x == Len(row) - 1
  <2> DEFINE s == [t EXCEPT !.column = t.column - 1]
  <2> DEFINE u == terminal_put_entry_at(s, Blank, x, t.row)
  <2>2. x \in 0 .. Width - 1 /\ x \in 0 .. Width /\ t.column - 1 = x
    BY <1>1, <2>1, Sizes
  <2>3. terminal_backspace(t) = u
    BY <1>1, <2>1, <2>2 DEF terminal_backspace
  <2>4. /\ IsScreen(s) /\ s.column = x /\ s.row = t.row /\ s.astray = t.astray
        /\ \A r : Row(s, r) = Row(t, r)
        /\ HeaderKept(t) => HeaderKept(s)
    BY <2>2, ColumnOnly DEF Window
  <2> HIDE DEF s
  <2>5. PutIn(s, u, Blank, x, t.row)
    BY <1>1, <2>2, <2>4, PutEntry
  <2> HIDE DEF u
  <2>6. /\ IsScreen(u) /\ u.row = t.row /\ u.column = x /\ u.astray = t.astray
        /\ HeaderKept(t) => HeaderKept(u)
        /\ Row(u, t.row) = [Padded(row) EXCEPT ![x + 1] = Blank]
        /\ \A r \in 0 .. Height - 1 : r # t.row => Row(u, r) = Row(t, r)
    BY <1>1, <2>4, <2>5 DEF PutIn
  <2>7. Padded(less) = [Padded(row) EXCEPT ![x + 1] = Blank]
    <3>1. \A c \in 1 .. Width : (IF c <= Len(less) THEN less[c] ELSE Blank) =
             IF c = x + 1 THEN Blank ELSE IF c <= Len(row) THEN row[c] ELSE Blank
      <4>1. Len(row) \in Nat /\ Len(less) = Len(row) - 1 /\ x + 1 = Len(row)
        BY <1>1, <2>1
      <4>2. ASSUME NEW c \in 1 .. Width, c <= Len(less)
            PROVE  less[c] = row[c] /\ c # x + 1 /\ c <= Len(row)
        BY <2>1, <4>1, <4>2
      <4>3. ASSUME NEW c \in 1 .. Width, ~(c <= Len(less))
            PROVE  c = x + 1 \/ ~(c <= Len(row))
        BY <4>1, <4>3
      <4>4. QED BY <4>2, <4>3
    <3>2. QED BY <3>1 DEF Padded
  <2>8. ~t.astray /\ HeaderKept(t)
    BY WindowParts
  <2>9. Len(less) <= Width /\ u.column = Len(less) /\ ~u.astray /\ HeaderKept(u)
        /\ Row(u, t.row) = Padded(less)
    BY <1>1, <2>1, <2>6, <2>7, <2>8, Sizes
  <2>10. Window(u, [paper EXCEPT ![Len(paper)] = less])
    BY <2>1, <2>6, <2>9, LastRowWindow
  <2>11. QED BY <1>3, <2>3, <2>10 DEF less
<1>4. QED BY <1>2, <1>3

\* The prompt on a fresh row stays within it.
LEMMA PromptWindow ==
  ASSUME NEW t, NEW paper, Window(t, paper), paper[Len(paper)] = << >>
  PROVE  Window(terminal_prompt(t), [paper EXCEPT ![Len(paper)] = Prompt])
<1> DEFINE first == t.row * Width + t.column
<1> DEFINE u == terminal_prompt(t)
<1>1. /\ t.column = 0 /\ t.row \in HeaderRows .. Height - 1 /\ t.row \in 0 .. Height - 1
      /\ Row(t, t.row) = Padded(<< >>) /\ IsScreen(t) /\ ~t.astray /\ HeaderKept(t)
  BY CursorRow, WindowParts DEF Window
<1>2. Prompt \in Seq(Glyphs) /\ Len(Prompt) \in 1 .. Width
  <2>1. Prompt \in Seq({Prompt[i] : i \in 1 .. Len(Prompt)}) /\ Len(Prompt) \in 1 .. Width
    BY TerminalAssumption
  <2>2. \A i \in 1 .. Len(Prompt) : Prompt[i] \in Glyphs
    BY DEF Glyphs
  <2>3. QED BY <2>1, <2>2
<1>3. t.row \in Nat /\ t.row * Width \in Nat /\ first = t.row * Width /\ first \in Nat
  BY <1>1, Sizes
<1>4. first + Len(Prompt) <= Width * Height
  <2>1. (t.row + 1) * Width <= Height * Width
    <3>1. t.row + 1 \in Nat /\ t.row + 1 <= Height
      BY <1>1, Sizes
    <3>2. QED BY <3>1, Sizes, Monotone
  <2>2. (t.row + 1) * Width = t.row * Width + Width /\ Height * Width = Width * Height
        /\ Width * Height \in Nat
    BY <1>3, Sizes
  <2>3. QED BY <1>1, <1>2, <1>3, <2>1, <2>2, Sizes
<1> DEFINE v == [i \in Cells |-> IF i - first \in 0 .. Len(Prompt) - 1 THEN Prompt[i - first + 1]
                                                                    ELSE t.vga[i]]
<1>5. u = [t EXCEPT !.vga = v, !.column = t.column + Len(Prompt),
                    !.astray = t.astray \/ first + Len(Prompt) > Width * Height]
  BY DEF terminal_prompt
<1>6. ~(first + Len(Prompt) > Width * Height)
  <2>1. Width * Height \in Nat
    BY Sizes
  <2>2. QED BY <1>2, <1>3, <1>4, <2>1
<1> HIDE DEF u, v, first
<1>7. /\ u.vga = v /\ u.row = t.row /\ u.column = Len(Prompt) /\ u.reserved = t.reserved /\ ~u.astray
      /\ u = [vga |-> u.vga, row |-> u.row, column |-> u.column, reserved |-> u.reserved,
              astray |-> u.astray]
  <2>1. t = [vga |-> t.vga, row |-> t.row, column |-> t.column, reserved |-> t.reserved,
             astray |-> t.astray]
    BY <1>1 DEF IsScreen
  <2>2. t.column + Len(Prompt) = Len(Prompt)
    BY <1>1, <1>2
  <2>3. QED BY <1>1, <1>5, <1>6, <2>1, <2>2
<1>8. IsScreen(u)
  <2>1. v = [i \in Cells |-> v[i]]
    BY DEF v
  <2>2. QED BY <1>1, <1>2, <1>7, <2>1, Sizes DEF IsScreen
<1>9. ASSUME NEW c \in 1 .. Width
      PROVE  v[CellOf(t.row, c)] = IF c <= Len(Prompt) THEN Prompt[c] ELSE Blank
  <2>1. CellOf(t.row, c) \in Cells
    BY <1>1, Geometry
  <2>2. CellOf(t.row, c) - first = c - 1 /\ CellOf(t.row, c) - first + 1 = c
    BY <1>3, Sizes DEF CellOf
  <2>3. t.vga[CellOf(t.row, c)] = Blank
    <3>1. Row(t, t.row)[c] = t.vga[CellOf(t.row, c)]
      BY RowCells
    <3>2. Padded(<< >>)[c] = Blank
      BY Sizes DEF Padded
    <3>3. QED BY <1>1, <3>1, <3>2
  <2>4. c - 1 \in 0 .. Len(Prompt) - 1 <=> c <= Len(Prompt)
    BY <1>2, Sizes
  <2>5. v[CellOf(t.row, c)] =
          IF CellOf(t.row, c) - first \in 0 .. Len(Prompt) - 1
            THEN Prompt[CellOf(t.row, c) - first + 1] ELSE t.vga[CellOf(t.row, c)]
    BY Zenon, <2>1 DEF v
  <2>6. QED BY <2>2, <2>3, <2>4, <2>5
<1>10. Row(u, t.row) = Padded(Prompt)
  <2>1. Row(u, t.row) = [c \in 1 .. Width |-> v[CellOf(t.row, c)]]
    BY <1>7, RowCells
  <2>2. QED BY <1>9, <2>1 DEF Padded
<1>11. ASSUME NEW i \in Cells, \A c \in 1 .. Width : i # CellOf(t.row, c)
       PROVE  v[i] = t.vga[i]
  <2>1. i \in Int
    BY Sizes DEF Cells
  <2>2. ASSUME i - first \in 0 .. Len(Prompt) - 1 PROVE FALSE
    <3> DEFINE c == i - first + 1
    <3>0. first \in Int /\ Len(Prompt) \in Int /\ Width \in Int /\ Len(Prompt) <= Width
      BY <1>2, <1>3, Sizes
    <3>1. c \in 1 .. Width /\ i = first + c - 1
      <4>1. i - first \in Int /\ 0 <= i - first /\ i - first <= Len(Prompt) - 1
        BY <2>2, <3>0
      <4>2. QED BY <2>1, <3>0, <4>1
    <3> HIDE DEF c
    <3>2. i = CellOf(t.row, c)
      BY <1>3, <3>1 DEF CellOf
    <3>3. QED BY <1>11, <3>1, <3>2
  <2>3. QED BY Zenon, <2>2 DEF v
<1>12. ASSUME NEW r \in 0 .. Height - 1, r # t.row PROVE Row(u, r) = Row(t, r)
  <2>1. \A c \in 1 .. Width : CellOf(r, c) \in Cells
    BY Geometry
  <2>2. \A c, d \in 1 .. Width : CellOf(r, c) # CellOf(t.row, d)
    BY <1>1, <1>12, Geometry
  <2>3. \A c \in 1 .. Width : v[CellOf(r, c)] = t.vga[CellOf(r, c)]
    BY <1>11, <2>1, <2>2
  <2>4. QED BY <1>7, <2>3, RowCells
<1>13. HeaderKept(u)
  <2>1. \A c \in 1 .. Width : CellOf(t.row, c) >= Width * HeaderRows /\ CellOf(t.row, c) \in Cells
    BY <1>1, Geometry
  <2>2. Cells \subseteq Int /\ Width * HeaderRows \in Int
    BY Sizes DEF Cells
  <2>3. \A i \in Cells : i < Width * HeaderRows => \A c \in 1 .. Width : i # CellOf(t.row, c)
    BY <2>1, <2>2
  <2>4. QED BY <1>1, <1>7, <1>11, <2>3 DEF HeaderKept
<1>14. Len(Prompt) <= Width
  BY Sizes
<1>15. Window(u, [paper EXCEPT ![Len(paper)] = Prompt])
  BY <1>2, <1>7, <1>8, <1>10, <1>12, <1>13, <1>14, LastRowWindow
<1>16. QED BY <1>15 DEF u

\* A new prompt, behind what PromptAgain writes to the transcript.
LEMMA PromptAfter ==
  ASSUME NEW t, NEW paper, Window(t, paper), paper[Len(paper)] = << >>
  PROVE  /\ Window(terminal_prompt(t), [paper EXCEPT ![Len(paper)] = @ \o Prompt])
         /\ [paper EXCEPT ![Len(paper)] = @ \o Prompt][Len(paper)] = Prompt
         /\ Len([paper EXCEPT ![Len(paper)] = @ \o Prompt]) = Len(paper)
<1>1. << >> \o Prompt = Prompt
  BY TerminalAssumption
<1>2. [paper EXCEPT ![Len(paper)] = @ \o Prompt] = [paper EXCEPT ![Len(paper)] = Prompt]
  BY <1>1
<1>3. paper \in Seq(Seq(Glyphs)) /\ Len(paper) \in 1 .. Len(paper) /\ Prompt \in Seq(Glyphs)
  <2>1. Prompt \in Seq({Prompt[i] : i \in 1 .. Len(Prompt)})
    BY TerminalAssumption
  <2>2. \A i \in 1 .. Len(Prompt) : Prompt[i] \in Glyphs
    BY DEF Glyphs
  <2>3. Prompt \in Seq(Glyphs)
    BY <2>1, <2>2
  <2>4. QED BY <2>3 DEF Window, IsPaper
<1>4. QED BY <1>2, <1>3, PromptWindow

\* terminal_init leaves a screen with nothing but the header.
LEMMA ClearWindow ==
  ASSUME NEW t, t = [vga |-> t.vga, row |-> t.row, column |-> t.column, reserved |-> t.reserved,
                     astray |-> t.astray],
         ~t.astray
  PROVE  Window(terminal_init(t), << << >> >>)
<1> DEFINE u == terminal_init(t)
<1> DEFINE blank == [i \in Cells |-> Blank]
<1> DEFINE v == [i \in Cells |-> IF i < Width * HeaderRows THEN HeaderCell ELSE blank[i]]
<1> DEFINE paper == << << >> >>
<1>1. u = [vga |-> v, row |-> HeaderRows, column |-> 0, reserved |-> HeaderRows,
           astray |-> t.astray]
  <2> DEFINE w == terminal_clear([t EXCEPT !.reserved = 0])
  <2>1. w = [vga |-> blank, row |-> 0, column |-> 0, reserved |-> 0, astray |-> t.astray]
    <3>1. [t EXCEPT !.reserved = 0]
            = [vga |-> t.vga, row |-> t.row, column |-> t.column, reserved |-> 0, astray |-> t.astray]
      OBVIOUS
    <3>2. w = [[[t EXCEPT !.reserved = 0] EXCEPT !.vga = blank] EXCEPT !.row = 0, !.column = 0]
      BY Zenon DEF terminal_clear, terminal_set_cursor
    <3> HIDE DEF blank, w
    <3>3. QED BY <3>1, <3>2
  <2>2. u = terminal_draw_header(w)
    BY DEF terminal_init
  <2> HIDE DEF w, blank
  <2>3. w.vga = blank /\ w.astray = t.astray
    BY <2>1
  <2>4. terminal_draw_header(w) = [[w EXCEPT !.vga = v, !.reserved = HeaderRows]
                                     EXCEPT !.row = HeaderRows, !.column = 0]
    BY <2>3 DEF terminal_draw_header, terminal_set_cursor
  <2> HIDE DEF v, u
  <2>5. QED BY <2>1, <2>2, <2>4
<1> HIDE DEF u
<1>2. u.vga = v /\ u.row = HeaderRows /\ u.column = 0 /\ u.reserved = HeaderRows /\ ~u.astray
  BY <1>1
<1>3. \A i \in Cells : v[i] = IF i < Width * HeaderRows THEN HeaderCell ELSE Blank
  OBVIOUS
<1>4. v = [i \in Cells |-> v[i]]
  OBVIOUS
<1> HIDE DEF v
<1>5. IsScreen(u)
  BY <1>1, <1>2, <1>4, Sizes DEF IsScreen
<1>6. HeaderKept(u)
  BY <1>2, <1>3 DEF HeaderKept
<1>7. IsPaper(paper) /\ Len(paper) = 1 /\ paper[1] = << >>
  BY Sizes DEF IsPaper
<1>8. ASSUME NEW r \in HeaderRows .. Height - 1 PROVE Row(u, r) = Padded(<< >>)
  <2>1. r \in 0 .. Height - 1 /\ r >= HeaderRows
    BY Sizes
  <2>2. ASSUME NEW c \in 1 .. Width PROVE v[CellOf(r, c)] = Blank
    <3>1. CellOf(r, c) \in Cells /\ CellOf(r, c) >= Width * HeaderRows
      BY <2>1, Geometry
    <3>2. CellOf(r, c) \in Int /\ Width * HeaderRows \in Int
      BY <3>1, Sizes DEF Cells
    <3>3. ~(CellOf(r, c) < Width * HeaderRows)
      BY <3>1, <3>2
    <3>4. QED BY <1>3, <3>1, <3>3
  <2>3. Row(u, r) = [c \in 1 .. Width |-> v[CellOf(r, c)]]
    BY <1>2, RowCells
  <2>4. Padded(<< >>) = [c \in 1 .. Width |-> Blank]
    BY Sizes DEF Padded
  <2>5. QED BY <2>2, <2>3, <2>4
<1> HIDE DEF paper
<1>9. Len(paper) < Height - HeaderRows => u.row = HeaderRows + Len(paper) - 1
  BY <1>2, <1>7, Sizes
<1>10. Len(paper) >= Height - HeaderRows => u.row = Height - 1
  BY <1>2, <1>7, Sizes
<1>11. ASSUME NEW k \in 1 .. Len(paper)
       PROVE  Row(u, u.row - (Len(paper) - k)) = Padded(paper[k])
  <2>1. k = 1 /\ u.row - (Len(paper) - k) = HeaderRows /\ HeaderRows \in HeaderRows .. Height - 1
    BY <1>2, <1>7, Sizes
  <2>2. QED BY <1>7, <1>8, <2>1
<1>12. \A r \in u.row + 1 .. Height - 1 : Row(u, r) = Padded(<< >>)
  <2>1. \A r \in u.row + 1 .. Height - 1 : r \in HeaderRows .. Height - 1
    BY <1>2, Sizes
  <2>2. QED BY <1>8, <2>1
<1>13. u.column = Len(paper[Len(paper)])
  BY <1>2, <1>7
<1>14. Window(u, paper)
  BY <1>2, <1>5, <1>6, <1>7, <1>9, <1>10, <1>11, <1>12, <1>13, WindowFromParts
<1>15. QED BY <1>14 DEF u, paper

-----------------------------------------------------------------------------
\* C strings in input_buffer, and the sequences of characters they stand for.

Line(buffer, line) ==
  /\ DOMAIN buffer = 0 .. InputSize - 1
  /\ line \in Seq(Typed) /\ Len(line) \in 0 .. InputSize - 1
  /\ \A i \in 0 .. Len(line) - 1 : buffer[i] = line[i + 1]

Terminates(buffer, line) == Line(buffer, line) /\ buffer[Len(line)] = NUL

\* Before its end a string has no NUL.
LEMMA NoEarlyEnd ==
  ASSUME NEW buffer, NEW line, Line(buffer, line)
  PROVE  \A i \in 0 .. Len(line) - 1 : buffer[i] \in Typed /\ buffer[i] # NUL
<1>1. Len(line) \in Nat /\ line \in Seq(Typed)
  BY DEF Line
<1>2. \A i \in 0 .. Len(line) - 1 : i + 1 \in 1 .. Len(line)
  BY <1>1
<1>3. QED BY <1>1, <1>2, ShellAssumption DEF Line

\* A literal ends with NUL and has none before.
LEMMA Literals ==
  ASSUME NEW word \in Seq(Typed)
  PROVE  /\ Len(word) \in Nat
         /\ DOMAIN Literal(word) = 0 .. Len(word) /\ Literal(word)[Len(word)] = NUL
         /\ \A i \in 0 .. Len(word) - 1 : Literal(word)[i] = word[i + 1] /\ word[i + 1] # NUL
<1>1. Len(word) \in Nat
  OBVIOUS
<1>2. \A i \in 0 .. Len(word) - 1 : i + 1 \in 1 .. Len(word) /\ i \in 0 .. Len(word) /\ i # Len(word)
  BY <1>1
<1>3. \A i \in 1 .. Len(word) : word[i] # NUL
  BY ShellAssumption
<1>4. Len(word) \in 0 .. Len(word)
  BY <1>1
<1>5. QED BY <1>1, <1>2, <1>3, <1>4 DEF Literal

\* Up to where a comparison of two strings can get.
LEMMA ComparedUpTo ==
  ASSUME NEW buffer, NEW line, Terminates(buffer, line), NEW word \in Seq(Typed),
         NEW i \in DOMAIN buffer \cap DOMAIN Literal(word), Literal(word)[i] = NUL,
         SameBefore(buffer, Literal(word), i)
  PROVE  /\ i = Len(word) /\ i <= Len(line)
         /\ \A c \in 1 .. i : word[c] = line[c]
<1>1. Len(word) \in Nat /\ Len(line) \in Nat /\ InputSize \in Nat
  BY Literals, ShellAssumption DEF Terminates, Line
<1>2. i \in 0 .. Len(word) /\ i \in Nat
  BY Literals
<1>3. i = Len(word)
  <2>1. i \in 0 .. Len(word) - 1 => Literal(word)[i] # NUL
    BY Literals
  <2>2. QED BY <1>1, <1>2, <2>1
<1>4. i <= Len(line)
  <2>1. Len(line) \in 0 .. i - 1 => buffer[Len(line)] # NUL
    BY DEF SameBefore
  <2>2. Len(line) \notin 0 .. i - 1
    BY <2>1 DEF Terminates
  <2>3. QED BY <1>1, <1>2, <2>2
<1>5. ASSUME NEW c \in 1 .. i PROVE word[c] = line[c]
  <2>1. /\ c - 1 \in 0 .. i - 1 /\ c - 1 \in 0 .. Len(word) - 1 /\ c - 1 \in 0 .. Len(line) - 1
        /\ (c - 1) + 1 = c
    BY <1>1, <1>2, <1>3, <1>4
  <2> DEFINE j == c - 1
  <2> HIDE DEF j
  <2>2. j \in 0 .. i - 1 /\ j \in 0 .. Len(word) - 1 /\ j \in 0 .. Len(line) - 1 /\ j + 1 = c
    BY <2>1 DEF j
  <2>3. buffer[j] = Literal(word)[j]
    BY <2>2 DEF SameBefore
  <2>4. Literal(word)[j] = word[j + 1]
    BY <2>2, Literals
  <2>5. buffer[j] = line[j + 1]
    BY <2>2 DEF Terminates, Line
  <2>6. QED BY <2>2, <2>3, <2>4, <2>5
<1>6. QED BY <1>3, <1>4, <1>5

\* A line that begins with a word agrees with it up to the word's end.
LEMMA AgreesUpTo ==
  ASSUME NEW buffer, NEW line, Terminates(buffer, line), NEW word \in Seq(Typed),
         Len(word) <= Len(line), \A c \in 1 .. Len(word) : word[c] = line[c]
  PROVE  /\ Len(word) \in DOMAIN buffer \cap DOMAIN Literal(word)
         /\ Literal(word)[Len(word)] = NUL /\ SameBefore(buffer, Literal(word), Len(word))
<1>1. Len(word) \in Nat /\ Len(line) \in Nat /\ InputSize \in Nat /\ Len(line) <= InputSize - 1
  BY Literals, ShellAssumption DEF Terminates, Line
<1>2. Len(word) \in DOMAIN buffer \cap DOMAIN Literal(word)
  <2>1. Len(word) \in 0 .. InputSize - 1 /\ Len(word) \in 0 .. Len(word)
    BY <1>1
  <2>2. QED BY <2>1, Literals DEF Terminates, Line
<1>3. ASSUME NEW j \in 0 .. Len(word) - 1
      PROVE  buffer[j] = Literal(word)[j] /\ buffer[j] # NUL
  <2>1. j \in 0 .. Len(line) - 1 /\ j + 1 \in 1 .. Len(word)
    BY <1>1
  <2>2. buffer[j] = line[j + 1] /\ buffer[j] # NUL
    BY <2>1, NoEarlyEnd DEF Terminates, Line
  <2>3. QED BY <2>1, <2>2, Literals
<1>4. QED BY <1>2, <1>3, Literals DEF SameBefore

\* A prefix, character by character.
LEMMA PrefixMeans ==
  ASSUME NEW word \in Seq(Typed), NEW line \in Seq(Typed)
  PROVE  IsPrefix(word, line) <=> Len(word) <= Len(line) /\ \A c \in 1 .. Len(word) : word[c] = line[c]
BY DEF IsPrefix

\* string_compare finds the word that is the line.
LEMMA FindsWord ==
  ASSUME NEW buffer, NEW line, Terminates(buffer, line), NEW word \in Seq(Typed)
  PROVE  string_compare(buffer, Literal(word)) <=> line = word
<1>0. line \in Seq(Typed) /\ Len(line) \in Nat /\ Len(word) \in Nat
  BY Literals DEF Terminates, Line
<1>1. ASSUME string_compare(buffer, Literal(word)) PROVE line = word
  <2>1. PICK i \in DOMAIN buffer \cap DOMAIN Literal(word) :
          buffer[i] = NUL /\ Literal(word)[i] = NUL /\ SameBefore(buffer, Literal(word), i)
    BY <1>1 DEF string_compare
  <2>2. i = Len(word) /\ i <= Len(line) /\ \A c \in 1 .. i : word[c] = line[c]
    BY <2>1, ComparedUpTo
  <2>3. i \notin 0 .. Len(line) - 1
    BY <2>1, NoEarlyEnd DEF Terminates
  <2>4. i = Len(line)
    BY <1>0, <2>2, <2>3
  <2>5. QED BY <1>0, <2>2, <2>4, SameSequence
<1>2. ASSUME line = word PROVE string_compare(buffer, Literal(word))
  <2>1. /\ Len(word) \in DOMAIN buffer \cap DOMAIN Literal(word)
        /\ Literal(word)[Len(word)] = NUL /\ SameBefore(buffer, Literal(word), Len(word))
    BY <1>0, <1>2, AgreesUpTo
  <2>2. buffer[Len(word)] = NUL
    BY <1>2 DEF Terminates
  <2>3. QED BY <2>1, <2>2 DEF string_compare
<1>3. QED BY <1>1, <1>2

\* string_starts_with finds the prefixes of the line.
LEMMA FindsPrefix ==
  ASSUME NEW buffer, NEW line, Terminates(buffer, line), NEW word \in Seq(Typed)
  PROVE  string_starts_with(buffer, Literal(word)) <=> IsPrefix(word, line)
<1>0. line \in Seq(Typed)
  BY DEF Terminates, Line
<1>1. ASSUME string_starts_with(buffer, Literal(word)) PROVE IsPrefix(word, line)
  <2>1. PICK i \in DOMAIN buffer \cap DOMAIN Literal(word) :
          Literal(word)[i] = NUL /\ SameBefore(buffer, Literal(word), i)
    BY <1>1 DEF string_starts_with
  <2>2. i = Len(word) /\ i <= Len(line) /\ \A c \in 1 .. i : word[c] = line[c]
    BY <2>1, ComparedUpTo
  <2>3. QED BY <1>0, <2>2, PrefixMeans
<1>2. ASSUME IsPrefix(word, line) PROVE string_starts_with(buffer, Literal(word))
  <2>1. Len(word) <= Len(line) /\ \A c \in 1 .. Len(word) : word[c] = line[c]
    BY <1>0, <1>2, PrefixMeans
  <2>2. QED BY <2>1, AgreesUpTo DEF string_starts_with
<1>3. QED BY <1>1, <1>2

\* command + Len(word) is what follows the word on the line.
LEMMA RestOfLine ==
  ASSUME NEW buffer, NEW line, Terminates(buffer, line), NEW word \in Seq(Typed),
         IsPrefix(word, line)
  PROVE  From(buffer, Len(word)) \in Seq(Typed) /\ line = word \o From(buffer, Len(word))
<1> DEFINE n == Len(line)
<1> DEFINE m == Len(word)
<1> DEFINE ends == {j \in DOMAIN buffer : j >= m /\ buffer[j] = NUL}
<1>1. line \in Seq(Typed) /\ n \in Nat /\ m \in Nat /\ InputSize \in Nat /\ n <= InputSize - 1
      /\ m <= n
  BY Literals, PrefixMeans, ShellAssumption DEF Terminates, Line
<1>2. DOMAIN buffer = 0 .. InputSize - 1 /\ buffer[n] = NUL
  BY DEF Terminates, Line
<1>3. \A j \in 0 .. n - 1 : buffer[j] \in Typed /\ buffer[j] # NUL
  BY NoEarlyEnd DEF Terminates
<1>4. n \in ends
  BY <1>1, <1>2
<1>5. \A j \in ends : j \in Int /\ n <= j
  BY <1>1, <1>2, <1>3
<1>6. ends # {} /\ Min(ends) = n
  BY <1>1, <1>4, <1>5 DEF Min
<1> DEFINE rest == [k \in 1 .. n - m |-> buffer[m + k - 1]]
<1>7. From(buffer, m) = rest
  BY <1>6 DEF From
<1> HIDE DEF ends
<1>8. ASSUME NEW k \in 1 .. n - m PROVE rest[k] = line[m + k] /\ line[m + k] \in Typed
  <2>1. m + k - 1 \in 0 .. n - 1 /\ (m + k - 1) + 1 = m + k /\ m + k \in 1 .. n
    BY <1>1
  <2> DEFINE j == m + k - 1
  <2>2. rest[k] = buffer[j]
    OBVIOUS
  <2>3. j \in 0 .. n - 1 /\ j + 1 = m + k
    BY <2>1
  <2> HIDE DEF j
  <2>4. buffer[j] = line[j + 1]
    BY <2>3 DEF Terminates, Line
  <2>5. QED BY <1>1, <2>1, <2>2, <2>3, <2>4
<1>9. rest \in Seq(Typed) /\ Len(rest) = n - m
  <2>1. n - m \in Nat
    BY <1>1
  <2>2. rest \in [1 .. n - m -> Typed]
    BY <1>8
  <2> HIDE DEF rest, n, m
  <2>3. QED BY <2>1, <2>2, AsSequence
<1>10. line = word \o rest
  <2> HIDE DEF rest
  <2>1. word \o rest \in Seq(Typed) /\ Len(word \o rest) = n
    BY <1>1, <1>9
  <2>2. ASSUME NEW c \in 1 .. n PROVE line[c] = (word \o rest)[c]
    <3>1. CASE c <= m
      <4>1. c \in 1 .. m
        BY <1>1, <3>1
      <4>2. (word \o rest)[c] = word[c]
        BY <1>9, <4>1
      <4>3. QED BY <1>1, <4>1, <4>2, PrefixMeans
    <3>2. CASE c > m
      <4>1. c - m \in 1 .. n - m /\ m + (c - m) = c
        BY <1>1, <3>2
      <4>2. (word \o rest)[c] = rest[c - m]
        BY <1>1, <1>9, <3>2
      <4>3. QED BY <1>8, <4>1, <4>2
    <3>3. c \in Int /\ m \in Int
      BY <1>1
    <3>4. c <= m \/ c > m
      BY <3>3
    <3>5. QED BY <3>1, <3>2, <3>4
  <2>3. QED BY <1>1, <2>1, <2>2, SameSequence
<1>11. QED BY <1>7, <1>9, <1>10

\* Command c is the one that a line means.
Answers(c, line) ==
  /\ c.name \in {"print", "clear", "reboot", "launch", "echo", "unknown"}
  /\ c.argument \in Seq(Typed)
  /\ c.name = "print" <=> line \in Words
  /\ c.name = "clear" <=> line = Clear
  /\ c.name = "reboot" <=> line = Reboot
  /\ c.name = "launch" => line = Launch \o c.argument
  /\ c.name = "echo" => line = Echo \o c.argument
  /\ c.name = "unknown" => ~IsPrefix(Launch, line) /\ ~IsPrefix(Echo, line)

\* At most one of shell_execute's tests succeeds.
LEMMA OneTest ==
  ASSUME NEW line \in Seq(Typed)
  PROVE  /\ line \in Words => line # Clear /\ line # Reboot
         /\ line = Clear => line # Reboot
         /\ line \in Words \/ line = Clear \/ line = Reboot =>
              ~IsPrefix(Launch, line) /\ ~IsPrefix(Echo, line)
         /\ ~(IsPrefix(Launch, line) /\ IsPrefix(Echo, line))
<1>1. Launch \in Seq(Typed) /\ Echo \in Seq(Typed) /\ ~IsPrefix(Launch, Echo) /\ ~IsPrefix(Echo, Launch)
  BY ShellAssumption
<1>2. ASSUME IsPrefix(Launch, line), IsPrefix(Echo, line) PROVE FALSE
  <2>1. /\ \A c \in 1 .. Len(Launch) : Launch[c] = line[c]
        /\ \A c \in 1 .. Len(Echo) : Echo[c] = line[c]
    BY <1>1, <1>2, PrefixMeans
  <2>2. Len(Launch) \in Nat /\ Len(Echo) \in Nat
    BY <1>1
  <2>3. CASE Len(Launch) <= Len(Echo)
    <3>1. \A c \in 1 .. Len(Launch) : Launch[c] = Echo[c]
      BY <2>1, <2>2, <2>3
    <3>2. QED BY <1>1, <2>3, <3>1, PrefixMeans
  <2>4. CASE Len(Echo) <= Len(Launch)
    <3>1. \A c \in 1 .. Len(Echo) : Echo[c] = Launch[c]
      BY <2>1, <2>2, <2>4
    <3>2. QED BY <1>1, <2>4, <3>1, PrefixMeans
  <2>5. QED BY <2>2, <2>3, <2>4
<1>3. Clear # Reboot /\ Clear \notin Words /\ Reboot \notin Words
  BY ShellAssumption
<1>4. \A word \in {Clear, Reboot} \cup Words : ~IsPrefix(Launch, word) /\ ~IsPrefix(Echo, word)
  BY ShellAssumption
<1>5. QED BY <1>2, <1>3, <1>4

\* shell_execute answers to the line in the buffer, by the first test that finds it.
LEMMA Executes ==
  ASSUME NEW buffer, NEW line, Terminates(buffer, line)
  PROVE  Answers(shell_execute(buffer), line)
<1> DEFINE print == \E word \in Words : string_compare(buffer, Literal(word))
<1> DEFINE clear == string_compare(buffer, Literal(Clear))
<1> DEFINE reboot == string_compare(buffer, Literal(Reboot))
<1> DEFINE launch == string_starts_with(buffer, Literal(Launch))
<1> DEFINE echo == string_starts_with(buffer, Literal(Echo))
<1> DEFINE c == shell_execute(buffer)
<1>0. line \in Seq(Typed)
  BY DEF Terminates, Line
<1>1. {Clear, Reboot, Echo, Launch} \cup Words \subseteq Seq(Typed)
  BY ShellAssumption
<1>2. print <=> line \in Words
  BY <1>1, FindsWord
<1>3. (clear <=> line = Clear) /\ (reboot <=> line = Reboot)
  BY <1>1, FindsWord
<1>4. (launch <=> IsPrefix(Launch, line)) /\ (echo <=> IsPrefix(Echo, line))
  BY <1>1, FindsPrefix
<1>5. c = CASE print -> [name |-> "print", argument |-> << >>]
            [] clear -> [name |-> "clear", argument |-> << >>]
            [] reboot -> [name |-> "reboot", argument |-> << >>]
            [] launch -> [name |-> "launch", argument |-> From(buffer, Len(Launch))]
            [] echo -> [name |-> "echo", argument |-> From(buffer, Len(Echo))]
            [] OTHER -> [name |-> "unknown", argument |-> << >>]
  BY DEF shell_execute
<1> HIDE DEF print, clear, reboot, launch, echo, c
<1>6. /\ line \in Words => line # Clear /\ line # Reboot
      /\ line = Clear => line # Reboot
      /\ line \in Words \/ line = Clear \/ line = Reboot =>
           ~IsPrefix(Launch, line) /\ ~IsPrefix(Echo, line)
      /\ ~(IsPrefix(Launch, line) /\ IsPrefix(Echo, line))
  BY <1>0, OneTest
<1>7. /\ print => ~clear /\ ~reboot /\ ~launch /\ ~echo
      /\ clear => ~reboot /\ ~launch /\ ~echo
      /\ reboot => ~launch /\ ~echo
      /\ launch => ~echo
  BY <1>2, <1>3, <1>4, <1>6
<1>8. << >> \in Seq(Typed)
  OBVIOUS
<1>9. CASE print
  <2>1. c = [name |-> "print", argument |-> << >>]
    BY <1>5, <1>7, <1>9
  <2>2. QED BY <1>2, <1>3, <1>7, <1>8, <1>9, <2>1 DEF Answers, c
<1>10. CASE clear
  <2>1. c = [name |-> "clear", argument |-> << >>]
    BY <1>5, <1>7, <1>10
  <2>2. QED BY <1>2, <1>3, <1>7, <1>8, <1>10, <2>1 DEF Answers, c
<1>11. CASE reboot
  <2>1. c = [name |-> "reboot", argument |-> << >>]
    BY <1>5, <1>7, <1>11
  <2>2. QED BY <1>2, <1>3, <1>7, <1>8, <1>11, <2>1 DEF Answers, c
<1>12. CASE launch
  <2>1. c = [name |-> "launch", argument |-> From(buffer, Len(Launch))]
    BY <1>5, <1>7, <1>12
  <2>2. /\ From(buffer, Len(Launch)) \in Seq(Typed)
        /\ line = Launch \o From(buffer, Len(Launch))
    BY <1>1, <1>4, <1>12, RestOfLine
  <2>3. QED BY <1>2, <1>3, <1>7, <1>12, <2>1, <2>2 DEF Answers, c
<1>13. CASE echo
  <2>1. c = [name |-> "echo", argument |-> From(buffer, Len(Echo))]
    BY <1>5, <1>7, <1>13
  <2>2. /\ From(buffer, Len(Echo)) \in Seq(Typed)
        /\ line = Echo \o From(buffer, Len(Echo))
    BY <1>1, <1>4, <1>13, RestOfLine
  <2>3. QED BY <1>2, <1>3, <1>7, <1>13, <2>1, <2>2 DEF Answers, c
<1>14. CASE ~print /\ ~clear /\ ~reboot /\ ~launch /\ ~echo
  <2>1. c = [name |-> "unknown", argument |-> << >>]
    BY <1>5, <1>14
  <2>2. QED BY <1>2, <1>3, <1>4, <1>8, <1>14, <2>1 DEF Answers, c
<1>15. QED BY <1>9, <1>10, <1>11, <1>12, <1>13, <1>14

-----------------------------------------------------------------------------
\* The line under the editor's operations.

\* An empty line is in every buffer.
LEMMA LineStarts ==
  ASSUME NEW buffer, DOMAIN buffer = 0 .. InputSize - 1
  PROVE  Line(buffer, << >>)
BY ShellAssumption DEF Line

\* A character is put at the end of the line.
LEMMA LineGrows ==
  ASSUME NEW buffer, NEW line, Line(buffer, line), NEW character \in Typed,
         ~(Len(line) + 1 >= InputSize)
  PROVE  /\ Line([buffer EXCEPT ![Len(line)] = character], Append(line, character))
         /\ Len(Append(line, character)) = Len(line) + 1
         /\ Len(line) + 1 \in 0 .. InputSize - 1 /\ Len(line) \in 0 .. InputSize - 1
<1> DEFINE b == [buffer EXCEPT ![Len(line)] = character]
<1> DEFINE l == Append(line, character)
<1>1. /\ DOMAIN buffer = 0 .. InputSize - 1 /\ line \in Seq(Typed) /\ Len(line) \in Nat
      /\ InputSize \in Nat
      /\ \A i \in 0 .. Len(line) - 1 : buffer[i] = line[i + 1]
  BY ShellAssumption DEF Line
<1>2. /\ l \in Seq(Typed) /\ Len(l) = Len(line) + 1 /\ l[Len(line) + 1] = character
      /\ \A i \in 1 .. Len(line) : l[i] = line[i]
  BY <1>1
<1>3. Len(line) \in 0 .. InputSize - 1 /\ Len(line) + 1 \in 0 .. InputSize - 1
  BY <1>1
<1>4. /\ DOMAIN b = 0 .. InputSize - 1 /\ b[Len(line)] = character
      /\ \A i \in 0 .. InputSize - 1 : i # Len(line) => b[i] = buffer[i]
  BY <1>1, <1>3
<1> HIDE DEF b, l
<1>5. ASSUME NEW i \in 0 .. Len(l) - 1 PROVE b[i] = l[i + 1]
  <2>1. i \in Nat /\ i <= Len(line) /\ i \in 0 .. InputSize - 1
    BY <1>1, <1>2, <1>3
  <2>2. CASE i = Len(line)
    BY <1>2, <1>4, <2>2
  <2>3. CASE i # Len(line)
    <3>1. i \in 0 .. Len(line) - 1 /\ i + 1 \in 1 .. Len(line)
      BY <1>1, <2>1, <2>3
    <3>2. QED BY <1>1, <1>2, <1>4, <2>1, <2>3, <3>1
  <2>4. QED BY <2>2, <2>3
<1>6. Line(b, l)
  BY <1>2, <1>3, <1>4, <1>5 DEF Line
<1>7. QED BY <1>2, <1>3, <1>6 DEF b, l

\* Backspace leaves the rest of the line in the buffer.
LEMMA LineShrinks ==
  ASSUME NEW buffer, NEW line, Line(buffer, line), line # << >>
  PROVE  Line(buffer, Front(line)) /\ Len(Front(line)) = Len(line) - 1 /\ Len(line) > 0
<1>1. /\ DOMAIN buffer = 0 .. InputSize - 1 /\ line \in Seq(Typed) /\ InputSize \in Nat
      /\ Len(line) <= InputSize - 1 /\ \A i \in 0 .. Len(line) - 1 : buffer[i] = line[i + 1]
  BY ShellAssumption DEF Line
<1>2. /\ Len(line) \in Nat \ {0} /\ Front(line) \in Seq(Typed) /\ Len(Front(line)) = Len(line) - 1
      /\ \A c \in 1 .. Len(line) - 1 : Front(line)[c] = line[c]
  BY <1>1, Shorter
<1>3. Len(Front(line)) \in 0 .. InputSize - 1
  BY <1>1, <1>2
<1>4. ASSUME NEW i \in 0 .. Len(Front(line)) - 1 PROVE buffer[i] = Front(line)[i + 1]
  <2>1. i \in 0 .. Len(line) - 1 /\ i + 1 \in 1 .. Len(line) - 1
    BY <1>2
  <2>2. QED BY <1>1, <1>2, <2>1
<1>5. QED BY <1>1, <1>2, <1>3, <1>4 DEF Line

\* The NUL ends the line where it ends.
LEMMA LineEnds ==
  ASSUME NEW buffer, NEW line, Line(buffer, line)
  PROVE  Terminates([buffer EXCEPT ![Len(line)] = NUL], line)
<1> DEFINE b == [buffer EXCEPT ![Len(line)] = NUL]
<1>1. /\ DOMAIN buffer = 0 .. InputSize - 1 /\ line \in Seq(Typed) /\ Len(line) \in Nat
      /\ InputSize \in Nat /\ Len(line) \in 0 .. InputSize - 1
      /\ \A i \in 0 .. Len(line) - 1 : buffer[i] = line[i + 1]
  BY ShellAssumption DEF Line
<1>2. /\ DOMAIN b = 0 .. InputSize - 1 /\ b[Len(line)] = NUL
      /\ \A i \in 0 .. InputSize - 1 : i # Len(line) => b[i] = buffer[i]
  BY <1>1
<1> HIDE DEF b
<1>3. \A i \in 0 .. Len(line) - 1 : i \in 0 .. InputSize - 1 /\ i # Len(line)
  BY <1>1
<1>4. Terminates(b, line)
  BY <1>1, <1>2, <1>3 DEF Terminates, Line
<1>5. QED BY <1>4 DEF b

\* The characters of EchoAgrees are the line.
LEMMA LineShown ==
  ASSUME NEW buffer, NEW line, Line(buffer, line)
  PROVE  [i \in 1 .. Len(line) |-> buffer[i - 1]] = line
<1>1. line \in Seq(Typed) /\ Len(line) \in Nat
      /\ \A i \in 0 .. Len(line) - 1 : buffer[i] = line[i + 1]
  BY DEF Line
<1>2. ASSUME NEW i \in 1 .. Len(line) PROVE buffer[i - 1] = line[i]
  <2> DEFINE j == i - 1
  <2>1. j \in 0 .. Len(line) - 1 /\ j + 1 = i
    BY <1>1
  <2> HIDE DEF j
  <2>2. buffer[j] = line[i]
    BY <1>1, <2>1
  <2>3. QED BY <2>2 DEF j
<1>3. QED BY <1>1, <1>2

\* The row of the prompt and the line, as the line grows and shrinks.
LEMMA PromptAndLine ==
  ASSUME NEW line \in Seq(Typed)
  PROVE  /\ \A character \in Typed : Append(Prompt \o line, character) = Prompt \o Append(line, character)
         /\ line # << >> => Prompt \o line # << >> /\ Front(Prompt \o line) = Prompt \o Front(line)
         /\ Prompt \o << >> = Prompt
<1> DEFINE S == Glyphs
<1>1. Prompt \in Seq(S) /\ line \in Seq(S) /\ Len(Prompt) \in Nat /\ Len(line) \in Nat
  <2>1. Prompt \in Seq({Prompt[i] : i \in 1 .. Len(Prompt)})
    BY TerminalAssumption
  <2>2. \A i \in 1 .. Len(Prompt) : Prompt[i] \in Glyphs
    BY DEF Glyphs
  <2>3. \A i \in 1 .. Len(line) : line[i] \in Glyphs
    BY DEF Glyphs
  <2>4. QED BY <2>1, <2>2, <2>3
<1> HIDE DEF S
<1>2. Prompt \o << >> = Prompt
  BY <1>1
<1>3. ASSUME NEW character \in S
      PROVE  Append(Prompt \o line, character) = Prompt \o Append(line, character)
  <2> DEFINE s == Append(Prompt \o line, character)
  <2> DEFINE t == Prompt \o Append(line, character)
  <2>1. s \in Seq(S) /\ t \in Seq(S) /\ Len(s) = Len(Prompt) + Len(line) + 1 /\ Len(s) = Len(t)
    BY <1>1
  <2>2. \A i \in 1 .. Len(s) : s[i] = t[i]
    BY <1>1
  <2> HIDE DEF s, t
  <2>3. s = t
    BY <2>1, <2>2, SameSequence
  <2>4. QED BY <2>3 DEF s, t
<1>4. ASSUME line # << >>
      PROVE  Prompt \o line # << >> /\ Front(Prompt \o line) = Prompt \o Front(line)
  <2> DEFINE s == Prompt \o line
  <2> DEFINE t == Prompt \o Front(line)
  <2>1. /\ Len(line) \in Nat \ {0} /\ Front(line) \in Seq(S) /\ Len(Front(line)) = Len(line) - 1
        /\ \A c \in 1 .. Len(line) - 1 : Front(line)[c] = line[c]
    BY <1>1, <1>4, Shorter
  <2>2. s \in Seq(S) /\ Len(s) = Len(Prompt) + Len(line) /\ s # << >>
    BY <1>1, <2>1
  <2>3. t \in Seq(S) /\ Len(t) = Len(Prompt) + Len(line) - 1
    <3>1. t \in Seq(S) /\ Len(t) = Len(Prompt) + Len(Front(line))
      BY <1>1, <2>1, Joined
    <3>2. QED BY <1>1, <2>1, <3>1
  <2>4. ASSUME NEW i \in 1 .. Len(t) PROVE s[i] = t[i]
    BY <1>1, <2>1, <2>3
  <2> HIDE DEF s, t
  <2>5. /\ Front(s) \in Seq(S) /\ Len(Front(s)) = Len(s) - 1
        /\ \A c \in 1 .. Len(s) - 1 : Front(s)[c] = s[c]
    BY <2>2, Shorter
  <2>6. Front(s) = t
    <3>1. Len(Front(s)) = Len(t) /\ Len(s) - 1 = Len(t)
      BY <1>1, <2>2, <2>3, <2>5
    <3>2. QED BY <2>3, <2>4, <2>5, <3>1, SameSequence
  <2>7. QED BY <2>2, <2>6 DEF s, t
<1>5. Typed \subseteq S
  BY DEF S, Glyphs
<1>6. QED BY <1>2, <1>3, <1>4, <1>5

\* What printing does to the last row of the paper.
LEMMA PrintedRow ==
  ASSUME NEW paper, IsPaper(paper)
  PROVE  /\ Printed(paper, LineFeed)[Len(Printed(paper, LineFeed))] = << >>
         /\ \A character \in Typed :
              Len(paper[Len(paper)]) < Width =>
                Printed(paper, character)[Len(Printed(paper, character))]
                  = Append(paper[Len(paper)], character)
<1>1. paper \in Seq(Seq(Glyphs)) /\ Len(paper) \in 1 .. Len(paper) /\ Len(paper) \in Nat
  BY DEF IsPaper
<1>2. Printed(paper, LineFeed) = Append(paper, << >>)
  BY DEF Printed
<1>3. Append(paper, << >>)[Len(Append(paper, << >>))] = << >>
  BY <1>1
<1>4. ASSUME NEW character \in Typed, Len(paper[Len(paper)]) < Width
      PROVE  Printed(paper, character)[Len(Printed(paper, character))]
               = Append(paper[Len(paper)], character)
  <2> DEFINE row == paper[Len(paper)]
  <2> DEFINE new == [paper EXCEPT ![Len(paper)] = Append(row, character)]
  <2>1. character # LineFeed
    BY ShellAssumption
  <2>2. row \in Seq(Glyphs) /\ Len(row) \in Nat
    BY <1>1
  <2>3. Len(row) # Width
    BY <1>4, <2>2, Sizes
  <2>4. Printed(paper, character) = new
    BY <2>1, <2>3 DEF Printed
  <2>5. character \in Glyphs
    BY DEF Glyphs
  <2>6. Append(row, character) \in Seq(Glyphs)
    BY <2>2, <2>5
  <2> HIDE DEF row
  <2>7. Len(new) = Len(paper) /\ new[Len(paper)] = Append(row, character)
    BY <1>1, <2>6
  <2>8. QED BY <2>4, <2>7 DEF row
<1>5. QED BY <1>2, <1>3, <1>4

-----------------------------------------------------------------------------
(***************************************************************************)
(* The inductive invariant.  The window carries the shape of the screen    *)
(* and of the paper, which their operations need; what follows the prompt  *)
(* is said of typed, which input_buffer holds, so that nothing has to be   *)
(* known of the rest of input_buffer; and echo's argument is characters    *)
(* that were typed, which the screen shows one by one.                     *)
(***************************************************************************)
Editing == Line(input_buffer, typed) /\ input_length = Len(typed)

Echoed == pc = "input" /\ ~wrapped => transcript[Len(transcript)] = Prompt \o typed

Executing ==
  /\ command.argument \in Seq(Typed) /\ echoed \in 0 .. Len(command.argument)
  /\ pc = "input" => echoed = 0
  /\ pc = "output" /\ command.name # "kmain" => Answers(command, typed)

ShellInv == TypeOK /\ Window(terminal, transcript) /\ Editing /\ Echoed /\ Executing

\* Where the cursor may be.
LEMMA WindowTypes ==
  ASSUME NEW t, NEW paper, Window(t, paper)
  PROVE  t.row \in HeaderRows .. Height - 1 /\ t.column \in 0 .. Width /\ t.reserved = HeaderRows
BY DEF Window, IsScreen

\* kmain has cleared the screen; nothing has been printed.
LEMMA InvInit ==
  ASSUME Init
  PROVE  ShellInv
<1>1. Window(terminal, transcript)
  <2> DEFINE t == PowerOn
  <2>1. /\ t = [vga |-> t.vga, row |-> t.row, column |-> t.column, reserved |-> t.reserved,
                astray |-> t.astray]
        /\ ~t.astray
    BY DEF PowerOn
  <2> HIDE DEF t
  <2>2. Window(terminal_init(t), << << >> >>)
    BY <2>1, ClearWindow
  <2>3. QED BY <2>2 DEF Init, t
<1>2. /\ input_length = 0 /\ pc = "output" /\ command = [name |-> "kmain", argument |-> << >>]
      /\ echoed = 0 /\ typed = << >> /\ wrapped = FALSE
      /\ input_buffer = [i \in 0 .. InputSize - 1 |-> Garbage]
  BY DEF Init
<1>3. input_length \in 0 .. InputSize - 1
  BY <1>2, ShellAssumption
<1>4. TypeOK
  BY <1>1, <1>2, <1>3, WindowTypes DEF TypeOK
<1>5. Editing
  BY <1>2, LineStarts DEF Editing
<1>6. Executing
  BY <1>2 DEF Executing
<1>7. Echoed
  BY <1>2 DEF Echoed
<1>8. QED BY <1>1, <1>4, <1>5, <1>6, <1>7 DEF ShellInv

\* Every command ends, on a fresh row, with a prompt and an empty line.
LEMMA InvPromptAgain ==
  ASSUME NEW screen, NEW paper, Window(screen, paper), paper[Len(paper)] = << >>,
         PromptAgain(screen, paper),
         input_buffer' \in [0 .. InputSize - 1 -> Typed \cup {NUL, Garbage}]
  PROVE  ShellInv'
<1> DEFINE new == [paper EXCEPT ![Len(paper)] = @ \o Prompt]
<1>1. /\ Window(terminal_prompt(screen), new) /\ new[Len(paper)] = Prompt /\ Len(new) = Len(paper)
  BY PromptAfter
<1>2. /\ terminal' = terminal_prompt(screen) /\ transcript' = new /\ input_length' = 0
      /\ command' = NoCommand /\ echoed' = 0 /\ typed' = << >> /\ wrapped' = FALSE /\ pc' = "input"
  BY Zenon DEF PromptAgain
<1> HIDE DEF new
<1>3. Window(terminal, transcript)'
  BY <1>1, <1>2
<1>4. input_length' \in 0 .. InputSize - 1
  BY <1>2, ShellAssumption
<1>5. command'.name = "none" /\ command'.argument = << >>
  BY <1>2 DEF NoCommand
<1>6. TypeOK'
  <2>1. (/\ terminal.row \in HeaderRows .. Height - 1 /\ terminal.column \in 0 .. Width
         /\ terminal.reserved = HeaderRows)'
    BY <1>3, WindowTypes
  <2>2. QED BY <1>2, <1>4, <1>5, <2>1 DEF TypeOK
<1>7. Editing'
  BY <1>2, LineStarts DEF Editing
<1>8. Executing'
  BY <1>2, <1>5 DEF Executing
<1>9. Echoed'
  <2>1. Prompt \o << >> = Prompt
    BY TerminalAssumption
  <2>2. QED BY <1>1, <1>2, <2>1 DEF Echoed
<1>10. QED BY <1>3, <1>6, <1>7, <1>8, <1>9 DEF ShellInv

\* A line feed, and then the prompt.
LEMMA FeedAndPrompt ==
  ASSUME ShellInv,
         PromptAgain(terminal_write_char(terminal, LineFeed), Printed(transcript, LineFeed)),
         input_buffer' \in [0 .. InputSize - 1 -> Typed \cup {NUL, Garbage}]
  PROVE  ShellInv'
<1> DEFINE screen == terminal_write_char(terminal, LineFeed)
<1> DEFINE paper == Printed(transcript, LineFeed)
<1>1. Window(screen, paper)
  BY WriteWindow DEF ShellInv
<1>2. paper[Len(paper)] = << >>
  BY PrintedRow DEF ShellInv, Window
<1> HIDE DEF screen, paper
<1>3. PromptAgain(screen, paper)
  BY DEF screen, paper
<1>4. QED BY <1>1, <1>2, <1>3, InvPromptAgain

\* Backspace takes one character off line, buffer and screen.
LEMMA InvTypeBackspace ==
  ASSUME ShellInv, TypeBackspace
  PROVE  ShellInv'
<1>1. /\ pc = "input" /\ UNCHANGED <<input_buffer, pc, command, echoed, wrapped>>
      /\ typed' = (IF typed = << >> THEN typed ELSE Front(typed))
  BY DEF TypeBackspace
<1>2. Line(input_buffer, typed) /\ input_length = Len(typed) /\ typed \in Seq(Typed)
  BY DEF ShellInv, Editing, Line
<1>3. Executing'
  BY <1>1 DEF ShellInv, Executing
<1>4. CASE typed = << >>
  <2>1. input_length = 0 /\ ~(input_length > 0)
    BY <1>2, <1>4
  <2>2. input_length' = 0 /\ UNCHANGED <<terminal, transcript>>
    BY <2>1 DEF TypeBackspace, EraseScreen
  <2>3. typed' = typed
    BY <1>1, <1>4
  <2>4. TypeOK' /\ Window(terminal, transcript)' /\ Editing' /\ Echoed'
    BY <1>1, <2>1, <2>2, <2>3 DEF ShellInv, TypeOK, Editing, Echoed, Line
  <2>5. QED BY <1>3, <2>4 DEF ShellInv
<1>5. CASE typed # << >>
  <2>1. Line(input_buffer, Front(typed)) /\ Len(Front(typed)) = Len(typed) - 1 /\ Len(typed) > 0
    BY <1>2, <1>5, LineShrinks
  <2>2. input_length > 0
    BY <1>2, <2>1
  <2>3. input_length' = input_length - 1 /\ terminal' = terminal_backspace(terminal)
        /\ transcript' = Erased
    BY <2>2 DEF TypeBackspace, EraseScreen
  <2>4. typed' = Front(typed)
    BY <1>1, <1>5
  <2>5. Editing'
    BY <1>1, <1>2, <2>1, <2>3, <2>4 DEF Editing
  <2> DEFINE row == transcript[Len(transcript)]
  <2> DEFINE new == IF row = << >> THEN transcript
                                   ELSE [transcript EXCEPT ![Len(transcript)] = Front(row)]
  <2>6. Window(terminal_backspace(terminal), new)
    BY BackspaceWindow DEF ShellInv
  <2>7. transcript' = new
    BY <2>3 DEF Erased, LastRow
  <2>8. Window(terminal, transcript)'
    BY <2>3, <2>6, <2>7
  <2>9. input_length' \in 0 .. InputSize - 1
    <3>1. input_length \in 0 .. InputSize - 1 /\ InputSize \in Nat
      BY ShellAssumption DEF ShellInv, TypeOK
    <3>2. input_length - 1 \in 0 .. InputSize - 1
      BY <2>2, <3>1
    <3>3. QED BY <2>3, <3>2
  <2>10. TypeOK'
    <3>1. (/\ terminal.row \in HeaderRows .. Height - 1 /\ terminal.column \in 0 .. Width
           /\ terminal.reserved = HeaderRows)'
      BY <2>8, WindowTypes
    <3>2. QED BY <1>1, <2>9, <3>1 DEF ShellInv, TypeOK
  <2>11. Echoed'
    <3>1. SUFFICES ASSUME ~wrapped PROVE transcript'[Len(transcript')] = Prompt \o Front(typed)
      BY <1>1, <2>4 DEF Echoed
    <3>2. row = Prompt \o typed
      BY <1>1, <3>1 DEF ShellInv, Echoed
    <3>3. row # << >> /\ Front(row) = Prompt \o Front(typed)
      BY <1>2, <1>5, <3>2, PromptAndLine
    <3>4. new = [transcript EXCEPT ![Len(transcript)] = Front(row)]
      BY <3>3
    <3>5. transcript \in Seq(Seq(Glyphs)) /\ Len(transcript) \in 1 .. Len(transcript)
      BY DEF ShellInv, Window, IsPaper
    <3>6. row \in Seq(Glyphs)
      BY <3>5
    <3>7. Front(row) \in Seq(Glyphs)
      BY <3>3, <3>6, Shorter
    <3> HIDE DEF row
    <3>8. Len(new) = Len(transcript) /\ new[Len(transcript)] = Front(row)
      BY <3>4, <3>5, <3>7
    <3>9. QED BY <2>7, <3>3, <3>8
  <2>12. QED BY <1>3, <2>5, <2>8, <2>10, <2>11 DEF ShellInv
<1>6. QED BY <1>4, <1>5

\* The NUL is put inside the buffer.
LEMMA TerminatedTypes ==
  ASSUME ShellInv
  PROVE  Terminated \in [0 .. InputSize - 1 -> Typed \cup {NUL, Garbage}]
BY DEF ShellInv, TypeOK, Terminated

\* Enter on an empty line: a new prompt.
LEMMA InvTypeEmptyLine ==
  ASSUME ShellInv, TypeEmptyLine
  PROVE  ShellInv'
<1>1. input_buffer' \in [0 .. InputSize - 1 -> Typed \cup {NUL, Garbage}]
  BY TerminatedTypes DEF TypeEmptyLine
<1>2. QED BY <1>1, FeedAndPrompt DEF TypeEmptyLine

\* Enter: the line is ended and executed.
LEMMA InvTypeLine ==
  ASSUME ShellInv, TypeLine
  PROVE  ShellInv'
<1>1. /\ pc = "input" /\ pc' = "output" /\ input_buffer' = Terminated
      /\ terminal' = terminal_write_char(terminal, LineFeed)
      /\ transcript' = Printed(transcript, LineFeed)
      /\ command' = shell_execute(input_buffer')
      /\ UNCHANGED <<input_length, echoed, typed, wrapped>>
  BY DEF TypeLine
<1>2. Window(terminal, transcript)'
  <2>1. Window(terminal_write_char(terminal, LineFeed), Printed(transcript, LineFeed))
    BY WriteWindow DEF ShellInv
  <2>2. QED BY <1>1, <2>1
<1>3. Line(input_buffer, typed) /\ input_length = Len(typed)
  BY DEF ShellInv, Editing
<1>4. Terminates(Terminated, typed)
  BY <1>3, LineEnds DEF Terminated
<1>5. Answers(shell_execute(Terminated), typed)
  BY <1>4, Executes
<1>6. Answers(command', typed')
  BY <1>1, <1>5
<1>7. Editing'
  BY <1>1, <1>3, <1>4 DEF Editing, Terminates
<1>8. Echoed'
  BY <1>1 DEF Echoed
<1>9. Executing'
  <2>1. echoed' = 0
    BY <1>1 DEF ShellInv, Executing
  <2>2. command'.argument \in Seq(Typed)
    BY <1>6 DEF Answers
  <2>3. Len(command'.argument) \in Nat
    BY <2>2
  <2>4. echoed' \in 0 .. Len(command'.argument)
    BY <2>1, <2>3
  <2>5. QED BY <1>1, <1>6, <2>1, <2>2, <2>4 DEF Executing
<1>10. TypeOK'
  <2>1. (/\ terminal.row \in HeaderRows .. Height - 1 /\ terminal.column \in 0 .. Width
         /\ terminal.reserved = HeaderRows)'
    BY <1>2, WindowTypes
  <2>2. input_buffer' \in [0 .. InputSize - 1 -> Typed \cup {NUL, Garbage}]
    BY <1>1, TerminatedTypes
  <2>3. command'.name \in {"print", "clear", "reboot", "launch", "echo", "unknown"}
    BY <1>6 DEF Answers
  <2>4. QED BY <1>1, <2>1, <2>2, <2>3 DEF ShellInv, TypeOK
<1>11. QED BY <1>2, <1>7, <1>8, <1>9, <1>10 DEF ShellInv

\* A character, if there is room.
LEMMA InvTypeCharacter ==
  ASSUME ShellInv, NEW character \in Typed, TypeCharacter(character)
  PROVE  ShellInv'
<1>1. /\ pc = "input" /\ ~(input_length + 1 >= InputSize)
      /\ input_buffer' = [input_buffer EXCEPT ![input_length] = character]
      /\ input_length' = input_length + 1
      /\ terminal' = terminal_write_char(terminal, character)
      /\ typed' = Append(typed, character)
      /\ transcript' = Printed(transcript, character)
      /\ wrapped' = (wrapped \/ terminal.column >= Width)
      /\ UNCHANGED <<pc, command, echoed>>
  BY DEF TypeCharacter, LineFull
<1>2. Line(input_buffer, typed) /\ input_length = Len(typed) /\ typed \in Seq(Typed)
  BY DEF ShellInv, Editing, Line
<1>3. /\ Line([input_buffer EXCEPT ![Len(typed)] = character], Append(typed, character))
      /\ Len(Append(typed, character)) = Len(typed) + 1
      /\ Len(typed) + 1 \in 0 .. InputSize - 1
  BY <1>1, <1>2, LineGrows
<1>4. Editing'
  BY <1>1, <1>2, <1>3 DEF Editing
<1>5. Window(terminal, transcript)'
  <2>1. Window(terminal_write_char(terminal, character), Printed(transcript, character))
    BY WriteWindow DEF ShellInv
  <2>2. QED BY <1>1, <2>1
<1>6. Executing'
  BY <1>1 DEF ShellInv, Executing
<1>7. TypeOK'
  <2>1. (/\ terminal.row \in HeaderRows .. Height - 1 /\ terminal.column \in 0 .. Width
         /\ terminal.reserved = HeaderRows)'
    BY <1>5, WindowTypes
  <2>2. input_buffer' \in [0 .. InputSize - 1 -> Typed \cup {NUL, Garbage}]
    BY <1>1 DEF ShellInv, TypeOK
  <2>3. input_length' \in 0 .. InputSize - 1
    BY <1>1, <1>2, <1>3
  <2>4. wrapped' \in BOOLEAN
    BY Zenon, <1>1
  <2>5. QED BY <1>1, <2>1, <2>2, <2>3, <2>4 DEF ShellInv, TypeOK
<1>8. Echoed'
  <2>1. SUFFICES ASSUME ~wrapped' PROVE transcript'[Len(transcript')] = Prompt \o typed'
    BY DEF Echoed
  <2>2. ~wrapped /\ ~(terminal.column >= Width)
    BY Zenon, <1>1, <2>1
  <2>3. transcript[Len(transcript)] = Prompt \o typed
    BY <1>1, <2>2 DEF ShellInv, Echoed
  <2>4. /\ terminal.column = Len(transcript[Len(transcript)])
        /\ Len(transcript[Len(transcript)]) \in Nat
    BY CursorRow DEF ShellInv
  <2>5. Len(transcript[Len(transcript)]) < Width
    BY <2>2, <2>4, Sizes
  <2>6. Printed(transcript, character)[Len(Printed(transcript, character))]
          = Append(transcript[Len(transcript)], character)
    BY <2>5, PrintedRow DEF ShellInv, Window
  <2>7. Append(Prompt \o typed, character) = Prompt \o Append(typed, character)
    BY <1>2, PromptAndLine
  <2>8. QED BY <1>1, <2>3, <2>6, <2>7
<1>9. QED BY <1>4, <1>5, <1>6, <1>7, <1>8 DEF ShellInv

\* A command's output changes nothing but the screen.
LEMMA InvOutput ==
  ASSUME ShellInv, NEW character \in Typed \cup Output \cup {LineFeed}, pc = "output",
         terminal' = terminal_write_char(terminal, character),
         transcript' = Printed(transcript, character),
         echoed' \in 0 .. Len(command.argument),
         UNCHANGED <<input_buffer, input_length, pc, command, typed, wrapped>>
  PROVE  ShellInv'
<1>1. Window(terminal, transcript)'
  <2>1. Window(terminal_write_char(terminal, character), Printed(transcript, character))
    BY WriteWindow DEF ShellInv
  <2>2. QED BY <2>1
<1>2. TypeOK'
  <2>1. (/\ terminal.row \in HeaderRows .. Height - 1 /\ terminal.column \in 0 .. Width
         /\ terminal.reserved = HeaderRows)'
    BY <1>1, WindowTypes
  <2>2. QED BY <2>1 DEF ShellInv, TypeOK
<1>3. Editing' /\ Echoed'
  BY DEF ShellInv, Editing, Echoed
<1>4. Executing'
  BY DEF ShellInv, Executing
<1>5. QED BY <1>1, <1>2, <1>3, <1>4 DEF ShellInv

\* The output of a command, a character at a time.
LEMMA InvPrintCharacter ==
  ASSUME ShellInv, NEW character \in Output \cup {LineFeed}, PrintCharacter(character)
  PROVE  ShellInv'
<1>1. echoed' \in 0 .. Len(command.argument)
  BY DEF PrintCharacter, ShellInv, Executing
<1>2. QED BY <1>1, InvOutput DEF PrintCharacter, Prints

\* echo prints its argument from the buffer.
LEMMA InvEchoCharacter ==
  ASSUME ShellInv, EchoCharacter
  PROVE  ShellInv'
<1>1. /\ command.argument \in Seq(Typed) /\ echoed \in Nat /\ Len(command.argument) \in Nat
      /\ echoed < Len(command.argument) /\ echoed' = echoed + 1
  BY DEF EchoCharacter, ShellInv, Executing
<1>2. echoed + 1 \in 1 .. Len(command.argument) /\ echoed + 1 \in 0 .. Len(command.argument)
  BY <1>1
<1>3. command.argument[echoed + 1] \in Typed
  BY <1>1, <1>2
<1>4. QED BY <1>1, <1>2, <1>3, InvOutput DEF EchoCharacter, Echoes

\* The output ends with a prompt.
LEMMA InvEnds ==
  ASSUME ShellInv, EndCommand \/ EndEcho
  PROVE  ShellInv'
<1>1. /\ PromptAgain(terminal_write_char(terminal, LineFeed), Printed(transcript, LineFeed))
      /\ UNCHANGED input_buffer
  BY DEF EndCommand, EndEcho
<1>2. input_buffer' \in [0 .. InputSize - 1 -> Typed \cup {NUL, Garbage}]
  BY <1>1 DEF ShellInv, TypeOK
<1>3. QED BY <1>1, <1>2, FeedAndPrompt

\* clear begins a new paper.
LEMMA InvClearCommand ==
  ASSUME ShellInv, ClearCommand
  PROVE  ShellInv'
<1> DEFINE paper == << << >> >>
<1>1. Window(terminal_init(terminal), paper)
  BY ClearWindow DEF ShellInv, Window, IsScreen, Shows
<1>2. paper[Len(paper)] = << >>
  OBVIOUS
<1>3. PromptAgain(terminal_init(terminal), paper) /\ UNCHANGED input_buffer
  BY DEF ClearCommand
<1> HIDE DEF paper
<1>4. input_buffer' \in [0 .. InputSize - 1 -> Typed \cup {NUL, Garbage}]
  BY <1>3 DEF ShellInv, TypeOK
<1>5. QED BY <1>1, <1>2, <1>3, <1>4, InvPromptAgain

\* Nothing happens.
LEMMA InvStutter ==
  ASSUME ShellInv, UNCHANGED vars
  PROVE  ShellInv'
BY DEF ShellInv, vars, TypeOK, Editing, Echoed, Executing

(***************************************************************************)
(* The invariant holds of every behaviour of the shell.                    *)
(***************************************************************************)
THEOREM ShellInvariance == Spec => []ShellInv
<1>1. Init => ShellInv
  BY InvInit
<1>2. ShellInv /\ [Next]_vars => ShellInv'
  <2> SUFFICES ASSUME ShellInv, [Next]_vars PROVE ShellInv'
    OBVIOUS
  <2>1. CASE TypeBackspace
    BY <2>1, InvTypeBackspace
  <2>2. CASE TypeEmptyLine
    BY <2>2, InvTypeEmptyLine
  <2>3. CASE TypeLine
    BY <2>3, InvTypeLine
  <2>4. CASE TypeIgnored \/ RebootCommand \/ UNCHANGED vars
    BY <2>4, InvStutter DEF TypeIgnored, RebootCommand
  <2>5. CASE \E character \in Typed : TypeCharacter(character)
    BY <2>5, InvTypeCharacter
  <2>6. CASE \E character \in Output \cup {LineFeed} : PrintCharacter(character)
    BY <2>6, InvPrintCharacter
  <2>7. CASE EndCommand \/ EndEcho
    BY <2>7, InvEnds
  <2>8. CASE EchoCharacter
    BY <2>8, InvEchoCharacter
  <2>9. CASE ClearCommand
    BY <2>9, InvClearCommand
  <2>10. QED
    BY <2>1, <2>2, <2>3, <2>4, <2>5, <2>6, <2>7, <2>8, <2>9 DEF Next
<1>3. QED BY <1>1, <1>2, PTL DEF Spec

(***************************************************************************)
(* shell_run and the terminal keep their indices in range: the cursor      *)
(* below the header and on the screen, input_length below the size of      *)
(* input_buffer with room for the '\0'.                                    *)
(***************************************************************************)
THEOREM TypeCorrect == Spec => []TypeOK
<1>1. ShellInv => TypeOK
  BY DEF ShellInv
<1>2. QED BY <1>1, ShellInvariance, PTL

(***************************************************************************)
(* However long the session, the screen shows the last rows of all that    *)
(* was printed since the last clear, under the header, and no write of     *)
(* terminal.c falls outside of video memory.                               *)
(***************************************************************************)
THEOREM ScreenIsWindow == Spec => []ScreenShowsTranscript
<1>1. ShellInv => ScreenShowsTranscript
  BY DEF ShellInv, Window, ScreenShowsTranscript
<1>2. QED BY <1>1, ShellInvariance, PTL

(***************************************************************************)
(* The line on the screen is the line in input_buffer, after any typing    *)
(* and erasing that stays on the prompt's row.                             *)
(***************************************************************************)
THEOREM LineIsShown == Spec => []EchoAgrees
<1>1. ShellInv => EchoAgrees
  <2> SUFFICES ASSUME ShellInv, pc = "input", ~wrapped
               PROVE  LastRow = Prompt \o [i \in 1 .. input_length |-> input_buffer[i - 1]]
    BY DEF EchoAgrees
  <2>1. [i \in 1 .. Len(typed) |-> input_buffer[i - 1]] = typed /\ input_length = Len(typed)
    BY LineShown DEF ShellInv, Editing
  <2>2. LastRow = Prompt \o typed
    BY DEF ShellInv, Echoed, LastRow
  <2>3. QED BY <2>1, <2>2
<1>2. QED BY <1>1, ShellInvariance, PTL

(***************************************************************************)
(* shell_execute runs the command that was typed, with the argument that   *)
(* was typed, whatever earlier lines left in input_buffer.                 *)
(***************************************************************************)
THEOREM TypedIsExecuted == Spec => []ExecutesTyped
<1>1. ShellInv => ExecutesTyped
  BY DEF ShellInv, Executing, Answers, ExecutesTyped
<1>2. QED BY <1>1, ShellInvariance, PTL
=============================================================================
