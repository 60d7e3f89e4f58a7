--------------------------- MODULE ConsoleProofs ---------------------------
(***************************************************************************)
(* Proofs about the console (Console): for every screen, every tab and     *)
(* message length and any number of characters and interrupts, the column  *)
(* recovers, the cursor leaves the screen only by the race, and what       *)
(* scroll1 keeps of the lines above the cursor is where it belongs.        *)
(***************************************************************************)
EXTENDS Console, TLAPS

W == VGA_WIDTH

Lines == [0 .. (W - 1) -> Int]

(* Where print is once it has moved the column. *)
Moved == {"wrap", "row", "down", "down_store", "copy", "copy_store", "clear", "home"}

(* Where print is while the line is still on the cursor's row. *)
OnLine == {"next", "tab", "load_y", "load_x", "store", "inc", "inc_store", "wrap",
           "row", "down", "down_store"}

Types ==
    /\ vedio \in [Cells -> Int]
    /\ cursor_x \in Nat /\ cursor_y \in Nat
    /\ reg \in Int /\ at \in Nat /\ k \in Nat /\ left \in Nat /\ n \in Nat
    /\ line \in Lines /\ paper \in Seq(Lines)
    /\ pc \in OnLine \cup Moved

(* The column is past the row only after a tab, or while print of a letter   *)
(* is about to leave the row.                                                *)
Column ==
    /\ pc = "next" => cursor_x < W \/ sym = "tab"
    /\ pc = "tab" => sym = "tab" /\ reg \in Nat
    /\ pc \in {"load_y", "load_x", "store", "inc", "inc_store", "wrap"} => sym = "letter"
    /\ pc = "inc_store" => reg \in Nat /\ (reg >= W => wide)
    /\ cursor_x >= W => wide \/ (sym = "letter" /\ pc \in Moved)
    /\ left > 0 /\ cursor_x >= W => wide \/ split

(* The row is past the screen only after the race. *)
RowBound ==
    /\ cursor_y <= VGA_HEIGHT
    /\ cursor_y = VGA_HEIGHT => raced
    /\ pc = "down" => cursor_y <= LastRow /\ (cursor_y < LastRow \/ raced)
    /\ pc = "down_store" => reg \in 0 .. LastRow /\ (reg < LastRow \/ raced)
    /\ left > 0 /\ pc \in {"down", "down_store"} => raced
    /\ raced => torn
    /\ left > 0 /\ pc # "next" => torn

(* The cell a letter goes to. *)
Target ==
    /\ pc = "load_x" => raced \/ \E y \in 0 .. LastRow : at = y * W
    /\ pc = "store" => at \in Cells \/ raced \/ wide
    /\ stray => raced \/ split \/ wide

-----------------------------------------------------------------------------
(* Line 0 is the one being printed, line i the i-th before it. *)
LineAt(l, p, i) == IF i = 0 THEN l ELSE p[i]

(* The part of line l that scroll1 keeps is on row r of screen v. *)
OnRow(v, l, r) == \A c \in 0 .. (Kept - 1) : l[c] # BLANK => v[r * W + c] = l[c]

(* The lines stand above each other, the latest on row y. *)
Stacked(v, l, p, y) ==
    \A i \in 0 .. Len(p) : i <= y => OnRow(v, LineAt(l, p, i), y - i)

(* scroll1 moves a line from row r + 1 to row r, and has copied j cells. *)
Moving(v, l, r, j) ==
    \A c \in 0 .. (Kept - 1) : l[c] # BLANK =>
        IF r * (W - 1) + c < j THEN v[r * W + c] = l[c] ELSE v[(r + 1) * W + c] = l[c]

AllMoving(v, l, p, j) ==
    \A i \in 0 .. Len(p) : i < LastRow => Moving(v, LineAt(l, p, i), LastRow - 1 - i, j)

Undisturbed == ~ torn /\ ~ wide

(* What is on the screen at each place of print, when nothing disturbs it. *)
Picture == Undisturbed =>
    /\ pc \in OnLine => Stacked(vedio, line, paper, cursor_y)
    /\ pc = "load_x" => at = cursor_y * W
    /\ pc = "store" => at = cursor_y * W + cursor_x
    /\ pc = "down" => cursor_y < LastRow
    /\ pc = "down_store" => cursor_y < LastRow /\ reg = cursor_y
    /\ pc \in {"copy", "copy_store"} =>
           cursor_y = LastRow /\ AllMoving(vedio, line, paper, k)
    /\ pc = "copy_store" => k < CopyCells /\ reg = vedio[CopyTo + W]
    /\ pc = "clear" => cursor_y = LastRow /\ Stacked(vedio, line, paper, LastRow - 1)
    /\ pc = "home" => cursor_y >= 1 /\ Stacked(vedio, line, paper, cursor_y - 1)

ConsoleInv == Types /\ Column /\ RowBound /\ Target /\ Picture

USE DEF W, LastRow, BLANK, KEY

-----------------------------------------------------------------------------
(* Facts about cells and rows. *)

(* A column of a row is a cell. *)
LEMMA RowCell ==
    ASSUME NEW r \in 0 .. LastRow, NEW c \in 0 .. (W - 1)
    PROVE  r * W + c \in Cells
<1>1. PICK d \in Nat : d = VGA_HEIGHT - 1 - r
  BY ScreenAssumption
<1>2. d * W \in Nat /\ r * W \in Nat
  BY ScreenAssumption
<1>3. VGA_WIDTH * VGA_HEIGHT = r * W + (d * W) + W
  BY <1>1, ScreenAssumption
<1> QED
  BY <1>2, <1>3, ScreenAssumption DEF Cells

(* Two columns of two rows are one cell only if they are the same, and a     *)
(* lower row comes first.                                                    *)
LEMMA CellsApart ==
    ASSUME NEW w \in Nat, NEW r \in Nat, NEW s \in Nat,
           NEW c \in 0 .. (w - 1), NEW d \in 0 .. (w - 1)
    PROVE  /\ r < s => r * w + c < s * w + d
           /\ r * w + c = s * w + d => r = s /\ c = d
<1>1. ASSUME NEW a \in Nat, NEW b \in Nat, a < b
      PROVE  b * w >= a * w + w
  <2>1. PICK e \in Nat : b = a + 1 + e
    <3>1. b - a - 1 \in Nat
      BY <1>1
    <3> QED
      BY <3>1
  <2>2. e * w \in Nat
    OBVIOUS
  <2>3. b * w = a * w + w + (e * w)
    BY <2>1
  <2>4. a * w \in Nat /\ b * w \in Nat
    OBVIOUS
  <2> QED
    BY <2>2, <2>3, <2>4
<1>2. r * w \in Nat /\ s * w \in Nat
  OBVIOUS
<1>3. r < s => r * w + c < s * w + d
  BY <1>1, <1>2
<1>4. s < r => s * w + d < r * w + c
  BY <1>1, <1>2
<1>5. r = s => r * w = s * w
  OBVIOUS
<1>6. r < s \/ s < r \/ r = s
  OBVIOUS
<1> QED
  BY <1>2, <1>3, <1>4, <1>5, <1>6

(* The cell scroll1 copies to, by its row and column, and the one below it   *)
(* that it copies from.                                                      *)
LEMMA CopyPlace ==
    ASSUME k \in Nat, k < CopyCells
    PROVE  \E q \in 0 .. (LastRow - 1), m \in 0 .. (W - 2) :
               /\ k = q * (W - 1) + m
               /\ CopyTo = q * W + m /\ CopyTo \in Cells
               /\ CopyTo + W = (q + 1) * W + m /\ CopyTo + W \in Cells
<1> USE ScreenAssumption
<1>1. PICK u \in Nat : u = W - 1 /\ u > 0
  OBVIOUS
<1>2. PICK q \in Nat, m \in 0 .. (u - 1) :
          k = q * u + m /\ q = k \div u /\ m = k % u
  BY <1>1
<1>3. q < LastRow
  <2>1. SUFFICES ASSUME q >= LastRow PROVE FALSE
    OBVIOUS
  <2>2. PICK e \in Nat : q = LastRow + e
    BY <2>1
  <2>3. e * u \in Nat /\ LastRow * u \in Nat
    OBVIOUS
  <2>4. q * u = LastRow * u + (e * u)
    BY <2>2
  <2> QED
    BY <1>1, <1>2, <2>3, <2>4 DEF CopyCells
<1>4. CopyTo = q * W + m
  BY <1>1, <1>2 DEF CopyTo
<1>5. CopyTo + W = (q + 1) * W + m
  BY <1>4
<1>6. CopyTo \in Cells /\ CopyTo + W \in Cells
  <2>1. q \in 0 .. LastRow /\ q + 1 \in 0 .. LastRow /\ m \in 0 .. (W - 1)
    BY <1>1, <1>3
  <2>2. q * W + m \in Cells
    BY <2>1, RowCell
  <2>3. (q + 1) * W + m \in Cells
    BY <2>1, RowCell
  <2> QED
    BY <1>4, <1>5, <2>2, <2>3
<1> QED
  BY <1>1, <1>2, <1>3, <1>4, <1>5, <1>6

-----------------------------------------------------------------------------
(* A store through vedio leaves a screen. *)
LEMMA StoredType ==
    ASSUME Types, NEW c, NEW ch \in Int
    PROVE  Stored(c, ch) \in [Cells -> Int]
  BY DEF Types, Stored

(* A line with a letter more is a line. *)
LEMMA LetterType ==
    ASSUME Types, NEW x, NEW ch \in Int
    PROVE  WithLetter(x, ch) \in Lines
  BY DEF Types, WithLetter, Lines

(* What ends a line does to the lines: each becomes one older. *)
LEMMA EndedLines ==
    ASSUME Types, NEW l \in Lines, Ended(l)
    PROVE  /\ line' \in Lines /\ line' = EmptyLine
           /\ paper' \in Seq(Lines)
           /\ Len(paper') <= Len(paper) + 1
           /\ \A i \in 1 .. Len(paper') : paper'[i] = IF i = 1 THEN l ELSE paper[i - 1]
<1>1. Older \in Seq(Lines) /\ Len(Older) <= Len(paper)
      /\ \A i \in 1 .. Len(Older) : Older[i] = paper[i]
  <2>1. CASE Len(paper) < LastRow
    BY <2>1 DEF Types, Older
  <2>2. CASE ~ (Len(paper) < LastRow)
    <3>1. Older = SubSeq(paper, 1, LastRow - 1)
      BY <2>2 DEF Older
    <3>2. LastRow - 1 \in Nat /\ LastRow - 1 <= Len(paper)
      BY <2>2, ScreenAssumption DEF Types
    <3>3. paper \in Seq(Lines)
      BY DEF Types
    <3> QED
      BY <3>1, <3>2, <3>3
  <2> QED
    BY <2>1, <2>2
<1>2. line' = EmptyLine /\ EmptyLine \in Lines
  BY DEF Ended, EmptyLine, Lines
<1>3. paper' = <<l>> \o Older
  BY DEF Ended
<1>4. <<l>> \in Seq(Lines) /\ Len(<<l>>) = 1 /\ <<l>>[1] = l
  OBVIOUS
<1>5. PICK o \in Seq(Lines) : o = Older
  BY <1>1
<1>6. paper' \in Seq(Lines) /\ Len(paper') = 1 + Len(o)
      /\ \A i \in 1 .. Len(paper') : paper'[i] = IF i = 1 THEN l ELSE o[i - 1]
  BY <1>3, <1>4, <1>5
<1>7. Len(paper) \in Nat /\ Len(o) \in Nat
  BY DEF Types
<1>8. \A i \in 1 .. Len(o) : o[i] = paper[i]
  BY <1>1, <1>5
<1>9. ASSUME NEW i \in 1 .. Len(paper'), i # 1
      PROVE  paper'[i] = paper[i - 1]
  <2>1. i - 1 \in 1 .. Len(o)
    BY <1>6, <1>7, <1>9
  <2> QED
    BY <1>6, <1>8, <1>9, <2>1
<1>10. Len(paper') <= Len(paper) + 1
  BY <1>1, <1>5, <1>6, <1>7
<1> QED
  BY <1>2, <1>6, <1>9, <1>10

-----------------------------------------------------------------------------
(* The types hold after every step. *)
LEMMA TypesKept ==
    ASSUME Types, Column, RowBound, Next
    PROVE  Types'
<1> USE ScreenAssumption, StepAssumption
<1> USE DEF Main, cursor, hist, OnLine, Moved
<1>a. CASE NextLetter \/ NextNewline \/ NextTab \/ Wrap \/ Row \/ CopyDone \/ ClearDone
  BY <1>a DEF Types, NextLetter, NextNewline, NextTab, Wrap, Row, CopyDone, ClearDone
<1>b. CASE Tab \/ IncStore
  BY <1>b DEF Types, Column, Tab, IncStore
<1>c. CASE DownStore
  BY <1>c DEF Types, RowBound, DownStore
<1>d. CASE Inc \/ Down
  BY <1>d DEF Types, Inc, Down
<1>e. CASE enable_interrupts \/ int21_handler
  BY <1>e DEF Types, enable_interrupts, int21_handler
<1>2. CASE LoadY \/ LoadX
  BY <1>2 DEF Types, LoadY, LoadX
<1>3. CASE Store
  BY <1>3, StoredType, LetterType DEF Types, Store
<1>4. CASE CopyLoad
  <2>1. CopyTo + VGA_WIDTH \in Cells
    BY <1>4, CopyPlace DEF CopyLoad, Types
  <2>2. reg' \in Int
    BY <1>4, <2>1 DEF CopyLoad, Types
  <2> QED
    BY <1>4, <2>2 DEF Types, CopyLoad
<1>5. CASE CopyStore
  <2>1. vedio' \in [Cells -> Int]
    BY <1>5, StoredType DEF Types, CopyStore
  <2> QED
    BY <1>5, <2>1 DEF Types, CopyStore
<1>6. CASE Clear
  <2>1. vedio' \in [Cells -> Int]
    BY <1>6, StoredType DEF Clear
  <2> QED
    BY <1>6, <2>1 DEF Types, Clear
<1>7. CASE Home
  <2>1. line' \in Lines /\ paper' \in Seq(Lines)
    BY <1>7, EndedLines DEF Home, Types
  <2> QED
    BY <1>7, <2>1 DEF Types, Home
<1>8. CASE HandlerLetter
  <2> DEFINE v == Stored(cursor_y * VGA_WIDTH + cursor_x, KEY)
  <2>1. v \in [Cells -> Int]
    BY StoredType
  <2>2. Scrolled(v) \in [Cells -> Int]
    <3>1. ASSUME NEW c \in Cells, c < LastRow * VGA_WIDTH
          PROVE  c + VGA_WIDTH \in Cells
      <4>1. VGA_WIDTH * VGA_HEIGHT = (LastRow * VGA_WIDTH) + VGA_WIDTH
        OBVIOUS
      <4>2. LastRow * VGA_WIDTH \in Nat
        OBVIOUS
      <4> QED
        BY <3>1, <4>1, <4>2 DEF Cells
    <3> HIDE DEF v
    <3> QED
      BY <2>1, <3>1 DEF Scrolled
  <2>3. vedio' \in [Cells -> Int]
    BY <1>8, <2>1, <2>2 DEF HandlerLetter
  <2>4. line' \in Lines /\ paper' \in Seq(Lines)
    <3>1. WithLetter(cursor_x, KEY) \in Lines
      BY LetterType
    <3>2. CASE Ended(WithLetter(cursor_x, KEY))
      BY <3>1, <3>2, EndedLines
    <3>3. CASE line' = WithLetter(cursor_x, KEY) /\ UNCHANGED paper
      BY <3>1, <3>3 DEF Types
    <3> QED
      BY <1>8, <3>2, <3>3 DEF HandlerLetter
  <2>5. cursor_x' \in Nat /\ cursor_y' \in Nat /\ left' \in Nat
    BY <1>8 DEF HandlerLetter, Types
  <2> QED
    BY <1>8, <2>3, <2>4, <2>5 DEF Types, HandlerLetter
<1> QED
  BY <1>a, <1>b, <1>c, <1>d, <1>e, <1>2, <1>3, <1>4, <1>5, <1>6, <1>7, <1>8 DEF Next, print

-----------------------------------------------------------------------------
(* No step takes the column past the row but a tab and the letter whose      *)
(* print is about to leave the row; the handler brings it back.              *)
LEMMA ColumnKept ==
    ASSUME Types, Column, RowBound, Next
    PROVE  Column'
<1> USE ScreenAssumption, StepAssumption DEF Main, cursor, hist, Moved
<1>1. CASE NextLetter \/ NextNewline \/ NextTab
  BY <1>1 DEF Types, Column, NextLetter, NextNewline, NextTab
<1>2. CASE Tab
  BY <1>2 DEF Types, Column, Tab
<1>3. CASE LoadY \/ LoadX \/ Store \/ Inc
  BY <1>3 DEF Types, Column, LoadY, LoadX, Store, Inc
<1>4. CASE IncStore
  BY <1>4 DEF Types, Column, IncStore
<1>5. CASE Wrap \/ Row \/ Down \/ DownStore
  BY <1>5 DEF Types, Column, Wrap, Row, Down, DownStore
<1>6. CASE CopyLoad \/ CopyStore \/ CopyDone \/ Clear \/ ClearDone
  BY <1>6 DEF Types, Column, CopyLoad, CopyStore, CopyDone, Clear, ClearDone
<1>7. CASE Home
  BY <1>7 DEF Types, Column, Home
<1>8. CASE enable_interrupts
  BY <1>8 DEF Types, Column, enable_interrupts
<1>9. CASE int21_handler
  BY <1>9 DEF Types, Column, int21_handler
<1>10. CASE HandlerLetter
  <2>1. cursor_x' \in Nat /\ cursor_x' < W
    BY <1>10 DEF HandlerLetter, Types
  <2> QED
    BY <1>10, <2>1 DEF Column, HandlerLetter
<1> QED
  BY <1>1, <1>2, <1>3, <1>4, <1>5, <1>6, <1>7, <1>8, <1>9, <1>10 DEF Next, print

(* No step takes the row past the screen but the store of an increment       *)
(* whose test the handler has overtaken.                                     *)
LEMMA RowKept ==
    ASSUME Types, Column, RowBound, Next
    PROVE  RowBound'
<1> USE ScreenAssumption, StepAssumption DEF Main, cursor, hist
<1>1. CASE NextLetter \/ NextNewline \/ NextTab \/ Tab
  BY <1>1 DEF Types, RowBound, NextLetter, NextNewline, NextTab, Tab
<1>2. CASE LoadY \/ LoadX \/ Store \/ Inc \/ IncStore \/ Wrap
  BY <1>2 DEF Types, RowBound, LoadY, LoadX, Store, Inc, IncStore, Wrap
<1>3. CASE Row
  BY <1>3 DEF Types, RowBound, Row
<1>4. CASE Down
  BY <1>4 DEF Types, RowBound, Down
<1>5. CASE DownStore
  BY <1>5 DEF Types, RowBound, DownStore
<1>6. CASE CopyLoad \/ CopyStore \/ CopyDone \/ Clear \/ ClearDone \/ Home
  BY <1>6 DEF Types, RowBound, CopyLoad, CopyStore, CopyDone, Clear, ClearDone, Home
<1>7. CASE enable_interrupts
  BY <1>7 DEF Types, RowBound, enable_interrupts
<1>8. CASE int21_handler
  BY <1>8 DEF Types, RowBound, int21_handler
<1>9. CASE HandlerLetter
  <2>1. /\ cursor_y' \in {cursor_y, cursor_y + 1}
        /\ cursor_y' = cursor_y + 1 => cursor_y < LastRow
        /\ left > 0
        /\ UNCHANGED <<pc, reg, torn, raced>>
    BY <1>9 DEF HandlerLetter, Types
  <2> QED
    BY <2>1 DEF RowBound, Types
<1> QED
  BY <1>1, <1>2, <1>3, <1>4, <1>5, <1>6, <1>7, <1>8, <1>9 DEF Next, print

(* Letters go to the screen unless the row or the column was lost. *)
LEMMA TargetKept ==
    ASSUME Types, Column, RowBound, Target, Next
    PROVE  Target'
<1> USE ScreenAssumption, StepAssumption DEF Main, cursor, hist
<1>a. CASE NextLetter \/ NextNewline \/ NextTab \/ Inc \/ IncStore \/ Wrap
  BY <1>a DEF Target, NextLetter, NextNewline, NextTab, Inc, IncStore, Wrap
<1>b. CASE Tab
  <2>1. wide => wide'
    BY <1>b DEF Tab
  <2> QED
    BY <1>b, <2>1 DEF Target, Tab
<1>c. CASE Row \/ Down \/ DownStore \/ Home \/ enable_interrupts
  BY <1>c DEF Target, Row, Down, DownStore, Home, enable_interrupts
<1>d. CASE CopyLoad \/ CopyStore \/ CopyDone \/ Clear \/ ClearDone
  BY <1>d DEF Target, CopyLoad, CopyStore, CopyDone, Clear, ClearDone
<1>2. CASE LoadY
  <2>1. cursor_y \in 0 .. LastRow \/ raced
    BY DEF Types, RowBound
  <2>2. pc' = "load_x" /\ at' = cursor_y * W /\ UNCHANGED <<raced, split, wide, stray>>
    BY <1>2 DEF LoadY
  <2> QED
    BY <2>1, <2>2 DEF Target
<1>3. CASE LoadX
  <2>1. cursor_x \in 0 .. (W - 1) \/ wide
    BY <1>3 DEF Types, Column, LoadX, Moved
  <2>2. pc' = "store" /\ at' = at + cursor_x /\ UNCHANGED <<raced, split, wide, stray>>
    BY <1>3 DEF LoadX
  <2>3. raced \/ \E y \in 0 .. LastRow : at = y * W
    BY <1>3 DEF Target, LoadX
  <2>4. at' \in Cells \/ raced \/ wide
    BY <2>1, <2>2, <2>3, RowCell
  <2> QED
    BY <2>2, <2>4 DEF Target
<1>4. CASE Store
  BY <1>4 DEF Target, Store
<1>5. CASE int21_handler
  BY <1>5 DEF Target, int21_handler
<1>6. CASE HandlerLetter
  <2> DEFINE c == cursor_y * VGA_WIDTH + cursor_x
  <2>1. c \in Cells \/ raced \/ split \/ wide
    <3>1. cursor_y \in 0 .. LastRow \/ raced
      BY DEF Types, RowBound
    <3>2. cursor_x \in 0 .. (W - 1) \/ split \/ wide
      BY <1>6 DEF Types, Column, HandlerLetter
    <3> QED
      BY <3>1, <3>2, RowCell
  <2>2. stray' = (stray \/ c \notin Cells) /\ UNCHANGED <<pc, at, raced, split, wide>>
    BY <1>6 DEF HandlerLetter
  <2> HIDE DEF c
  <2> QED
    BY <2>1, <2>2 DEF Target
<1> QED
  BY <1>a, <1>b, <1>c, <1>d, <1>2, <1>3, <1>4, <1>5, <1>6 DEF Next, print

-----------------------------------------------------------------------------
(* What the steps of print do to the lines on the screen. *)

(* What scroll1 keeps of a line is less than the row without its last cell.  *)
LEMMA KeptBound == Kept \in Nat /\ Kept <= W - 1
  BY ScreenAssumption DEF Kept

(* The lines being printed and printed before are lines. *)
LEMMA LineType ==
    ASSUME NEW l \in Lines, NEW p \in Seq(Lines), NEW i \in 0 .. Len(p)
    PROVE  LineAt(l, p, i) \in Lines
  BY DEF LineAt

(* A letter stored at the cursor and at its column of the line. *)
LEMMA LetterStacked ==
    ASSUME NEW v \in [Cells -> Int], NEW l \in Lines, NEW p \in Seq(Lines),
           NEW y \in 0 .. LastRow, NEW x \in 0 .. (W - 1), NEW ch \in Int,
           Stacked(v, l, p, y)
    PROVE  Stacked([v EXCEPT ![y * W + x] = ch], [l EXCEPT ![x] = ch], p, y)
<1> USE ScreenAssumption
<1> DEFINE u == [v EXCEPT ![y * W + x] = ch]
           m == [l EXCEPT ![x] = ch]
<1>1. SUFFICES ASSUME NEW i \in 0 .. Len(p), i <= y, NEW c \in 0 .. (Kept - 1),
                      LineAt(m, p, i)[c] # BLANK
               PROVE  u[(y - i) * W + c] = LineAt(m, p, i)[c]
  BY DEF Stacked, OnRow
<1>2. Len(p) \in Nat /\ y - i \in 0 .. LastRow /\ y \in Nat /\ y - i \in Nat
  BY <1>1
<1>3. c \in 0 .. (W - 1) /\ W \in Nat
  BY KeptBound
<1>4. PICK z : z = (y - i) * W + c
  OBVIOUS
<1>5. z \in Cells /\ y * W + x \in Cells
  BY <1>2, <1>3, <1>4, RowCell
<1>6. LineAt(l, p, i)[c] # BLANK => v[z] = LineAt(l, p, i)[c]
  BY <1>1, <1>4 DEF Stacked, OnRow
<1>7. z = y * W + x => y - i = y /\ c = x
  BY <1>2, <1>3, <1>4, CellsApart
<1>8. u[z] = IF z = y * W + x THEN ch ELSE v[z]
  BY <1>5
<1>9. CASE i = 0
  <2>1. LineAt(m, p, i) = m /\ LineAt(l, p, i) = l
    BY <1>9 DEF LineAt
  <2>2. m[c] = IF c = x THEN ch ELSE l[c]
    BY <1>3 DEF Lines
  <2>3. c = x => z = y * W + x
    BY <1>4, <1>9
  <2> HIDE DEF u, m
  <2> QED
    BY <1>1, <1>4, <1>6, <1>7, <1>8, <2>1, <2>2, <2>3
<1>10. CASE i # 0
  <2>1. LineAt(m, p, i) = LineAt(l, p, i)
    BY <1>10 DEF LineAt
  <2>2. z # y * W + x
    BY <1>1, <1>2, <1>7, <1>10
  <2> HIDE DEF u, m
  <2> QED
    BY <1>1, <1>4, <1>6, <1>8, <2>1, <2>2
<1> QED
  BY <1>9, <1>10

(* A line that ends on the row above becomes the first of the older ones. *)
LEMMA EndStacked ==
    ASSUME Types, NEW l \in Lines, Ended(l), NEW v, NEW y \in Nat,
           Stacked(v, l, paper, y)
    PROVE  Stacked(v, line', paper', y + 1)
<1>1. SUFFICES ASSUME NEW i \in 0 .. Len(paper'), i <= y + 1
               PROVE  OnRow(v, LineAt(line', paper', i), y + 1 - i)
  BY DEF Stacked
<1>2. CASE i = 0
  <2>1. LineAt(line', paper', i) = EmptyLine
    BY <1>2, EndedLines DEF LineAt
  <2>2. \A c \in 0 .. (Kept - 1) : EmptyLine[c] = BLANK
    BY KeptBound, ScreenAssumption DEF EmptyLine
  <2> QED
    BY <2>1, <2>2 DEF OnRow
<1>3. CASE i # 0
  <2>1. paper' \in Seq(Lines) /\ Len(paper') <= Len(paper) + 1
        /\ \A j \in 1 .. Len(paper') : paper'[j] = IF j = 1 THEN l ELSE paper[j - 1]
    BY EndedLines
  <2>2. Len(paper) \in Nat /\ Len(paper') \in Nat
    BY <2>1 DEF Types
  <2>3. i \in 1 .. Len(paper')
    BY <1>3, <2>2
  <2>4. LineAt(line', paper', i) = LineAt(l, paper, i - 1)
    BY <1>3, <2>1, <2>3 DEF LineAt
  <2>5. i - 1 \in 0 .. Len(paper) /\ i - 1 <= y /\ y + 1 - i = y - (i - 1)
    BY <1>1, <1>3, <2>1, <2>2
  <2>6. OnRow(v, LineAt(l, paper, i - 1), y - (i - 1))
    BY <2>5 DEF Stacked
  <2> QED
    BY <2>4, <2>5, <2>6
<1> QED
  BY <1>2, <1>3

(* scroll1 begins: no cell is copied yet. *)
LEMMA ScrollBegins ==
    ASSUME NEW v, NEW l, NEW p \in Seq(Lines), Stacked(v, l, p, LastRow)
    PROVE  AllMoving(v, l, p, 0)
<1> USE ScreenAssumption
<1>1. SUFFICES ASSUME NEW i \in 0 .. Len(p), i < LastRow, NEW c \in 0 .. (Kept - 1),
                      LineAt(l, p, i)[c] # BLANK
               PROVE  IF (LastRow - 1 - i) * (W - 1) + c < 0
                      THEN v[(LastRow - 1 - i) * W + c] = LineAt(l, p, i)[c]
                      ELSE v[(LastRow - 1 - i + 1) * W + c] = LineAt(l, p, i)[c]
  BY DEF AllMoving, Moving
<1>2. v[(LastRow - i) * W + c] = LineAt(l, p, i)[c]
  BY <1>1 DEF Stacked, OnRow
<1>3. LastRow - 1 - i + 1 = LastRow - i
  BY <1>1
<1>4. LastRow - 1 - i \in Nat /\ W - 1 \in Nat /\ c \in Nat
  BY <1>1, KeptBound
<1>5. (LastRow - 1 - i) * (W - 1) \in Nat
  BY <1>4
<1> QED
  BY <1>2, <1>3, <1>4, <1>5

(* One more cell is copied: it is not read again. *)
LEMMA ScrollMoves ==
    ASSUME Types, NEW l, NEW p \in Seq(Lines), k < CopyCells, AllMoving(vedio, l, p, k)
    PROVE  AllMoving([vedio EXCEPT ![CopyTo] = vedio[CopyTo + W]], l, p, k + 1)
<1> USE ScreenAssumption
<1> DEFINE u == [vedio EXCEPT ![CopyTo] = vedio[CopyTo + W]]
<1>1. SUFFICES ASSUME NEW i \in 0 .. Len(p), i < LastRow, NEW c \in 0 .. (Kept - 1),
                      LineAt(l, p, i)[c] # BLANK
               PROVE  IF (LastRow - 1 - i) * (W - 1) + c < k + 1
                      THEN u[(LastRow - 1 - i) * W + c] = LineAt(l, p, i)[c]
                      ELSE u[(LastRow - 1 - i + 1) * W + c] = LineAt(l, p, i)[c]
  BY DEF AllMoving, Moving
<1>2. PICK r : r = LastRow - 1 - i
  OBVIOUS
<1>3. r \in 0 .. (LastRow - 1) /\ r \in Nat /\ Len(p) \in Nat
  BY <1>1, <1>2
<1>4. PICK q \in 0 .. (LastRow - 1), m \in 0 .. (W - 2) :
          /\ k = q * (W - 1) + m
          /\ CopyTo = q * W + m /\ CopyTo \in Cells
          /\ CopyTo + W = (q + 1) * W + m
  BY CopyPlace DEF Types
<1>5. PICK w \in Nat : w = W - 1
  OBVIOUS
<1>6. q \in Nat /\ c \in 0 .. (w - 1) /\ m \in 0 .. (w - 1)
      /\ c \in 0 .. (W - 1) /\ m \in 0 .. (W - 1) /\ W \in Nat /\ r + 1 \in Nat
  BY <1>3, <1>5, KeptBound
<1>7. /\ r * w + c = q * w + m => r = q /\ c = m
      /\ r < q => r * w + c < q * w + m
  BY <1>3, <1>5, <1>6, CellsApart
<1>8. /\ r * W + c = q * W + m => r = q /\ c = m
      /\ (r + 1) * W + c = q * W + m => r + 1 = q /\ c = m
  BY <1>3, <1>6, CellsApart
<1>9. r * W + c \in Cells /\ (r + 1) * W + c \in Cells
  <2>1. r \in 0 .. LastRow /\ r + 1 \in 0 .. LastRow
    BY <1>3
  <2> QED
    BY <1>6, <2>1, RowCell
<1>10. PICK x : x = LineAt(l, p, i)[c]
  OBVIOUS
<1>11. IF r * w + c < k THEN vedio[r * W + c] = x ELSE vedio[(r + 1) * W + c] = x
  BY <1>1, <1>2, <1>5, <1>10 DEF AllMoving, Moving
<1>12. \A z \in Cells : u[z] = IF z = CopyTo THEN vedio[CopyTo + W] ELSE vedio[z]
  BY DEF Types
<1>13. k \in Nat /\ r * w \in Nat /\ q * w \in Nat /\ k = q * w + m
  BY <1>3, <1>4, <1>5, <1>6 DEF Types
<1> HIDE DEF u
<1>14. CASE r * w + c < k
  <2>1. r * W + c # CopyTo
    <3>1. ~ (r = q /\ c = m)
      BY <1>13, <1>14
    <3> QED
      BY <1>4, <1>8, <3>1
  <2>2. u[r * W + c] = x
    BY <1>9, <1>11, <1>12, <1>14, <2>1
  <2>3. r * w + c < k + 1
    BY <1>6, <1>13, <1>14
  <2> QED
    BY <1>2, <1>5, <1>10, <2>2, <2>3
<1>15. CASE r * w + c = k
  <2>1. r = q /\ c = m
    BY <1>7, <1>13, <1>15
  <2>2. vedio[(r + 1) * W + c] = x
    BY <1>6, <1>11, <1>13, <1>15
  <2>3. u[r * W + c] = x
    BY <1>4, <1>9, <1>12, <2>1, <2>2
  <2>4. r * w + c < k + 1
    BY <1>6, <1>13, <1>15
  <2> QED
    BY <1>2, <1>5, <1>10, <2>3, <2>4
<1>16. CASE r * w + c > k
  <2>1. (r + 1) * W + c # CopyTo
    <3>1. ~ (r + 1 = q)
      BY <1>3, <1>6, <1>7, <1>13, <1>16
    <3> QED
      BY <1>4, <1>8, <3>1
  <2>2. u[(r + 1) * W + c] = x
    BY <1>6, <1>9, <1>11, <1>12, <1>13, <1>16, <2>1
  <2>3. ~ (r * w + c < k + 1)
    BY <1>6, <1>13, <1>16
  <2> QED
    BY <1>2, <1>5, <1>10, <2>2, <2>3
<1> QED
  BY <1>6, <1>13, <1>14, <1>15, <1>16

(* All cells are copied. *)
LEMMA ScrollEnds ==
    ASSUME NEW v, NEW l, NEW p \in Seq(Lines), NEW j \in Nat, j >= CopyCells,
           AllMoving(v, l, p, j)
    PROVE  Stacked(v, l, p, LastRow - 1)
<1> USE ScreenAssumption
<1>1. SUFFICES ASSUME NEW i \in 0 .. Len(p), i <= LastRow - 1, NEW c \in 0 .. (Kept - 1),
                      LineAt(l, p, i)[c] # BLANK
               PROVE  v[(LastRow - 1 - i) * W + c] = LineAt(l, p, i)[c]
  BY DEF Stacked, OnRow
<1>2. i < LastRow /\ LastRow \in Nat /\ Len(p) \in Nat
  BY <1>1
<1>3. PICK r \in Nat : r = LastRow - 1 - i /\ r < LastRow
  BY <1>1, <1>2
<1>4. PICK w \in Nat : w = W - 1 /\ w > 0
  OBVIOUS
<1>5. r * w + c < LastRow * w + 0
  <2>1. c \in 0 .. (w - 1) /\ 0 \in 0 .. (w - 1)
    BY <1>4, KeptBound
  <2> QED
    BY <1>2, <1>3, <1>4, <2>1, CellsApart
<1>6. r * w + c < j
  <2>1. LastRow * w \in Nat /\ r * w \in Nat /\ c \in Nat
    BY <1>2, <1>4, KeptBound
  <2> QED
    BY <1>4, <1>5, <2>1 DEF CopyCells
<1>7. IF r * w + c < j THEN v[r * W + c] = LineAt(l, p, i)[c]
                       ELSE v[(r + 1) * W + c] = LineAt(l, p, i)[c]
  BY <1>1, <1>2, <1>3, <1>4 DEF AllMoving, Moving
<1> QED
  BY <1>3, <1>6, <1>7

(* Where scroll1 begins to clear, all that it keeps is behind it. *)
LEMMA ClearBelow ==
    ASSUME NEW r \in 0 .. (LastRow - 1), NEW c \in 0 .. (Kept - 1)
    PROVE  r * W + c < ClearFrom
<1> USE ScreenAssumption
<1>1. PICK e \in Nat : e = LastRow - 1 - r
  OBVIOUS
<1>2. e * W \in Nat /\ r * W \in Nat /\ LastRow * W \in Nat
  OBVIOUS
<1>3. LastRow * W = r * W + W + (e * W)
  BY <1>1
<1>4. ClearFrom = LastRow * W - LastRow
  BY DEF ClearFrom
<1> QED
  BY <1>2, <1>3, <1>4 DEF Kept

(* Clearing leaves the lines alone. *)
LEMMA ClearStacked ==
    ASSUME Types, Stacked(vedio, line, paper, LastRow - 1)
    PROVE  Stacked(Stored(ClearFrom + k, BLANK), line, paper, LastRow - 1)
<1> USE ScreenAssumption
<1> DEFINE u == Stored(ClearFrom + k, BLANK)
<1>1. SUFFICES ASSUME NEW i \in 0 .. Len(paper), i <= LastRow - 1,
                      NEW c \in 0 .. (Kept - 1), LineAt(line, paper, i)[c] # BLANK
               PROVE  u[(LastRow - 1 - i) * W + c] = LineAt(line, paper, i)[c]
  BY DEF Stacked, OnRow
<1>2. PICK r \in 0 .. (LastRow - 1) : r = LastRow - 1 - i
  BY <1>1 DEF Types
<1>3. r * W + c < ClearFrom
  BY ClearBelow
<1>4. r * W \in Nat /\ c \in Nat /\ ClearFrom \in Int /\ k \in Nat
  BY KeptBound DEF ClearFrom, Types
<1>5. r * W + c # ClearFrom + k
  BY <1>3, <1>4
<1>6. u[r * W + c] = vedio[r * W + c]
  BY <1>5 DEF Stored, Types
<1>7. vedio[r * W + c] = LineAt(line, paper, i)[c]
  BY <1>1, <1>2 DEF Stacked, OnRow
<1> HIDE DEF u
<1> QED
  BY <1>2, <1>6, <1>7

(* What the handler's scroll does at once. *)
LEMMA ScrolledStacked ==
    ASSUME NEW v \in [Cells -> Int], NEW l, NEW p \in Seq(Lines),
           Stacked(v, l, p, LastRow)
    PROVE  Stacked(Scrolled(v), l, p, LastRow - 1)
<1> USE ScreenAssumption
<1>1. SUFFICES ASSUME NEW i \in 0 .. Len(p), i <= LastRow - 1, NEW c \in 0 .. (Kept - 1),
                      LineAt(l, p, i)[c] # BLANK
               PROVE  Scrolled(v)[(LastRow - 1 - i) * W + c] = LineAt(l, p, i)[c]
  BY DEF Stacked, OnRow
<1>2. PICK r \in 0 .. (LastRow - 1) : r = LastRow - 1 - i
  BY <1>1
<1>3. c \in 0 .. (W - 2) /\ c \in 0 .. (W - 1)
  BY KeptBound
<1>4. PICK z : z = r * W + c
  OBVIOUS
<1>5. z \in Cells /\ z \in Nat
  <2>1. r \in 0 .. LastRow
    OBVIOUS
  <2>2. r * W + c \in Cells
    BY <1>3, <2>1, RowCell
  <2> QED
    BY <1>4, <2>2 DEF Cells
<1>6. z < ClearFrom /\ ClearFrom \in Int
  BY <1>4, ClearBelow DEF ClearFrom
<1>7. z < LastRow * W
  <2>1. z < LastRow * W + 0
    BY <1>3, <1>4, CellsApart
  <2>2. LastRow * W \in Nat
    OBVIOUS
  <2> QED
    BY <2>1, <2>2
<1>8. z % W = c
  <2>1. PICK w \in Nat : w = W /\ w > 0
    OBVIOUS
  <2>2. PICK q \in Nat, m \in 0 .. (w - 1) :
            z = q * w + m /\ q = z \div w /\ m = z % w
    BY <1>5, <2>1
  <2>3. r \in Nat /\ c \in 0 .. (w - 1) /\ z = r * w + c
    BY <1>3, <1>4, <2>1
  <2>4. r * w + c = q * w + m => r = q /\ c = m
    BY <2>3, CellsApart
  <2> QED
    BY <2>1, <2>2, <2>3, <2>4
<1>9. Scrolled(v)[z] = v[z + W]
  BY <1>3, <1>5, <1>6, <1>7, <1>8 DEF Scrolled
<1>10. z + W = (LastRow - i) * W + c
  BY <1>2, <1>4
<1>11. v[(LastRow - i) * W + c] = LineAt(l, p, i)[c]
  BY <1>1 DEF Stacked, OnRow
<1> QED
  BY <1>2, <1>4, <1>9, <1>10, <1>11

-----------------------------------------------------------------------------
(* While nothing disturbs print, every step keeps the lines on their rows. *)
LEMMA PictureKept ==
    ASSUME ConsoleInv, Next
    PROVE  Picture'
<1> USE ScreenAssumption, StepAssumption DEF Main, cursor, hist, OnLine
<1>0. Types /\ Column /\ RowBound /\ Picture
  BY DEF ConsoleInv
<1>1. CASE NextLetter \/ NextNewline \/ NextTab
  BY <1>0, <1>1 DEF Picture, Undisturbed, NextLetter, NextNewline, NextTab
<1>2. CASE Tab
  BY <1>0, <1>2 DEF Picture, Undisturbed, Tab
<1>3. CASE LoadY \/ LoadX
  BY <1>0, <1>3 DEF Picture, Undisturbed, LoadY, LoadX
<1>4. CASE Store
  <2>1. SUFFICES ASSUME Undisturbed'
                 PROVE  Stacked(vedio', line', paper', cursor_y')
    BY <1>4 DEF Picture, Store
  <2>2. Undisturbed /\ UNCHANGED <<paper, cursor_y>>
    BY <1>4, <2>1 DEF Undisturbed, Store
  <2>3. at = cursor_y * W + cursor_x /\ Stacked(vedio, line, paper, cursor_y)
    BY <1>0, <1>4, <2>2 DEF Picture, Store
  <2>4. cursor_y \in 0 .. LastRow
    BY <1>0, <2>2 DEF Types, RowBound, Undisturbed
  <2>5. cursor_x \in 0 .. (W - 1)
    BY <1>0, <1>4, <2>2 DEF Types, Column, Undisturbed, Store, Moved
  <2>6. vedio' = [vedio EXCEPT ![cursor_y * W + cursor_x] = n]
    <3>1. at \in Cells
      BY <2>3, <2>4, <2>5, RowCell
    <3> QED
      BY <1>4, <2>3, <3>1 DEF Store, Stored
  <2>7. line' = [line EXCEPT ![cursor_x] = n]
    BY <1>0, <1>4, <2>5 DEF Store, WithLetter, Types, Lines
  <2>8. n \in Int /\ vedio \in [Cells -> Int] /\ line \in Lines /\ paper \in Seq(Lines)
    BY <1>0 DEF Types
  <2>9. Stacked([vedio EXCEPT ![cursor_y * W + cursor_x] = n],
                [line EXCEPT ![cursor_x] = n], paper, cursor_y)
    BY <2>3, <2>4, <2>5, <2>8, LetterStacked
  <2> QED
    BY <2>2, <2>6, <2>7, <2>9
<1>5. CASE Inc \/ IncStore \/ Wrap
  BY <1>0, <1>5 DEF Picture, Undisturbed, Inc, IncStore, Wrap
<1>6. CASE Row
  <2>1. SUFFICES ASSUME Undisturbed'
                 PROVE  Picture'
    BY DEF Picture
  <2>2. Undisturbed /\ UNCHANGED <<vedio, line, paper, cursor_y>>
    BY <1>6, <2>1 DEF Undisturbed, Row
  <2>3. Stacked(vedio, line, paper, cursor_y)
    BY <1>0, <1>6, <2>2 DEF Picture, Row
  <2>4. CASE cursor_y < LastRow
    BY <1>6, <2>2, <2>3, <2>4 DEF Picture, Row
  <2>5. CASE ~ (cursor_y < LastRow)
    <3>1. cursor_y = LastRow
      BY <1>0, <2>2, <2>5 DEF Types, RowBound, Undisturbed
    <3>2. AllMoving(vedio, line, paper, 0)
      BY <1>0, <2>3, <3>1, ScrollBegins DEF Types
    <3>3. pc' = "copy" /\ k' = 0
      BY <1>6, <2>5 DEF Row
    <3> QED
      BY <2>2, <3>1, <3>2, <3>3 DEF Picture
  <2> QED
    BY <2>4, <2>5
<1>7. CASE Down
  BY <1>0, <1>7 DEF Picture, Undisturbed, Down
<1>8. CASE DownStore
  <2>1. SUFFICES ASSUME Undisturbed'
                 PROVE  cursor_y' >= 1 /\ Stacked(vedio', line', paper', cursor_y' - 1)
    BY <1>8 DEF Picture, DownStore
  <2>2. Undisturbed /\ UNCHANGED <<vedio, line, paper>> /\ cursor_y' = reg + 1
    BY <1>8, <2>1 DEF Undisturbed, DownStore
  <2>3. Stacked(vedio, line, paper, cursor_y) /\ reg = cursor_y
    BY <1>0, <1>8, <2>2 DEF Picture, DownStore
  <2>4. cursor_y' - 1 = cursor_y /\ cursor_y' >= 1
    BY <1>0, <2>2, <2>3 DEF Types
  <2> QED
    BY <2>2, <2>3, <2>4
<1>9. CASE CopyLoad
  <2>1. UNCHANGED <<vedio, line, paper, k, cursor_y, torn, wide>>
        /\ pc = "copy" /\ pc' = "copy_store" /\ k < CopyCells /\ reg' = vedio[CopyTo + W]
    BY <1>9 DEF CopyLoad
  <2>2. CopyTo' = CopyTo
    BY <2>1 DEF CopyTo
  <2> QED
    BY <1>0, <2>1, <2>2 DEF Picture, Undisturbed
<1>10. CASE CopyStore
  <2>1. SUFFICES ASSUME Undisturbed'
                 PROVE  cursor_y' = LastRow /\ AllMoving(vedio', line', paper', k')
    BY <1>10 DEF Picture, CopyStore
  <2>2. Undisturbed /\ UNCHANGED <<line, paper, cursor_y>> /\ k' = k + 1
        /\ vedio' = Stored(CopyTo, reg)
    BY <1>10, <2>1 DEF Undisturbed, CopyStore
  <2>3. cursor_y = LastRow /\ AllMoving(vedio, line, paper, k)
        /\ k < CopyCells /\ reg = vedio[CopyTo + W]
    BY <1>0, <1>10, <2>2 DEF Picture, CopyStore
  <2>4. CopyTo \in Cells
    BY <1>0, <2>3, CopyPlace DEF Types
  <2>5. vedio' = [vedio EXCEPT ![CopyTo] = vedio[CopyTo + W]]
    BY <2>2, <2>3, <2>4 DEF Stored
  <2>6. AllMoving([vedio EXCEPT ![CopyTo] = vedio[CopyTo + W]], line, paper, k + 1)
    BY <1>0, <2>3, ScrollMoves DEF Types
  <2> QED
    BY <2>2, <2>3, <2>5, <2>6
<1>11. CASE CopyDone
  <2>1. UNCHANGED <<vedio, line, paper, cursor_y, torn, wide>>
        /\ pc = "copy" /\ pc' = "clear" /\ k >= CopyCells
    BY <1>11 DEF CopyDone
  <2>2. ASSUME Undisturbed
        PROVE  cursor_y = LastRow /\ Stacked(vedio, line, paper, LastRow - 1)
    <3>1. cursor_y = LastRow /\ AllMoving(vedio, line, paper, k)
      BY <1>0, <2>1, <2>2 DEF Picture
    <3> QED
      BY <1>0, <2>1, <3>1, ScrollEnds DEF Types
  <2> QED
    BY <2>1, <2>2 DEF Picture, Undisturbed
<1>12. CASE Clear
  <2>1. UNCHANGED <<line, paper, cursor_y, torn, wide>> /\ pc = "clear" /\ pc' = "clear"
        /\ vedio' = Stored(ClearFrom + k, BLANK)
    BY <1>12 DEF Clear
  <2>2. ASSUME Undisturbed
        PROVE  cursor_y = LastRow /\ Stacked(vedio', line, paper, LastRow - 1)
    BY <1>0, <2>1, <2>2, ClearStacked DEF Picture
  <2> QED
    BY <2>1, <2>2 DEF Picture, Undisturbed
<1>13. CASE ClearDone
  BY <1>0, <1>13 DEF Picture, Undisturbed, ClearDone
<1>14. CASE Home
  <2>1. UNCHANGED <<vedio, cursor_y, torn, wide>> /\ pc = "home" /\ pc' = "next"
        /\ Ended(line)
    BY <1>14 DEF Home
  <2>2. ASSUME Undisturbed
        PROVE  Stacked(vedio, line', paper', cursor_y)
    <3>1. PICK y \in Nat : y = cursor_y - 1 /\ y + 1 = cursor_y
      BY <1>0, <2>1, <2>2 DEF Picture, Types
    <3>2. Stacked(vedio, line, paper, y) /\ line \in Lines
      BY <1>0, <2>1, <2>2, <3>1 DEF Picture, Types
    <3>3. Stacked(vedio, line', paper', y + 1)
      BY <1>0, <2>1, <3>2, EndStacked
    <3> QED
      BY <3>1, <3>3
  <2> QED
    BY <2>1, <2>2 DEF Picture, Undisturbed
<1>15. CASE enable_interrupts
  BY <1>0, <1>15 DEF Picture, Undisturbed, enable_interrupts
<1>16. CASE int21_handler
  <2>1. UNCHANGED <<vedio, cursor_x, cursor_y, line, paper, pc, wide>>
        /\ (~ torn' => ~ torn /\ pc = "next")
    BY <1>16 DEF int21_handler
  <2> QED
    BY <1>0, <2>1 DEF Picture, Undisturbed
<1>17. CASE HandlerLetter
  <2> DEFINE v == Stored(cursor_y * VGA_WIDTH + cursor_x, KEY)
             l == WithLetter(cursor_x, KEY)
  <2>1. UNCHANGED <<pc, torn, wide>> /\ left > 0
    BY <1>17 DEF HandlerLetter
  <2>2. SUFFICES ASSUME Undisturbed
                 PROVE  pc = "next" /\ Stacked(vedio', line', paper', cursor_y')
    BY <2>1 DEF Picture, Undisturbed
  <2>3. pc = "next" /\ cursor_y \in 0 .. LastRow
    BY <1>0, <2>1, <2>2 DEF Types, RowBound, Undisturbed
  <2>4. cursor_x \in 0 .. (W - 1)
    BY <1>0, <2>2, <2>3 DEF Types, Column, Undisturbed, Moved
  <2>5. v = [vedio EXCEPT ![cursor_y * W + cursor_x] = KEY] /\ v \in [Cells -> Int]
    BY <1>0, <2>3, <2>4, RowCell, StoredType DEF Stored
  <2>6. l = [line EXCEPT ![cursor_x] = KEY] /\ l \in Lines
    BY <1>0, <2>4, LetterType DEF WithLetter, Types, Lines
  <2>7. Stacked(v, l, paper, cursor_y)
    <3>1. Stacked(vedio, line, paper, cursor_y)
      BY <1>0, <2>2, <2>3 DEF Picture
    <3>2. Stacked([vedio EXCEPT ![cursor_y * W + cursor_x] = KEY],
                  [line EXCEPT ![cursor_x] = KEY], paper, cursor_y)
      <4>1. KEY \in Int /\ vedio \in [Cells -> Int] /\ line \in Lines /\ paper \in Seq(Lines)
        BY <1>0 DEF Types
      <4> QED
        BY <2>3, <2>4, <3>1, <4>1, LetterStacked
    <3> QED
      BY <2>5, <2>6, <3>2
  <2>8. CASE cursor_x + 1 > VGA_WIDTH - 1 /\ cursor_y < LastRow
    <3>1. vedio' = v /\ cursor_y' = cursor_y + 1 /\ Ended(l)
      BY <1>17, <2>3, <2>8 DEF HandlerLetter
    <3> HIDE DEF v, l
    <3>2. Stacked(v, line', paper', cursor_y + 1)
      BY <1>0, <2>3, <2>6, <2>7, <3>1, EndStacked
    <3> QED
      BY <2>3, <3>1, <3>2
  <2>9. CASE cursor_x + 1 > VGA_WIDTH - 1 /\ ~ (cursor_y < LastRow)
    <3>1. cursor_y = LastRow
      BY <2>3, <2>9
    <3>2. vedio' = Scrolled(v) /\ cursor_y' = LastRow /\ Ended(l)
      BY <1>17, <2>9, <3>1 DEF HandlerLetter
    <3> HIDE DEF v, l
    <3>3. Stacked(Scrolled(v), l, paper, LastRow - 1)
      BY <1>0, <2>5, <2>7, <3>1, ScrolledStacked DEF Types
    <3>4. PICK y \in Nat : y = LastRow - 1 /\ y + 1 = LastRow
      OBVIOUS
    <3>5. Stacked(Scrolled(v), line', paper', y + 1)
      BY <1>0, <2>6, <3>2, <3>3, <3>4, EndStacked
    <3> QED
      BY <2>3, <3>2, <3>4, <3>5
  <2>10. CASE ~ (cursor_x + 1 > VGA_WIDTH - 1)
    <3>1. vedio' = v /\ cursor_y' = cursor_y /\ line' = l /\ paper' = paper
      BY <1>17, <2>10 DEF HandlerLetter
    <3> HIDE DEF v, l
    <3> QED
      BY <2>3, <2>7, <3>1
  <2> QED
    BY <2>8, <2>9, <2>10
<1> QED
  BY <1>1, <1>2, <1>3, <1>4, <1>5, <1>6, <1>7, <1>8, <1>9, <1>10, <1>11, <1>12, <1>13,
     <1>14, <1>15, <1>16, <1>17 DEF Next, print

-----------------------------------------------------------------------------
(* The invariant holds when the screen has been cleared. *)
LEMMA ConsoleInit ==
    ASSUME Init
    PROVE  ConsoleInv
<1> USE ScreenAssumption
<1>1. Types
  <2>1. EmptyLine \in Lines
    BY DEF EmptyLine, Lines
  <2>2. <<>> \in Seq(Lines)
    OBVIOUS
  <2> QED
    BY <2>1, <2>2 DEF Init, Types, OnLine
<1>2. Column /\ RowBound /\ Target
  BY DEF Init, Column, RowBound, Target
<1>3. Picture
  <2>1. Stacked(vedio, line, paper, cursor_y)
    <3>1. Len(paper) = 0 /\ line = EmptyLine
      BY DEF Init
    <3>2. \A c \in 0 .. (Kept - 1) : EmptyLine[c] = BLANK
      BY KeptBound DEF EmptyLine
    <3> QED
      BY <3>1, <3>2 DEF Stacked, OnRow, LineAt
  <2> QED
    BY <2>1 DEF Init, Picture
<1> QED
  BY <1>1, <1>2, <1>3 DEF ConsoleInv

(* A step that changes nothing keeps the invariant. *)
LEMMA ConsoleStutters ==
    ASSUME ConsoleInv, UNCHANGED vars
    PROVE  ConsoleInv'
<1>1. Types' /\ Column' /\ RowBound' /\ Target'
  BY DEF ConsoleInv, Types, Column, RowBound, Target, vars
<1>2. CopyTo' = CopyTo
  BY DEF CopyTo, vars
<1>3. Picture'
  BY <1>2 DEF ConsoleInv, Picture, Undisturbed, vars
<1> QED
  BY <1>1, <1>3 DEF ConsoleInv

(* The inductive invariant: where the column and the row can be at each      *)
(* access of print, which cell its letter goes to, and, while nothing        *)
(* disturbs it, where the lines are, also half way through scroll1.          *)
THEOREM ConsoleInvariant == Spec => []ConsoleInv
<1>1. Init => ConsoleInv
  BY ConsoleInit
<1>2. ConsoleInv /\ [Next]_vars => ConsoleInv'
  <2>1. ASSUME ConsoleInv, Next
        PROVE  ConsoleInv'
    BY <2>1, TypesKept, ColumnKept, RowKept, TargetKept, PictureKept DEF ConsoleInv
  <2> QED
    BY <2>1, ConsoleStutters
<1> QED
  BY <1>1, <1>2, PTL DEF Spec

(* Wherever the handler meets print (isr.c), the column is on the row again  *)
(* before the next character, unless the last one was a tab (kernel.c:97).   *)
THEOREM ColumnAlwaysRecovers == Spec => []ColumnRecovers
<1>1. ConsoleInv => ColumnRecovers
  BY ScreenAssumption DEF ConsoleInv, Types, Column, ColumnRecovers
<1> QED
  BY <1>1, ConsoleInvariant, PTL

(* The cursor gets below the screen, by one row at most, only when the       *)
(* handler came between the test and the store of cursor_y (kernel.c:87 and  *)
(* :107), and a letter goes behind the screen only after that, after a tab   *)
(* past the row or out of an interrupted full row.                           *)
THEOREM RowLostOnlyByRace == Spec => []OffScreenExplained
<1>1. ConsoleInv => OffScreenExplained
  BY DEF ConsoleInv, RowBound, Target, OffScreenExplained
<1> QED
  BY <1>1, ConsoleInvariant, PTL

(* What scroll1 keeps of the lines printed before is on the screen above the *)
(* cursor, every line on its row, whoever scrolled (kernel.c:50).            *)
THEOREM LinesStayShown == Spec => []LinesShown
<1>1. ASSUME ConsoleInv
      PROVE  LinesShown
  <2>1. SUFFICES ASSUME pc = "next", ~ torn, ~ wide,
                        NEW i \in 1 .. Len(paper), i <= cursor_y,
                        NEW c \in 0 .. (Kept - 1), paper[i][c] # BLANK
                 PROVE  vedio[(cursor_y - i) * VGA_WIDTH + c] = paper[i][c]
    BY DEF LinesShown
  <2>2. Stacked(vedio, line, paper, cursor_y)
    BY <1>1, <2>1 DEF ConsoleInv, Picture, Undisturbed, OnLine
  <2>3. i \in 0 .. Len(paper) /\ i # 0
    BY <1>1 DEF ConsoleInv, Types
  <2>4. OnRow(vedio, paper[i], cursor_y - i)
    BY <2>1, <2>2, <2>3 DEF Stacked, LineAt
  <2> QED
    BY <2>1, <2>4 DEF OnRow
<1> QED
  BY <1>1, ConsoleInvariant, PTL
=============================================================================
