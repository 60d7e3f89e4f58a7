------------------------------- MODULE Console -------------------------------
(***************************************************************************)
(* The text console (kernel.c): print moves one cursor over the VGA text   *)
(* screen and scrolls it.  Once interrupts are on, int21_handler (isr.c)   *)
(* prints too, on the same cursor, wherever it meets the code it           *)
(* interrupts.  That code is modelled access by access, in the order of    *)
(* the build (build/kernel/kernel.o): each use of cursor_x or cursor_y     *)
(* loads it again, and an increment is a load and a store.  The handler    *)
(* runs with interrupts off, so each of its characters is one step and the *)
(* interrupted code waits.                                                 *)
(*                                                                         *)
(* Colours are left out.  A letter is its number among those printed, so   *)
(* that no two are alike.                                                  *)
(***************************************************************************)
EXTENDS Integers, Sequences

CONSTANTS VGA_WIDTH, VGA_HEIGHT,
          TabStep,      \* 5
          HandlerLen,   \* letters of int21_handler's message, 13
          MaxChars,     \* bound: characters print is called with
          MaxKeys       \* bound: keyboard interrupts

ASSUME ScreenAssumption ==
    /\ VGA_HEIGHT \in Nat /\ VGA_HEIGHT >= 2
    /\ VGA_WIDTH \in Nat /\ VGA_WIDTH >= VGA_HEIGHT
ASSUME StepAssumption == TabStep \in Nat /\ HandlerLen \in Nat
ASSUME BoundAssumption == MaxChars \in Nat /\ MaxKeys \in Nat

LastRow == VGA_HEIGHT - 1
Cells   == 0 .. (VGA_WIDTH * VGA_HEIGHT - 1)
BLANK   == 0                    \* 0x0020 and 0x0000 look the same
KEY     == -1                   \* a letter of the handler's

VARIABLES vedio,                \* the screen
          cursor_x, cursor_y,
          IFlag,                \* interrupts are enabled
          pc, sym, reg, at, k,  \* print: where, its character, registers, scroll index
          left,                 \* letters the handler has still to print
          n, keys,              \* characters and interrupts so far
          torn, raced, split,   \* history: interrupted inside a character; between
                                \* the row's test and its store; past the last column
          wide,                 \* history: a tab moved the cursor past the last column
          stray,                \* history: something was written off the screen
          line, paper           \* history: the letters of this line by column, and
                                \* the lines before it, the latest first

cursor == <<cursor_x, cursor_y>>
hist   == <<torn, raced, split, wide, stray, line, paper>>
vars   == <<vedio, cursor_x, cursor_y, IFlag, pc, sym, reg, at, k, left, n, keys,
            torn, raced, split, wide, stray, line, paper>>

EmptyLine == [c \in 0 .. (VGA_WIDTH - 1) |-> BLANK]

(* A store through vedio; memory behind the screen is not shown. *)
Stored(c, ch) == IF c \in Cells THEN [vedio EXCEPT ![c] = ch] ELSE vedio

(* A letter at column x of the line; lines that end go to paper. *)
WithLetter(x, ch) == IF x \in DOMAIN line THEN [line EXCEPT ![x] = ch] ELSE line

Older == IF Len(paper) < LastRow THEN paper ELSE SubSeq(paper, 1, LastRow - 1)
Ended(l) == paper' = <<l>> \o Older /\ line' = EmptyLine

-----------------------------------------------------------------------------
(* print, one action per access.  The handler does not run. *)

Main(p) == pc = p /\ left = 0

(* The next character of the string. *)
NextLetter ==
    /\ Main("next") /\ n < MaxChars
    /\ pc' = "load_y" /\ n' = n + 1 /\ sym' = "letter"
    /\ UNCHANGED <<vedio, cursor, IFlag, reg, at, k, left, keys, hist>>

NextNewline ==
    /\ Main("next") /\ n < MaxChars
    /\ pc' = "row" /\ n' = n + 1 /\ sym' = "newline"
    /\ UNCHANGED <<vedio, cursor, IFlag, reg, at, k, left, keys, hist>>

NextTab ==
    /\ Main("next") /\ n < MaxChars
    /\ pc' = "tab" /\ n' = n + 1 /\ sym' = "tab" /\ reg' = cursor_x
    /\ UNCHANGED <<vedio, cursor, IFlag, at, k, left, keys, hist>>

(* The tab's store: nothing looks whether the column is still on the row.    *)
Tab ==
    /\ Main("tab")
    /\ cursor_x' = reg + TabStep
    /\ wide' = (wide \/ reg + TabStep >= VGA_WIDTH)
    /\ pc' = "next"
    /\ UNCHANGED <<vedio, cursor_y, IFlag, sym, reg, at, k, left, n, keys,
                   torn, raced, split, stray, line, paper>>

LoadY ==
    /\ Main("load_y")
    /\ at' = cursor_y * VGA_WIDTH
    /\ pc' = "load_x"
    /\ UNCHANGED <<vedio, cursor, IFlag, sym, reg, k, left, n, keys, hist>>

LoadX ==
    /\ Main("load_x")
    /\ at' = at + cursor_x
    /\ pc' = "store"
    /\ UNCHANGED <<vedio, cursor, IFlag, sym, reg, k, left, n, keys, hist>>

Store ==
    /\ Main("store")
    /\ vedio' = Stored(at, n)
    /\ stray' = (stray \/ at \notin Cells)
    /\ line' = WithLetter(cursor_x, n)
    /\ pc' = "inc"
    /\ UNCHANGED <<cursor, IFlag, sym, reg, at, k, left, n, keys,
                   torn, raced, split, wide, paper>>

Inc ==
    /\ Main("inc")
    /\ reg' = cursor_x
    /\ pc' = "inc_store"
    /\ UNCHANGED <<vedio, cursor, IFlag, sym, at, k, left, n, keys, hist>>

IncStore ==
    /\ Main("inc_store")
    /\ cursor_x' = reg + 1
    /\ pc' = "wrap"
    /\ UNCHANGED <<vedio, cursor_y, IFlag, sym, reg, at, k, left, n, keys, hist>>

(* Mutant: the column is compared with the width. *)
WrapLate ==
    /\ Main("wrap")
    /\ pc' = IF cursor_x > VGA_WIDTH THEN "row" ELSE "next"
    /\ UNCHANGED <<vedio, cursor, IFlag, sym, reg, at, k, left, n, keys, hist>>

(* if(cursor_x>79) *)
Wrap ==
    /\ Main("wrap")
    /\ pc' = IF cursor_x > VGA_WIDTH - 1 THEN "row" ELSE "next"
    /\ UNCHANGED <<vedio, cursor, IFlag, sym, reg, at, k, left, n, keys, hist>>

(* Mutant: the row is compared with the height. *)
RowLate ==
    /\ Main("row")
    /\ pc' = IF cursor_y < VGA_HEIGHT THEN "down" ELSE "copy"
    /\ k' = 0
    /\ UNCHANGED <<vedio, cursor, IFlag, sym, reg, at, left, n, keys, hist>>

(* if(cursor_y<24), of a newline and of a full row. *)
Row ==
    /\ Main("row")
    /\ pc' = IF cursor_y < LastRow THEN "down" ELSE "copy"
    /\ k' = 0
    /\ UNCHANGED <<vedio, cursor, IFlag, sym, reg, at, left, n, keys, hist>>

Down ==
    /\ Main("down")
    /\ reg' = cursor_y
    /\ pc' = "down_store"
    /\ UNCHANGED <<vedio, cursor, IFlag, sym, at, k, left, n, keys, hist>>

DownStore ==
    /\ Main("down_store")
    /\ cursor_y' = reg + 1
    /\ pc' = "home"
    /\ UNCHANGED <<vedio, cursor_x, IFlag, sym, reg, at, k, left, n, keys, hist>>

(* scroll1: all rows but the last, all columns but the last, a load and a    *)
(* store per cell; k counts the cells copied.                                *)
CopyCells == LastRow * (VGA_WIDTH - 1)
CopyTo    == (k \div (VGA_WIDTH - 1)) * VGA_WIDTH + (k % (VGA_WIDTH - 1))

CopyLoad ==
    /\ Main("copy") /\ k < CopyCells
    /\ reg' = vedio[CopyTo + VGA_WIDTH]
    /\ pc' = "copy_store"
    /\ UNCHANGED <<vedio, cursor, IFlag, sym, at, k, left, n, keys, hist>>

CopyStore ==
    /\ Main("copy_store")
    /\ vedio' = Stored(CopyTo, reg)
    /\ k' = k + 1
    /\ pc' = "copy"
    /\ UNCHANGED <<cursor, IFlag, sym, reg, at, left, n, keys, hist>>

CopyDone ==
    /\ Main("copy") /\ k >= CopyCells
    /\ k' = 0 /\ pc' = "clear"
    /\ UNCHANGED <<vedio, cursor, IFlag, sym, reg, at, left, n, keys, hist>>

(* Mutant: the row above is cleared. *)
ClearAboveFrom == (LastRow - 1) * VGA_WIDTH

(* 24*79 and not 24*80: the clearing begins in the row above the last. *)
ClearFrom == LastRow * (VGA_WIDTH - 1)

Clear ==
    /\ Main("clear") /\ k < VGA_WIDTH - 1
    /\ vedio' = Stored(ClearFrom + k, BLANK)
    /\ k' = k + 1
    /\ UNCHANGED <<cursor, IFlag, pc, sym, reg, at, left, n, keys, hist>>

ClearDone ==
    /\ Main("clear") /\ k >= VGA_WIDTH - 1
    /\ pc' = "home"
    /\ UNCHANGED <<vedio, cursor, IFlag, sym, reg, at, k, left, n, keys, hist>>

(* cursor_x=0 *)
Home ==
    /\ Main("home")
    /\ cursor_x' = 0
    /\ pc' = "next"
    /\ Ended(line)
    /\ UNCHANGED <<vedio, cursor_y, IFlag, sym, reg, at, k, left, n, keys,
                   torn, raced, split, wide, stray>>

print ==
    \/ NextLetter \/ NextNewline \/ NextTab
    \/ Tab
    \/ LoadY \/ LoadX \/ Store \/ Inc \/ IncStore \/ Wrap
    \/ Row \/ Down \/ DownStore
    \/ CopyLoad \/ CopyStore \/ CopyDone \/ Clear \/ ClearDone
    \/ Home

-----------------------------------------------------------------------------
(* kernel_main's last call but one. *)
enable_interrupts ==
    /\ Main("next") /\ ~ IFlag
    /\ IFlag' = TRUE
    /\ UNCHANGED <<vedio, cursor, pc, sym, reg, at, k, left, n, keys, hist>>

(* int21_handler begins to print, wherever the code it interrupts is. *)
int21_handler ==
    /\ IFlag /\ left = 0 /\ keys < MaxKeys
    /\ left' = HandlerLen /\ keys' = keys + 1
    /\ torn' = (torn \/ pc # "next")
    /\ raced' = (raced \/ pc \in {"down", "down_store"})
    /\ split' = (split \/ (cursor_x >= VGA_WIDTH /\ sym = "letter"))
    /\ UNCHANGED <<vedio, cursor, IFlag, pc, sym, reg, at, k, n, wide, stray, line, paper>>

(* What scroll1 makes of a screen when nothing comes between. *)
Scrolled(v) ==
    [c \in Cells |->
        IF c \in ClearFrom .. (ClearFrom + VGA_WIDTH - 2) THEN BLANK
        ELSE IF c < LastRow * VGA_WIDTH /\ c % VGA_WIDTH # VGA_WIDTH - 1
        THEN v[c + VGA_WIDTH]
        ELSE v[c]]

(* One letter of its message: the default case of print. *)
HandlerLetter ==
    LET c    == cursor_y * VGA_WIDTH + cursor_x
        full == cursor_x + 1 > VGA_WIDTH - 1
        v    == Stored(c, KEY)
    IN  /\ left > 0
        /\ left' = left - 1
        /\ stray' = (stray \/ c \notin Cells)
        /\ cursor_x' = IF full THEN 0 ELSE cursor_x + 1
        /\ cursor_y' = IF full /\ cursor_y < LastRow THEN cursor_y + 1 ELSE cursor_y
        /\ vedio' = IF full /\ cursor_y >= LastRow THEN Scrolled(v) ELSE v
        /\ \/ full /\ Ended(WithLetter(cursor_x, KEY))
           \/ ~ full /\ line' = WithLetter(cursor_x, KEY) /\ UNCHANGED paper
        /\ UNCHANGED <<IFlag, pc, sym, reg, at, k, n, keys, torn, raced, split, wide>>

-----------------------------------------------------------------------------
(* After clear_screen and any number of empty lines. *)
Init ==
    /\ vedio = [c \in Cells |-> BLANK]
    /\ cursor_x = 0 /\ cursor_y \in 0 .. LastRow
    /\ IFlag = FALSE
    /\ pc = "next" /\ sym = "none" /\ reg = 0 /\ at = 0 /\ k = 0
    /\ left = 0 /\ n = 0 /\ keys = 0
    /\ torn = FALSE /\ raced = FALSE /\ split = FALSE /\ wide = FALSE /\ stray = FALSE
    /\ line = EmptyLine /\ paper = <<>>

Next == print \/ enable_interrupts \/ int21_handler \/ HandlerLetter

Spec == Init /\ [][Next]_vars

-----------------------------------------------------------------------------
(* PROPERTIES *)

(* Wherever the handler meets print, the column recovers: between two        *)
(* characters it is on the row, unless the last one was a tab.               *)
ColumnRecovers ==
    pc = "next" /\ left = 0 /\ cursor_x >= VGA_WIDTH => sym = "tab"

(* The row does not: when the handler moves to the last row between the test *)
(* of cursor_y and its increment, the cursor ends below the screen, and gets *)
(* no further.  Nothing else brings it there, and print writes behind the    *)
(* screen only after that, when it was interrupted with the cursor past the  *)
(* last column, or after a tab went past it.                                 *)
OffScreenExplained ==
    /\ cursor_y <= VGA_HEIGHT
    /\ cursor_y = VGA_HEIGHT => raced
    /\ stray => raced \/ split \/ wide

(* How much of a line scroll1 keeps on every row it is moved to: it clears   *)
(* from cell 24*79.                                                          *)
Kept == VGA_WIDTH - VGA_HEIGHT + 1

(* Of the lines printed before, those not yet scrolled off are on the screen *)
(* above the cursor, each on its row, to the column where scroll1 begins to  *)
(* clear, unless a character was interrupted or a tab left its row.          *)
LinesShown ==
    pc = "next" /\ ~ torn /\ ~ wide =>
        \A i \in 1 .. Len(paper) : i <= cursor_y =>
            \A c \in 0 .. (Kept - 1) :
                paper[i][c] # BLANK => vedio[(cursor_y - i) * VGA_WIDTH + c] = paper[i][c]
=============================================================================
