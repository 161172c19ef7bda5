---------------------------------- MODULE Vga ----------------------------------
(***************************************************************************)
(* The text screen, arch/x86/kernel/vga.c: vga_putchar with its scrolling, *)
(* and vga_clear.  A character is written under olock, so a call is one    *)
(* action.  paper is an endless sheet on which the same characters are     *)
(* typed: the screen should be a window on it.                             *)
(***************************************************************************)
EXTENDS Integers, Sequences

CONSTANTS
  COLS, ROWS, TAB,   \* 80, 25 and 8
  Printable,         \* characters from the space upwards; BLANK is the space
  BLANK,
  MAX_LINES          \* bounds the number of lines typed

Control == {"BS", "TAB", "CR", "LF", "other"}

ASSUME VgaAssumption ==
  /\ {COLS, ROWS, TAB, MAX_LINES} \subseteq Nat \ {0} /\ COLS % TAB = 0
  /\ BLANK \in Printable /\ Printable \cap Control = {}

VARIABLES
  textmem,        \* the screen: ROWS * COLS cells
  csr_x, csr_y,   \* the cursor
  paper,          \* the lines typed since the screen was cleared
  line, column    \* where the next character is typed on the paper

vgaVars == <<textmem, csr_x, csr_y, paper, line, column>>

Cells == 0..(ROWS * COLS - 1)
BlankLine == [x \in 0..(COLS - 1) |-> BLANK]

VgaTypeOK ==
  /\ textmem \in [Cells -> Printable]
  /\ csr_x \in 0..(COLS - 1) /\ csr_y \in 0..(ROWS - 1)
  /\ \A l \in DOMAIN paper : paper[l] \in [0..(COLS - 1) -> Printable]
  /\ line \in 0..MAX_LINES /\ column \in 0..(COLS - 1)

VgaInit ==
  /\ textmem = [k \in Cells |-> BLANK] /\ csr_x = 0 /\ csr_y = 0
  /\ paper = [l \in 0..MAX_LINES |-> BlankLine] /\ line = 0 /\ column = 0

-----------------------------------------------------------------------------
\* Faulty variant: the last line is not cleared.
scroll_dirty(text, y) ==
  IF y < ROWS THEN text
  ELSE LET temp == y - ROWS + 1
       IN  [k \in Cells |-> IF k < (ROWS - temp) * COLS THEN text[k + temp * COLS] ELSE text[k]]

\* scroll, for the given cursor: the screen moves up and the last line is cleared.
scroll(text, y) ==
  IF y < ROWS THEN text
  ELSE LET temp == y - ROWS + 1
       IN  [k \in Cells |-> CASE k < (ROWS - temp) * COLS -> text[k + temp * COLS]
                              [] k \in (ROWS - temp) * COLS..((ROWS - temp + 1) * COLS - 1) -> BLANK
                              [] OTHER -> text[k]]

\* The cursor has reached the edge.
wraps(x) == x >= COLS

\* The next multiple of the tabulator.
tab_stop(x) == ((x + TAB) \div TAB) * TAB

\* The column after a character, before the edge is looked at.
advance(c, x) ==
  CASE c = "BS" -> IF x # 0 THEN x - 1 ELSE x
    [] c = "TAB" -> tab_stop(x)
    [] c \in {"CR", "LF"} -> 0
    [] c = "other" -> x
    [] OTHER -> x + 1

vga_putchar(c) ==
  LET x == advance(c, csr_x)
      y == csr_y + (IF c = "LF" THEN 1 ELSE 0) + (IF wraps(x) THEN 1 ELSE 0)
      text == IF c \in Printable THEN [textmem EXCEPT ![csr_y * COLS + csr_x] = c] ELSE textmem
  IN  /\ csr_x' = IF wraps(x) THEN 0 ELSE x
      /\ csr_y' = IF y >= ROWS THEN ROWS - 1 ELSE y
      /\ textmem' = scroll(text, y)

\* What a typewriter with tabulators does: the reference.
type_on_paper(c) ==
  LET stop == CHOOSE x \in 1..COLS : /\ x > column /\ x % TAB = 0
                                     /\ \A z \in (column + 1)..(x - 1) : z % TAB # 0
      next == CASE c = "BS" /\ column > 0 -> column - 1
                [] c = "TAB" -> stop
                [] c \in Printable -> column + 1
                [] c \in {"CR", "LF"} -> 0
                [] OTHER -> column
      feed == c = "LF" \/ next = COLS
  IN  /\ feed => line < MAX_LINES
      /\ line' = IF feed THEN line + 1 ELSE line
      /\ column' = next % COLS
      /\ paper' = IF c \in Printable THEN [paper EXCEPT ![line][column] = c] ELSE paper

put(c) == vga_putchar(c) /\ type_on_paper(c)

\* vga_clear, and a new sheet.
vga_clear ==
  /\ textmem' = [k \in Cells |-> BLANK] /\ csr_x' = 0 /\ csr_y' = 0
  /\ paper' = [l \in 0..MAX_LINES |-> BlankLine] /\ line' = 0 /\ column' = 0

VgaNext == (\E c \in Printable \cup Control : put(c)) \/ vga_clear

VgaSpec == VgaInit /\ [][VgaNext]_vgaVars

-----------------------------------------------------------------------------
\* The screen shows the last lines of what was typed, whatever the mix of
\* wrapping, tabs, backspaces and scrolling, and the cursor is where the next
\* character belongs.
ScreenIsWindow ==
  LET top == line - csr_y
  IN  /\ VgaTypeOK
      /\ csr_x = column /\ (top = 0 \/ csr_y = ROWS - 1) /\ top >= 0
      /\ \A y \in 0..(ROWS - 1), x \in 0..(COLS - 1) :
           textmem[y * COLS + x] = IF top + y <= MAX_LINES THEN paper[top + y][x] ELSE BLANK
=============================================================================
