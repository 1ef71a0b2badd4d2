------------------------------ MODULE Console ------------------------------
(***************************************************************************)
(* The text console (console.c): a cursor in two ints and the cells of     *)
(* video memory.  The ints are not volatile and nothing guards them, so    *)
(* what an interrupt handler that prints sees, and what it destroys, is    *)
(* decided by the loads and stores that the compiler chose.  The steps of  *)
(* putc are those of the repository's build (build/kernel/console): the    *)
(* cursor is loaded once, line before column, kept in registers, and       *)
(* stored at the end; video memory is volatile and accessed in the order   *)
(* of the source.  A cell stands for its character byte and colour byte.   *)
(***************************************************************************)
EXTENDS Integers

CONSTANTS
  VGA_WIDTH, VGA_HEIGHT,
  TabStop             \* 8 in the source

ASSUME ConsoleAssumption ==
  /\ VGA_WIDTH \in Nat \ {0}
  /\ VGA_HEIGHT \in Nat \ {0}
  /\ TabStop \in Nat \ {0}

VARIABLES
  cursor_x, cursor_y,
  vga,                \* video memory
  at,                 \* the next instruction of the putc that the kernel runs
  reg                 \* its registers

screenVars  == <<cursor_x, cursor_y, vga>>
consoleVars == <<screenVars, at, reg>>

NL    == "\n"
CR    == "\r"
TAB   == "\t"
Blank == " "
Printable(c) == c \notin {NL, CR, TAB}

\* Video memory goes on behind the last line of the screen; a line of it is
\* all that matters.
Screen == 0 .. VGA_WIDTH * VGA_HEIGHT - 1
Window == 0 .. VGA_WIDTH * (VGA_HEIGHT + 1) - 1
Cell(x, y) == y * VGA_WIDTH + x

ConsoleInit ==
  /\ cursor_x = 0
  /\ cursor_y = 0
  /\ vga = [i \in Window |-> Blank]
  /\ at = "ret"
  /\ reg = [c |-> Blank, x |-> 0, y |-> 0, i |-> 0]
-----------------------------------------------------------------------------
(* What a character does to a cursor at x, y. *)

NextTabStop(x) == TabStop * ((x + TabStop) \div TabStop)

ColumnAfter(c, x) == IF c = TAB THEN NextTabStop(x) ELSE x + 1

\* Mutant: the last column is tested with > instead of >=.
BreaksLineLate(c, x) == c = NL \/ (c # CR /\ ColumnAfter(c, x) > VGA_WIDTH)

\* The cursor goes to the next line: at a newline, or past the last column.
BreaksLine(c, x) == c = NL \/ (c # CR /\ ColumnAfter(c, x) >= VGA_WIDTH)

NewColumn(c, x)  == IF c = CR \/ BreaksLine(c, x) THEN 0 ELSE ColumnAfter(c, x)
NewLine(c, x, y) == IF BreaksLine(c, x) THEN y + 1 ELSE y

\* scroll(): every line moves up by one and the last becomes blank.
Scrolled(v) ==
  [i \in Window |->
     IF i + VGA_WIDTH \in Screen THEN v[i + VGA_WIDTH]
     ELSE IF i \in Screen THEN Blank ELSE v[i]]

Written(v, c, x, y) == IF Printable(c) THEN [v EXCEPT ![Cell(x, y)] = c] ELSE v

\* putc without interruption: in an interrupt handler, or after cli.
PutcAtOnce(c) ==
  LET y == NewLine(c, cursor_x, cursor_y)
      v == Written(vga, c, cursor_x, cursor_y)
  IN  /\ cursor_x' = NewColumn(c, cursor_x)
      /\ IF y >= VGA_HEIGHT
           THEN cursor_y' = VGA_HEIGHT - 1 /\ vga' = Scrolled(v)
           ELSE cursor_y' = y /\ vga' = v
-----------------------------------------------------------------------------
(* putc as the kernel runs it, one access to memory at a time. *)

LoadLine(c) ==
  /\ at = "ret"
  /\ reg' = [reg EXCEPT !.c = c, !.y = cursor_y]
  /\ at' = IF c \in {NL, CR} THEN "store_x" ELSE "load_x"
  /\ UNCHANGED screenVars

LoadColumn ==
  /\ at = "load_x"
  /\ reg' = [reg EXCEPT !.x = cursor_x]
  /\ at' = IF Printable(reg.c) THEN "putc_at" ELSE "store_x"
  /\ UNCHANGED screenVars

\* putc_at
PutcAt ==
  /\ at = "putc_at"
  /\ vga' = [vga EXCEPT ![Cell(reg.x, reg.y)] = reg.c]
  /\ at' = "store_x"
  /\ UNCHANGED <<cursor_x, cursor_y, reg>>

\* The test for the bottom of the screen looks at the register.
AfterStores(y) == IF y >= VGA_HEIGHT THEN "copy" ELSE "ret"

StoreColumn ==
  /\ at = "store_x"
  /\ cursor_x' = NewColumn(reg.c, reg.x)
  /\ reg' = [reg EXCEPT !.y = NewLine(reg.c, reg.x, reg.y), !.i = VGA_WIDTH]
  /\ at' = IF BreaksLine(reg.c, reg.x) THEN "store_y" ELSE AfterStores(reg.y)
  /\ UNCHANGED <<cursor_y, vga>>

StoreLine ==
  /\ at = "store_y"
  /\ cursor_y' = reg.y
  /\ at' = AfterStores(reg.y)
  /\ UNCHANGED <<cursor_x, vga, reg>>

\* scroll, cell by cell: the copy, the blank line, the cursor.
CopyCell ==
  /\ at = "copy"
  /\ reg.i \in Screen
  /\ vga' = [vga EXCEPT ![reg.i - VGA_WIDTH] = vga[reg.i]]
  /\ reg' = [reg EXCEPT !.i = @ + 1]
  /\ UNCHANGED <<cursor_x, cursor_y, at>>

\* Mutant: the blank line begins one cell late.
CopyDoneLate ==
  /\ at = "copy"
  /\ reg.i \notin Screen
  /\ reg' = [reg EXCEPT !.i = Cell(1, VGA_HEIGHT - 1)]
  /\ at' = "blank"
  /\ UNCHANGED screenVars

CopyDone ==
  /\ at = "copy"
  /\ reg.i \notin Screen
  /\ reg' = [reg EXCEPT !.i = Cell(0, VGA_HEIGHT - 1)]
  /\ at' = "blank"
  /\ UNCHANGED screenVars

\* Mutant: the loop over the last line does not advance.
BlankCellStuck ==
  /\ at = "blank"
  /\ reg.i \in Screen
  /\ vga' = [vga EXCEPT ![reg.i] = Blank]
  /\ UNCHANGED <<cursor_x, cursor_y, at, reg>>

BlankCell ==
  /\ at = "blank"
  /\ reg.i \in Screen
  /\ vga' = [vga EXCEPT ![reg.i] = Blank]
  /\ reg' = [reg EXCEPT !.i = @ + 1]
  /\ UNCHANGED <<cursor_x, cursor_y, at>>

\* Mutant: scroll leaves the cursor where it is.
ScrollDoneBelow ==
  /\ at = "blank"
  /\ reg.i \notin Screen
  /\ at' = "ret"
  /\ UNCHANGED <<screenVars, reg>>

ScrollDone ==
  /\ at = "blank"
  /\ reg.i \notin Screen
  /\ cursor_y' = VGA_HEIGHT - 1
  /\ at' = "ret"
  /\ UNCHANGED <<cursor_x, vga, reg>>

scroll == CopyCell \/ CopyDone \/ BlankCell \/ ScrollDone

PutcStep == LoadColumn \/ PutcAt \/ StoreColumn \/ StoreLine \/ scroll

\* The step with which putc returns.
PutcReturns == at # "ret" /\ at' = "ret"
=============================================================================
