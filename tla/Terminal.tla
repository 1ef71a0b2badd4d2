------------------------------ MODULE Terminal ------------------------------
(***************************************************************************)
(* What a console promises, without a screen: text is written on paper of  *)
(* unlimited length, and its last lines are what one sees.                 *)
(***************************************************************************)
EXTENDS Integers, Sequences, SequencesExt

CONSTANTS Width, Height, TabStop

BlankLine == [x \in 0 .. Width - 1 |-> " "]

\* The paper is a sequence of lines; one writes on the last one at column x.
NewPaper == [lines |-> <<BlankLine>>, x |-> 0]

Broken(p) == [lines |-> Append(p.lines, BlankLine), x |-> 0]
MovedTo(p, x) == IF x >= Width THEN Broken(p) ELSE [p EXCEPT !.x = x]
Marked(p, c) == [p EXCEPT !.lines[Len(p.lines)][p.x] = c]

Typed(p, c) ==
  CASE c = "\n" -> Broken(p)
    [] c = "\r" -> MovedTo(p, 0)
    [] c = "\t" -> MovedTo(p, CHOOSE x \in p.x + 1 .. p.x + TabStop : x % TabStop = 0)
    [] OTHER    -> MovedTo(Marked(p, c), p.x + 1)

Paper(text) == FoldLeft(Typed, NewPaper, text)

\* The line of the paper in line r of the screen.
Above(p) == IF Len(p.lines) <= Height THEN 0 ELSE Len(p.lines) - Height
Visible(p, r) == IF Above(p) + r + 1 <= Len(p.lines) THEN p.lines[Above(p) + r + 1] ELSE BlankLine
CursorLine(p) == Len(p.lines) - Above(p) - 1
=============================================================================
