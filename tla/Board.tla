------------------------------- MODULE Board -------------------------------
(***************************************************************************)
(* The geometry of a bingo card (internal/bingo): a Size x Size grid whose *)
(* centre is free, its winning lines, and what a set of marked cells is    *)
(* worth.  The code fixes Size = 5; the parameter lets small boards be     *)
(* explored exhaustively.  A []bool of marks is the set of its true cells. *)
(***************************************************************************)
EXTENDS Naturals, FiniteSets, FiniteSetsExt

CONSTANT Size       \* cells on a side

ASSUME SizeAssumption == Size \in Nat \ {0, 1}

CellCount == Size * Size
CenterIdx == CellCount \div 2
FillCount == CellCount - 1

Cell == 0 .. CellCount - 1

Row(r)   == {r * Size + c : c \in 0 .. Size - 1}
Column(c) == {r * Size + c : r \in 0 .. Size - 1}
Diagonal     == {i * Size + i : i \in 0 .. Size - 1}

\* Mutant: the anti-diagonal starts one cell too far right.
AntiDiagonalShifted == {i * Size + (Size - i) : i \in 0 .. Size - 1}

AntiDiagonal == {i * Size + (Size - 1 - i) : i \in 0 .. Size - 1}

Lines == {Row(r) : r \in 0 .. Size - 1} \cup {Column(c) : c \in 0 .. Size - 1}
           \cup {Diagonal, AntiDiagonal}

\* Mutant: only stored marks count.
StoredMarks(marks) == marks

\* The free centre counts whatever the stored mark says.
MarksWithFree(marks) == marks \cup {CenterIdx}

CompletedLines(marks) == {line \in Lines : line \subseteq MarksWithFree(marks)}

HasBingo(marks) == \E line \in Lines : line \subseteq MarksWithFree(marks)

\* Mutant: the progress forgets that the centre is free.
StoredProgress(marks) == Max({Cardinality(line \cap marks) : line \in Lines})

\* The most marked cells on any one line: the figure shown as "one line away".
BestProgress(marks) ==
  Max({Cardinality(line \cap MarksWithFree(marks)) : line \in Lines})

(***************************************************************************)
(* The browser's own check (app.js), which decides the CALL BINGO button   *)
(* before the server answers.  Its diagonals are written out for Size = 5. *)
(***************************************************************************)
ClientLines ==
  {{r * 5 + c : c \in 0 .. 4} : r \in 0 .. 4}
    \cup {{r * 5 + c : r \in 0 .. 4} : c \in 0 .. 4}
    \cup {{0, 6, 12, 18, 24}, {4, 8, 12, 16, 20}}

HasBingoClient(marks) == \E line \in ClientLines : line \subseteq marks \cup {12}
=============================================================================
