----------------------------- MODULE BoardWalk -----------------------------
(***************************************************************************)
(* One card, toggled cell by cell the way store.ToggleCell does it, so     *)
(* that every reachable set of marks is seen by the line checks of Board.  *)
(***************************************************************************)
EXTENDS Board

CONSTANT MaxMarked      \* bound: cells marked at once

VARIABLE marked

NoMarks == marked = {}

\* Mutant: no WHERE clause, so that all cells flip.
ToggleEveryCell(idx) ==
  /\ idx # CenterIdx
  /\ marked' = (Cell \ marked) \ {CenterIdx}

\* UPDATE card_cells SET marked = 1 - marked ... AND free = 0
Toggle(idx) ==
  /\ idx # CenterIdx
  /\ idx \in marked \/ Cardinality(marked) < MaxMarked
  /\ marked' = IF idx \in marked THEN marked \ {idx} ELSE marked \cup {idx}

Click == \E idx \in Cell : Toggle(idx)

Walk == NoMarks /\ [][Click]_marked
-----------------------------------------------------------------------------
(* The three summaries the code computes separately agree: a card has a    *)
(* bingo (HasBingo) exactly when some line is completed (CompletedLines)   *)
(* and exactly when its best line is full (BestProgress), so the status    *)
(* message never says "one away" of a card that can be called.             *)
SummariesAgree ==
  /\ HasBingo(marked) <=> CompletedLines(marked) # {}
  /\ HasBingo(marked) <=> BestProgress(marked) = Size

(* The free centre is worth exactly one cell: no card calls with fewer     *)
(* than Size - 1 marks, and every line through the centre can be called    *)
(* with exactly that many (the comment above Lines).                       *)
FreeCentreSavesOneCell ==
  /\ HasBingo(marked) => Cardinality(marked) >= Size - 1
  /\ \A line \in Lines :
       CenterIdx \in line /\ marked = line \ {CenterIdx} => HasBingo(marked)

(* The browser's optimistic check shows CALL BINGO exactly for the cards   *)
(* the server will accept (hasBingoClient against bingo.HasBingo).         *)
ClientMirrorsServer == HasBingoClient(marked) <=> HasBingo(marked)

(* One click moves the displayed progress by at most one, and completes or *)
(* breaks at most a row, a column and one diagonal: a non-centre cell is   *)
(* never on both diagonals.                                                *)
OneClickOneStep ==
  [][ LET before == BestProgress(marked)
          after  == BestProgress(marked')
      IN  /\ after <= before + 1 /\ before <= after + 1
          /\ Cardinality(CompletedLines(marked')
                           \ CompletedLines(marked)) <= 3 ]_marked
=============================================================================
