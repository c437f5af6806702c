-------------------------- MODULE GameStoreProofs --------------------------
(***************************************************************************)
(* Proofs about Board, BoardWalk and GameStore for every number of guilds, *)
(* users, pools, games and cards and every board size.  The order is: the  *)
(* geometry of the board; what steps do to the rows; the inductive         *)
(* invariant, conjunct by conjunct; closed games; the refinement of        *)
(* BingoRound; the single card of BoardWalk.                               *)
(***************************************************************************)
EXTENDS GameStore, BoardWalk, FiniteSetTheorems, WellFoundedInduction, TLAPS

-----------------------------------------------------------------------------
(* The geometry of the board. *)

\* Evenly spaced numbers are as many as their places.
LEMMA EvenlySpaced ==
  ASSUME NEW a \in Nat \ {0}, NEW b \in Nat,
         NEW line, line = {a * i + b : i \in 0 .. Size - 1}
  PROVE  IsFiniteSet(line) /\ Cardinality(line) = Size
<1> DEFINE places == 0 .. Size - 1
           f == [i \in places |-> a * i + b]
<1>1. IsFiniteSet(places) /\ Cardinality(places) = Size
  <2>1. Size \in Nat /\ Size - 1 \in Int /\ 0 \in Int /\ ~(0 > Size - 1) /\ (Size - 1) - 0 + 1 = Size
    BY SizeAssumption
  <2>. QED BY ONLY <2>1, FS_Interval
<1>2. ASSUME NEW i \in places, NEW j \in places, i < j PROVE a * i + b # a * j + b
  <2>1. i \in Nat /\ j \in Nat /\ j >= i + 1
    BY <1>2
  <2>2. PICK d \in Nat \ {0} : j = i + d
    <3>1. j - i \in Nat \ {0} /\ j = i + (j - i)
      BY <1>2, <2>1
    <3>. QED BY <3>1
  <2>3. a * (i + d) = a * i + a * d /\ a * d # 0
    BY <2>1, <2>2
  <2>4. a * i \in Nat /\ a * j \in Nat /\ a * d \in Nat
    BY <2>1, <2>2
  <2>. QED BY <2>2, <2>3, <2>4
<1>3. \A i, j \in places : f[i] = f[j] => i = j
  <2>1. \A i, j \in places : i < j \/ j < i \/ i = j
    BY SizeAssumption
  <2>. QED BY <1>2, <2>1
<1>4. f \in Bijection(places, line)
  BY <1>3 DEF Bijection, Injection, Surjection, IsInjective
<1>. QED BY <1>1, <1>4, FS_Bijection DEF ExistsBijection

\* Quotient and remainder are unique.
LEMMA RowAndColumn ==
  ASSUME NEW r1 \in Nat, NEW r2 \in Nat, NEW c1 \in 0 .. Size - 1, NEW c2 \in 0 .. Size - 1,
         r1 * Size + c1 = r2 * Size + c2
  PROVE  r1 = r2 /\ c1 = c2
<1>0. Size \in Nat /\ c1 \in Nat /\ c2 \in Nat /\ c1 < Size /\ c2 < Size
  BY SizeAssumption
<1>1. ASSUME NEW x \in Nat, NEW y \in Nat, NEW c \in Nat, NEW d \in Nat,
             c < Size, d < Size, x < y
      PROVE  x * Size + c # y * Size + d
  <2>1. PICK e \in Nat \ {0} : y = x + e
    <3>1. y - x \in Nat \ {0} /\ y = x + (y - x)
      BY <1>1
    <3>. QED BY <3>1
  <2>2. (x + e) * Size = x * Size + e * Size /\ e * Size >= Size
    BY <1>0, <2>1
  <2>3. x * Size \in Nat /\ y * Size \in Nat /\ e * Size \in Nat
    BY <1>0, <2>1
  <2>. QED BY <1>0, <1>1, <2>1, <2>2, <2>3
<1>2. r1 = r2
  BY <1>0, <1>1
<1>. QED BY <1>0, <1>2

\* Every line has Size cells of the board.
LEMMA LineFacts ==
  ASSUME NEW line \in Lines
  PROVE  line \subseteq Cell /\ IsFiniteSet(line) /\ Cardinality(line) = Size
<1>0. Size \in Nat /\ Size >= 2 /\ CellCount = Size * Size /\ CellCount \in Nat
  BY SizeAssumption DEF CellCount
<1>1. ASSUME NEW r \in 0 .. Size - 1, NEW c \in 0 .. Size - 1
      PROVE  r * Size + c \in Cell
  <2>1. r * Size \in Nat /\ r * Size + Size <= Size * Size
    <3>1. PICK d \in Nat : Size = r + 1 + d
      <4>1. Size - r - 1 \in Nat /\ Size = r + 1 + (Size - r - 1)
        BY <1>0
      <4>. QED BY <4>1
    <3>2. (r + 1 + d) * Size = r * Size + Size + d * Size /\ d * Size \in Nat
      BY <1>0, <3>1
    <3>3. r * Size \in Nat
      BY <1>0
    <3>. QED BY <3>1, <3>2, <3>3
  <2>. QED BY <1>0, <2>1 DEF Cell
<1>2. CASE \E r \in 0 .. Size - 1 : line = Row(r)
  <2>1. PICK r \in 0 .. Size - 1 : line = Row(r)
    BY <1>2
  <2>2. r * Size \in Nat /\ 1 \in Nat \ {0}
    BY <1>0
  <2>3. line = {1 * i + r * Size : i \in 0 .. Size - 1}
    <3>1. \A i \in 0 .. Size - 1 : 1 * i + r * Size = r * Size + i
      BY <1>0, <2>2
    <3>. QED BY <2>1, <3>1 DEF Row
  <2>4. line \subseteq Cell
    BY <1>1, <2>1 DEF Row
  <2>. QED BY <2>2, <2>3, <2>4, EvenlySpaced
<1>3. CASE \E c \in 0 .. Size - 1 : line = Column(c)
  <2>1. PICK c \in 0 .. Size - 1 : line = Column(c)
    BY <1>3
  <2>2. c \in Nat /\ Size \in Nat \ {0}
    BY <1>0
  <2>3. line = {Size * i + c : i \in 0 .. Size - 1}
    <3>1. \A i \in 0 .. Size - 1 : Size * i + c = i * Size + c
      BY <1>0, <2>2
    <3>. QED BY <2>1, <3>1 DEF Column
  <2>4. line \subseteq Cell
    BY <1>1, <2>1 DEF Column
  <2>. QED BY <2>2, <2>3, <2>4, EvenlySpaced
<1>4. CASE line = Diagonal
  <2>1. Size + 1 \in Nat \ {0}
    BY <1>0
  <2>2. line = {(Size + 1) * i + 0 : i \in 0 .. Size - 1}
    <3>1. \A i \in 0 .. Size - 1 : (Size + 1) * i + 0 = i * Size + i
      BY <1>0
    <3>. QED BY <1>4, <3>1 DEF Diagonal
  <2>3. line \subseteq Cell
    BY <1>1, <1>4 DEF Diagonal
  <2>. QED BY <2>1, <2>2, <2>3, EvenlySpaced
<1>5. CASE line = AntiDiagonal
  <2>1. Size - 1 \in Nat \ {0}
    BY <1>0
  <2>2. line = {(Size - 1) * i + (Size - 1) : i \in 0 .. Size - 1}
    <3>1. \A i \in 0 .. Size - 1 :
            (Size - 1) * i + (Size - 1) = i * Size + (Size - 1 - i)
      BY <1>0
    <3>. QED BY <1>5, <3>1 DEF AntiDiagonal
  <2>3. \A i \in 0 .. Size - 1 : /\ Size - 1 - i \in 0 .. Size - 1
                                /\ i * Size + (Size - 1 - i) \in Cell
    BY <1>0, <1>1
  <2>4. line \subseteq Cell
    BY <1>5, <2>3 DEF AntiDiagonal
  <2>. QED BY <2>1, <2>2, <2>4, EvenlySpaced
<1>. QED BY <1>2, <1>3, <1>4, <1>5 DEF Lines

\* A set of numbers with an upper bound has a greatest one.
LEMMA MaxFacts ==
    ASSUME NEW n \in Nat, NEW S \in SUBSET (0 .. n), S # {}
    PROVE  Max(S) \in S /\ \A x \in S : Max(S) >= x
<1> DEFINE Gaps == {g \in Nat : n - g \in S}
<1>1. Gaps \in SUBSET Nat
    OBVIOUS
<1>2. PICK gap \in Gaps : \A g \in Gaps : gap <= g
    <2>1. PICK x \in S : x \in 0 .. n
        OBVIOUS
    <2>2. n - x \in Nat /\ n - (n - x) \in S
        BY <2>1
    <2>3. Gaps # {}
        BY <2>2
    <2>4. IsWellFoundedOn(OpToRel(<, Nat), Nat)
        BY NatLessThanWellFounded
    <2> HIDE DEF Gaps
    <2>5. PICK gap \in Gaps : \A g \in Gaps : <<g, gap>> \notin OpToRel(<, Nat)
        BY ONLY <1>1, <2>3, <2>4, WFMin, Zenon
    <2>6. \A g \in Gaps : ~(g < gap)
        BY <1>1, <2>5, Zenon DEF OpToRel
    <2> QED BY <1>1, <2>6
<1>3. PICK m \in S : m \in 0 .. n /\ gap = n - m
    BY <1>2
<1>4. \A x \in S : m >= x
    <2> SUFFICES ASSUME NEW x \in S PROVE m >= x
        OBVIOUS
    <2>1. x \in 0 .. n /\ n - x \in Gaps
        OBVIOUS
    <2>2. gap <= n - x
        BY <1>2, <2>1
    <2> QED BY <1>3, <2>1, <2>2
<1> QED BY <1>3, <1>4 DEF Max

-----------------------------------------------------------------------------
(* What a set of marks is worth. *)

LEMMA BoardFacts ==
  /\ Size \in Nat /\ Size >= 2 /\ CellCount = Size * Size /\ CellCount \in Nat
  /\ CenterIdx \in Cell /\ IsFiniteSet(Cell)
  /\ Row(0) \in Lines /\ Diagonal \in Lines /\ AntiDiagonal \in Lines
<1>1. Size \in Nat /\ Size >= 2 /\ CellCount = Size * Size /\ CellCount \in Nat
  BY SizeAssumption DEF CellCount
<1>2. CenterIdx \in Cell
  <2>1. Size * Size >= 2
    <3>1. PICK n \in Nat : n = Size /\ n >= 2
      BY <1>1
    <3>2. n * n >= n * 2
      BY <3>1
    <3>. QED BY <3>1, <3>2
  <2>2. CellCount \div 2 \in 0 .. CellCount - 1
    BY <1>1, <2>1
  <2>. QED BY <2>2 DEF CenterIdx, Cell
<1>3. IsFiniteSet(Cell)
  BY <1>1, FS_Interval DEF Cell
<1>4. Row(0) \in Lines /\ Diagonal \in Lines /\ AntiDiagonal \in Lines
  BY <1>1 DEF Lines
<1>. QED BY <1>1, <1>2, <1>3, <1>4

\* The best progress is that of some line, and no line has more.
LEMMA ProgressFacts ==
  ASSUME NEW marks \in SUBSET Cell
  PROVE  /\ BestProgress(marks) \in 0 .. Size
         /\ \E line \in Lines : BestProgress(marks) = Cardinality(line \cap MarksWithFree(marks))
         /\ \A line \in Lines :
              /\ Cardinality(line \cap MarksWithFree(marks)) \in 0 .. Size
              /\ BestProgress(marks) >= Cardinality(line \cap MarksWithFree(marks))
<1> DEFINE worth == {Cardinality(line \cap MarksWithFree(marks)) : line \in Lines}
<1>1. ASSUME NEW line \in Lines
      PROVE  Cardinality(line \cap MarksWithFree(marks)) \in 0 .. Size
  <2> DEFINE part == line \cap MarksWithFree(marks)
  <2>1. IsFiniteSet(part) /\ Cardinality(part) <= Size
    BY LineFacts, FS_Subset
  <2>2. Cardinality(part) \in Nat
    BY <2>1, FS_CardinalityType
  <2>. QED BY <2>1, <2>2, BoardFacts
<1>2. worth \in SUBSET (0 .. Size) /\ worth # {}
  BY <1>1, BoardFacts
<1>3. Max(worth) \in worth /\ \A x \in worth : Max(worth) >= x
  <2> HIDE DEF worth
  <2>. QED BY <1>2, BoardFacts, MaxFacts
<1>. QED BY <1>1, <1>2, <1>3 DEF BestProgress

\* HasBingo, CompletedLines and BestProgress say the same of any marks.
LEMMA Agreeing ==
  ASSUME NEW marks \in SUBSET Cell
  PROVE  /\ HasBingo(marks) <=> CompletedLines(marks) # {}
         /\ HasBingo(marks) <=> BestProgress(marks) = Size
<1>1. HasBingo(marks) <=> CompletedLines(marks) # {}
  BY DEF HasBingo, CompletedLines
<1>2. ASSUME NEW line \in Lines, line \subseteq MarksWithFree(marks)
      PROVE  BestProgress(marks) = Size
  <2>1. line \cap MarksWithFree(marks) = line
    BY <1>2
  <2>2. BestProgress(marks) >= Size /\ BestProgress(marks) \in 0 .. Size
    BY <2>1, ProgressFacts, LineFacts
  <2>. QED BY <2>2, BoardFacts
<1>3. ASSUME BestProgress(marks) = Size PROVE HasBingo(marks)
  <2>1. PICK line \in Lines : Cardinality(line \cap MarksWithFree(marks)) = Size
    BY <1>3, ProgressFacts
  <2> DEFINE part == line \cap MarksWithFree(marks)
  <2>2. part = line
    BY <2>1, LineFacts, FS_Subset
  <2>. QED BY <2>2 DEF HasBingo
<1>. QED BY <1>1, <1>2, <1>3 DEF HasBingo

\* A line is never completed by fewer than Size - 1 marks.
LEMMA Saving ==
  ASSUME NEW marks \in SUBSET Cell, HasBingo(marks)
  PROVE  Cardinality(marks) >= Size - 1
<1>1. PICK line \in Lines : line \subseteq MarksWithFree(marks)
  BY DEF HasBingo
<1>2. IsFiniteSet(marks)
  BY BoardFacts, FS_Subset
<1>3. /\ Cardinality(marks) \in Nat /\ IsFiniteSet(MarksWithFree(marks))
      /\ Cardinality(MarksWithFree(marks)) <= Cardinality(marks) + 1
  <2>1. Cardinality(marks) \in Nat
    BY <1>2, FS_CardinalityType
  <2>2. /\ IsFiniteSet(MarksWithFree(marks))
        /\ Cardinality(MarksWithFree(marks)) = IF CenterIdx \in marks THEN Cardinality(marks)
                                               ELSE Cardinality(marks) + 1
    BY <1>2, FS_AddElement DEF MarksWithFree
  <2>. QED BY <2>1, <2>2
<1>4. Cardinality(line) = Size /\ Cardinality(line) <= Cardinality(MarksWithFree(marks))
  BY <1>1, <1>3, LineFacts, FS_Subset
<1>5. Cardinality(MarksWithFree(marks)) \in Nat
  BY <1>3, FS_CardinalityType
<1>. QED BY <1>3, <1>4, <1>5, BoardFacts

\* The browser has the lines of the server.
LEMMA Mirroring ==
  ASSUME Size = 5
  PROVE  ClientLines = Lines /\ CenterIdx = 12
<1>1. CenterIdx = 12
  BY DEF CenterIdx, CellCount
<1>2. {Row(r) : r \in 0 .. Size - 1} = {{r * 5 + c : c \in 0 .. 4} : r \in 0 .. 4}
  BY DEF Row
<1>3. {Column(c) : c \in 0 .. Size - 1} = {{r * 5 + c : r \in 0 .. 4} : c \in 0 .. 4}
  BY DEF Column
<1>4. Diagonal = {0, 6, 12, 18, 24}
  <2>1. 0 .. 4 = {0, 1, 2, 3, 4} /\ Size - 1 = 4
    OBVIOUS
  <2>2. Diagonal = {i * 5 + i : i \in {0, 1, 2, 3, 4}}
    BY <2>1 DEF Diagonal
  <2>3. \A x : x \in Diagonal <=> \E i \in {0, 1, 2, 3, 4} : x = i * 5 + i
    BY <2>2
  <2>. QED BY <2>3
<1>5. AntiDiagonal = {4, 8, 12, 16, 20}
  <2>1. 0 .. 4 = {0, 1, 2, 3, 4} /\ Size - 1 = 4
    OBVIOUS
  <2>2. AntiDiagonal = {i * 5 + (4 - i) : i \in {0, 1, 2, 3, 4}}
    BY <2>1 DEF AntiDiagonal
  <2>3. \A x : x \in AntiDiagonal <=> \E i \in {0, 1, 2, 3, 4} : x = i * 5 + (4 - i)
    BY <2>2
  <2>. QED BY <2>3
<1>6. ClientLines = Lines
  BY <1>2, <1>3, <1>4, <1>5 DEF ClientLines, Lines
<1>. QED BY <1>1, <1>6

\* A mark more is worth at most one cell more, and nothing less.
LEMMA OneMore ==
  ASSUME NEW marks \in SUBSET Cell, NEW idx \in Cell, NEW more, more = marks \cup {idx}
  PROVE  /\ BestProgress(marks) \in Nat /\ BestProgress(more) \in Nat
         /\ BestProgress(marks) <= BestProgress(more)
         /\ BestProgress(more) <= BestProgress(marks) + 1
         /\ CompletedLines(marks) \subseteq CompletedLines(more)
         /\ \A line \in CompletedLines(more) \ CompletedLines(marks) : idx \in line
<1> DEFINE part(line) == Cardinality(line \cap MarksWithFree(marks))
           partOfMore(line) == Cardinality(line \cap MarksWithFree(more))
<1>1. more \in SUBSET Cell /\ MarksWithFree(more) = MarksWithFree(marks) \cup {idx}
  BY DEF MarksWithFree
<1>2. /\ BestProgress(marks) \in Nat /\ BestProgress(more) \in Nat
      /\ \A line \in Lines : /\ part(line) \in Nat /\ BestProgress(marks) >= part(line)
                            /\ partOfMore(line) \in Nat /\ BestProgress(more) >= partOfMore(line)
      /\ \E line \in Lines : BestProgress(marks) = part(line)
      /\ \E line \in Lines : BestProgress(more) = partOfMore(line)
  <2>1. \A n \in 0 .. Size : n \in Nat
    BY BoardFacts
  <2>. QED BY <1>1, <2>1, ProgressFacts
<1>3. ASSUME NEW line \in Lines
      PROVE  partOfMore(line) \in {part(line), part(line) + 1}
  <2> DEFINE cells == line \cap MarksWithFree(marks)
             cellsOfMore == line \cap MarksWithFree(more)
  <2>1. IsFiniteSet(cells)
    BY LineFacts, FS_Subset
  <2>2. cellsOfMore = cells \/ cellsOfMore = cells \cup {idx}
    BY <1>1
  <2>3. Cardinality(cells \cup {idx}) \in {Cardinality(cells), Cardinality(cells) + 1}
    <3> HIDE DEF cells
    <3>. QED BY <2>1, FS_AddElement
  <2>. QED BY <2>2, <2>3
<1> HIDE DEF part, partOfMore
<1>4. BestProgress(more) <= BestProgress(marks) + 1
  <2>1. PICK line \in Lines : BestProgress(more) = partOfMore(line)
    BY <1>2
  <2>. QED BY <1>2, <1>3, <2>1
<1>5. BestProgress(marks) <= BestProgress(more)
  <2>1. PICK line \in Lines : BestProgress(marks) = part(line)
    BY <1>2
  <2>2. partOfMore(line) >= part(line) /\ BestProgress(more) >= partOfMore(line)
    BY <1>2, <1>3
  <2>. QED BY <1>2, <2>1, <2>2
<1>6. /\ CompletedLines(marks) \subseteq CompletedLines(more)
      /\ \A line \in CompletedLines(more) \ CompletedLines(marks) : idx \in line
  BY <1>1 DEF CompletedLines
<1>. QED BY <1>2, <1>4, <1>5, <1>6

\* Only the centre is on both diagonals.
LEMMA DiagonalsMeet ==
  ASSUME NEW idx \in Diagonal \cap AntiDiagonal
  PROVE  idx = CenterIdx
<1>0. Size \in Nat
  BY BoardFacts
<1>1. PICK i \in 0 .. Size - 1 : idx = i * Size + i
  BY DEF Diagonal
<1>2. PICK j \in 0 .. Size - 1 : idx = j * Size + (Size - 1 - j)
  BY DEF AntiDiagonal
<1>3. i \in Nat /\ j \in Nat /\ Size - 1 - j \in 0 .. Size - 1
  BY <1>0
<1>4. i = j /\ i = Size - 1 - j
  BY <1>1, <1>2, <1>3, RowAndColumn
<1>5. Size = 2 * i + 1
  BY <1>0, <1>3, <1>4
<1>6. idx = i * (2 * i + 1) + i /\ CellCount = (2 * i + 1) * (2 * i + 1)
  BY <1>1, <1>5 DEF CellCount
<1>7. CellCount = 2 * idx + 1 /\ idx \in Nat
  BY <1>3, <1>6
<1>8. (2 * idx + 1) \div 2 = idx
  BY <1>7
<1>. QED BY <1>7, <1>8 DEF CenterIdx

\* At most a row, a column and a diagonal run through a cell.
LEMMA LinesThrough ==
  ASSUME NEW idx \in Cell, idx # CenterIdx,
         NEW some \in SUBSET Lines, \A line \in some : idx \in line
  PROVE  Cardinality(some) <= 3
<1>0. Size \in Nat
  BY BoardFacts
<1>1. \A r1, r2 \in 0 .. Size - 1 : idx \in Row(r1) /\ idx \in Row(r2) => Row(r1) = Row(r2)
  <2>1. SUFFICES ASSUME NEW r1 \in 0 .. Size - 1, NEW r2 \in 0 .. Size - 1,
                        idx \in Row(r1), idx \in Row(r2)
                 PROVE  r1 = r2
    OBVIOUS
  <2>2. PICK c1 \in 0 .. Size - 1, c2 \in 0 .. Size - 1 :
          idx = r1 * Size + c1 /\ idx = r2 * Size + c2
    BY <2>1 DEF Row
  <2>3. r1 \in Nat /\ r2 \in Nat /\ r1 * Size + c1 = r2 * Size + c2
    BY <1>0, <2>2
  <2>. QED BY <2>3, RowAndColumn
<1>2. \A c1, c2 \in 0 .. Size - 1 :
        idx \in Column(c1) /\ idx \in Column(c2) => Column(c1) = Column(c2)
  <2>1. SUFFICES ASSUME NEW c1 \in 0 .. Size - 1, NEW c2 \in 0 .. Size - 1,
                        idx \in Column(c1), idx \in Column(c2)
                 PROVE  c1 = c2
    OBVIOUS
  <2>2. PICK r1 \in 0 .. Size - 1, r2 \in 0 .. Size - 1 :
          idx = r1 * Size + c1 /\ idx = r2 * Size + c2
    BY <2>1 DEF Column
  <2>3. r1 \in Nat /\ r2 \in Nat /\ r1 * Size + c1 = r2 * Size + c2
    BY <1>0, <2>2
  <2>. QED BY <2>3, RowAndColumn
<1>3. PICK row : \A r \in 0 .. Size - 1 : idx \in Row(r) => Row(r) = row
  BY <1>1
<1>4. PICK column : \A c \in 0 .. Size - 1 : idx \in Column(c) => Column(c) = column
  BY <1>2
<1>5. PICK diagonal : \A d \in {Diagonal, AntiDiagonal} : idx \in d => d = diagonal
  BY DiagonalsMeet
<1>6. some \subseteq {row} \cup {column} \cup {diagonal}
  <2>1. \A line \in some : \/ \E r \in 0 .. Size - 1 : line = Row(r)
                           \/ \E c \in 0 .. Size - 1 : line = Column(c)
                           \/ line \in {Diagonal, AntiDiagonal}
    BY DEF Lines
  <2>. QED BY <1>3, <1>4, <1>5, <2>1
<1>7. \A S, x : IsFiniteSet(S) /\ Cardinality(S) \in Nat =>
                /\ IsFiniteSet(S \cup {x}) /\ Cardinality(S \cup {x}) \in Nat
                /\ Cardinality(S \cup {x}) <= Cardinality(S) + 1
  <2>1. SUFFICES ASSUME NEW S, NEW x, IsFiniteSet(S), Cardinality(S) \in Nat
                 PROVE  /\ IsFiniteSet(S \cup {x}) /\ Cardinality(S \cup {x}) \in Nat
                        /\ Cardinality(S \cup {x}) <= Cardinality(S) + 1
    OBVIOUS
  <2>2. /\ IsFiniteSet(S \cup {x})
        /\ Cardinality(S \cup {x}) = IF x \in S THEN Cardinality(S) ELSE Cardinality(S) + 1
    BY <2>1, FS_AddElement
  <2>. QED BY <2>1, <2>2
<1>8. IsFiniteSet({row}) /\ Cardinality({row}) = 1
  BY FS_Singleton
<1> DEFINE two == {row} \cup {column}
           three == two \cup {diagonal}
<1>9. IsFiniteSet(two) /\ Cardinality(two) \in Nat /\ Cardinality(two) <= 2
  <2>1. /\ IsFiniteSet(two) /\ Cardinality(two) \in Nat
        /\ Cardinality(two) <= Cardinality({row}) + 1
    <3>1. Cardinality({row}) \in Nat
      BY <1>8
    <3>. QED BY <1>7, <1>8, <3>1, Zenon
  <2> HIDE DEF two
  <2>. QED BY <1>8, <2>1
<1>10. IsFiniteSet(three) /\ Cardinality(three) \in Nat /\ Cardinality(three) <= 3
  <2> HIDE DEF two
  <2>1. /\ IsFiniteSet(three) /\ Cardinality(three) \in Nat
        /\ Cardinality(three) <= Cardinality(two) + 1
    BY <1>7, <1>9, Zenon
  <2> HIDE DEF three
  <2>. QED BY <1>9, <2>1
<1>11. IsFiniteSet(some) /\ Cardinality(some) <= Cardinality(three)
  BY <1>6, <1>10, FS_Subset
<1>12. Cardinality(some) \in Nat
  BY <1>11, FS_CardinalityType
<1>. QED
  <2> HIDE DEF three
  <2>. QED BY <1>10, <1>11, <1>12
-----------------------------------------------------------------------------
(* Rows and ids. *)

\* The id given to a new row is not in use.
LEMMA NextRowIdIsFresh ==
  ASSUME NEW table, NEW id \in Nat, DOMAIN table \subseteq RowId,
         IsNextRowId(table, id)
  PROVE  id \notin DOMAIN table
BY DEF IsNextRowId, RowId

LEMMA InsertType ==
  ASSUME NEW table, NEW Rows, IsTable(table, Rows),
         NEW id \in RowId, NEW row \in Rows
  PROVE  IsTable(Insert(table, id, row), Rows)
BY DEF IsTable, Insert

LEMMA DeleteType ==
  ASSUME NEW table, NEW Rows, IsTable(table, Rows), NEW id
  PROVE  IsTable(Delete(table, id), Rows)
BY DEF IsTable, Delete

\* Aborting a game changes its status only.
LEMMA AbortRow ==
  ASSUME NEW row \in Game
  PROVE  /\ Abort(row) \in Game
         /\ Abort(row).status = "aborted"
         /\ Abort(row).guild = row.guild
         /\ Abort(row).poolSet = row.poolSet
         /\ Abort(row).winner = row.winner
         /\ Abort(row).winnerCard = row.winnerCard
BY DEF Abort, Game
-----------------------------------------------------------------------------
(* What the two transactions that insert rows leave behind. *)

FreshGame(g, ids) ==
  [guild |-> g, poolSet |-> ids, label |-> {pools[p] : p \in ids},
   status |-> "open", winner |-> NoUser, winnerCard |-> 0]

LEMMA NewGameEffect ==
  ASSUME TypeOK, NEW g \in Guild, NEW ids \in SUBSET DOMAIN pools,
         NEW replace \in BOOLEAN, NewGame(g, ids, replace)
  PROVE  \E id \in RowId :
           /\ id \notin DOMAIN games
           /\ DOMAIN games' = DOMAIN games \cup {id}
           /\ games'[id] = FreshGame(g, ids)
           /\ \A gm \in DOMAIN games : games'[gm] =
                IF gm \in OpenGames(g, ids) THEN Abort(games[gm]) ELSE games[gm]
<1> DEFINE old == [gm \in DOMAIN games |->
                     IF gm \in OpenGames(g, ids) THEN Abort(games[gm])
                                                 ELSE games[gm]]
<1>1. PICK id \in 1 .. MaxGames : /\ IsNextRowId(games, id)
                                  /\ games' = Insert(old, id, FreshGame(g, ids))
  BY DEF NewGame, FreshGame
<1>2. id \in RowId
  BY StoreAssumption DEF RowId
<1>3. id \notin DOMAIN games
  BY <1>1, <1>2, NextRowIdIsFresh DEF TypeOK, IsTable, RowId
<1>4. DOMAIN old = DOMAIN games
  OBVIOUS
<1> HIDE DEF old
<1>5. /\ DOMAIN games' = DOMAIN games \cup {id}
      /\ games'[id] = FreshGame(g, ids)
      /\ \A gm \in DOMAIN games : games'[gm] = old[gm]
  BY <1>1, <1>3, <1>4 DEF Insert
<1>. QED BY <1>2, <1>3, <1>5 DEF old

LEMMA FreshGameType ==
  ASSUME TypeOK, NEW g \in Guild, NEW ids \in SUBSET DOMAIN pools
  PROVE  FreshGame(g, ids) \in Game
<1>1. ids \subseteq RowId /\ \A p \in ids : pools[p] \in Pool
  BY DEF TypeOK, IsTable
<1>2. {pools[p] : p \in ids} \subseteq Pool
  BY <1>1
<1>. QED BY <1>1, <1>2 DEF FreshGame, Game

LEMMA DealCardEffect ==
  ASSUME TypeOK, NEW g \in Guild, NEW gm \in DOMAIN games, NEW u \in User,
         DealCard(g, gm, u)
  PROVE  \E id \in RowId, hand \in SUBSET UsableEntries(g, games[gm].poolSet) :
           /\ id \notin DOMAIN cards
           /\ cards' = Insert(cards, id,
                         [game |-> gm, guild |-> g, user |-> u,
                          squares |-> {e.square : e \in hand},
                          origin |-> {pools[e.pool] : e \in hand},
                          marked |-> {CenterIdx}])
<1>1. PICK hand \in SUBSET UsableEntries(g, games[gm].poolSet), id \in 1 .. MaxCards :
             /\ IsNextRowId(cards, id)
             /\ cards' = Insert(cards, id,
                           [game |-> gm, guild |-> g, user |-> u,
                            squares |-> {e.square : e \in hand},
                            origin |-> {pools[e.pool] : e \in hand},
                            marked |-> {CenterIdx}])
  BY DEF DealCard
<1>2. id \in RowId
  BY StoreAssumption DEF RowId
<1>3. id \notin DOMAIN cards
  BY <1>1, <1>2, NextRowIdIsFresh DEF TypeOK, IsTable, RowId
<1>. QED BY <1>1, <1>2, <1>3
-----------------------------------------------------------------------------
(* Type correctness. *)

LEMMA PoolStepType ==
  ASSUME TypeOK, NEW g \in Guild, PoolStep(g)
  PROVE  TypeOK'
<1>1. ASSUME NEW slug \in Slug, CreatePool(g, slug) PROVE TypeOK'
  <2>1. PICK id \in 1 .. MaxPoolId :
               pools' = Insert(pools, id, [guild |-> g, slug |-> slug])
    BY <1>1 DEF CreatePool
  <2>2. id \in RowId /\ [guild |-> g, slug |-> slug] \in Pool
    BY StoreAssumption DEF RowId, Pool
  <2>3. IsTable(pools, Pool)'
    BY <2>1, <2>2, InsertType DEF TypeOK
  <2>. QED BY <1>1, <2>3 DEF TypeOK, CreatePool, IsTable
<1>2. ASSUME NEW p \in DOMAIN pools, DeletePool(g, p) PROVE TypeOK'
  <2>1. IsTable(pools, Pool)'
    BY <1>2, DeleteType DEF DeletePool, TypeOK
  <2>. QED BY <1>2, <2>1 DEF TypeOK, DeletePool, IsTable
<1>3. ASSUME NEW p \in DOMAIN pools, ClearPoolCheck(g, p) PROVE TypeOK'
  BY <1>3 DEF TypeOK, ClearPoolCheck, IsTable
<1>4. ASSUME NEW p \in DOMAIN pools, NEW sq \in Square, AddEntry(g, p, sq)
      PROVE  TypeOK'
  BY <1>4 DEF TypeOK, AddEntry, IsTable, Entry
<1>7. ASSUME NEW e \in entries, NEW sq \in Square, EditEntry(g, e, sq) PROVE TypeOK'
  <2>1. [e EXCEPT !.square = sq] \in Entry
    BY DEF TypeOK, Entry
  <2>. QED BY <1>7, <2>1 DEF TypeOK, EditEntry, IsTable
<1>5. ASSUME NEW e \in entries, SoftDeleteEntry(g, e) PROVE TypeOK'
  BY <1>5 DEF TypeOK, SoftDeleteEntry, IsTable
<1>6. ASSUME NEW clear \in clearing, ClearPoolUpdate(g, clear[2]) PROVE TypeOK'
  BY <1>6 DEF TypeOK, ClearPoolUpdate, IsTable
<1>. QED BY <1>1, <1>2, <1>3, <1>4, <1>5, <1>6, <1>7 DEF PoolStep

LEMMA DealCardType ==
  ASSUME TypeOK, EntriesFollowTheirPool, NEW g \in Guild, NEW gm \in DOMAIN games, NEW u \in User,
         DealCard(g, gm, u)
  PROVE  TypeOK'
<1>1. PICK id \in RowId, hand \in SUBSET UsableEntries(g, games[gm].poolSet) :
             cards' = Insert(cards, id,
                        [game |-> gm, guild |-> g, user |-> u,
                         squares |-> {e.square : e \in hand},
                         origin |-> {pools[e.pool] : e \in hand},
                         marked |-> {CenterIdx}])
  BY DealCardEffect
<1>2. gm \in RowId
  BY DEF TypeOK, IsTable
<1>3. [game |-> gm, guild |-> g, user |-> u,
       squares |-> {e.square : e \in hand},
       origin |-> {pools[e.pool] : e \in hand}, marked |-> {CenterIdx}] \in Card
  <2>1. {pools[e.pool] : e \in hand} \subseteq Pool
    BY DEF EntriesFollowTheirPool, UsableEntries, TypeOK, IsTable
  <2>2. {CenterIdx} \in SUBSET Cell
    BY BoardFacts
  <2>3. {e.square : e \in hand} \subseteq Square
    BY DEF UsableEntries, TypeOK, Entry
  <2>. QED BY <1>2, <2>1, <2>2, <2>3 DEF Card
<1>4. IsTable(cards, Card)'
  BY <1>1, <1>3, InsertType DEF TypeOK
<1>. QED BY <1>4 DEF TypeOK, DealCard, IsTable

LEMMA GameStepType ==
  ASSUME TypeOK, EntriesFollowTheirPool, NEW g \in Guild, GameStep(g)
  PROVE  TypeOK'
<1>1. ASSUME NEW ids \in SUBSET DOMAIN pools, NEW replace \in BOOLEAN,
             NewGame(g, ids, replace)
      PROVE  TypeOK'
  <2>1. PICK id \in RowId :
               /\ DOMAIN games' = DOMAIN games \cup {id}
               /\ games'[id] = FreshGame(g, ids)
               /\ \A gm \in DOMAIN games : games'[gm] =
                    IF gm \in OpenGames(g, ids) THEN Abort(games[gm]) ELSE games[gm]
    BY <1>1, NewGameEffect
  <2>2. \A gm \in DOMAIN games : games'[gm] \in Game
    BY <2>1, AbortRow DEF TypeOK, IsTable
  <2>3. games'[id] \in Game
    BY <2>1, FreshGameType
  <2>4. games' = [gm \in DOMAIN games' |-> games'[gm]]
    BY <1>1 DEF NewGame, Insert
  <2>5. IsTable(games, Game)'
    BY <2>1, <2>2, <2>3, <2>4 DEF TypeOK, IsTable
  <2>. QED BY <1>1, <2>5 DEF TypeOK, NewGame, IsTable
<1>2. ASSUME NEW gm \in DOMAIN games, AbortGame(g, gm) PROVE TypeOK'
  <2>1. games[gm] \in Game /\ Abort(games[gm]) \in Game
    BY AbortRow DEF TypeOK, IsTable
  <2>2. IsTable(games, Game)'
    BY <1>2, <2>1 DEF TypeOK, IsTable, AbortGame
  <2>. QED BY <1>2, <2>2 DEF TypeOK, AbortGame, IsTable
<1>3. ASSUME NEW gm \in DOMAIN games, NEW u \in User, DealCard(g, gm, u)
      PROVE  TypeOK'
  BY <1>3, DealCardType
<1>4. ASSUME NEW c \in DOMAIN cards, NEW idx \in CellInput, ToggleCell(g, c, idx)
      PROVE  TypeOK'
  <2>1. cards[c] \in Card /\ idx \in Cell
    BY <1>4 DEF TypeOK, IsTable, ToggleCell
  <2>2. IsTable(cards, Card)'
    BY <1>4, <2>1 DEF TypeOK, IsTable, ToggleCell, Card
  <2>. QED BY <1>4, <2>2 DEF TypeOK, ToggleCell, IsTable
<1>5. ASSUME NEW c \in DOMAIN cards, NEW u \in User, CallBingo(g, c, u)
      PROVE  TypeOK'
  <2> DEFINE gm == cards[c].game
  <2>1. c \in Nat
    BY DEF TypeOK, IsTable, RowId
  <2>2. gm \in DOMAIN games =>
          [games[gm] EXCEPT !.status = "finished", !.winner = u, !.winnerCard = c]
            \in Game
    BY <2>1 DEF TypeOK, IsTable, Game
  <2>3. IsTable(games, Game)'
    BY <1>5, <2>2 DEF TypeOK, IsTable, CallBingo
  <2>. QED BY <1>5, <2>3 DEF TypeOK, CallBingo, IsTable
<1>. QED BY <1>1, <1>2, <1>3, <1>4, <1>5 DEF GameStep

(* The foreign key from entries to pools, which TypeOK leans on: a card is *)
(* dealt from the rows of the pools its squares are in.                    *)
LEMMA EntriesFollowStep ==
  ASSUME TypeOK, EntriesFollowTheirPool, NEW g \in Guild, PoolStep(g) \/ GameStep(g)
  PROVE  EntriesFollowTheirPool'
<1> USE DEF EntriesFollowTheirPool
<1>1. ASSUME NEW slug \in Slug, CreatePool(g, slug) PROVE EntriesFollowTheirPool'
  <2>1. PICK id \in 1 .. MaxPoolId :
               /\ IsNextRowId(pools, id)
               /\ pools' = Insert(pools, id, [guild |-> g, slug |-> slug])
    BY <1>1 DEF CreatePool
  <2>2. id \notin DOMAIN pools
    BY <2>1, StoreAssumption, NextRowIdIsFresh DEF TypeOK, IsTable
  <2>3. \A p \in DOMAIN pools : p \in DOMAIN pools' /\ pools'[p] = pools[p]
    BY <2>1, <2>2 DEF Insert
  <2>. QED BY <1>1, <2>3 DEF CreatePool
<1>2. ASSUME NEW p \in DOMAIN pools, DeletePool(g, p) PROVE EntriesFollowTheirPool'
  BY <1>2 DEF DeletePool, Delete, EntriesOf
<1>3. ASSUME NEW p \in DOMAIN pools, ClearPoolCheck(g, p) PROVE EntriesFollowTheirPool'
  BY <1>3 DEF ClearPoolCheck
<1>4. ASSUME NEW p \in DOMAIN pools, NEW sq \in Square, AddEntry(g, p, sq)
      PROVE  EntriesFollowTheirPool'
  BY <1>4 DEF AddEntry, OwnsPool
<1>9. ASSUME NEW e \in entries, NEW sq \in Square, EditEntry(g, e, sq)
      PROVE  EntriesFollowTheirPool'
  <2>1. /\ [e EXCEPT !.square = sq].pool = e.pool
        /\ [e EXCEPT !.square = sq].guild = e.guild
    BY DEF TypeOK, Entry
  <2>. QED BY <1>9, <2>1 DEF EditEntry
<1>5. ASSUME NEW e \in entries, SoftDeleteEntry(g, e) PROVE EntriesFollowTheirPool'
  BY <1>5 DEF SoftDeleteEntry
<1>6. ASSUME NEW clear \in clearing, ClearPoolUpdate(g, clear[2])
      PROVE  EntriesFollowTheirPool'
  BY <1>6 DEF ClearPoolUpdate
<1>7. CASE PoolStep(g)
  BY <1>1, <1>2, <1>3, <1>4, <1>5, <1>6, <1>7, <1>9 DEF PoolStep
<1>8. CASE GameStep(g)
  BY <1>8 DEF GameStep, NewGame, AbortGame, DealCard, ToggleCell, CallBingo
<1>. QED BY <1>7, <1>8

Typed == TypeOK /\ EntriesFollowTheirPool

LEMMA TypedInvariant == Spec => []Typed
<1>1. Init => Typed
  BY DEF Init, Typed, TypeOK, IsTable, EntriesFollowTheirPool
<1>2. Typed /\ [Next]_tables => Typed'
  <2> SUFFICES ASSUME Typed, [Next]_tables PROVE Typed'
    OBVIOUS
  <2>1. CASE Next
    BY <2>1, PoolStepType, GameStepType, EntriesFollowStep DEF Next, Typed
  <2>2. CASE UNCHANGED tables
    BY <2>2 DEF tables, Typed, TypeOK, IsTable, EntriesFollowTheirPool
  <2>. QED BY <2>1, <2>2
<1>. QED BY <1>1, <1>2, PTL DEF Spec

(* Every reachable state of the store is well typed (TypeOK): row ids are  *)
(* positive, games and cards are complete rows, marks stay on the board.   *)
THEOREM TypeCorrect == Spec => []TypeOK
<1>1. Typed => TypeOK
  BY DEF Typed
<1>. QED BY <1>1, TypedInvariant, PTL

(* On every card in the tables the summaries agree, and a card with a      *)
(* completed line has at least Size - 1 marks: whoever can call is at the  *)
(* top of the leaders, which gameStats sorts by the best line.             *)
THEOREM EveryCardAddsUp ==
  Spec => [](\A c \in DOMAIN cards :
               LET marks == cards[c].marked IN
               /\ HasBingo(marks) <=> CompletedLines(marks) # {}
               /\ HasBingo(marks) <=> BestProgress(marks) = Size
               /\ HasBingo(marks) => Cardinality(marks) >= Size - 1)
<1>1. TypeOK => \A c \in DOMAIN cards : cards[c].marked \in SUBSET Cell
  BY DEF TypeOK, IsTable, Card
<1>2. TypeOK => \A c \in DOMAIN cards :
               LET marks == cards[c].marked IN
               /\ HasBingo(marks) <=> CompletedLines(marks) # {}
               /\ HasBingo(marks) <=> BestProgress(marks) = Size
               /\ HasBingo(marks) => Cardinality(marks) >= Size - 1
  BY <1>1, Agreeing, Saving
<1>. QED BY <1>2, TypeCorrect, PTL

-----------------------------------------------------------------------------
(* What the other game transactions leave behind. *)

\* Games keep their guild, their set and, unless they are open, everything.
GamesOnlyClose ==
  \A gm \in DOMAIN games :
    /\ gm \in DOMAIN games'
    /\ games'[gm].guild = games[gm].guild
    /\ games'[gm].poolSet = games[gm].poolSet
    /\ games[gm].status # "open" => games'[gm] = games[gm]
    /\ games'[gm].status = "open" => games[gm].status = "open"
    /\ games'[gm].status = "aborted" /\ games[gm].status = "open" =>
         games'[gm].winner = games[gm].winner
           /\ games'[gm].winnerCard = games[gm].winnerCard

\* Cards keep everything but their marks, and those too once the game closed.
CardsOnlyToggle ==
  \A c \in DOMAIN cards :
    /\ c \in DOMAIN cards'
    /\ cards'[c].game = cards[c].game
    /\ cards'[c].guild = cards[c].guild
    /\ cards'[c].user = cards[c].user
    /\ cards'[c].origin = cards[c].origin
    /\ ~ CardIsOpen(c) => cards'[c] = cards[c]

LEMMA NewGameKeepsRows ==
  ASSUME TypeOK, NEW g \in Guild, NEW ids \in SUBSET DOMAIN pools,
         NEW replace \in BOOLEAN, NewGame(g, ids, replace)
  PROVE  GamesOnlyClose /\ UNCHANGED cards
<1>1. PICK id \in RowId :
             /\ id \notin DOMAIN games
             /\ DOMAIN games' = DOMAIN games \cup {id}
             /\ games'[id] = FreshGame(g, ids)
             /\ \A gm \in DOMAIN games : games'[gm] =
                  IF gm \in OpenGames(g, ids) THEN Abort(games[gm]) ELSE games[gm]
  BY NewGameEffect
<1>2. \A gm \in DOMAIN games : games[gm] \in Game
  BY DEF TypeOK, IsTable
<1>3. GamesOnlyClose
  BY <1>1, <1>2, AbortRow DEF GamesOnlyClose, OpenGames
<1>. QED BY <1>3 DEF NewGame

LEMMA AbortKeepsRows ==
  ASSUME TypeOK, NEW g \in Guild, NEW gm \in DOMAIN games, AbortGame(g, gm)
  PROVE  GamesOnlyClose /\ UNCHANGED cards /\ DOMAIN games' = DOMAIN games
<1>1. /\ DOMAIN games' = DOMAIN games
      /\ games'[gm] = Abort(games[gm])
      /\ \A h \in DOMAIN games \ {gm} : games'[h] = games[h]
      /\ games[gm].status = "open" /\ UNCHANGED cards
  BY DEF AbortGame, TypeOK, IsTable
<1>2. games[gm] \in Game
  BY DEF TypeOK, IsTable
<1>. QED BY <1>1, <1>2, AbortRow DEF GamesOnlyClose

LEMMA ToggleKeepsRows ==
  ASSUME TypeOK, NEW g \in Guild, NEW c \in DOMAIN cards, NEW idx \in CellInput,
         ToggleCell(g, c, idx)
  PROVE  CardsOnlyToggle /\ UNCHANGED games /\ DOMAIN cards' = DOMAIN cards
<1>1. cards[c] \in Card
  BY DEF TypeOK, IsTable
<1> DEFINE row == [cards[c] EXCEPT !.marked =
                     IF idx \in @ THEN @ \ {idx} ELSE @ \cup {idx}]
<1>2. /\ row.game = cards[c].game /\ row.guild = cards[c].guild
      /\ row.user = cards[c].user /\ row.origin = cards[c].origin
  BY <1>1 DEF Card
<1>3. /\ DOMAIN cards' = DOMAIN cards
      /\ cards'[c] = row
      /\ \A k \in DOMAIN cards \ {c} : cards'[k] = cards[k]
  BY DEF ToggleCell, TypeOK, IsTable
<1>4. CardIsOpen(c) /\ UNCHANGED games
  BY DEF ToggleCell
<1> HIDE DEF row
<1>. QED BY <1>2, <1>3, <1>4 DEF CardsOnlyToggle

LEMMA DealKeepsRows ==
  ASSUME TypeOK, NEW g \in Guild, NEW gm \in DOMAIN games, NEW u \in User,
         DealCard(g, gm, u)
  PROVE  CardsOnlyToggle /\ UNCHANGED games
<1>1. PICK id \in RowId, hand \in SUBSET UsableEntries(g, games[gm].poolSet) :
             /\ id \notin DOMAIN cards
             /\ cards' = Insert(cards, id,
                           [game |-> gm, guild |-> g, user |-> u,
                            squares |-> {e.square : e \in hand},
                            origin |-> {pools[e.pool] : e \in hand},
                            marked |-> {CenterIdx}])
  BY DealCardEffect
<1>2. \A c \in DOMAIN cards : c \in DOMAIN cards' /\ cards'[c] = cards[c]
  BY <1>1 DEF Insert
<1>. QED BY <1>2 DEF CardsOnlyToggle, DealCard

\* The row a successful call writes.
LEMMA CallBingoEffect ==
  ASSUME TypeOK, NEW g \in Guild, NEW c \in DOMAIN cards, NEW u \in User,
         cards[c].game \in DOMAIN games, CallBingo(g, c, u)
  PROVE  /\ DOMAIN games' = DOMAIN games
         /\ games'[cards[c].game].status = "finished"
         /\ games'[cards[c].game].winner = u
         /\ games'[cards[c].game].winnerCard = c
         /\ games'[cards[c].game].guild = games[cards[c].game].guild
         /\ games'[cards[c].game].poolSet = games[cards[c].game].poolSet
         /\ \A h \in DOMAIN games \ {cards[c].game} : games'[h] = games[h]
         /\ games[cards[c].game].status = "open"
         /\ UNCHANGED cards
<1> DEFINE gm == cards[c].game
<1>1. games[gm] \in Game
  BY DEF TypeOK, IsTable
<1> DEFINE row == [games[gm] EXCEPT !.status = "finished", !.winner = u,
                                    !.winnerCard = c]
<1>2. /\ row.status = "finished" /\ row.winner = u /\ row.winnerCard = c
      /\ row.guild = games[gm].guild /\ row.poolSet = games[gm].poolSet
  BY <1>1 DEF Game
<1>3. /\ DOMAIN games' = DOMAIN games
      /\ games'[gm] = row
      /\ \A h \in DOMAIN games \ {gm} : games'[h] = games[h]
  BY DEF CallBingo, TypeOK, IsTable
<1>4. games[gm].status = "open" /\ UNCHANGED cards
  BY DEF CallBingo, CardIsOpen
<1> HIDE DEF row
<1>. QED BY <1>2, <1>3, <1>4

LEMMA CallKeepsRows ==
  ASSUME TypeOK, NEW g \in Guild, NEW c \in DOMAIN cards, NEW u \in User,
         cards[c].game \in DOMAIN games, CallBingo(g, c, u)
  PROVE  GamesOnlyClose
BY CallBingoEffect DEF GamesOnlyClose
-----------------------------------------------------------------------------
(* The safety invariants, each preserved by every transaction. *)

LEMMA PoolStepKeepsPlay ==
  ASSUME NEW g \in Guild, PoolStep(g)
  PROVE  UNCHANGED <<games, cards>>
BY DEF PoolStep, CreatePool, DeletePool, ClearPoolCheck, AddEntry, EditEntry,
       SoftDeleteEntry, ClearPoolUpdate

LEMMA OneCardStep ==
  ASSUME TypeOK, OneCardPerPlayer, NEW g \in Guild, GameStep(g)
  PROVE  OneCardPerPlayer'
<1>1. ASSUME GamesOnlyClose, UNCHANGED cards PROVE OneCardPerPlayer'
  BY <1>1 DEF OneCardPerPlayer, GamesOnlyClose
<1>2. ASSUME NEW ids \in SUBSET DOMAIN pools, NEW replace \in BOOLEAN,
             NewGame(g, ids, replace)
      PROVE  OneCardPerPlayer'
  BY <1>1, <1>2, NewGameKeepsRows
<1>3. ASSUME NEW gm \in DOMAIN games, AbortGame(g, gm) PROVE OneCardPerPlayer'
  BY <1>1, <1>3, AbortKeepsRows
<1>4. ASSUME NEW gm \in DOMAIN games, NEW u \in User, DealCard(g, gm, u)
      PROVE  OneCardPerPlayer'
  <2>1. PICK id \in RowId, hand \in SUBSET UsableEntries(g, games[gm].poolSet) :
               /\ id \notin DOMAIN cards
               /\ cards' = Insert(cards, id,
                             [game |-> gm, guild |-> g, user |-> u,
                              squares |-> {e.square : e \in hand},
                              origin |-> {pools[e.pool] : e \in hand},
                              marked |-> {CenterIdx}])
    BY <1>4, DealCardEffect
  <2>2. /\ DOMAIN cards' = DOMAIN cards \cup {id}
        /\ cards'[id].game = gm /\ cards'[id].user = u /\ cards'[id].guild = g
        /\ \A c \in DOMAIN cards : cards'[c] = cards[c]
    BY <2>1 DEF Insert
  <2>3. /\ games[gm].guild = g /\ UNCHANGED games
        /\ \A c \in DOMAIN cards : ~(cards[c].game = gm /\ cards[c].user = u)
    BY <1>4 DEF DealCard, HasCard
  <2>. QED BY <2>2, <2>3 DEF OneCardPerPlayer
<1>5. ASSUME NEW c \in DOMAIN cards, NEW idx \in CellInput, ToggleCell(g, c, idx)
      PROVE  OneCardPerPlayer'
  BY <1>5, ToggleKeepsRows DEF OneCardPerPlayer, CardsOnlyToggle
<1>6. ASSUME NEW c \in DOMAIN cards, NEW u \in User, CallBingo(g, c, u)
      PROVE  OneCardPerPlayer'
  <2>1. GamesOnlyClose
    BY <1>6, CallKeepsRows DEF OneCardPerPlayer
  <2>. QED BY <1>1, <1>6, <2>1 DEF CallBingo
<1>. QED BY <1>2, <1>3, <1>4, <1>5, <1>6 DEF GameStep

LEMMA WinnerStep ==
  ASSUME TypeOK, OneCardPerPlayer, WinnerHoldsALine, NEW g \in Guild, GameStep(g)
  PROVE  WinnerHoldsALine'
<1>1. ASSUME NEW ids \in SUBSET DOMAIN pools, NEW replace \in BOOLEAN,
             NewGame(g, ids, replace)
      PROVE  WinnerHoldsALine'
  <2>1. PICK id \in RowId :
               /\ id \notin DOMAIN games
               /\ DOMAIN games' = DOMAIN games \cup {id}
               /\ games'[id] = FreshGame(g, ids)
               /\ \A gm \in DOMAIN games : games'[gm] =
                    IF gm \in OpenGames(g, ids) THEN Abort(games[gm]) ELSE games[gm]
    BY <1>1, NewGameEffect
  <2>2. UNCHANGED cards
    BY <1>1 DEF NewGame
  <2>3. \A gm \in DOMAIN games : games[gm] \in Game
    BY DEF TypeOK, IsTable
  <2>4. \A gm \in OpenGames(g, ids) :
          /\ Abort(games[gm]).status = "aborted"
          /\ Abort(games[gm]).winner = NoUser /\ Abort(games[gm]).winnerCard = 0
    BY <2>3, AbortRow DEF OpenGames, WinnerHoldsALine
  <2>5. /\ games'[id].status = "open" /\ games'[id].winner = NoUser
        /\ games'[id].winnerCard = 0
    BY <2>1 DEF FreshGame
  <2>. QED BY <2>1, <2>2, <2>4, <2>5 DEF WinnerHoldsALine
<1>2. ASSUME NEW gm \in DOMAIN games, AbortGame(g, gm) PROVE WinnerHoldsALine'
  <2>1. games[gm] \in Game
    BY DEF TypeOK, IsTable
  <2>2. /\ DOMAIN games' = DOMAIN games /\ games'[gm] = Abort(games[gm])
        /\ \A h \in DOMAIN games \ {gm} : games'[h] = games[h]
        /\ games[gm].status = "open" /\ UNCHANGED cards
    BY <1>2 DEF AbortGame, TypeOK, IsTable
  <2>. QED BY <2>1, <2>2, AbortRow DEF WinnerHoldsALine
<1>3. ASSUME CardsOnlyToggle, UNCHANGED games PROVE WinnerHoldsALine'
  BY <1>3 DEF WinnerHoldsALine, CardsOnlyToggle, CardIsOpen
<1>4. ASSUME NEW gm \in DOMAIN games, NEW u \in User, DealCard(g, gm, u)
      PROVE  WinnerHoldsALine'
  BY <1>3, <1>4, DealKeepsRows
<1>5. ASSUME NEW c \in DOMAIN cards, NEW idx \in CellInput, ToggleCell(g, c, idx)
      PROVE  WinnerHoldsALine'
  BY <1>3, <1>5, ToggleKeepsRows
<1>6. ASSUME NEW c \in DOMAIN cards, NEW u \in User, CallBingo(g, c, u)
      PROVE  WinnerHoldsALine'
  <2>1. cards[c].game \in DOMAIN games
    BY DEF OneCardPerPlayer
  <2>2. /\ cards[c].guild = games[cards[c].game].guild /\ cards[c].user = u
        /\ HasBingo(cards[c].marked)
    BY <1>6 DEF CallBingo, OneCardPerPlayer
  <2>. QED BY <1>6, <2>1, <2>2, CallBingoEffect DEF WinnerHoldsALine
<1>. QED BY <1>1, <1>2, <1>4, <1>5, <1>6 DEF GameStep

LEMMA OneOpenStep ==
  ASSUME TypeOK, OneCardPerPlayer, OneOpenGamePerSet, NEW g \in Guild, GameStep(g)
  PROVE  OneOpenGamePerSet'
<1>1. ASSUME GamesOnlyClose, DOMAIN games' = DOMAIN games PROVE OneOpenGamePerSet'
  BY <1>1 DEF OneOpenGamePerSet, GamesOnlyClose
<1>2. ASSUME NEW ids \in SUBSET DOMAIN pools, NEW replace \in BOOLEAN,
             NewGame(g, ids, replace)
      PROVE  OneOpenGamePerSet'
  <2>1. PICK id \in RowId :
               /\ id \notin DOMAIN games
               /\ DOMAIN games' = DOMAIN games \cup {id}
               /\ games'[id] = FreshGame(g, ids)
               /\ \A gm \in DOMAIN games : games'[gm] =
                    IF gm \in OpenGames(g, ids) THEN Abort(games[gm]) ELSE games[gm]
    BY <1>2, NewGameEffect
  <2>2. GamesOnlyClose
    BY <1>2, NewGameKeepsRows
  <2>3. \A gm \in DOMAIN games : games[gm] \in Game
    BY DEF TypeOK, IsTable
  <2>4. ASSUME NEW gm \in DOMAIN games, games'[gm].status = "open"
        PROVE  ~(games'[gm].guild = g /\ games'[gm].poolSet = ids)
    <3>1. gm \notin OpenGames(g, ids)
      BY <2>1, <2>3, <2>4, AbortRow
    <3>. QED BY <2>1, <2>4, <3>1 DEF OpenGames
  <2>5. games'[id].guild = g /\ games'[id].poolSet = ids
    BY <2>1 DEF FreshGame
  <2>. QED BY <2>1, <2>2, <2>4, <2>5 DEF OneOpenGamePerSet, GamesOnlyClose
<1>3. ASSUME NEW gm \in DOMAIN games, AbortGame(g, gm) PROVE OneOpenGamePerSet'
  BY <1>1, <1>3, AbortKeepsRows
<1>4. ASSUME NEW gm \in DOMAIN games, NEW u \in User, DealCard(g, gm, u)
      PROVE  OneOpenGamePerSet'
  BY <1>4 DEF DealCard, OneOpenGamePerSet
<1>5. ASSUME NEW c \in DOMAIN cards, NEW idx \in CellInput, ToggleCell(g, c, idx)
      PROVE  OneOpenGamePerSet'
  BY <1>5 DEF ToggleCell, OneOpenGamePerSet
<1>6. ASSUME NEW c \in DOMAIN cards, NEW u \in User, CallBingo(g, c, u)
      PROVE  OneOpenGamePerSet'
  <2>1. cards[c].game \in DOMAIN games
    BY DEF OneCardPerPlayer
  <2>. QED BY <1>1, <1>6, <2>1, CallBingoEffect, CallKeepsRows
<1>. QED BY <1>2, <1>3, <1>4, <1>5, <1>6 DEF GameStep

CardsStayHome ==
  \A c \in DOMAIN cards : \A pool \in cards[c].origin : pool.guild = cards[c].guild

LEMMA CardsStayHomeStep ==
  ASSUME Typed, CardsStayHome, NEW g \in Guild, GameStep(g)
  PROVE  CardsStayHome'
<1> USE DEF CardsStayHome
<1>1. ASSUME NEW gm \in DOMAIN games, NEW u \in User, DealCard(g, gm, u)
      PROVE  CardsStayHome'
  <2>1. PICK id \in RowId, hand \in SUBSET UsableEntries(g, games[gm].poolSet) :
               /\ id \notin DOMAIN cards
               /\ cards' = Insert(cards, id,
                             [game |-> gm, guild |-> g, user |-> u,
                              squares |-> {e.square : e \in hand},
                              origin |-> {pools[e.pool] : e \in hand},
                              marked |-> {CenterIdx}])
    BY <1>1, DealCardEffect DEF Typed
  <2>2. \A e \in hand : pools[e.pool].guild = g
    BY DEF Typed, EntriesFollowTheirPool, UsableEntries
  <2>3. /\ DOMAIN cards' = DOMAIN cards \cup {id}
        /\ cards'[id].guild = g
        /\ cards'[id].origin = {pools[e.pool] : e \in hand}
        /\ \A c \in DOMAIN cards : cards'[c] = cards[c]
    BY <2>1 DEF Insert
  <2>. QED BY <2>2, <2>3
<1>2. ASSUME NEW c \in DOMAIN cards, NEW idx \in CellInput, ToggleCell(g, c, idx)
      PROVE  CardsStayHome'
  BY <1>2, ToggleKeepsRows DEF CardsOnlyToggle, Typed
<1>. QED BY <1>1, <1>2 DEF GameStep, NewGame, AbortGame, CallBingo
-----------------------------------------------------------------------------
(* The inductive invariant and what follows from it. *)

IInv == /\ Typed
        /\ OneCardPerPlayer
        /\ WinnerHoldsALine
        /\ OneOpenGamePerSet
        /\ CardsStayHome

LEMMA InductiveInvariant == Spec => []IInv
<1>1. Init => IInv
  BY DEF Init, IInv, Typed, TypeOK, IsTable, EntriesFollowTheirPool,
         OneCardPerPlayer, WinnerHoldsALine, OneOpenGamePerSet, CardsStayHome
<1>2. IInv /\ [Next]_tables => IInv'
  <2> SUFFICES ASSUME IInv, [Next]_tables PROVE IInv'
    OBVIOUS
  <2>1. ASSUME NEW g \in Guild, GameStep(g) PROVE IInv'
    BY <2>1, GameStepType, EntriesFollowStep, OneCardStep, WinnerStep, OneOpenStep,
       CardsStayHomeStep
    DEF IInv, Typed
  <2>2. ASSUME NEW g \in Guild, PoolStep(g) PROVE IInv'
    <3>1. Typed'
      BY <2>2, PoolStepType, EntriesFollowStep DEF IInv, Typed
    <3>2. UNCHANGED <<games, cards>>
      BY <2>2, PoolStepKeepsPlay
    <3>. QED BY <3>1, <3>2 DEF IInv, OneCardPerPlayer, WinnerHoldsALine,
                              OneOpenGamePerSet, CardsStayHome
  <2>3. CASE UNCHANGED tables
    BY <2>3 DEF tables, IInv, Typed, TypeOK, IsTable, EntriesFollowTheirPool,
         OneCardPerPlayer, WinnerHoldsALine, OneOpenGamePerSet, CardsStayHome
  <2>. QED BY <2>1, <2>2, <2>3 DEF Next
<1>. QED BY <1>1, <1>2, PTL DEF Spec

(* A finished game always has a winning card of that game, of the recorded *)
(* winner, whose line can no longer be unmarked; other games have none     *)
(* (CallBingo, ToggleCell, AbortGame and NewGame in any order).            *)
THEOREM WinnerAlwaysHoldsALine == Spec => []WinnerHoldsALine
<1>1. IInv => WinnerHoldsALine
  BY DEF IInv
<1>. QED BY <1>1, InductiveInvariant, PTL

(* However openings, replacements, calls and aborts interleave, a guild    *)
(* has at most one open game for a set of pools.                           *)
THEOREM OneOpenGamePerSetAlways == Spec => []OneOpenGamePerSet
<1>1. IInv => OneOpenGamePerSet
  BY DEF IInv
<1>. QED BY <1>1, InductiveInvariant, PTL

(* Nobody ever holds two cards in a game, and no card is in a game of      *)
(* another guild.                                                          *)
THEOREM OneCardPerPlayerAlways == Spec => []OneCardPerPlayer
<1>1. IInv => OneCardPerPlayer
  BY DEF IInv
<1>. QED BY <1>1, InductiveInvariant, PTL

(* A card never holds a square of another guild's pool, although pool ids  *)
(* are reused across guilds (GetOrDealCard, DeletePool, CreatePool).       *)
THEOREM GuildsAreIsolated == Spec => []GuildIsolation
<1>1. IInv => GuildIsolation
  BY DEF IInv, Typed, GuildIsolation, CardsStayHome
<1>. QED BY <1>1, InductiveInvariant, PTL

(* No transaction touches a game that is no longer open, nor its cards,    *)
(* nor deals a card in it.                                                 *)
THEOREM HistoryIsReadOnly == Spec => ClosedGamesAreFrozen
<1> DEFINE Frozen ==
      \A gm \in DOMAIN games : games[gm].status # "open" =>
        /\ gm \in DOMAIN games' /\ games'[gm] = games[gm]
        /\ \A c \in DOMAIN cards' : cards'[c].game = gm =>
             c \in DOMAIN cards /\ cards'[c] = cards[c]
<1>1. IInv /\ [Next]_tables => [Frozen]_tables
  <2> SUFFICES ASSUME IInv, Next PROVE Frozen
    OBVIOUS
  <2>1. PICK g \in Guild : PoolStep(g) \/ GameStep(g)
    BY DEF Next
  <2>2. CASE PoolStep(g)
    BY <2>2, PoolStepKeepsPlay
  <2>3. ASSUME NEW ids \in SUBSET DOMAIN pools, NEW replace \in BOOLEAN,
               NewGame(g, ids, replace)
        PROVE  Frozen
    BY <2>3, NewGameKeepsRows DEF IInv, Typed, GamesOnlyClose
  <2>4. ASSUME NEW gm \in DOMAIN games, AbortGame(g, gm) PROVE Frozen
    BY <2>4, AbortKeepsRows DEF IInv, Typed, GamesOnlyClose
  <2>5. ASSUME NEW gm \in DOMAIN games, NEW u \in User, DealCard(g, gm, u)
        PROVE  Frozen
    <3>1. PICK id \in RowId, hand \in SUBSET UsableEntries(g, games[gm].poolSet) :
                 /\ id \notin DOMAIN cards
                 /\ cards' = Insert(cards, id,
                               [game |-> gm, guild |-> g, user |-> u,
                                squares |-> {e.square : e \in hand},
                                origin |-> {pools[e.pool] : e \in hand},
                                marked |-> {CenterIdx}])
      BY <2>5, DealCardEffect DEF IInv, Typed
    <3>2. /\ DOMAIN cards' = DOMAIN cards \cup {id} /\ cards'[id].game = gm
          /\ \A c \in DOMAIN cards : cards'[c] = cards[c]
      BY <3>1 DEF Insert
    <3>3. games[gm].status = "open" /\ UNCHANGED games
      BY <2>5 DEF DealCard
    <3>. QED BY <3>2, <3>3
  <2>6. ASSUME NEW c \in DOMAIN cards, NEW idx \in CellInput, ToggleCell(g, c, idx)
        PROVE  Frozen
    BY <2>6, ToggleKeepsRows DEF IInv, Typed, CardsOnlyToggle, CardIsOpen
  <2>7. ASSUME NEW c \in DOMAIN cards, NEW u \in User, CallBingo(g, c, u)
        PROVE  Frozen
    <3>1. cards[c].game \in DOMAIN games
      BY DEF IInv, OneCardPerPlayer
    <3>2. GamesOnlyClose /\ UNCHANGED cards
      BY <2>7, <3>1, CallKeepsRows DEF IInv, Typed, CallBingo
    <3>. QED BY <3>2 DEF GamesOnlyClose
  <2>. QED BY <2>1, <2>2, <2>3, <2>4, <2>5, <2>6, <2>7 DEF GameStep
<1>. QED BY <1>1, InductiveInvariant, PTL DEF Spec, ClosedGamesAreFrozen
-----------------------------------------------------------------------------
(* The store implements BingoRound. *)

\* A step that changes neither the games nor the cards changes no round, and
\* one that leaves a game's row and cards alone leaves its round alone.
LEMMA SamePlaySameRounds ==
  ASSUME UNCHANGED <<games, cards>>
  PROVE  UNCHANGED <<PhaseOf, ReadyOf, WinnerOf>>
BY DEF PhaseOf, ReadyOf, WinnerOf

LEMMA SameCardsSameReady ==
  ASSUME UNCHANGED cards
  PROVE  UNCHANGED ReadyOf
BY DEF ReadyOf

LEMMA RoundOf ==
  ASSUME NEW r \in 1 .. MaxGames
  PROVE  /\ PhaseOf[r] = IF r \in DOMAIN games THEN games[r].status ELSE "none"
         /\ WinnerOf[r] = IF r \in DOMAIN games THEN games[r].winner ELSE NoUser
         /\ ReadyOf[r] = {cards[c].user : c \in {k \in DOMAIN cards :
                            cards[k].game = r /\ HasBingo(cards[k].marked)}}
         /\ PhaseOf'[r] = IF r \in DOMAIN games' THEN games'[r].status ELSE "none"
         /\ WinnerOf'[r] = IF r \in DOMAIN games' THEN games'[r].winner ELSE NoUser
         /\ ReadyOf'[r] = {cards'[c].user : c \in {k \in DOMAIN cards' :
                            cards'[k].game = r /\ HasBingo(cards'[k].marked)}}
BY DEF PhaseOf, ReadyOf, WinnerOf

LEMMA ReadyPlayer ==
  ASSUME NEW r \in 1 .. MaxGames, NEW x
  PROVE  /\ x \in ReadyOf[r] <=>
              \E c \in DOMAIN cards : /\ cards[c].game = r /\ cards[c].user = x
                                      /\ HasBingo(cards[c].marked)
         /\ x \in ReadyOf'[r] <=>
              \E c \in DOMAIN cards' : /\ cards'[c].game = r /\ cards'[c].user = x
                                       /\ HasBingo(cards'[c].marked)
BY DEF ReadyOf

LEMMA NewGameRefines ==
  ASSUME IInv, NEW g \in Guild, NEW ids \in SUBSET DOMAIN pools,
         NEW replace \in BOOLEAN, NewGame(g, ids, replace)
  PROVE  Rounds!Next
<1>1. PICK id \in RowId :
             /\ id \notin DOMAIN games
             /\ DOMAIN games' = DOMAIN games \cup {id}
             /\ games'[id] = FreshGame(g, ids)
             /\ \A gm \in DOMAIN games : games'[gm] =
                  IF gm \in OpenGames(g, ids) THEN Abort(games[gm]) ELSE games[gm]
  BY NewGameEffect DEF IInv, Typed
<1>2. \A gm \in DOMAIN games : games[gm] \in Game
  BY DEF IInv, Typed, TypeOK, IsTable
<1>3. UNCHANGED ReadyOf
  BY SameCardsSameReady DEF NewGame
<1>4. games'[id].status = "open" /\ games'[id].winner = NoUser
  BY <1>1 DEF FreshGame
<1>5. ASSUME NEW r \in 1 .. MaxGames
      PROVE  Rounds!Open(r) \/ Rounds!Abort(r) \/ Rounds!Same(r)
  <2>1. CASE r = id
    <3>1. /\ PhaseOf[r] = "none" /\ PhaseOf'[r] = "open"
          /\ WinnerOf[r] = NoUser /\ WinnerOf'[r] = NoUser
      BY <1>1, <1>4, <2>1, RoundOf
    <3>. QED BY <1>3, <3>1 DEF Rounds!Open
  <2>2. CASE r \in OpenGames(g, ids)
    <3>1. /\ PhaseOf[r] = "open" /\ PhaseOf'[r] = "aborted"
          /\ WinnerOf'[r] = WinnerOf[r]
      BY <1>1, <1>2, <2>2, RoundOf, AbortRow DEF OpenGames
    <3>. QED BY <1>3, <3>1 DEF Rounds!Abort
  <2>3. CASE r # id /\ r \notin OpenGames(g, ids)
    <3>1. PhaseOf'[r] = PhaseOf[r] /\ WinnerOf'[r] = WinnerOf[r]
      BY <1>1, <2>3, RoundOf
    <3>. QED BY <1>3, <3>1 DEF Rounds!Same
  <2>. QED BY <2>1, <2>2, <2>3
<1>. QED BY <1>5 DEF Rounds!Next

LEMMA AbortRefines ==
  ASSUME IInv, NEW g \in Guild, NEW gm \in DOMAIN games, AbortGame(g, gm)
  PROVE  Rounds!Next
<1>1. /\ DOMAIN games' = DOMAIN games /\ games'[gm] = Abort(games[gm])
      /\ \A h \in DOMAIN games \ {gm} : games'[h] = games[h]
      /\ games[gm].status = "open" /\ UNCHANGED cards
  BY DEF AbortGame, IInv, Typed, TypeOK, IsTable
<1>2. games[gm] \in Game
  BY DEF IInv, Typed, TypeOK, IsTable
<1>3. UNCHANGED ReadyOf
  BY <1>1, SameCardsSameReady
<1>4. ASSUME NEW r \in 1 .. MaxGames PROVE Rounds!Abort(r) \/ Rounds!Same(r)
  <2>1. CASE r = gm
    <3>1. /\ PhaseOf[r] = "open" /\ PhaseOf'[r] = "aborted"
          /\ WinnerOf'[r] = WinnerOf[r]
      BY <1>1, <1>2, <2>1, RoundOf, AbortRow
    <3>. QED BY <1>3, <3>1 DEF Rounds!Abort
  <2>2. CASE r # gm
    <3>1. PhaseOf'[r] = PhaseOf[r] /\ WinnerOf'[r] = WinnerOf[r]
      BY <1>1, <2>2, RoundOf
    <3>. QED BY <1>3, <3>1 DEF Rounds!Same
  <2>. QED BY <2>1, <2>2
<1>. QED BY <1>4 DEF Rounds!Next

LEMMA CallRefines ==
  ASSUME IInv, NEW g \in Guild, NEW c \in DOMAIN cards, NEW u \in User,
         CallBingo(g, c, u)
  PROVE  Rounds!Next \/ UNCHANGED <<PhaseOf, ReadyOf, WinnerOf>>
<1> DEFINE gm == cards[c].game
<1>1. gm \in DOMAIN games
  BY DEF IInv, OneCardPerPlayer
<1>2. /\ DOMAIN games' = DOMAIN games
      /\ games[gm].status = "open" /\ games'[gm].status = "finished"
      /\ games'[gm].winner = u
      /\ \A h \in DOMAIN games \ {gm} : games'[h] = games[h]
      /\ UNCHANGED cards
  BY <1>1, CallBingoEffect DEF IInv, Typed
<1>3. UNCHANGED ReadyOf
  BY <1>2, SameCardsSameReady
<1>4. cards[c].user = u /\ HasBingo(cards[c].marked)
  BY DEF CallBingo
<1>5. ASSUME NEW q \in (1 .. MaxGames) \ {gm} PROVE Rounds!Same(q)
  <2>1. PhaseOf'[q] = PhaseOf[q] /\ WinnerOf'[q] = WinnerOf[q]
    BY <1>2, RoundOf
  <2>. QED BY <1>3, <2>1 DEF Rounds!Same
<1>6. CASE gm \in 1 .. MaxGames
  <2>1. u \in ReadyOf[gm]
    BY <1>4, <1>6, RoundOf
  <2>2. /\ PhaseOf[gm] = "open" /\ PhaseOf'[gm] = "finished"
        /\ WinnerOf'[gm] = u
    BY <1>1, <1>2, <1>6, RoundOf
  <2>3. Rounds!Finish(gm)
    BY <1>3, <2>1, <2>2 DEF Rounds!Finish
  <2>. QED BY <1>5, <1>6, <2>3 DEF Rounds!Next
<1>7. CASE gm \notin 1 .. MaxGames
  <2>1. UNCHANGED <<PhaseOf, WinnerOf>>
    BY <1>2, <1>7 DEF PhaseOf, WinnerOf
  <2>. QED BY <1>3, <2>1
<1>. QED BY <1>6, <1>7

\* Play in one game: only the readiness of one player of that game changes.
LEMMA PlayRefines ==
  ASSUME NEW gm \in DOMAIN games, NEW u \in User, games[gm].status = "open",
         UNCHANGED games,
         \A r \in 1 .. MaxGames : r # gm => ReadyOf'[r] = ReadyOf[r],
         gm \in 1 .. MaxGames => \/ ReadyOf'[gm] = ReadyOf[gm] \cup {u}
                                 \/ ReadyOf'[gm] = ReadyOf[gm] \ {u}
  PROVE  Rounds!Next \/ UNCHANGED <<PhaseOf, ReadyOf, WinnerOf>>
<1>1. UNCHANGED <<PhaseOf, WinnerOf>>
  BY DEF PhaseOf, WinnerOf
<1>2. ASSUME NEW q \in (1 .. MaxGames) \ {gm} PROVE Rounds!Same(q)
  BY <1>1 DEF Rounds!Same
<1>3. CASE gm \in 1 .. MaxGames
  <2>1. PhaseOf[gm] = "open" /\ PhaseOf'[gm] = "open" /\ WinnerOf'[gm] = WinnerOf[gm]
    BY <1>1, <1>3, RoundOf
  <2>2. Rounds!Play(gm)
    BY <1>3, <2>1 DEF Rounds!Play
  <2>. QED BY <1>2, <1>3, <2>2 DEF Rounds!Next
<1>4. CASE gm \notin 1 .. MaxGames
  <2>1. UNCHANGED ReadyOf
    BY <1>4 DEF ReadyOf
  <2>. QED BY <1>1, <2>1
<1>. QED BY <1>3, <1>4

LEMMA DealRefines ==
  ASSUME IInv, NEW g \in Guild, NEW gm \in DOMAIN games, NEW u \in User,
         DealCard(g, gm, u)
  PROVE  Rounds!Next \/ UNCHANGED <<PhaseOf, ReadyOf, WinnerOf>>
<1>1. PICK id \in RowId, hand \in SUBSET UsableEntries(g, games[gm].poolSet) :
             /\ id \notin DOMAIN cards
             /\ cards' = Insert(cards, id,
                           [game |-> gm, guild |-> g, user |-> u,
                            squares |-> {e.square : e \in hand},
                            origin |-> {pools[e.pool] : e \in hand},
                            marked |-> {CenterIdx}])
  BY DealCardEffect DEF IInv, Typed
<1>2. /\ id \notin DOMAIN cards
      /\ DOMAIN cards' = DOMAIN cards \cup {id}
      /\ cards'[id].game = gm /\ cards'[id].user = u
      /\ \A c \in DOMAIN cards : cards'[c] = cards[c]
  BY <1>1 DEF Insert
<1>3. games[gm].status = "open" /\ UNCHANGED games
  BY DEF DealCard
<1>4. \A c \in DOMAIN cards : ~(cards[c].game = gm /\ cards[c].user = u)
  BY DEF DealCard, HasCard
<1>5. ASSUME NEW r \in 1 .. MaxGames, r # gm PROVE ReadyOf'[r] = ReadyOf[r]
  <2>1. ASSUME NEW x PROVE x \in ReadyOf'[r] <=> x \in ReadyOf[r]
    BY <1>2, <1>5, ReadyPlayer
  <2>. QED BY <2>1, SetExtensionality
<1>6. ASSUME gm \in 1 .. MaxGames
      PROVE  \/ ReadyOf'[gm] = ReadyOf[gm] \cup {u}
             \/ ReadyOf'[gm] = ReadyOf[gm] \ {u}
  <2>1. u \notin ReadyOf[gm]
    BY <1>4, <1>6, RoundOf
  <2>2. CASE HasBingo(cards'[id].marked)
    <3>1. ASSUME NEW x PROVE x \in ReadyOf'[gm] <=> x \in ReadyOf[gm] \/ x = u
      BY <1>2, <1>6, <2>2, ReadyPlayer
    <3>2. ReadyOf'[gm] = ReadyOf[gm] \cup {u}
      BY <3>1, SetExtensionality
    <3>. QED BY <3>2
  <2>3. CASE ~ HasBingo(cards'[id].marked)
    <3>1. ASSUME NEW x PROVE x \in ReadyOf'[gm] <=> x \in ReadyOf[gm]
      BY <1>2, <1>6, <2>3, ReadyPlayer
    <3>2. ReadyOf'[gm] = ReadyOf[gm]
      BY <3>1, SetExtensionality
    <3>. QED BY <2>1, <3>2
  <2>. QED BY <2>2, <2>3
<1>. QED BY <1>3, <1>5, <1>6, PlayRefines

LEMMA ToggleRefines ==
  ASSUME IInv, NEW g \in Guild, NEW c \in DOMAIN cards, NEW idx \in CellInput,
         ToggleCell(g, c, idx)
  PROVE  Rounds!Next \/ UNCHANGED <<PhaseOf, ReadyOf, WinnerOf>>
<1> DEFINE gm == cards[c].game  u == cards[c].user
<1>1. gm \in DOMAIN games /\ u \in User
  BY DEF IInv, Typed, TypeOK, IsTable, OneCardPerPlayer, Card
<1>2. games[gm].status = "open" /\ UNCHANGED games
  BY DEF ToggleCell, CardIsOpen
<1>3. /\ DOMAIN cards' = DOMAIN cards
      /\ \A k \in DOMAIN cards : /\ cards'[k].game = cards[k].game
                                 /\ cards'[k].user = cards[k].user
  BY ToggleKeepsRows DEF CardsOnlyToggle, IInv, Typed
<1>4. \A k \in DOMAIN cards \ {c} : cards'[k] = cards[k]
  BY DEF ToggleCell, IInv, Typed, TypeOK, IsTable
<1>5. \A k \in DOMAIN cards \ {c} : ~(cards[k].game = gm /\ cards[k].user = u)
  BY DEF IInv, OneCardPerPlayer
<1>6. ASSUME NEW r \in 1 .. MaxGames, r # gm PROVE ReadyOf'[r] = ReadyOf[r]
  <2>1. ASSUME NEW x PROVE x \in ReadyOf'[r] <=> x \in ReadyOf[r]
    BY <1>3, <1>4, <1>6, ReadyPlayer
  <2>. QED BY <2>1, SetExtensionality
<1>7. ASSUME gm \in 1 .. MaxGames
      PROVE  \/ ReadyOf'[gm] = ReadyOf[gm] \cup {u}
             \/ ReadyOf'[gm] = ReadyOf[gm] \ {u}
  <2> DEFINE Others == {cards[k].user : k \in {j \in DOMAIN cards \ {c} :
                          cards[j].game = gm /\ HasBingo(cards[j].marked)}}
  <2>1. u \notin Others
    BY <1>5
  <2>2. ReadyOf[gm] = Others \cup (IF HasBingo(cards[c].marked) THEN {u} ELSE {})
    BY <1>7, RoundOf
  <2>3. ReadyOf'[gm] = Others \cup (IF HasBingo(cards'[c].marked) THEN {u} ELSE {})
    BY <1>3, <1>4, <1>7, RoundOf
  <2> HIDE DEF Others
  <2>. QED BY <2>1, <2>2, <2>3
<1> HIDE DEF gm, u
<1>. QED BY <1>1, <1>2, <1>6, <1>7, PlayRefines

(* The store implements BingoRound: every transaction opens, plays in,     *)
(* finishes or aborts rounds as promised, or does not touch them.          *)
THEOREM StoreImplementsRounds == Spec => KeepsThePromise
<1>1. Init => Rounds!Init
  BY DEF Init, Rounds!Init, PhaseOf, ReadyOf, WinnerOf
<1>2. IInv /\ [Next]_tables => [Rounds!Next]_(Rounds!rounds)
  <2> SUFFICES ASSUME IInv, [Next]_tables
               PROVE  Rounds!Next \/ UNCHANGED <<PhaseOf, ReadyOf, WinnerOf>>
    BY DEF Rounds!rounds
  <2>1. ASSUME NEW g \in Guild, PoolStep(g)
        PROVE  UNCHANGED <<PhaseOf, ReadyOf, WinnerOf>>
    BY <2>1, PoolStepKeepsPlay, SamePlaySameRounds
  <2>2. ASSUME NEW g \in Guild, GameStep(g)
        PROVE  Rounds!Next \/ UNCHANGED <<PhaseOf, ReadyOf, WinnerOf>>
    BY <2>2, NewGameRefines, AbortRefines, DealRefines, ToggleRefines, CallRefines
    DEF GameStep
  <2>3. CASE UNCHANGED tables
    BY <2>3, SamePlaySameRounds DEF tables
  <2>. QED BY <2>1, <2>2, <2>3 DEF Next
<1>. QED BY <1>1, <1>2, InductiveInvariant, PTL
         DEF Spec, KeepsThePromise, Rounds!Spec
-----------------------------------------------------------------------------
(* One card that is clicked on. *)

LEMMA MarksAreCells == Walk => [](marked \in SUBSET Cell)
<1>1. NoMarks => marked \in SUBSET Cell
  BY DEF NoMarks
<1>2. marked \in SUBSET Cell /\ [Click]_marked => (marked \in SUBSET Cell)'
  BY DEF Click, Toggle
<1>. QED BY <1>1, <1>2, PTL DEF Walk

(* The summaries of a card the code computes in three places agree on a    *)
(* board of any size (bingo.HasBingo, CompletedLines, BestProgress): no    *)
(* card that can be called is shown as one cell away.                      *)
THEOREM SummariesAlwaysAgree == Walk => []SummariesAgree
<1>1. marked \in SUBSET Cell => SummariesAgree
  BY Agreeing DEF SummariesAgree
<1>. QED BY <1>1, MarksAreCells, PTL

(* The free centre saves one cell and no more: no card calls with fewer    *)
(* than Size - 1 marks (bingo.MarksWithFree, Lines).                       *)
THEOREM FreeCentreIsOneCell == Walk => []FreeCentreSavesOneCell
<1>1. \A line \in Lines : line \subseteq MarksWithFree(line \ {CenterIdx})
  BY DEF MarksWithFree
<1>2. marked \in SUBSET Cell => FreeCentreSavesOneCell
  BY <1>1, Saving DEF FreeCentreSavesOneCell, HasBingo
<1>. QED BY <1>2, MarksAreCells, PTL

(* On the board of the code the browser's own check, whose lines are       *)
(* written out there, decides as the server does (app.js hasBingoClient).  *)
THEOREM BrowserAgrees == Size = 5 => (Walk => []ClientMirrorsServer)
<1> SUFFICES ASSUME Size = 5 PROVE Walk => []ClientMirrorsServer
  OBVIOUS
<1>1. ClientMirrorsServer
  BY Mirroring DEF ClientMirrorsServer, HasBingoClient, HasBingo, MarksWithFree
<1>. QED BY <1>1, PTL

(* One click changes the best progress by one at most and completes three  *)
(* lines at most, on a board of any size: only the free centre lies on     *)
(* both diagonals (Store.ToggleCell, bingo.Lines).                         *)
THEOREM OneClickMovesOneStep == Walk => OneClickOneStep
<1>1. ASSUME marked \in SUBSET Cell, Click
      PROVE  LET before == BestProgress(marked)
                 after  == BestProgress(marked')
             IN  /\ after <= before + 1 /\ before <= after + 1
                 /\ Cardinality(CompletedLines(marked') \ CompletedLines(marked)) <= 3
  <2>1. PICK idx \in Cell : Toggle(idx)
    BY <1>1 DEF Click
  <2>2. idx # CenterIdx
    BY <2>1 DEF Toggle
  <2>3. CASE idx \in marked
    <3>1. marked' \in SUBSET Cell /\ marked = marked' \cup {idx}
      BY <1>1, <2>1, <2>3 DEF Toggle
    <3>2. /\ BestProgress(marked) \in Nat /\ BestProgress(marked') \in Nat
          /\ BestProgress(marked') <= BestProgress(marked)
          /\ BestProgress(marked) <= BestProgress(marked') + 1
          /\ CompletedLines(marked') \ CompletedLines(marked) = {}
      BY <3>1, OneMore
    <3>3. Cardinality(CompletedLines(marked') \ CompletedLines(marked)) = 0
      BY <3>2, FS_EmptySet
    <3>. QED BY <3>2, <3>3
  <2>4. CASE idx \notin marked
    <3>1. marked' = marked \cup {idx}
      BY <2>1, <2>4 DEF Toggle
    <3>2. Cardinality(CompletedLines(marked') \ CompletedLines(marked)) <= 3
      BY <1>1, <2>2, <3>1, OneMore, LinesThrough DEF CompletedLines
    <3>. QED BY <1>1, <3>1, <3>2, OneMore
  <2>. QED BY <2>3, <2>4
<1>. QED BY <1>1, MarksAreCells, PTL DEF Walk, OneClickOneStep
=============================================================================
