--------------------------- MODULE EvaluationProof --------------------------
(***************************************************************************)
(* Proofs about Evaluation in a game: the terms of a position are those of *)
(* its mirror image with the players exchanged, the scale of the endgame is*)
(* the same for both, and no term is read outside its table.               *)
(*                                                                         *)
(* The parts, in order: counting; the board turned round, its attacks,     *)
(* masks and distances; the terms turned round, of kings and pawns, of the *)
(* pieces, of what they attack; the scale; the squares a piece reaches; the*)
(* terms that exist.                                                       *)
(***************************************************************************)
EXTENDS GameProof
LOCAL INSTANCE FiniteSetsExt
\* By name, to tell its definitions from those that come with Game.
WF == INSTANCE WellFoundedInduction

----------------------------------------------------------------------------
(* Counting sets.                                                          *)

\* An image of a finite set is no larger: take the smallest set whose image
\* were, and leave one element out.
LEMMA ImagesFit ==
  ASSUME NEW A, IsFiniteSet(A), NEW f
  PROVE  LET T == {f[x] : x \in A} IN IsFiniteSet(T) /\ Cardinality(T) =< Cardinality(A)
<1> DEFINE Image(X) == {f[x] : x \in X}
           Fits(X) == IsFiniteSet(Image(X)) /\ Cardinality(Image(X)) =< Cardinality(X)
           Misfits == {n \in Nat : \E X \in SUBSET A : Cardinality(X) = n /\ ~Fits(X)}
<1>1. \A X \in SUBSET A : IsFiniteSet(X) /\ Cardinality(X) \in Nat
  BY FS_Subset, FS_CardinalityType
<1>2. Misfits = {}
  <2> SUFFICES ASSUME Misfits # {} PROVE FALSE
    OBVIOUS
  <2>1. Misfits \subseteq Nat
    OBVIOUS
  <2>2. PICK n \in Misfits : \A k \in Misfits : <<k, n>> \notin WF!OpToRel(<, Nat)
    <3> HIDE DEF Misfits
    <3> QED
      BY <2>1, WF!NatLessThanWellFounded, WF!WFMin, Zenon
  <2>3. \A k \in Misfits : ~(k < n)
    BY <2>1, <2>2, Zenon DEF WF!OpToRel
  <2>4. PICK X \in SUBSET A : Cardinality(X) = n /\ ~Fits(X)
    BY <2>2
  <2>5. n \in Nat /\ IsFiniteSet(X) /\ Cardinality(X) = n
    BY <1>1, <2>4
  <2> HIDE DEF Misfits, Fits
  <2>6. PICK x \in X : TRUE
    <3>1. CASE X = {}
      <4>1. Image({}) = {}
        OBVIOUS
      <4>2. IsFiniteSet({}) /\ Cardinality({}) = 0
        BY FS_EmptySet
      <4> QED
        BY <2>4, <3>1, <4>1, <4>2 DEF Fits
    <3> QED
      BY <3>1
  <2> DEFINE Y == X \ {x}
  <2>7. IsFiniteSet(Y) /\ Cardinality(Y) = n - 1
    BY <2>5, <2>6, FS_RemoveElement
  <2>8. n - 1 \in Nat /\ Y \in SUBSET A
    <3>1. Y \in SUBSET A
      OBVIOUS
    <3> HIDE DEF Y
    <3> QED
      BY <1>1, <2>5, <2>7, <3>1
  <2>9. Fits(Y)
    <3>1. n - 1 \notin Misfits
      BY <2>3, <2>5, <2>8
    <3> HIDE DEF Y
    <3> QED
      BY <2>7, <2>8, <3>1 DEF Misfits
  <2>10. Image(X) = Image(Y) \cup {f[x]}
    BY <2>6
  <2> HIDE DEF Image, Y
  <2>11. IsFiniteSet(Image(Y)) /\ Cardinality(Image(Y)) \in Nat /\ Cardinality(Image(Y)) =< n - 1
    BY <2>7, <2>9, FS_CardinalityType DEF Fits
  <2>12. /\ IsFiniteSet(Image(Y) \cup {f[x]})
         /\ Cardinality(Image(Y) \cup {f[x]}) =< Cardinality(Image(Y)) + 1
    <3>1. /\ IsFiniteSet(Image(Y) \cup {f[x]})
          /\ Cardinality(Image(Y) \cup {f[x]}) = IF f[x] \in Image(Y) THEN Cardinality(Image(Y))
                                                  ELSE Cardinality(Image(Y)) + 1
      BY <2>11, FS_AddElement
    <3> QED
      BY <2>11, <3>1
  <2>13. IsFiniteSet(Image(X)) /\ Cardinality(Image(X)) \in Nat /\ Cardinality(Image(X)) =< n
    <3>1. Cardinality(Image(X)) \in Nat
      BY <2>10, <2>12, FS_CardinalityType
    <3> QED
      BY <2>5, <2>10, <2>11, <2>12, <3>1
  <2> QED
    BY <2>4, <2>5, <2>13 DEF Fits
<1>3. Fits(A)
  <2>1. A \in SUBSET A /\ Cardinality(A) \in Nat
    BY <1>1
  <2> HIDE DEF Fits
  <2> QED
    BY <1>2, <2>1
<1> QED
  BY <1>3

\* No set has more elements than one it is part of the image of.
LEMMA ImageCount ==
  ASSUME NEW A, IsFiniteSet(A), NEW f, NEW B, B \subseteq {f[x] : x \in A}
  PROVE  IsFiniteSet(B) /\ Cardinality(B) =< Cardinality(A)
<1> DEFINE T == {f[x] : x \in A}
<1>1. IsFiniteSet(T) /\ Cardinality(T) =< Cardinality(A)
  BY ImagesFit
<1>2. B \subseteq T
  OBVIOUS
<1> HIDE DEF T
<1>3. IsFiniteSet(B) /\ Cardinality(B) =< Cardinality(T)
  BY <1>1, <1>2, FS_Subset
<1>4. Cardinality(A) \in Nat /\ Cardinality(T) \in Nat /\ Cardinality(B) \in Nat
  BY <1>1, <1>3, FS_CardinalityType
<1> QED
  BY <1>1, <1>3, <1>4

\* Sets that are mapped one to one onto each other are as large.
LEMMA SameCount ==
  ASSUME NEW A, NEW B, IsFiniteSet(A), NEW f \in [A -> B],
         \A x, y \in A : f[x] = f[y] => x = y, \A y \in B : \E x \in A : f[x] = y
  PROVE  IsFiniteSet(B) /\ Cardinality(B) = Cardinality(A)
<1> DEFINE g == [y \in B |-> CHOOSE x \in A : f[x] = y]
<1>1. B \subseteq {f[x] : x \in A}
  OBVIOUS
<1>2. IsFiniteSet(B) /\ Cardinality(B) =< Cardinality(A)
  BY <1>1, ImageCount
<1>3. \A x \in A : f[x] \in B /\ g[f[x]] = x
  OBVIOUS
<1> HIDE DEF g
<1>4. A \subseteq {g[y] : y \in B}
  BY <1>3
<1>5. Cardinality(A) =< Cardinality(B)
  BY <1>2, <1>4, ImageCount
<1>6. Cardinality(A) \in Nat /\ Cardinality(B) \in Nat
  BY <1>2, FS_CardinalityType
<1> QED
  BY <1>2, <1>5, <1>6

----------------------------------------------------------------------------
(* The board turned round: a square and its mirror image.                  *)

LEMMA FlipIs ==
  ASSUME NEW s \in Squares
  PROVE  /\ flipPosition(s) \in Squares /\ flipPosition(flipPosition(s)) = s
         /\ Row(flipPosition(s)) = 7 - Row(s) /\ File(flipPosition(s)) = File(s)
         /\ flipPosition(s) = s + 8 * (7 - 2 * Row(s))
<1>1. Row(s) \in 0..7 /\ File(s) \in 0..7 /\ s = 8 * Row(s) + File(s)
  BY SquaresAre
<1>2. 7 - Row(s) \in 0..7
  BY <1>1
<1>3. flipPosition(s) = At(7 - Row(s), File(s))
  BY DEF flipPosition
<1>4. /\ flipPosition(s) \in Squares
      /\ Row(flipPosition(s)) = 7 - Row(s) /\ File(flipPosition(s)) = File(s)
  BY <1>1, <1>2, <1>3, AtIsASquare
<1>5. flipPosition(flipPosition(s)) = At(7 - (7 - Row(s)), File(s))
  BY <1>4 DEF flipPosition
<1>6. 7 - (7 - Row(s)) = Row(s)
  BY <1>1
<1> QED
  BY <1>1, <1>3, <1>4, <1>5, <1>6 DEF At

\* B is A turned round.
Flips(A, B) ==
  /\ A \subseteq Squares /\ B \subseteq Squares
  /\ \A s \in Squares : s \in A <=> flipPosition(s) \in B

LEMMA FlipsBack ==
  ASSUME NEW A, NEW B, Flips(A, B)
  PROVE  /\ Flips(B, A)
         /\ \A s \in Squares : s \in B <=> flipPosition(s) \in A
         /\ \A s \in A : flipPosition(s) \in B
         /\ \A s \in B : flipPosition(s) \in A
BY FlipIs DEF Flips

LEMMA FlipsEmpty ==
  ASSUME NEW A, NEW B, Flips(A, B)
  PROVE  A = {} <=> B = {}
BY FlipsBack

LEMMA FlipsUnion ==
  ASSUME NEW A, NEW B, Flips(A, B), NEW C, NEW D, Flips(C, D)
  PROVE  Flips(A \cup C, B \cup D)
BY DEF Flips

LEMMA FlipsMeet ==
  ASSUME NEW A, NEW B, Flips(A, B), NEW C, NEW D, Flips(C, D)
  PROVE  Flips(A \cap C, B \cap D)
BY DEF Flips

LEMMA FlipsLess ==
  ASSUME NEW A, NEW B, Flips(A, B), NEW C, NEW D, Flips(C, D)
  PROVE  Flips(A \ C, B \ D)
BY FlipIs DEF Flips

LEMMA FlipOfOne ==
  ASSUME NEW s \in Squares
  PROVE  Flips({s}, {flipPosition(s)}) /\ Flips({}, {}) /\ Flips(Squares, Squares)
BY FlipIs DEF Flips

LEMMA SquaresAreFinite ==
  ASSUME NEW A, A \subseteq Squares
  PROVE  IsFiniteSet(A)
<1>1. 0 \in Int /\ 63 \in Int
  OBVIOUS
<1>2. IsFiniteSet(0..63)
  BY <1>1, FS_Interval, Zenon
<1> QED
  BY <1>2, FS_Subset DEF Squares

LEMMA FlipsCount ==
  ASSUME NEW A, NEW B, Flips(A, B)
  PROVE  IsFiniteSet(A) /\ IsFiniteSet(B) /\ Cardinality(A) = Cardinality(B)
<1>1. A \subseteq Squares /\ B \subseteq Squares
  BY DEF Flips
<1> DEFINE f == [s \in A |-> flipPosition(s)]
<1>2. f \in [A -> B]
  BY FlipsBack
<1>3. \A x, y \in A : f[x] = f[y] => x = y
  <2>1. \A x \in A : flipPosition(flipPosition(x)) = x
    BY <1>1, FlipIs
  <2> QED
    BY <2>1
<1>4. \A y \in B : \E x \in A : f[x] = y
  <2> TAKE y \in B
  <2>1. flipPosition(y) \in A /\ flipPosition(flipPosition(y)) = y
    BY <1>1, FlipsBack, FlipIs
  <2> QED
    BY <2>1
<1> HIDE DEF f
<1> QED
  BY <1>1, <1>2, <1>3, <1>4, SquaresAreFinite, SameCount

LEMMA FlipsRelativeRow ==
  ASSUME NEW p \in Players, NEW s \in Squares
  PROVE  /\ relativeRow(nextPlayer(p), flipPosition(s)) = relativeRow(p, s)
         /\ relativePosition(nextPlayer(p), flipPosition(s)) = relativePosition(p, s)
<1>1. Row(flipPosition(s)) = 7 - Row(s) /\ Row(s) \in Int
      /\ flipPosition(flipPosition(s)) = s
  BY FlipIs, SquaresAre
<1> QED
  BY <1>1 DEF relativeRow, relativePosition, nextPlayer, Players

LEMMA StepFlips ==
  ASSUME NEW p \in Players, NEW s \in Squares, NEW t \in Squares
  PROVE  LET o == nextPlayer(p)
         IN /\ t = s + Forward(p) <=> flipPosition(t) = flipPosition(s) + Forward(o)
            /\ File(s) # 0 => (t = s + (Forward(p) - 1) <=>
                                 flipPosition(t) = flipPosition(s) + (Forward(o) - 1))
            /\ File(s) # 7 => (t = s + (Forward(p) + 1) <=>
                                 flipPosition(t) = flipPosition(s) + (Forward(o) + 1))
<1>1. /\ flipPosition(s) = s + 8 * (7 - 2 * Row(s)) /\ flipPosition(t) = t + 8 * (7 - 2 * Row(t))
  BY FlipIs
<1>2. /\ Row(s) \in 0..7 /\ File(s) \in 0..7 /\ s = 8 * Row(s) + File(s)
      /\ Row(t) \in 0..7 /\ File(t) \in 0..7 /\ t = 8 * Row(t) + File(t)
  BY SquaresAre
<1> QED
  BY <1>1, <1>2 DEF Forward, Players, nextPlayer

LEMMA ShiftsFlip ==
  ASSUME NEW A, NEW B, Flips(A, B), NEW n \in Int, NEW k \in Int,
         \A s \in A, t \in Squares : t = s + n <=> flipPosition(t) = flipPosition(s) + k
  PROVE  Flips(Shift(A, n), Shift(B, k))
<1>1. A \subseteq Squares /\ B \subseteq Squares
  BY DEF Flips
<1>2. Shift(A, n) \subseteq Squares /\ Shift(B, k) \subseteq Squares
  BY DEF Shift
<1>3. ASSUME NEW t \in Squares, NEW s \in A, t = s + n PROVE flipPosition(t) \in Shift(B, k)
  <2>1. flipPosition(s) \in B /\ flipPosition(t) = flipPosition(s) + k /\ flipPosition(t) \in Squares
    BY <1>1, <1>3, FlipsBack, FlipIs
  <2> QED
    BY <2>1, Shifted
<1>4. ASSUME NEW t \in Squares, NEW r \in B, flipPosition(t) = r + k PROVE t \in Shift(A, n)
  <2>1. flipPosition(r) \in A /\ r = flipPosition(flipPosition(r))
    BY <1>1, FlipsBack, FlipIs
  <2>2. t = flipPosition(r) + n
    BY <1>4, <2>1
  <2> QED
    BY <2>1, <2>2, Shifted
<1>5. \A t \in Squares : t \in Shift(A, n) => \E s \in A : t = s + n
  BY Shifted
<1>6. \A t \in Squares : flipPosition(t) \in Shift(B, k) => \E r \in B : flipPosition(t) = r + k
  BY Shifted
<1>7. \A t \in Squares : t \in Shift(A, n) <=> flipPosition(t) \in Shift(B, k)
  BY <1>3, <1>4, <1>5, <1>6
<1> QED
  BY <1>2, <1>7 DEF Flips

\* A set of rows or files.
LEMMA MasksFlip ==
  /\ Flips(aFile, aFile) /\ Flips(hFile, hFile)
  /\ \A f \in 0..7 : Flips(FileMask[f], FileMask[f])
  /\ \A r \in 0..7 : Flips(RowMask[r], RowMask[7 - r])
<1>1. \A f \in 0..7 : Flips(FileMask[f], FileMask[f])
  BY FlipIs DEF Flips, FileMask
<1>2. \A r \in 0..7 : Flips(RowMask[r], RowMask[7 - r])
  <2> TAKE r \in 0..7
  <2>1. 7 - r \in 0..7
    OBVIOUS
  <2>2. RowMask[r] \subseteq Squares /\ RowMask[7 - r] \subseteq Squares
    BY <2>1 DEF RowMask
  <2>3. \A s \in Squares : s \in RowMask[r] <=> flipPosition(s) \in RowMask[7 - r]
    BY <2>1, FlipIs, MasksAre, SquaresAre
  <2> QED
    BY <2>2, <2>3 DEF Flips
<1> QED
  BY <1>1, <1>2 DEF aFile, hFile

\* Pawns that go forward, and what they attack.
LEMMA PawnShiftsFlip ==
  ASSUME NEW p \in Players, NEW A, NEW B, Flips(A, B)
  PROVE  LET o == nextPlayer(p)
         IN /\ Flips(pushForward(p, A), pushForward(o, B))
            /\ Flips(Shift(A \ aFile, Forward(p) - 1), Shift(B \ aFile, Forward(o) - 1))
            /\ Flips(Shift(A \ hFile, Forward(p) + 1), Shift(B \ hFile, Forward(o) + 1))
<1> DEFINE o == nextPlayer(p)
<1>1. /\ Forward(p) \in Int /\ Forward(p) - 1 \in Int /\ Forward(p) + 1 \in Int
      /\ Forward(o) \in Int /\ Forward(o) - 1 \in Int /\ Forward(o) + 1 \in Int
  BY DEF Forward
<1>2. Flips(A \ aFile, B \ aFile) /\ Flips(A \ hFile, B \ hFile)
  BY FlipsLess, MasksFlip
<1>3. /\ A \subseteq Squares /\ \A s \in A \ aFile : s \in Squares /\ File(s) # 0
      /\ \A s \in A \ hFile : s \in Squares /\ File(s) # 7
  BY MasksAre DEF Flips
<1>4. Flips(Shift(A, Forward(p)), Shift(B, Forward(o)))
  BY <1>1, <1>3, StepFlips, ShiftsFlip
<1>5. Flips(Shift(A \ aFile, Forward(p) - 1), Shift(B \ aFile, Forward(o) - 1))
  <2>1. \A s \in A \ aFile, t \in Squares :
          t = s + (Forward(p) - 1) <=> flipPosition(t) = flipPosition(s) + (Forward(o) - 1)
    BY <1>3, StepFlips
  <2> QED
    BY <1>1, <1>2, <2>1, ShiftsFlip
<1>6. Flips(Shift(A \ hFile, Forward(p) + 1), Shift(B \ hFile, Forward(o) + 1))
  <2>1. \A s \in A \ hFile, t \in Squares :
          t = s + (Forward(p) + 1) <=> flipPosition(t) = flipPosition(s) + (Forward(o) + 1)
    BY <1>3, StepFlips
  <2> QED
    BY <1>1, <1>2, <2>1, ShiftsFlip
<1> QED
  BY <1>4, <1>5, <1>6 DEF pushForward

\* A step aside is one on the board turned round too.
LEMMA AsideFlips ==
  ASSUME NEW A, NEW B, Flips(A, B)
  PROVE  Flips(moveLeft(A), moveLeft(B)) /\ Flips(moveRight(A), moveRight(B))
<1>1. Flips(A \ aFile, B \ aFile) /\ Flips(A \ hFile, B \ hFile)
  BY FlipsLess, MasksFlip
<1>2. /\ \A s \in A \ aFile : s \in Squares /\ File(s) # 0
      /\ \A s \in A \ hFile : s \in Squares /\ File(s) # 7
  BY MasksAre DEF Flips
<1>3. \A s, t \in Squares : File(s) # 0 =>
        (t = s + -1 <=> flipPosition(t) = flipPosition(s) + -1)
  <2> TAKE s, t \in Squares
  <2>1. /\ flipPosition(s) = s + 8 * (7 - 2 * Row(s)) /\ flipPosition(t) = t + 8 * (7 - 2 * Row(t))
    BY FlipIs
  <2>2. /\ Row(s) \in 0..7 /\ File(s) \in 0..7 /\ s = 8 * Row(s) + File(s)
        /\ Row(t) \in 0..7 /\ File(t) \in 0..7 /\ t = 8 * Row(t) + File(t)
    BY SquaresAre
  <2> QED
    BY <2>1, <2>2
<1>4. \A s, t \in Squares : File(s) # 7 =>
        (t = s + 1 <=> flipPosition(t) = flipPosition(s) + 1)
  <2> TAKE s, t \in Squares
  <2>1. /\ flipPosition(s) = s + 8 * (7 - 2 * Row(s)) /\ flipPosition(t) = t + 8 * (7 - 2 * Row(t))
    BY FlipIs
  <2>2. /\ Row(s) \in 0..7 /\ File(s) \in 0..7 /\ s = 8 * Row(s) + File(s)
        /\ Row(t) \in 0..7 /\ File(t) \in 0..7 /\ t = 8 * Row(t) + File(t)
    BY SquaresAre
  <2> QED
    BY <2>1, <2>2
<1>5. -1 \in Int /\ 1 \in Int
  OBVIOUS
<1>6. Flips(Shift(A \ aFile, -1), Shift(B \ aFile, -1))
  <2>1. \A s \in A \ aFile, t \in Squares : t = s + -1 <=> flipPosition(t) = flipPosition(s) + -1
    BY <1>2, <1>3
  <2> QED
    BY <1>1, <1>5, <2>1, ShiftsFlip
<1>7. Flips(Shift(A \ hFile, 1), Shift(B \ hFile, 1))
  <2>1. \A s \in A \ hFile, t \in Squares : t = s + 1 <=> flipPosition(t) = flipPosition(s) + 1
    BY <1>2, <1>4
  <2> QED
    BY <1>1, <1>5, <2>1, ShiftsFlip
<1> QED
  BY <1>6, <1>7 DEF moveLeft, moveRight

----------------------------------------------------------------------------
(* Attacks and masks, turned round.                                        *)

LEMMA PawnAttacksFlip ==
  ASSUME NEW p \in Players, NEW A, NEW B, Flips(A, B)
  PROVE  Flips(pawnAttacks(p, A), pawnAttacks(nextPlayer(p), B))
<1> DEFINE o == nextPlayer(p)
           Off(q) == IF q = "White" THEN RowMask[7] ELSE RowMask[0]
<1>1. Flips(Off(p), Off(o))
  <2>1. Flips(RowMask[7], RowMask[0]) /\ Flips(RowMask[0], RowMask[7])
    BY MasksFlip
  <2> QED
    BY <2>1 DEF Players, nextPlayer
<1> DEFINE AA == A \ Off(p)
           BB == B \ Off(o)
<1>2. Flips(AA, BB)
  <2> HIDE DEF Off
  <2> QED
    BY <1>1, FlipsLess
<1>3. /\ A \ (aFile \cup Off(p)) = AA \ aFile /\ A \ (hFile \cup Off(p)) = AA \ hFile
      /\ B \ (aFile \cup Off(o)) = BB \ aFile /\ B \ (hFile \cup Off(o)) = BB \ hFile
  OBVIOUS
<1>4. /\ pawnAttacks(p, A) = Shift(AA \ aFile, Forward(p) - 1) \cup Shift(AA \ hFile, Forward(p) + 1)
      /\ pawnAttacks(o, B) = Shift(BB \ aFile, Forward(o) - 1) \cup Shift(BB \ hFile, Forward(o) + 1)
  BY <1>3 DEF pawnAttacks
<1> HIDE DEF AA, BB
<1>5. /\ Flips(Shift(AA \ aFile, Forward(p) - 1), Shift(BB \ aFile, Forward(o) - 1))
      /\ Flips(Shift(AA \ hFile, Forward(p) + 1), Shift(BB \ hFile, Forward(o) + 1))
  BY <1>2, PawnShiftsFlip
<1>6. Flips(Shift(AA \ aFile, Forward(p) - 1) \cup Shift(AA \ hFile, Forward(p) + 1),
            Shift(BB \ aFile, Forward(o) - 1) \cup Shift(BB \ hFile, Forward(o) + 1))
  BY <1>5, FlipsUnion
<1> QED
  BY <1>4, <1>6

LEMMA PawnMasksFlip ==
  ASSUME NEW p \in Players, NEW s \in Squares
  PROVE  Flips(pawnAttackMaskTable[p][s], pawnAttackMaskTable[nextPlayer(p)][flipPosition(s)])
<1> DEFINE o == nextPlayer(p)
<1>1. \A q \in Players, r \in Squares :
        pawnAttackMaskTable[q][r] = Shift({r} \ aFile, Forward(q) - 1) \cup Shift({r} \ hFile, Forward(q) + 1)
  <2> TAKE q \in Players, r \in Squares
  <2>1. /\ r \in aFile => {r} \ aFile = {}
        /\ r \notin aFile => {r} \ aFile = {r}
        /\ r \in hFile => {r} \ hFile = {}
        /\ r \notin hFile => {r} \ hFile = {r}
    OBVIOUS
  <2>2. \A n : Shift({}, n) = {}
    BY DEF Shift
  <2>3. /\ (IF r \in aFile THEN {} ELSE Shift({r}, Forward(q) - 1)) = Shift({r} \ aFile, Forward(q) - 1)
        /\ (IF r \in hFile THEN {} ELSE Shift({r}, Forward(q) + 1)) = Shift({r} \ hFile, Forward(q) + 1)
    BY <2>1, <2>2
  <2> QED
    BY <2>3 DEF pawnAttackMaskTable
<1>2. o \in Players /\ flipPosition(s) \in Squares /\ Flips({s}, {flipPosition(s)})
  BY PlayersAre, FlipIs, FlipOfOne
<1>3. /\ Flips(Shift({s} \ aFile, Forward(p) - 1), Shift({flipPosition(s)} \ aFile, Forward(o) - 1))
      /\ Flips(Shift({s} \ hFile, Forward(p) + 1), Shift({flipPosition(s)} \ hFile, Forward(o) + 1))
  BY <1>2, PawnShiftsFlip
<1>4. Flips(Shift({s} \ aFile, Forward(p) - 1) \cup Shift({s} \ hFile, Forward(p) + 1),
            Shift({flipPosition(s)} \ aFile, Forward(o) - 1)
              \cup Shift({flipPosition(s)} \ hFile, Forward(o) + 1))
  BY <1>3, FlipsUnion
<1> QED
  BY <1>1, <1>2, <1>4

\* The leapers go as far either way.
LEMMA LeapersFlip ==
  ASSUME NEW s \in Squares
  PROVE  /\ Flips(knightsTable[s], knightsTable[flipPosition(s)])
         /\ Flips(kingsTable[s], kingsTable[flipPosition(s)])
<1> DEFINE r == flipPosition(s)
<1>1. r \in Squares /\ Row(r) = 7 - Row(s) /\ File(r) = File(s) /\ Row(s) \in Int /\ File(s) \in Int
  BY FlipIs, SquaresAre
<1>2. ASSUME NEW t \in Squares
      PROVE  /\ t \in knightsTable[s] <=> flipPosition(t) \in knightsTable[r]
             /\ t \in kingsTable[s] <=> flipPosition(t) \in kingsTable[r]
  <2> DEFINE u == flipPosition(t)
  <2>1. u \in Squares /\ Row(u) = 7 - Row(t) /\ File(u) = File(t) /\ Row(t) \in Int /\ File(t) \in Int
    BY FlipIs, SquaresAre
  <2> DEFINE dr == Row(t) - Row(s)
             df == File(t) - File(s)
  <2>2. \A k, l \in Int : /\ Row(t) = Row(s) + k <=> dr = k
                          /\ File(t) = File(s) + l <=> df = l
                          /\ Row(u) = Row(r) + k <=> -dr = k
                          /\ File(u) = File(r) + l <=> df = l
    BY <1>1, <2>1
  <2>3. \A o \in knightsOffset \cup kingsOffset : o[1] \in Int /\ o[2] \in Int
    BY DEF knightsOffset, kingsOffset
  <2>4. dr \in Int /\ df \in Int
    BY <1>1, <2>1
  <2>7. u \in Squares /\ r \in Squares
    BY <1>1, <2>1
  <2> HIDE DEF dr, df, u, r
  <2>8. /\ t \in knightsTable[s] <=> \E o \in knightsOffset : dr = o[1] /\ df = o[2]
        /\ t \in kingsTable[s] <=> \E o \in kingsOffset : dr = o[1] /\ df = o[2]
    BY <2>2, <2>3, LeapersAre
  <2>9. /\ u \in knightsTable[r] <=> \E o \in knightsOffset : -dr = o[1] /\ df = o[2]
        /\ u \in kingsTable[r] <=> \E o \in kingsOffset : -dr = o[1] /\ df = o[2]
    BY <2>2, <2>3, <2>7, LeapersAre
  <2>5. /\ (\E o \in knightsOffset : dr = o[1] /\ df = o[2]) <=> \E o \in knightsOffset : -dr = o[1] /\ df = o[2]
    BY <2>4 DEF knightsOffset
  <2>6. /\ (\E o \in kingsOffset : dr = o[1] /\ df = o[2]) <=> \E o \in kingsOffset : -dr = o[1] /\ df = o[2]
    BY <2>4 DEF kingsOffset
  <2> QED
    BY <2>5, <2>6, <2>8, <2>9 DEF u
<1> QED
  BY <1>1, <1>2, LeapersStayOn DEF Flips

\* A ray and the one turned round.
Turned(d) == <<-d[1], d[2]>>

LEMMA TurnedIs ==
  ASSUME NEW d \in Directions
  PROVE  /\ Turned(d) \in Directions /\ Turned(Turned(d)) = d
         /\ d \in bishopDirections <=> Turned(d) \in bishopDirections
         /\ d \in rookDirections <=> Turned(d) \in rookDirections
BY DEF Turned, Directions, bishopDirections, rookDirections

LEMMA RaysFlip ==
  ASSUME NEW d \in Directions, NEW s \in Squares
  PROVE  LET ray == Rays[d][s]
             other == Rays[Turned(d)][flipPosition(s)]
         IN Len(other) = Len(ray) /\ \A n \in 1..Len(ray) : other[n] = flipPosition(ray[n])
<1> DEFINE e == Turned(d)
           r == flipPosition(s)
           ray == Rays[d][s]
           other == Rays[e][r]
<1>1. e \in Directions /\ r \in Squares /\ e[1] = -d[1] /\ e[2] = d[2]
  BY TurnedIs, FlipIs DEF Turned
<1>2. /\ Row(r) = 7 - Row(s) /\ File(r) = File(s) /\ Row(s) \in 0..7 /\ File(s) \in 0..7
      /\ d[1] \in {-1, 0, 1} /\ d[2] \in {-1, 0, 1}
  BY FlipIs, SquaresAre, DirectionsAre
<1>3. \A n \in 1..7 : Row(r) + n * e[1] = 7 - (Row(s) + n * d[1]) /\ File(r) + n * e[2] = File(s) + n * d[2]
  <2>1. CASE d[1] = -1
    BY <1>1, <1>2, <2>1
  <2>2. CASE d[1] = 0
    BY <1>1, <1>2, <2>2
  <2>3. CASE d[1] = 1
    BY <1>1, <1>2, <2>3
  <2> QED
    BY <1>2, <2>1, <2>2, <2>3
<1>4. \A n \in 1..7 : OnRay(d, s, n) <=> OnRay(e, r, n)
  <2> TAKE n \in 1..7
  <2> DEFINE x == Row(s) + n * d[1]
  <2>1. x \in Int
    <3>1. CASE d[1] = -1
      BY <1>2, <3>1
    <3>2. CASE d[1] = 0
      BY <1>2, <3>2
    <3>3. CASE d[1] = 1
      BY <1>2, <3>3
    <3> QED
      BY <1>2, <3>1, <3>2, <3>3
  <2>2. Row(r) + n * e[1] = 7 - x /\ File(r) + n * e[2] = File(s) + n * d[2]
    BY <1>3
  <2>3. OnRay(d, s, n) <=> x \in 0..7 /\ File(s) + n * d[2] \in 0..7
    BY DEF OnRay
  <2>4. OnRay(e, r, n) <=> 7 - x \in 0..7 /\ File(s) + n * d[2] \in 0..7
    BY <2>2 DEF OnRay
  <2> HIDE DEF x
  <2>5. x \in 0..7 <=> 7 - x \in 0..7
    BY <2>1
  <2> QED
    BY <2>3, <2>4, <2>5
<1>5. /\ Len(ray) \in 0..7 /\ \A n \in 1..7 : n \in 1..Len(ray) <=> OnRay(d, s, n)
      /\ \A n \in 1..Len(ray) : ray[n] = At(Row(s) + n * d[1], File(s) + n * d[2])
  BY RaysAre
<1>6. /\ Len(other) \in 0..7 /\ \A n \in 1..7 : n \in 1..Len(other) <=> OnRay(e, r, n)
      /\ \A n \in 1..Len(other) : other[n] = At(Row(r) + n * e[1], File(r) + n * e[2])
  BY <1>1, RaysAre
<1> HIDE DEF ray, other, e, r
<1> DEFINE len == Len(ray)
           length == Len(other)
<1>7. length = len
  <2>1. \A n \in 1..7 : n \in 1..len <=> n \in 1..length
    BY <1>4, <1>5, <1>6
  <2>2. len \in 0..7 /\ length \in 0..7
    BY <1>5, <1>6
  <2> HIDE DEF len, length
  <2> QED
    BY <2>1, <2>2
<1>8. ASSUME NEW n \in 1..len PROVE other[n] = flipPosition(ray[n])
  <2>1. n \in 1..7 /\ OnRay(d, s, n)
    <3>1. len \in 0..7
      BY <1>5
    <3>2. n \in 1..7
      <4> HIDE DEF len
      <4> QED
        BY <3>1
    <3> QED
      BY <1>5, <3>2
  <2>2. Row(s) + n * d[1] \in 0..7 /\ File(s) + n * d[2] \in 0..7
    BY <2>1 DEF OnRay
  <2> DEFINE x == Row(s) + n * d[1]
             y == File(s) + n * d[2]
  <2>3. x \in 0..7 /\ y \in 0..7
    BY <2>2
  <2>4. ray[n] = At(x, y) /\ other[n] = At(7 - x, y)
    <3>1. ray[n] = At(x, y)
      BY <1>5
    <3>2. other[n] = At(Row(r) + n * e[1], File(r) + n * e[2])
      BY <1>6, <1>7
    <3>3. Row(r) + n * e[1] = 7 - x /\ File(r) + n * e[2] = y
      BY <1>3, <2>1
    <3> QED
      BY <3>1, <3>2, <3>3
  <2> HIDE DEF x, y
  <2>5. Row(At(x, y)) = x /\ File(At(x, y)) = y
    BY <2>3, AtIsASquare
  <2> QED
    BY <2>4, <2>5 DEF flipPosition
<1> QED
  BY <1>7, <1>8 DEF ray, other, e, r

LEMMA SeesFlips ==
  ASSUME NEW d \in Directions, NEW s \in Squares, NEW t \in Squares, NEW A, NEW B, Flips(A, B)
  PROVE  Sees(d, s, A, t) => Sees(Turned(d), flipPosition(s), B, flipPosition(t))
<1> DEFINE ray == Rays[d][s]
           other == Rays[Turned(d)][flipPosition(s)]
<1> SUFFICES ASSUME Sees(d, s, A, t) PROVE Sees(Turned(d), flipPosition(s), B, flipPosition(t))
  OBVIOUS
<1>1. Len(other) = Len(ray) /\ \A n \in 1..Len(ray) : other[n] = flipPosition(ray[n])
  BY RaysFlip
<1>2. Len(ray) \in 0..7 /\ \A n \in 1..Len(ray) : ray[n] \in Squares
  BY RaysAre, RaySquares
<1>3. PICK n \in 1..Len(ray) : t = ray[n] /\ \A k \in 1..(n - 1) : ray[k] \notin A
  BY DEF Sees
<1> DEFINE len == Len(ray)
<1>4. n \in 1..len /\ len \in 0..7
  BY <1>2, <1>3
<1> HIDE DEF len
<1>5. \A k \in 1..(n - 1) : k \in 1..len
  BY <1>4
<1>6. flipPosition(t) = other[n] /\ \A k \in 1..(n - 1) : other[k] \notin B
  BY <1>1, <1>2, <1>3, <1>5 DEF Flips, len
<1>7. n \in 1..Len(other)
  BY <1>1, <1>4 DEF len
<1> HIDE DEF ray
<1> QED
  BY <1>6, <1>7 DEF Sees

LEMMA RaysSee ==
  ASSUME NEW s \in Squares, NEW t \in Squares, NEW occ
  PROVE  /\ t \in getRookMoves(s, occ) <=> \E d \in rookDirections : Sees(d, s, occ, t)
         /\ t \in getBishopMoves(s, occ) <=> \E d \in bishopDirections : Sees(d, s, occ, t)
<1>1. \A d \in Directions : \A block :
        t \in RayAttacks(Rays[d][s], block) <=> Sees(d, s, block, t)
  BY RayAttacksAre
<1>2. /\ \A d \in rookDirections : d \in Directions /\ RayMask(Rays[d][s]) \subseteq rookMasksTable[s]
      /\ \A d \in bishopDirections : d \in Directions /\ RayMask(Rays[d][s]) \subseteq bishopMasksTable[s]
  BY DEF Directions, rookMasksTable, bishopMasksTable
<1>3. /\ t \in getRookMoves(s, occ) <=> \E d \in rookDirections :
           t \in RayAttacks(Rays[d][s], occ \cap rookMasksTable[s])
      /\ t \in getBishopMoves(s, occ) <=> \E d \in bishopDirections :
           t \in RayAttacks(Rays[d][s], occ \cap bishopMasksTable[s])
  BY DEF getRookMoves, getBishopMoves, rookAttacksWithBlock, bishopAttacksWithBlock
<1> QED
  BY <1>1, <1>2, <1>3, MaskIsEnough

LEMMA SlidersFlip ==
  ASSUME NEW s \in Squares, NEW A, NEW B, Flips(A, B)
  PROVE  /\ Flips(getRookMoves(s, A), getRookMoves(flipPosition(s), B))
         /\ Flips(getBishopMoves(s, A), getBishopMoves(flipPosition(s), B))
<1> DEFINE r == flipPosition(s)
<1>1. r \in Squares /\ flipPosition(r) = s /\ Flips(B, A)
  BY FlipIs, FlipsBack
<1>2. ASSUME NEW x \in Squares, NEW t \in Squares, NEW C, NEW D, Flips(C, D)
      PROVE  /\ t \in getRookMoves(x, C) => flipPosition(t) \in getRookMoves(flipPosition(x), D)
             /\ t \in getBishopMoves(x, C) => flipPosition(t) \in getBishopMoves(flipPosition(x), D)
  <2>1. flipPosition(t) \in Squares /\ flipPosition(x) \in Squares
    BY FlipIs
  <2>2. \A d \in Directions : Sees(d, x, C, t) => Sees(Turned(d), flipPosition(x), D, flipPosition(t))
    BY <1>2, SeesFlips
  <2>3. /\ \A d \in rookDirections : d \in Directions /\ Turned(d) \in rookDirections
        /\ \A d \in bishopDirections : d \in Directions /\ Turned(d) \in bishopDirections
    BY TurnedIs DEF Directions
  <2>4. ASSUME t \in getRookMoves(x, C) PROVE flipPosition(t) \in getRookMoves(flipPosition(x), D)
    <3>1. PICK d \in rookDirections : Sees(d, x, C, t)
      BY <2>4, RaysSee
    <3>2. Turned(d) \in rookDirections /\ Sees(Turned(d), flipPosition(x), D, flipPosition(t))
      BY <2>2, <2>3, <3>1
    <3> QED
      BY <2>1, <3>2, RaysSee
  <2>5. ASSUME t \in getBishopMoves(x, C) PROVE flipPosition(t) \in getBishopMoves(flipPosition(x), D)
    <3>1. PICK d \in bishopDirections : Sees(d, x, C, t)
      BY <2>5, RaysSee
    <3>2. Turned(d) \in bishopDirections /\ Sees(Turned(d), flipPosition(x), D, flipPosition(t))
      BY <2>2, <2>3, <3>1
    <3> QED
      BY <2>1, <3>2, RaysSee
  <2> QED
    BY <2>4, <2>5
<1>3. ASSUME NEW t \in Squares
      PROVE  /\ t \in getRookMoves(s, A) <=> flipPosition(t) \in getRookMoves(r, B)
             /\ t \in getBishopMoves(s, A) <=> flipPosition(t) \in getBishopMoves(r, B)
  <2> DEFINE u == flipPosition(t)
  <2>1. u \in Squares /\ flipPosition(u) = t
    BY FlipIs
  <2>2. /\ t \in getRookMoves(s, A) => u \in getRookMoves(r, B)
        /\ t \in getBishopMoves(s, A) => u \in getBishopMoves(r, B)
    BY <1>2
  <2> HIDE DEF u, r
  <2>3. /\ u \in getRookMoves(r, B) => flipPosition(u) \in getRookMoves(flipPosition(r), A)
        /\ u \in getBishopMoves(r, B) => flipPosition(u) \in getBishopMoves(flipPosition(r), A)
    BY <1>1, <1>2, <2>1
  <2>4. /\ t \in getRookMoves(s, A) <=> u \in getRookMoves(r, B)
        /\ t \in getBishopMoves(s, A) <=> u \in getBishopMoves(r, B)
    BY <1>1, <2>1, <2>2, <2>3
  <2> QED
    BY <2>4 DEF u
<1> QED
  BY <1>1, <1>3, SlidersStayOn DEF Flips

----------------------------------------------------------------------------
(* Masks and distances.                                                    *)

LEMMA PassedMasksFlip ==
  ASSUME NEW p \in Players, NEW s \in Squares
  PROVE  LET o == nextPlayer(p)
             r == flipPosition(s)
         IN /\ Flips(passedPawnMaskTable[p][s], passedPawnMaskTable[o][r])
            /\ Flips(outpostSquareMaskTable[p][s], outpostSquareMaskTable[o][r])
            /\ Flips(FileMask[File(s)], FileMask[File(r)])
            /\ Flips(isolationMaskTable[s], isolationMaskTable[r])
<1> DEFINE o == nextPlayer(p)
           r == flipPosition(s)
<1>1. o \in Players /\ r \in Squares /\ File(r) = File(s) /\ Row(r) = 7 - Row(s)
  BY PlayersAre, FlipIs
<1>2. Row(s) \in 0..7 /\ File(s) \in 0..7
  BY SquaresAre
<1>3. Flips(FileMask[File(s)], FileMask[File(r)])
  BY <1>1, <1>2, MasksFlip
<1>4. isolationMaskTable[r] = isolationMaskTable[s]
  BY <1>1 DEF isolationMaskTable
<1>5. Flips(isolationMaskTable[s], isolationMaskTable[s])
  <2> DEFINE I == UNION {FileMask[f] : f \in {File(s) - 1, File(s) + 1} \cap 0..7}
  <2>1. isolationMaskTable[s] = I
    BY DEF isolationMaskTable
  <2>2. \A f \in 0..7 : /\ FileMask[f] \subseteq Squares
                        /\ \A t \in Squares : t \in FileMask[f] <=> flipPosition(t) \in FileMask[f]
    BY MasksFlip DEF Flips
  <2>3. I \subseteq Squares /\ \A t \in Squares : t \in I <=> flipPosition(t) \in I
    BY <2>2
  <2> HIDE DEF I
  <2> QED
    BY <2>1, <2>3 DEF Flips
<1>6. Flips(passedPawnMaskTable[p][s], passedPawnMaskTable[o][r])
  <2> DEFINE Ahead(q, x, y) == /\ File(y) \in {File(x) - 1, File(x), File(x) + 1} \cap 0..7
                               /\ IF q = "White" THEN Row(y) > Row(x) ELSE Row(y) < Row(x)
  <2>1. \A q \in Players, x \in Squares :
          /\ passedPawnMaskTable[q][x] \subseteq Squares
          /\ \A y \in Squares : y \in passedPawnMaskTable[q][x] <=> Ahead(q, x, y)
    BY DEF passedPawnMaskTable
  <2>2. \A t \in Squares : Ahead(p, s, t) <=> Ahead(o, r, flipPosition(t))
    <3> TAKE t \in Squares
    <3>1. File(flipPosition(t)) = File(t) /\ Row(flipPosition(t)) = 7 - Row(t) /\ Row(t) \in 0..7
      BY FlipIs, SquaresAre
    <3>2. p = "White" <=> o # "White"
      BY DEF Players, nextPlayer
    <3>3. Row(t) > Row(s) <=> 7 - Row(t) < 7 - Row(s)
      BY <1>2, <3>1
    <3>4. Row(t) < Row(s) <=> 7 - Row(t) > 7 - Row(s)
      BY <1>2, <3>1
    <3> HIDE DEF o, r
    <3> QED
      BY <1>1, <3>1, <3>2, <3>3, <3>4
  <2> HIDE DEF Ahead, o, r
  <2>3. \A t \in Squares : flipPosition(t) \in Squares
    BY FlipIs
  <2>4. \A t \in Squares : t \in passedPawnMaskTable[p][s] <=> flipPosition(t) \in passedPawnMaskTable[o][r]
    BY <1>1, <2>1, <2>2, <2>3
  <2> QED
    BY <1>1, <2>1, <2>4 DEF Flips
<1>7. Flips(outpostSquareMaskTable[p][s], outpostSquareMaskTable[o][r])
  <2>1. /\ outpostSquareMaskTable[p][s] = passedPawnMaskTable[p][s] \ FileMask[File(s)]
        /\ outpostSquareMaskTable[o][r] = passedPawnMaskTable[o][r] \ FileMask[File(r)]
    BY <1>1 DEF outpostSquareMaskTable
  <2>2. Flips(passedPawnMaskTable[p][s] \ FileMask[File(s)], passedPawnMaskTable[o][r] \ FileMask[File(r)])
    BY <1>3, <1>6, FlipsLess
  <2> QED
    BY <2>1, <2>2
<1> QED
  BY <1>3, <1>4, <1>5, <1>6, <1>7

LEMMA OtherMasksFlip ==
  /\ \A p \in Players : Flips(outpostRankMaskTable[p], outpostRankMaskTable[nextPlayer(p)])
  /\ Flips(lightSquares, Squares \ lightSquares) /\ Flips(centerSquares, centerSquares)
<1>1. \A p \in Players : Flips(outpostRankMaskTable[p], outpostRankMaskTable[nextPlayer(p)])
  <2> TAKE p \in Players
  <2> DEFINE Ranks(q) == IF q = "White" THEN 3..5 ELSE 2..4
  <2>1. \A q \in Players : outpostRankMaskTable[q] = UNION {RowMask[n] : n \in Ranks(q)}
    BY DEF outpostRankMaskTable
  <2>2. \A q \in Players : /\ outpostRankMaskTable[q] \subseteq Squares
                           /\ \A t \in Squares : t \in outpostRankMaskTable[q] <=> Row(t) \in Ranks(q)
    <3>1. \A q \in Players : Ranks(q) \subseteq 0..7
      OBVIOUS
    <3>2. \A n \in 0..7 : RowMask[n] \subseteq Squares
      BY DEF RowMask
    <3> HIDE DEF Ranks
    <3> TAKE q \in Players
    <3>3. outpostRankMaskTable[q] \subseteq Squares
      BY <2>1, <3>1, <3>2
    <3>4. \A t \in Squares : t \in outpostRankMaskTable[q] <=> \E n \in Ranks(q) : Row(t) = n
      BY <2>1, <3>1, MasksAre
    <3> QED
      BY <3>3, <3>4
  <2>3. \A t \in Squares : Row(t) \in Ranks(p) <=> Row(flipPosition(t)) \in Ranks(nextPlayer(p))
    <3> TAKE t \in Squares
    <3>1. Row(flipPosition(t)) = 7 - Row(t) /\ Row(t) \in 0..7
      BY FlipIs, SquaresAre
    <3> QED
      BY <3>1 DEF Players, nextPlayer
  <2> HIDE DEF Ranks
  <2>4. nextPlayer(p) \in Players /\ \A t \in Squares : flipPosition(t) \in Squares
    BY PlayersAre, FlipIs
  <2> QED
    BY <2>2, <2>3, <2>4 DEF Flips
<1>2. Flips(lightSquares, Squares \ lightSquares)
  <2>1. ASSUME NEW t \in Squares
        PROVE  (Row(t) + File(t)) % 2 = 1 <=> (Row(flipPosition(t)) + File(flipPosition(t))) % 2 # 1
    <3>1. /\ Row(flipPosition(t)) = 7 - Row(t) /\ Row(t) \in 0..7
          /\ File(flipPosition(t)) = File(t) /\ File(t) \in 0..7
      BY FlipIs, SquaresAre
    <3> QED
      BY <3>1
  <2>2. \A t \in Squares : t \in lightSquares <=> (Row(t) + File(t)) % 2 = 1
    BY DEF lightSquares
  <2>3. lightSquares \subseteq Squares /\ \A t \in Squares : flipPosition(t) \in Squares
    BY FlipIs DEF lightSquares
  <2>4. \A t \in Squares : t \in lightSquares <=> flipPosition(t) \notin lightSquares
    BY <2>1, <2>2, <2>3
  <2> QED
    BY <2>3, <2>4 DEF Flips
<1>3. Flips(centerSquares, centerSquares)
  <2>1. \A t \in Squares : t \in centerSquares <=> Row(t) \in {3, 4} /\ File(t) \in {3, 4}
    BY SquaresAre, AtIsASquare DEF centerSquares
  <2>2. centerSquares \subseteq Squares
    BY AtIsASquare DEF centerSquares
  <2>3. \A t \in Squares : /\ flipPosition(t) \in Squares /\ File(flipPosition(t)) = File(t)
                           /\ Row(flipPosition(t)) \in {3, 4} <=> Row(t) \in {3, 4}
    BY FlipIs, SquaresAre
  <2> QED
    BY <2>1, <2>2, <2>3 DEF Flips
<1> QED
  BY <1>1, <1>2, <1>3

LEMMA DistancesFlip ==
  ASSUME NEW s \in Squares, NEW t \in Squares
  PROVE  /\ absoluteDistance(flipPosition(s), flipPosition(t)) = absoluteDistance(s, t)
         /\ ShieldIndex(flipPosition(s), flipPosition(t)) = ShieldIndex(s, t)
<1>1. /\ Row(flipPosition(s)) = 7 - Row(s) /\ Row(s) \in 0..7 /\ File(flipPosition(s)) = File(s)
      /\ Row(flipPosition(t)) = 7 - Row(t) /\ Row(t) \in 0..7 /\ File(flipPosition(t)) = File(t)
  BY FlipIs, SquaresAre
<1>2. (7 - Row(s)) - (7 - Row(t)) = Row(t) - Row(s) /\ (7 - Row(t)) - (7 - Row(s)) = Row(s) - Row(t)
  BY <1>1
<1>3. {(7 - Row(s)) - (7 - Row(t)), (7 - Row(t)) - (7 - Row(s))} = {Row(s) - Row(t), Row(t) - Row(s)}
  BY <1>2
<1>4. Distance(Row(flipPosition(s)), Row(flipPosition(t))) = Distance(Row(s), Row(t))
  BY <1>1, <1>3 DEF Distance
<1> QED
  BY <1>1, <1>4 DEF absoluteDistance, ShieldIndex

----------------------------------------------------------------------------
(* A board and the one turned round.                                       *)

LEMMA KingIs ==
  ASSUME NEW b, OneKingEach(b), NEW p \in Players
  PROVE  KingOf(b, p) \in Squares /\ b.pieces[p]["King"] = {KingOf(b, p)}
<1>1. PICK king \in Squares : b.pieces[p]["King"] = {king}
  BY DEF OneKingEach
<1>2. Min({king}) = king
  BY DEF Min, Squares
<1> QED
  BY <1>1, <1>2 DEF KingOf

\* m is b with the colours exchanged.
Mirrors(b, m) ==
  /\ b.player \in Players /\ OneKingEach(b) /\ OneKingEach(m)
  /\ \A p \in Players, t \in PieceTypes : Flips(b.pieces[p][t], m.pieces[nextPlayer(p)][t])
  /\ \A p \in Players : Flips(b.occupation[p], m.occupation[nextPlayer(p)])
  /\ m.player = nextPlayer(b.player)

LEMMA KingsMirror ==
  ASSUME NEW b, NEW m, Mirrors(b, m), NEW p \in Players
  PROVE  KingOf(b, p) \in Squares /\ KingOf(m, nextPlayer(p)) = flipPosition(KingOf(b, p))
<1> DEFINE o == nextPlayer(p)
           s == KingOf(b, p)
           r == KingOf(m, o)
<1>1. o \in Players /\ "King" \in PieceTypes
  BY PlayersAre, PieceTypesAre
<1>2. s \in Squares /\ b.pieces[p]["King"] = {s} /\ r \in Squares /\ m.pieces[o]["King"] = {r}
  BY <1>1, KingIs DEF Mirrors
<1>3. Flips({s}, {r})
  BY <1>1, <1>2 DEF Mirrors
<1> HIDE DEF s, r
<1> QED
  BY <1>2, <1>3 DEF Flips, s, r

LEMMA BothMirror ==
  ASSUME NEW b, NEW m, Mirrors(b, m)
  PROVE  Flips(both(b), both(m))
<1>1. "White" \in Players /\ "Black" \in Players /\ nextPlayer("White") = "Black" /\ nextPlayer("Black") = "White"
  BY DEF Players, nextPlayer
<1>2. Flips(b.occupation["White"], m.occupation["Black"]) /\ Flips(b.occupation["Black"], m.occupation["White"])
  BY <1>1 DEF Mirrors
<1>3. Flips(b.occupation["White"] \cup b.occupation["Black"], m.occupation["Black"] \cup m.occupation["White"])
  BY <1>2, FlipsUnion
<1>4. m.occupation["Black"] \cup m.occupation["White"] = both(m)
  BY DEF both
<1> QED
  BY <1>3, <1>4 DEF both

LEMMA SlidersMirror ==
  ASSUME NEW b, NEW m, Mirrors(b, m), NEW s \in Squares
  PROVE  Flips(Sliders(b, s), Sliders(m, flipPosition(s)))
<1>1. /\ Flips(getRookMoves(s, both(b)), getRookMoves(flipPosition(s), both(m)))
      /\ Flips(getBishopMoves(s, both(b)), getBishopMoves(flipPosition(s), both(m)))
  BY BothMirror, SlidersFlip
<1> QED
  BY <1>1, FlipsUnion DEF Sliders

LEMMA MovesMirror ==
  ASSUME NEW b, NEW m, Mirrors(b, m), NEW p \in Players, NEW s \in Squares,
         NEW type \in {"Knight", "Bishop", "Rook", "Queen", "King"}
  PROVE  Flips(Moves(b, p, type, s), Moves(m, nextPlayer(p), type, flipPosition(s)))
<1> DEFINE Reach(c, x) == CASE type = "Knight" -> knightsTable[x]
                            [] type = "Bishop" -> getBishopMoves(x, both(c))
                            [] type = "Rook" -> getRookMoves(x, both(c))
                            [] type = "Queen" -> Sliders(c, x)
                            [] type = "King" -> kingsTable[x]
           r == flipPosition(s)
<1>1. Flips(Reach(b, s), Reach(m, r))
  <2>1. /\ Flips(getRookMoves(s, both(b)), getRookMoves(r, both(m)))
        /\ Flips(getBishopMoves(s, both(b)), getBishopMoves(r, both(m)))
        /\ Flips(Sliders(b, s), Sliders(m, r))
        /\ Flips(knightsTable[s], knightsTable[r]) /\ Flips(kingsTable[s], kingsTable[r])
    BY BothMirror, SlidersFlip, SlidersMirror, LeapersFlip
  <2> HIDE DEF r
  <2> QED
    BY <2>1
<1>2. Flips(b.occupation[p], m.occupation[nextPlayer(p)])
  BY DEF Mirrors
<1>3. Moves(b, p, type, s) = Reach(b, s) \ b.occupation[p]
      /\ Moves(m, nextPlayer(p), type, r) = Reach(m, r) \ m.occupation[nextPlayer(p)]
  BY DEF Moves
<1> HIDE DEF Reach
<1>4. Flips(Reach(b, s) \ b.occupation[p], Reach(m, r) \ m.occupation[nextPlayer(p)])
  BY <1>1, <1>2, FlipsLess
<1> QED
  BY <1>3, <1>4

----------------------------------------------------------------------------
(* What the sides attack.                                                  *)

\* Families of sets that match one another.
LEMMA FlipsUnions ==
  ASSUME NEW X, NEW Y, \A x \in X : \E y \in Y : Flips(x, y), \A y \in Y : \E x \in X : Flips(x, y)
  PROVE  Flips(UNION X, UNION Y)
<1>1. UNION X \subseteq Squares /\ UNION Y \subseteq Squares
  BY DEF Flips
<1>2. ASSUME NEW s \in Squares PROVE s \in UNION X <=> flipPosition(s) \in UNION Y
  BY DEF Flips
<1> QED
  BY <1>1, <1>2 DEF Flips

LEMMA PawnAttacksMirror ==
  ASSUME NEW b, NEW m, Mirrors(b, m), NEW p \in Players
  PROVE  Flips(getPawnAttacks(b, p), getPawnAttacks(m, nextPlayer(p)))
<1> DEFINE A == b.pieces[p]["Pawn"]
           B == m.pieces[nextPlayer(p)]["Pawn"]
<1>1. Flips(A, B)
  BY PieceTypesAre DEF Mirrors
<1>2. /\ getPawnAttacks(b, p) = Shift(A \ aFile, Forward(p) - 1) \cup Shift(A \ hFile, Forward(p) + 1)
      /\ getPawnAttacks(m, nextPlayer(p)) = Shift(B \ aFile, Forward(nextPlayer(p)) - 1)
                                              \cup Shift(B \ hFile, Forward(nextPlayer(p)) + 1)
  BY DEF getPawnAttacks
<1> HIDE DEF A, B
<1>3. /\ Flips(Shift(A \ aFile, Forward(p) - 1), Shift(B \ aFile, Forward(nextPlayer(p)) - 1))
      /\ Flips(Shift(A \ hFile, Forward(p) + 1), Shift(B \ hFile, Forward(nextPlayer(p)) + 1))
  BY <1>1, PawnShiftsFlip
<1>4. Flips(Shift(A \ aFile, Forward(p) - 1) \cup Shift(A \ hFile, Forward(p) + 1),
            Shift(B \ aFile, Forward(nextPlayer(p)) - 1) \cup Shift(B \ hFile, Forward(nextPlayer(p)) + 1))
  BY <1>3, FlipsUnion
<1> QED
  BY <1>2, <1>4

\* The pieces of a player, and those of the other player on the mirror image.
LEMMA PiecesMirror ==
  ASSUME NEW b, NEW m, Mirrors(b, m), NEW p \in Players, NEW t \in PieceTypes
  PROVE  /\ b.pieces[p][t] \subseteq Squares /\ m.pieces[nextPlayer(p)][t] \subseteq Squares
         /\ Flips(b.pieces[p][t], m.pieces[nextPlayer(p)][t])
         /\ \A s \in b.pieces[p][t] : flipPosition(s) \in m.pieces[nextPlayer(p)][t]
         /\ \A s \in m.pieces[nextPlayer(p)][t] :
              flipPosition(s) \in b.pieces[p][t] /\ flipPosition(flipPosition(s)) = s
<1>1. Flips(b.pieces[p][t], m.pieces[nextPlayer(p)][t])
  BY DEF Mirrors
<1>2. b.pieces[p][t] \subseteq Squares /\ m.pieces[nextPlayer(p)][t] \subseteq Squares
  BY <1>1 DEF Flips
<1> QED
  BY <1>1, <1>2, FlipsBack, FlipIs

LEMMA PieceAttacksMirror ==
  ASSUME NEW b, NEW m, Mirrors(b, m), NEW p \in Players, NEW type \in PieceTypes
  PROVE  Flips(PieceAttacks(b, p, type), PieceAttacks(m, nextPlayer(p), type))
<1> DEFINE o == nextPlayer(p)
<1>1. CASE type = "Pawn"
  BY <1>1, PawnAttacksMirror DEF PieceAttacks
<1>2. CASE type # "Pawn"
  <2> DEFINE X == {Moves(b, p, type, pos) : pos \in b.pieces[p][type]}
             Y == {Moves(m, o, type, pos) : pos \in m.pieces[o][type]}
  <2>1. type \in {"Knight", "Bishop", "Rook", "Queen", "King"}
    BY <1>2, PieceTypesAre
  <2>2. \A s \in Squares : Flips(Moves(b, p, type, s), Moves(m, o, type, flipPosition(s)))
    BY <2>1, MovesMirror
  <2>3. \A x \in X : \E y \in Y : Flips(x, y)
    BY <2>2, PiecesMirror
  <2>4. \A y \in Y : \E x \in X : Flips(x, y)
    <3> TAKE y \in Y
    <3>1. PICK r \in m.pieces[o][type] : y = Moves(m, o, type, r)
      OBVIOUS
    <3>2. flipPosition(r) \in b.pieces[p][type] /\ flipPosition(flipPosition(r)) = r
          /\ flipPosition(r) \in Squares
      BY PiecesMirror
    <3>3. Flips(Moves(b, p, type, flipPosition(r)), Moves(m, o, type, r))
      BY <2>2, <3>2
    <3> QED
      BY <3>1, <3>2, <3>3
  <2>5. PieceAttacks(b, p, type) = UNION X /\ PieceAttacks(m, o, type) = UNION Y
    BY <1>2 DEF PieceAttacks
  <2> HIDE DEF X, Y
  <2>6. Flips(UNION X, UNION Y)
    BY <2>3, <2>4, FlipsUnions
  <2> QED
    BY <2>5, <2>6
<1> QED
  BY <1>1, <1>2

\* Pairs of squares, turned round.
LEMMA PairsCount ==
  ASSUME NEW A, NEW B, A \subseteq Squares \X Squares, B \subseteq Squares \X Squares,
         \A s, t \in Squares : <<s, t>> \in A <=> <<flipPosition(s), flipPosition(t)>> \in B
  PROVE  IsFiniteSet(A) /\ Cardinality(B) = Cardinality(A)
<1> DEFINE f == [q \in A |-> <<flipPosition(q[1]), flipPosition(q[2])>>]
<1>1. \A q \in Squares \X Squares : q = <<q[1], q[2]>> /\ q[1] \in Squares /\ q[2] \in Squares
  OBVIOUS
<1>2. IsFiniteSet(A)
  <2>1. IsFiniteSet(Squares)
    BY SquaresAreFinite
  <2>2. IsFiniteSet(Squares \X Squares)
    BY <2>1, FS_Product
  <2> QED
    BY <2>2, FS_Subset
<1>3. f \in [A -> B]
  <2>1. \A q \in A : <<flipPosition(q[1]), flipPosition(q[2])>> \in B
    BY <1>1
  <2> QED
    BY <2>1
<1>4. \A x, y \in A : f[x] = f[y] => x = y
  <2> TAKE x, y \in A
  <2>1. x = <<x[1], x[2]>> /\ x[1] \in Squares /\ x[2] \in Squares
        /\ y = <<y[1], y[2]>> /\ y[1] \in Squares /\ y[2] \in Squares
    BY <1>1
  <2> HAVE f[x] = f[y]
  <2>2. flipPosition(x[1]) = flipPosition(y[1]) /\ flipPosition(x[2]) = flipPosition(y[2])
    OBVIOUS
  <2>3. x[1] = y[1] /\ x[2] = y[2]
    BY <2>1, <2>2, FlipIs
  <2> QED
    BY <2>1, <2>3
<1>5. \A y \in B : \E x \in A : f[x] = y
  <2> TAKE y \in B
  <2>1. y = <<y[1], y[2]>> /\ y[1] \in Squares /\ y[2] \in Squares
    BY <1>1
  <2> DEFINE u == flipPosition(y[1])
             v == flipPosition(y[2])
  <2>2. u \in Squares /\ v \in Squares /\ flipPosition(u) = y[1] /\ flipPosition(v) = y[2]
    BY <2>1, FlipIs
  <2> HIDE DEF u, v
  <2>3. <<u, v>> \in A
    BY <2>1, <2>2
  <2>4. f[<<u, v>>] = y
    BY <2>1, <2>2, <2>3
  <2> QED
    BY <2>3, <2>4
<1> HIDE DEF f
<1> QED
  BY <1>2, <1>3, <1>4, <1>5, SameCount

LEMMA KingZoneMirrors ==
  ASSUME NEW b, NEW m, Mirrors(b, m), NEW p \in Players
  PROVE  AttacksToKingZone(m, nextPlayer(p)) = AttacksToKingZone(b, p)
<1> DEFINE o == nextPlayer(p)
           T == {"Knight", "Bishop", "Rook", "Queen"}
           k == kingsTable[KingOf(b, p)]
           l == kingsTable[KingOf(m, o)]
<1>1. o \in Players /\ nextPlayer(o) = p /\ T \subseteq PieceTypes
      /\ T \subseteq {"Knight", "Bishop", "Rook", "Queen", "King"}
  BY PlayersAre, PieceTypesAre
<1>2. Flips(k, l)
  BY KingsMirror, LeapersFlip
<1>3. Flips(getPawnAttacks(b, o), getPawnAttacks(m, p))
  BY <1>1, PawnAttacksMirror
<1>4. Cardinality(k \cap getPawnAttacks(b, o)) = Cardinality(l \cap getPawnAttacks(m, p))
  <2> HIDE DEF k, l
  <2>1. Flips(k \cap getPawnAttacks(b, o), l \cap getPawnAttacks(m, p))
    BY <1>2, <1>3, FlipsMeet
  <2> QED
    BY <2>1, FlipsCount
<1>5. \A q : /\ q \in KingZoneHits(b, p) <=> \E t \in T : \E x \in b.pieces[o][t] :
                  \E y \in Moves(b, o, t, x) \cap k : q = <<x, y>>
             /\ q \in KingZoneHits(m, o) <=> \E t \in T : \E x \in m.pieces[p][t] :
                  \E y \in Moves(m, p, t, x) \cap l : q = <<x, y>>
  BY <1>1 DEF KingZoneHits
<1>6. \A t \in T : /\ b.pieces[o][t] \subseteq Squares /\ m.pieces[p][t] \subseteq Squares
                   /\ \A x \in Squares : x \in b.pieces[o][t] <=> flipPosition(x) \in m.pieces[p][t]
  BY <1>1, PiecesMirror DEF Flips
<1>7. k \subseteq Squares /\ l \subseteq Squares /\ \A y \in Squares : y \in k <=> flipPosition(y) \in l
  BY <1>2 DEF Flips
<1>8. \A t \in T, x \in Squares : \A y \in Squares :
        y \in Moves(b, o, t, x) <=> flipPosition(y) \in Moves(m, p, t, flipPosition(x))
  <2> TAKE t \in T, x \in Squares
  <2>1. Flips(Moves(b, o, t, x), Moves(m, p, t, flipPosition(x)))
    BY <1>1, MovesMirror
  <2> QED
    BY <2>1 DEF Flips
<1> HIDE DEF k, l, T, o
<1>9. KingZoneHits(b, p) \subseteq Squares \X Squares /\ KingZoneHits(m, o) \subseteq Squares \X Squares
  BY <1>5, <1>6, <1>7
<1>10. \A x, y \in Squares : <<x, y>> \in KingZoneHits(b, p) <=>
         <<flipPosition(x), flipPosition(y)>> \in KingZoneHits(m, o)
  <2> TAKE x, y \in Squares
  <2>1. <<x, y>> \in KingZoneHits(b, p) <=>
          \E t \in T : x \in b.pieces[o][t] /\ y \in Moves(b, o, t, x) /\ y \in k
    BY <1>5
  <2>2. <<flipPosition(x), flipPosition(y)>> \in KingZoneHits(m, o) <=>
          \E t \in T : /\ flipPosition(x) \in m.pieces[p][t] /\ flipPosition(y) \in l
                       /\ flipPosition(y) \in Moves(m, p, t, flipPosition(x))
    BY <1>5
  <2> QED
    BY <1>6, <1>7, <1>8, <2>1, <2>2
<1>11. Cardinality(KingZoneHits(m, o)) = Cardinality(KingZoneHits(b, p))
  BY <1>9, <1>10, PairsCount
<1>12. /\ AttacksToKingZone(b, p) = Cardinality(k \cap getPawnAttacks(b, o)) + Cardinality(KingZoneHits(b, p))
       /\ AttacksToKingZone(m, o) = Cardinality(l \cap getPawnAttacks(m, p)) + Cardinality(KingZoneHits(m, o))
  BY <1>1 DEF AttacksToKingZone, k, l, o
<1> QED
  BY <1>4, <1>11, <1>12 DEF o

\* The context: what the terms that consume it find in it.
LEMMA ContextIs ==
  ASSUME NEW b, NEW p \in Players
  PROVE  LET ctx == prepareContext(b)
         IN /\ ctx.attacksToKingZone[p] = AttacksToKingZone(b, p)
            /\ \A t \in PieceTypes : ctx.pieceAttacks[p][t] = PieceAttacks(b, p, t)
            /\ ctx.threats[p] = UNION {PieceAttacks(b, p, t) : t \in PieceTypes}
BY DEF prepareContext

LEMMA ContextMirrors ==
  ASSUME NEW b, NEW m, Mirrors(b, m), NEW p \in Players
  PROVE  LET ctx == prepareContext(b)
             other == prepareContext(m)
             o == nextPlayer(p)
         IN /\ other.attacksToKingZone[o] = ctx.attacksToKingZone[p]
            /\ \A t \in PieceTypes : Flips(ctx.pieceAttacks[p][t], other.pieceAttacks[o][t])
            /\ Flips(ctx.threats[p], other.threats[o])
<1> DEFINE ctx == prepareContext(b)
           other == prepareContext(m)
           o == nextPlayer(p)
           X == {PieceAttacks(b, p, t) : t \in PieceTypes}
           Y == {PieceAttacks(m, o, t) : t \in PieceTypes}
<1>1. o \in Players
  BY PlayersAre
<1>2. \A t \in PieceTypes : Flips(PieceAttacks(b, p, t), PieceAttacks(m, o, t))
  BY PieceAttacksMirror
<1>3. Flips(UNION X, UNION Y)
  <2>1. /\ \A x \in X : \E y \in Y : Flips(x, y)
        /\ \A y \in Y : \E x \in X : Flips(x, y)
    BY <1>2
  <2> HIDE DEF X, Y
  <2> QED
    BY <2>1, FlipsUnions
<1>4. ctx.threats[p] = UNION X /\ other.threats[o] = UNION Y
  BY <1>1, ContextIs
<1>5. Flips(ctx.threats[p], other.threats[o])
  <2> HIDE DEF ctx, other, X, Y
  <2> QED
    BY <1>3, <1>4
<1>6. \A t \in PieceTypes : Flips(ctx.pieceAttacks[p][t], other.pieceAttacks[o][t])
  <2>1. \A t \in PieceTypes : /\ ctx.pieceAttacks[p][t] = PieceAttacks(b, p, t)
                              /\ other.pieceAttacks[o][t] = PieceAttacks(m, o, t)
    BY <1>1, ContextIs
  <2> HIDE DEF ctx, other
  <2> QED
    BY <1>2, <2>1
<1>7. other.attacksToKingZone[o] = ctx.attacksToKingZone[p]
  <2>1. /\ ctx.attacksToKingZone[p] = AttacksToKingZone(b, p)
        /\ other.attacksToKingZone[o] = AttacksToKingZone(m, o)
    BY <1>1, ContextIs
  <2> QED
    BY <2>1, KingZoneMirrors
<1> QED
  BY <1>5, <1>6, <1>7

----------------------------------------------------------------------------
(* Terms, turned round: those of kings and pawns.                          *)

FlipAt(where) == IF where = NoPosition THEN where ELSE flipPosition(where)
Flipped(terms) == {<<t[1], t[2], t[3], FlipAt(t[4])>> : t \in terms}

LEMMA FlippedUnion ==
  ASSUME NEW X, NEW Y
  PROVE  Flipped(X \cup Y) = Flipped(X) \cup Flipped(Y)
BY DEF Flipped

LEMMA FlippedThree ==
  ASSUME NEW X, NEW Y, NEW Z
  PROVE  Flipped(X \cup Y \cup Z) = Flipped(X) \cup Flipped(Y) \cup Flipped(Z)
BY DEF Flipped

LEMMA FlippedEmpty == Flipped({}) = {}
BY DEF Flipped

\* Families of terms that match one another.
LEMMA FlippedUnions ==
  ASSUME NEW X, NEW Y, \A x \in X : Flipped(x) \in Y, \A y \in Y : \E x \in X : y = Flipped(x)
  PROVE  UNION Y = Flipped(UNION X)
<1>1. \A t : t \in Flipped(UNION X) <=> \E x \in X : t \in Flipped(x)
  BY DEF Flipped
<1>2. \A t : t \in UNION Y <=> \E x \in X : t \in Flipped(x)
  OBVIOUS
<1> QED
  BY <1>1, <1>2

LEMMA FlippedTerm ==
  ASSUME NEW table, NEW n, NEW i, NEW s \in Squares
  PROVE  /\ Flipped(ADD_SCORE_MULTI_INDEXED(table, n, i, s)) = ADD_SCORE_MULTI_INDEXED(table, n, i, flipPosition(s))
         /\ Flipped(ADD_SCORE_INDEXED(table, i, s)) = ADD_SCORE_INDEXED(table, i, flipPosition(s))
         /\ Flipped(ADD_SCORE(table, s)) = ADD_SCORE(table, flipPosition(s))
<1>1. FlipAt(s) = flipPosition(s)
  BY DEF FlipAt, NoPosition, Squares
<1>2. \A k, l : Flipped({<<table, k, l, s>>}) = {<<table, k, l, flipPosition(s)>>}
  BY <1>1 DEF Flipped
<1> QED
  BY <1>2 DEF ADD_SCORE_MULTI_INDEXED, ADD_SCORE_INDEXED, ADD_SCORE

LEMMA FlippedPlainTerm ==
  ASSUME NEW table, NEW n, NEW i
  PROVE  /\ Flipped(ADD_SCORE_MULTI_INDEXED(table, n, i, NoPosition)) = ADD_SCORE_MULTI_INDEXED(table, n, i, NoPosition)
         /\ Flipped(ADD_SCORE_INDEXED(table, i, NoPosition)) = ADD_SCORE_INDEXED(table, i, NoPosition)
         /\ Flipped(ADD_SCORE(table, NoPosition)) = ADD_SCORE(table, NoPosition)
<1>1. FlipAt(NoPosition) = NoPosition
  BY DEF FlipAt
<1>2. \A k, l : Flipped({<<table, k, l, NoPosition>>}) = {<<table, k, l, NoPosition>>}
  BY <1>1 DEF Flipped
<1> QED
  BY <1>2 DEF ADD_SCORE_MULTI_INDEXED, ADD_SCORE_INDEXED, ADD_SCORE

LEMMA StoppersMirror ==
  ASSUME NEW b, NEW m, Mirrors(b, m), NEW p \in Players, NEW s \in Squares
  PROVE  Flips(Stoppers(b, p, s), Stoppers(m, nextPlayer(p), flipPosition(s)))
<1> DEFINE o == nextPlayer(p)
           r == flipPosition(s)
<1>1. Flips(passedPawnMaskTable[p][s], passedPawnMaskTable[o][r])
  BY PassedMasksFlip
<1>2. Flips(b.pieces[o]["Pawn"], m.pieces[nextPlayer(o)]["Pawn"])
  BY PlayersAre, PieceTypesAre, PiecesMirror
<1>3. Flips(passedPawnMaskTable[p][s] \cap b.pieces[o]["Pawn"],
            passedPawnMaskTable[o][r] \cap m.pieces[nextPlayer(o)]["Pawn"])
  BY <1>1, <1>2, FlipsMeet
<1> QED
  BY <1>3 DEF Stoppers

LEMMA PassedPawnsMirror ==
  ASSUME NEW b, NEW m, Mirrors(b, m), NEW p \in Players
  PROVE  Flips(PassedPawns(b, p), PassedPawns(m, nextPlayer(p)))
<1> DEFINE o == nextPlayer(p)
           A == b.pieces[p]["Pawn"]
           B == m.pieces[o]["Pawn"]
<1>1. Flips(A, B)
  BY PieceTypesAre, PiecesMirror
<1>2. \A s \in Squares : Stoppers(b, p, s) = {} <=> Stoppers(m, o, flipPosition(s)) = {}
  BY StoppersMirror, FlipsEmpty
<1> QED
  BY <1>1, <1>2 DEF Flips, PassedPawns

LEMMA DifferencesFlip ==
  ASSUME NEW A, NEW B, Flips(A, B), NEW C, NEW D, Flips(C, D)
  PROVE  Flips(SymmetricDifference(A, C), SymmetricDifference(B, D))
<1>1. Flips(A \ C, B \ D) /\ Flips(C \ A, D \ B)
  BY FlipsLess
<1> QED
  BY <1>1, FlipsUnion DEF SymmetricDifference

LEMMA CandidatesMirror ==
  ASSUME NEW b, NEW m, Mirrors(b, m), NEW p \in Players, NEW s \in Squares
  PROVE  CandidateTerms(m, nextPlayer(p), flipPosition(s)) = Flipped(CandidateTerms(b, p, s))
<1> DEFINE o == nextPlayer(p)
           r == flipPosition(s)
           threats(c, q, x) == pawnAttackMaskTable[q][x] \cap c.pieces[nextPlayer(q)]["Pawn"]
           defenders(c, q, x) == pawnAttackMaskTable[nextPlayer(q)][x] \cap c.pieces[q]["Pawn"]
           pushed(q, x) == pushForward(q, {x})
           pushedThreats(c, q, x) == pawnAttacks(q, pushed(q, x)) \cap c.pieces[nextPlayer(q)]["Pawn"]
           pushedDefenders(c, q, x) == pawnAttacks(nextPlayer(q), pushed(q, x)) \cap c.pieces[q]["Pawn"]
           leftovers(c, q, x) == SymmetricDifference(SymmetricDifference(Stoppers(c, q, x), threats(c, q, x)),
                                                     pushedThreats(c, q, x))
<1>1. o \in Players /\ nextPlayer(o) = p /\ r \in Squares
  BY PlayersAre, FlipIs
<1>2. Flips(b.pieces[p]["Pawn"], m.pieces[o]["Pawn"]) /\ Flips(b.pieces[o]["Pawn"], m.pieces[p]["Pawn"])
  BY <1>1, PieceTypesAre, PiecesMirror
<1>3. Flips(threats(b, p, s), threats(m, o, r))
  <2>1. Flips(pawnAttackMaskTable[p][s], pawnAttackMaskTable[o][r])
    BY PawnMasksFlip
  <2> QED
    BY <1>1, <1>2, <2>1, FlipsMeet
<1>4. Flips(defenders(b, p, s), defenders(m, o, r))
  <2>1. Flips(pawnAttackMaskTable[o][s], pawnAttackMaskTable[p][r])
    BY <1>1, PawnMasksFlip
  <2> QED
    BY <1>1, <1>2, <2>1, FlipsMeet
<1>5. Flips(pushed(p, s), pushed(o, r))
  BY FlipOfOne, PawnShiftsFlip
<1>6. Flips(pushedThreats(b, p, s), pushedThreats(m, o, r))
  <2>1. Flips(pawnAttacks(p, pushed(p, s)), pawnAttacks(o, pushed(o, r)))
    BY <1>5, PawnAttacksFlip
  <2> QED
    BY <1>1, <1>2, <2>1, FlipsMeet
<1>7. Flips(pushedDefenders(b, p, s), pushedDefenders(m, o, r))
  <2> DEFINE A == pushed(p, s)
             B == pushed(o, r)
  <2> HIDE DEF A, B
  <2>1. Flips(pawnAttacks(o, A), pawnAttacks(p, B))
    BY <1>1, <1>5, PawnAttacksFlip DEF A, B
  <2> QED
    BY <1>1, <1>2, <2>1, FlipsMeet DEF A, B
<1> HIDE DEF threats, defenders, pushedThreats, pushedDefenders
<1>8. Flips(leftovers(b, p, s), leftovers(m, o, r))
  <2>1. Flips(Stoppers(b, p, s), Stoppers(m, o, r))
    BY StoppersMirror
  <2>2. Flips(SymmetricDifference(Stoppers(b, p, s), threats(b, p, s)),
              SymmetricDifference(Stoppers(m, o, r), threats(m, o, r)))
    BY <1>3, <2>1, DifferencesFlip
  <2> QED
    BY <1>6, <2>2, DifferencesFlip
<1> DEFINE table(c, q, x) == IF Cardinality(defenders(c, q, x)) >= Cardinality(threats(c, q, x))
                               THEN "passerCandidateDefended" ELSE "passerCandidateUndefended"
           allowed(c, q, x) == /\ leftovers(c, q, x) = {}
                               /\ Cardinality(pushedDefenders(c, q, x)) >= Cardinality(pushedThreats(c, q, x))
<1>9. \A c, q, x : CandidateTerms(c, q, x) =
        When(allowed(c, q, x), ADD_SCORE_INDEXED(table(c, q, x), relativeRow(q, x), x))
  BY DEF CandidateTerms, threats, defenders, pushedThreats, pushedDefenders
<1>10. table(m, o, r) = table(b, p, s)
  <2>1. /\ Cardinality(defenders(m, o, r)) = Cardinality(defenders(b, p, s))
        /\ Cardinality(threats(m, o, r)) = Cardinality(threats(b, p, s))
    BY <1>3, <1>4, FlipsCount
  <2> QED
    BY <2>1
<1>11. allowed(m, o, r) <=> allowed(b, p, s)
  <2>1. /\ Cardinality(pushedDefenders(m, o, r)) = Cardinality(pushedDefenders(b, p, s))
        /\ Cardinality(pushedThreats(m, o, r)) = Cardinality(pushedThreats(b, p, s))
    BY <1>6, <1>7, FlipsCount
  <2>2. leftovers(m, o, r) = {} <=> leftovers(b, p, s) = {}
    BY <1>8, FlipsEmpty
  <2> QED
    BY <2>1, <2>2
<1>12. relativeRow(o, r) = relativeRow(p, s)
  BY FlipsRelativeRow
<1> HIDE DEF table, allowed
<1>13. Flipped(ADD_SCORE_INDEXED(table(b, p, s), relativeRow(p, s), s))
         = ADD_SCORE_INDEXED(table(m, o, r), relativeRow(o, r), r)
  BY <1>10, <1>12, FlippedTerm
<1>14. Flipped(When(allowed(b, p, s), ADD_SCORE_INDEXED(table(b, p, s), relativeRow(p, s), s)))
         = When(allowed(m, o, r), ADD_SCORE_INDEXED(table(m, o, r), relativeRow(o, r), r))
  BY <1>11, <1>13, FlippedEmpty DEF When
<1> QED
  BY <1>9, <1>14

LEMMA PassersMirror ==
  ASSUME NEW b, NEW m, Mirrors(b, m), NEW p \in Players, NEW s \in Squares
  PROVE  PasserTerms(m, nextPlayer(p), flipPosition(s)) = Flipped(PasserTerms(b, p, s))
<1> DEFINE o == nextPlayer(p)
           r == flipPosition(s)
           Row1(q, x) == ADD_SCORE_INDEXED("passedPawnBonus", relativeRow(q, x), x)
           Ours(c, q, x) == ADD_SCORE_INDEXED("passersOurKingDistance",
                                              absoluteDistance(x, KingOf(c, q)), x)
           Theirs1(c, q, x) == ADD_SCORE_INDEXED("passersTheirKingDistance",
                                                 absoluteDistance(x, KingOf(c, nextPlayer(q))), x)
<1>1. o \in Players /\ nextPlayer(o) = p
  BY PlayersAre
<1>2. relativeRow(o, r) = relativeRow(p, s)
  BY FlipsRelativeRow
<1>3. /\ absoluteDistance(r, KingOf(m, o)) = absoluteDistance(s, KingOf(b, p))
      /\ absoluteDistance(r, KingOf(m, nextPlayer(o))) = absoluteDistance(s, KingOf(b, nextPlayer(p)))
  BY <1>1, KingsMirror, DistancesFlip
<1>4. /\ Flipped(Row1(p, s)) = Row1(o, r) /\ Flipped(Ours(b, p, s)) = Ours(m, o, r)
      /\ Flipped(Theirs1(b, p, s)) = Theirs1(m, o, r)
  BY <1>2, <1>3, FlippedTerm
<1>5. \A c, q, x : PasserTerms(c, q, x) = Row1(q, x) \cup Ours(c, q, x) \cup Theirs1(c, q, x)
  BY DEF PasserTerms
<1>6. Flipped(PasserTerms(b, p, s)) = Flipped(Row1(p, s) \cup Ours(b, p, s) \cup Theirs1(b, p, s))
  BY DEF PasserTerms
<1> HIDE DEF Row1, Ours, Theirs1
<1>7. Flipped(Row1(p, s) \cup Ours(b, p, s) \cup Theirs1(b, p, s))
        = Flipped(Row1(p, s)) \cup Flipped(Ours(b, p, s)) \cup Flipped(Theirs1(b, p, s))
  BY FlippedThree
<1>8. PasserTerms(m, o, r) = Row1(o, r) \cup Ours(m, o, r) \cup Theirs1(m, o, r)
  BY <1>5
<1>9. PasserTerms(m, o, r) = Flipped(Row1(p, s)) \cup Flipped(Ours(b, p, s)) \cup Flipped(Theirs1(b, p, s))
  BY <1>4, <1>8
<1> QED
  BY <1>6, <1>7, <1>9

\* A term that both boards have, or neither.
PawnFacts(b, m, p, o, s, r) ==
  /\ Cardinality(b.pieces[p]["Pawn"] \cap FileMask[File(s)]) > 1
       <=> Cardinality(m.pieces[o]["Pawn"] \cap FileMask[File(r)]) > 1
  /\ b.pieces[p]["Pawn"] \cap isolationMaskTable[s] = {}
       <=> m.pieces[o]["Pawn"] \cap isolationMaskTable[r] = {}
  /\ s \in passedPawnMaskTable[p][KingOf(b, p)] <=> r \in passedPawnMaskTable[o][KingOf(m, o)]
  /\ s \in passedPawnMaskTable[o][KingOf(b, o)] <=> r \in passedPawnMaskTable[p][KingOf(m, p)]
  /\ s \in getPawnAttacks(b, p) <=> r \in getPawnAttacks(m, o)
  /\ s \in moveLeft(b.pieces[p]["Pawn"]) \cup moveRight(b.pieces[p]["Pawn"])
       <=> r \in moveLeft(m.pieces[o]["Pawn"]) \cup moveRight(m.pieces[o]["Pawn"])
  /\ Stoppers(b, p, s) = {} <=> Stoppers(m, o, r) = {}

LEMMA PawnFactsMirror ==
  ASSUME NEW b, NEW m, Mirrors(b, m), NEW p \in Players, NEW s \in Squares
  PROVE  PawnFacts(b, m, p, nextPlayer(p), s, flipPosition(s))
<1> DEFINE o == nextPlayer(p)
           r == flipPosition(s)
           A == b.pieces[p]["Pawn"]
           B == m.pieces[o]["Pawn"]
<1>1. o \in Players /\ nextPlayer(o) = p /\ r \in Squares
  BY PlayersAre, FlipIs
<1>2. Flips(A, B)
  BY PieceTypesAre, PiecesMirror
<1>3. /\ Flips(FileMask[File(s)], FileMask[File(r)]) /\ Flips(isolationMaskTable[s], isolationMaskTable[r])
  BY PassedMasksFlip
<1>4. \A q \in Players, x \in Squares :
        s \in passedPawnMaskTable[q][x] <=> r \in passedPawnMaskTable[nextPlayer(q)][flipPosition(x)]
  BY PassedMasksFlip DEF Flips
<1>5. /\ KingOf(b, p) \in Squares /\ KingOf(m, o) = flipPosition(KingOf(b, p))
      /\ KingOf(b, o) \in Squares /\ KingOf(m, p) = flipPosition(KingOf(b, o))
  BY <1>1, KingsMirror
<1>6. s \in getPawnAttacks(b, p) <=> r \in getPawnAttacks(m, o)
  BY PawnAttacksMirror DEF Flips
<1>7. Stoppers(b, p, s) = {} <=> Stoppers(m, o, r) = {}
  BY StoppersMirror, FlipsEmpty
<1> HIDE DEF A, B, o, r
<1>8. Cardinality(A \cap FileMask[File(s)]) = Cardinality(B \cap FileMask[File(r)])
  BY <1>2, <1>3, FlipsMeet, FlipsCount
<1>9. A \cap isolationMaskTable[s] = {} <=> B \cap isolationMaskTable[r] = {}
  <2>1. Flips(A \cap isolationMaskTable[s], B \cap isolationMaskTable[r])
    BY <1>2, <1>3, FlipsMeet
  <2> QED
    BY <2>1, FlipsEmpty
<1>10. s \in moveLeft(A) \cup moveRight(A) <=> r \in moveLeft(B) \cup moveRight(B)
  BY <1>2, AsideFlips DEF Flips, r
<1>11. /\ s \in passedPawnMaskTable[p][KingOf(b, p)] <=> r \in passedPawnMaskTable[o][KingOf(m, o)]
       /\ s \in passedPawnMaskTable[o][KingOf(b, o)] <=> r \in passedPawnMaskTable[p][KingOf(m, p)]
  BY <1>1, <1>4, <1>5 DEF o
<1> USE DEF A, B
<1>12. PawnFacts(b, m, p, o, s, r)
  BY <1>6, <1>7, <1>8, <1>9, <1>10, <1>11 DEF PawnFacts
<1> QED
  BY <1>12 DEF o, r

LEMMA PawnTermsMirror ==
  ASSUME NEW b, NEW m, Mirrors(b, m), NEW p \in Players, NEW s \in Squares
  PROVE  PawnTerms(m, nextPlayer(p), flipPosition(s)) = Flipped(PawnTerms(b, p, s))
<1> DEFINE o == nextPlayer(p)
           r == flipPosition(s)
           T1(x) == ADD_SCORE_INDEXED("pieceValues", 0, x)
           T2(q, x) == ADD_SCORE_INDEXED("psqtPawns", relativePosition(q, x), x)
           T3(c, q, x) == When(Cardinality(c.pieces[q]["Pawn"] \cap FileMask[File(x)]) > 1,
                               ADD_SCORE("doublePawnPenalty", x))
           T4(c, q, x) == When(c.pieces[q]["Pawn"] \cap isolationMaskTable[x] = {},
                               ADD_SCORE("isolatedPawnPenalty", x))
           T5(c, q, x) == When(x \in passedPawnMaskTable[q][KingOf(c, q)],
                               ADD_SCORE_INDEXED("pawnShieldBonus", ShieldIndex(KingOf(c, q), x), x))
           T6(c, q, x) == When(x \in passedPawnMaskTable[nextPlayer(q)][KingOf(c, nextPlayer(q))],
                               ADD_SCORE_INDEXED("pawnStormScore",
                                                 ShieldIndex(KingOf(c, nextPlayer(q)), x), x))
           T7(c, q, x) == When(x \in getPawnAttacks(c, q),
                               ADD_SCORE_INDEXED("protectedPawnScore", relativeRow(q, x), x))
           T8(c, q, x) == When(x \in moveLeft(c.pieces[q]["Pawn"]) \cup moveRight(c.pieces[q]["Pawn"]),
                               ADD_SCORE("pawnPhalanxScore", x))
           T9(c, q, x) == IF Stoppers(c, q, x) = {} THEN PasserTerms(c, q, x) ELSE CandidateTerms(c, q, x)
<1>1. o \in Players /\ nextPlayer(o) = p
  BY PlayersAre
<1>2. PawnFacts(b, m, p, o, s, r)
  BY PawnFactsMirror
<1>3. relativeRow(o, r) = relativeRow(p, s) /\ relativePosition(o, r) = relativePosition(p, s)
  BY FlipsRelativeRow
<1>4. /\ ShieldIndex(KingOf(m, o), r) = ShieldIndex(KingOf(b, p), s)
      /\ ShieldIndex(KingOf(m, p), r) = ShieldIndex(KingOf(b, o), s)
  BY <1>1, KingsMirror, DistancesFlip
<1>5. \A table, i : /\ Flipped(ADD_SCORE_INDEXED(table, i, s)) = ADD_SCORE_INDEXED(table, i, r)
                    /\ Flipped(ADD_SCORE(table, s)) = ADD_SCORE(table, r)
  BY FlippedTerm
<1> HIDE DEF o, r
<1>11. T1(r) = Flipped(T1(s)) /\ T2(o, r) = Flipped(T2(p, s))
  BY <1>3, <1>5
<1>12. T3(m, o, r) = Flipped(T3(b, p, s))
  BY <1>2, <1>5, FlippedEmpty DEF When, PawnFacts
<1>13. T4(m, o, r) = Flipped(T4(b, p, s))
  BY <1>2, <1>5, FlippedEmpty DEF When, PawnFacts
<1>14. T5(m, o, r) = Flipped(T5(b, p, s))
  BY <1>2, <1>4, <1>5, FlippedEmpty DEF When, PawnFacts
<1>15. T6(m, o, r) = Flipped(T6(b, p, s))
  BY <1>1, <1>2, <1>4, <1>5, FlippedEmpty DEF When, PawnFacts, o
<1>16. T7(m, o, r) = Flipped(T7(b, p, s))
  BY <1>2, <1>3, <1>5, FlippedEmpty DEF When, PawnFacts
<1>17. T8(m, o, r) = Flipped(T8(b, p, s))
  BY <1>2, <1>5, FlippedEmpty DEF When, PawnFacts
<1>18. T9(m, o, r) = Flipped(T9(b, p, s))
  <2>1. /\ PasserTerms(m, o, r) = Flipped(PasserTerms(b, p, s))
        /\ CandidateTerms(m, o, r) = Flipped(CandidateTerms(b, p, s))
    BY PassersMirror, CandidatesMirror DEF o, r
  <2> QED
    BY <1>2, <2>1 DEF PawnFacts
<1>20. \A c, q, x : PawnTerms(c, q, x) = T1(x) \cup T2(q, x) \cup T3(c, q, x) \cup T4(c, q, x) \cup T5(c, q, x)
                      \cup T6(c, q, x) \cup T7(c, q, x) \cup T8(c, q, x) \cup T9(c, q, x)
  BY DEF PawnTerms
<1>21. Flipped(PawnTerms(b, p, s)) =
         Flipped(T1(s) \cup T2(p, s) \cup T3(b, p, s) \cup T4(b, p, s) \cup T5(b, p, s)
                 \cup T6(b, p, s) \cup T7(b, p, s) \cup T8(b, p, s) \cup T9(b, p, s))
  BY DEF PawnTerms
<1> HIDE DEF T1, T2, T3, T4, T5, T6, T7, T8, T9
<1>22. Flipped(PawnTerms(b, p, s)) =
         T1(r) \cup T2(o, r) \cup T3(m, o, r) \cup T4(m, o, r) \cup T5(m, o, r)
         \cup T6(m, o, r) \cup T7(m, o, r) \cup T8(m, o, r) \cup T9(m, o, r)
  <2>1. Flipped(T1(s) \cup T2(p, s) \cup T3(b, p, s) \cup T4(b, p, s) \cup T5(b, p, s)
                \cup T6(b, p, s) \cup T7(b, p, s) \cup T8(b, p, s) \cup T9(b, p, s)) =
          Flipped(T1(s)) \cup Flipped(T2(p, s)) \cup Flipped(T3(b, p, s)) \cup Flipped(T4(b, p, s))
          \cup Flipped(T5(b, p, s)) \cup Flipped(T6(b, p, s)) \cup Flipped(T7(b, p, s))
          \cup Flipped(T8(b, p, s)) \cup Flipped(T9(b, p, s))
    BY DEF Flipped
  <2> QED
    BY <2>1, <1>21, <1>11, <1>12, <1>13, <1>14, <1>15, <1>16, <1>17, <1>18
<1> QED
  BY <1>20, <1>22 DEF o, r

LEMMA StaticKingPawnMirror ==
  ASSUME NEW b, NEW m, Mirrors(b, m), NEW p \in Players
  PROVE  getStaticKingPawnScore(m, nextPlayer(p)) = Flipped(getStaticKingPawnScore(b, p))
<1> DEFINE o == nextPlayer(p)
           K1(c, q) == ADD_SCORE_INDEXED("psqtKings", relativePosition(q, KingOf(c, q)), NoPosition)
           K2(c, q) == When(kingsTable[KingOf(c, q)] \cap c.pieces[nextPlayer(q)]["Pawn"] # {},
                            ADD_SCORE("kingAttackPawn", NoPosition))
           Family(c, q) == {PawnTerms(c, q, pos) : pos \in c.pieces[q]["Pawn"]}
           K3(c, q) == UNION Family(c, q)
<1>1. o \in Players /\ nextPlayer(o) = p
  BY PlayersAre
<1>2. KingOf(b, p) \in Squares /\ KingOf(m, o) = flipPosition(KingOf(b, p))
  BY KingsMirror
<1>3. K1(m, o) = Flipped(K1(b, p))
  <2>1. relativePosition(o, KingOf(m, o)) = relativePosition(p, KingOf(b, p))
    BY <1>2, FlipsRelativeRow
  <2> QED
    BY <2>1, FlippedPlainTerm
<1>4. K2(m, o) = Flipped(K2(b, p))
  <2>1. Flips(kingsTable[KingOf(b, p)], kingsTable[KingOf(m, o)])
    BY <1>2, LeapersFlip
  <2>2. Flips(b.pieces[o]["Pawn"], m.pieces[p]["Pawn"])
    BY <1>1, PieceTypesAre, PiecesMirror
  <2>3. Flips(kingsTable[KingOf(b, p)] \cap b.pieces[o]["Pawn"], kingsTable[KingOf(m, o)] \cap m.pieces[p]["Pawn"])
    BY <2>1, <2>2, FlipsMeet
  <2>4. kingsTable[KingOf(b, p)] \cap b.pieces[o]["Pawn"] = {} <=> kingsTable[KingOf(m, o)] \cap m.pieces[p]["Pawn"] = {}
    BY <2>3, FlipsEmpty
  <2> HIDE DEF o
  <2> QED
    BY <1>1, <2>4, FlippedPlainTerm, FlippedEmpty DEF When, o
<1>5. K3(m, o) = Flipped(K3(b, p))
  <2>1. \A s \in Squares : PawnTerms(m, o, flipPosition(s)) = Flipped(PawnTerms(b, p, s))
    BY PawnTermsMirror
  <2>2. \A x \in Family(b, p) : Flipped(x) \in Family(m, o)
    BY <2>1, PieceTypesAre, PiecesMirror
  <2>3. \A y \in Family(m, o) : \E x \in Family(b, p) : y = Flipped(x)
    <3> TAKE y \in Family(m, o)
    <3>1. PICK r \in m.pieces[o]["Pawn"] : y = PawnTerms(m, o, r)
      OBVIOUS
    <3>2. flipPosition(r) \in b.pieces[p]["Pawn"] /\ flipPosition(r) \in Squares
          /\ flipPosition(flipPosition(r)) = r
      BY PieceTypesAre, PiecesMirror
    <3>3. y = Flipped(PawnTerms(b, p, flipPosition(r)))
      BY <2>1, <3>1, <3>2
    <3> QED
      BY <3>2, <3>3
  <2> HIDE DEF Family
  <2> QED
    BY <2>2, <2>3, FlippedUnions
<1>6. \A c, q : getStaticKingPawnScore(c, q) = K1(c, q) \cup K2(c, q) \cup K3(c, q)
  BY DEF getStaticKingPawnScore
<1>7. Flipped(getStaticKingPawnScore(b, p)) = Flipped(K1(b, p) \cup K2(b, p) \cup K3(b, p))
  BY DEF getStaticKingPawnScore
<1> HIDE DEF K1, K2, K3
<1>8. Flipped(getStaticKingPawnScore(b, p)) = Flipped(K1(b, p)) \cup Flipped(K2(b, p)) \cup Flipped(K3(b, p))
  BY <1>7, FlippedThree
<1>9. Flipped(getStaticKingPawnScore(b, p)) = K1(m, o) \cup K2(m, o) \cup K3(m, o)
  BY <1>3, <1>4, <1>5, <1>8
<1> QED
  BY <1>6, <1>9

----------------------------------------------------------------------------
(* Those of the pieces.                                                    *)

LEMMA TempoMirrors ==
  ASSUME NEW b, NEW m, Mirrors(b, m), NEW p \in Players
  PROVE  getTempoScore(m, nextPlayer(p)) = Flipped(getTempoScore(b, p))
<1>1. b.player \in Players
  BY BoardFields DEF Mirrors
<1>2. m.player = nextPlayer(p) <=> b.player = p
  BY <1>1, PlayersAre DEF Mirrors
<1> QED
  BY <1>2, FlippedPlainTerm, FlippedEmpty DEF getTempoScore, When

LEMMA ShelterMirrors ==
  ASSUME NEW b, NEW m, Mirrors(b, m), NEW p \in Players, NEW type \in PieceTypes, NEW table
  PROVE  Shelter(m, nextPlayer(p), type, table) = Flipped(Shelter(b, p, type, table))
<1> DEFINE o == nextPlayer(p)
           A == pushForward(p, b.pieces[p][type])
           B == pushForward(o, m.pieces[o][type])
<1>1. Flips(b.pieces[p][type], m.pieces[o][type]) /\ Flips(b.pieces[p]["Pawn"], m.pieces[o]["Pawn"])
  BY PieceTypesAre, PiecesMirror
<1>2. Flips(A, B)
  BY <1>1, PawnShiftsFlip
<1> HIDE DEF A, B, o
<1>3. Flips(A \cap b.pieces[p]["Pawn"], B \cap m.pieces[o]["Pawn"])
  BY <1>1, <1>2, FlipsMeet
<1>4. Cardinality(A \cap b.pieces[p]["Pawn"]) = Cardinality(B \cap m.pieces[o]["Pawn"])
  BY <1>3, FlipsCount
<1> QED
  BY <1>4, FlippedPlainTerm DEF Shelter, A, B, o

LEMMA PieceTermsMirror ==
  ASSUME NEW b, NEW m, Mirrors(b, m), NEW p \in Players, NEW s \in Squares,
         NEW type \in {"Knight", "Bishop", "Rook", "Queen"}, NEW psqt, NEW mobility
  PROVE  PieceTerms(m, nextPlayer(p), type, psqt, mobility, flipPosition(s))
           = Flipped(PieceTerms(b, p, type, psqt, mobility, s))
<1> DEFINE o == nextPlayer(p)
           r == flipPosition(s)
           safe(c, q, x) == Moves(c, q, type, x) \ getPawnAttacks(c, nextPlayer(q))
           T1(x) == ADD_SCORE_INDEXED("pieceValues", TypeIndex(type), x)
           T2(q, x) == ADD_SCORE_INDEXED(psqt, relativePosition(q, x), x)
           T3(c, q, x) == ADD_SCORE_INDEXED(mobility, Cardinality(safe(c, q, x)), x)
<1>1. o \in Players /\ nextPlayer(o) = p
  BY PlayersAre
<1>2. relativePosition(o, r) = relativePosition(p, s)
  BY FlipsRelativeRow
<1>3. Cardinality(safe(m, o, r)) = Cardinality(safe(b, p, s))
  <2>1. Flips(Moves(b, p, type, s), Moves(m, o, type, r))
    BY MovesMirror
  <2>2. Flips(getPawnAttacks(b, o), getPawnAttacks(m, p))
    BY <1>1, PawnAttacksMirror
  <2>3. Flips(safe(b, p, s), safe(m, o, r))
    BY <1>1, <2>1, <2>2, FlipsLess
  <2> HIDE DEF safe
  <2> QED
    BY <2>3, FlipsCount
<1> HIDE DEF o, safe
<1>4. T1(r) = Flipped(T1(s)) /\ T2(o, r) = Flipped(T2(p, s)) /\ T3(m, o, r) = Flipped(T3(b, p, s))
  BY <1>2, <1>3, FlippedTerm
<1>5. \A c, q, x : PieceTerms(c, q, type, psqt, mobility, x) = T1(x) \cup T2(q, x) \cup T3(c, q, x)
  BY DEF PieceTerms, safe
<1>6. Flipped(PieceTerms(b, p, type, psqt, mobility, s)) = Flipped(T1(s) \cup T2(p, s) \cup T3(b, p, s))
  BY DEF PieceTerms, safe
<1> HIDE DEF T1, T2, T3, r
<1>7. Flipped(PieceTerms(b, p, type, psqt, mobility, s)) = Flipped(T1(s)) \cup Flipped(T2(p, s)) \cup Flipped(T3(b, p, s))
  BY <1>6, FlippedThree
<1> QED
  BY <1>4, <1>5, <1>7 DEF o, r

LEMMA OutpostMirrors ==
  ASSUME NEW b, NEW m, Mirrors(b, m), NEW p \in Players, NEW s \in Squares, NEW table
  PROVE  OutpostTerm(m, nextPlayer(p), table, flipPosition(s)) = Flipped(OutpostTerm(b, p, table, s))
<1> DEFINE o == nextPlayer(p)
           r == flipPosition(s)
           isOutside(x) == IF x \in aFile \cup hFile THEN 1 ELSE 0
           isDefended(c, q, x) == IF x \in getPawnAttacks(c, q) THEN 2 ELSE 0
           holds(c, q, x) == /\ outpostSquareMaskTable[q][x] \cap c.pieces[nextPlayer(q)]["Pawn"] = {}
                             /\ x \in outpostRankMaskTable[q]
<1>1. o \in Players /\ nextPlayer(o) = p
  BY PlayersAre
<1>2. isOutside(r) = isOutside(s)
  BY MasksFlip DEF Flips
<1>3. isDefended(m, o, r) = isDefended(b, p, s)
  BY PawnAttacksMirror DEF Flips
<1>4. holds(m, o, r) <=> holds(b, p, s)
  <2>1. Flips(outpostSquareMaskTable[p][s], outpostSquareMaskTable[o][r])
    BY PassedMasksFlip
  <2>2. Flips(b.pieces[o]["Pawn"], m.pieces[p]["Pawn"])
    BY <1>1, PieceTypesAre, PiecesMirror
  <2>3. Flips(outpostSquareMaskTable[p][s] \cap b.pieces[o]["Pawn"],
              outpostSquareMaskTable[o][r] \cap m.pieces[p]["Pawn"])
    BY <2>1, <2>2, FlipsMeet
  <2>4. s \in outpostRankMaskTable[p] <=> r \in outpostRankMaskTable[o]
    BY OtherMasksFlip DEF Flips
  <2>5. outpostSquareMaskTable[p][s] \cap b.pieces[o]["Pawn"] = {}
          <=> outpostSquareMaskTable[o][r] \cap m.pieces[p]["Pawn"] = {}
    BY <2>3, FlipsEmpty
  <2> HIDE DEF o, r
  <2> QED
    BY <1>1, <2>4, <2>5 DEF o
<1>5. \A c, q, x : OutpostTerm(c, q, table, x) =
        When(holds(c, q, x), ADD_SCORE_INDEXED(table, isOutside(x) + isDefended(c, q, x), x))
  BY DEF OutpostTerm
<1> HIDE DEF isOutside, isDefended, holds, o
<1>6. Flipped(ADD_SCORE_INDEXED(table, isOutside(s) + isDefended(b, p, s), s))
        = ADD_SCORE_INDEXED(table, isOutside(r) + isDefended(m, o, r), r)
  BY <1>2, <1>3, FlippedTerm
<1>7. Flipped(When(holds(b, p, s), ADD_SCORE_INDEXED(table, isOutside(s) + isDefended(b, p, s), s)))
        = When(holds(m, o, r), ADD_SCORE_INDEXED(table, isOutside(r) + isDefended(m, o, r), r))
  BY <1>4, <1>6, FlippedEmpty DEF When
<1> QED
  BY <1>5, <1>7 DEF o

\* Terms added for each square of a set.
LEMMA FlippedOverSquares ==
  ASSUME NEW A, NEW B, Flips(A, B), NEW F, NEW G,
         \A s \in Squares : G[flipPosition(s)] = Flipped(F[s])
  PROVE  UNION {G[r] : r \in B} = Flipped(UNION {F[s] : s \in A})
<1> DEFINE X == {F[s] : s \in A}
           Y == {G[r] : r \in B}
<1>0. A \subseteq Squares /\ B \subseteq Squares
  BY DEF Flips
<1>1. \A x \in X : Flipped(x) \in Y
  <2> TAKE x \in X
  <2>1. PICK s \in A : x = F[s]
    OBVIOUS
  <2>2. flipPosition(s) \in B /\ s \in Squares
    BY <1>0, FlipsBack
  <2> QED
    BY <2>1, <2>2
<1>2. \A y \in Y : \E x \in X : y = Flipped(x)
  <2> TAKE y \in Y
  <2>1. PICK r \in B : y = G[r]
    OBVIOUS
  <2>2. flipPosition(r) \in A /\ flipPosition(r) \in Squares /\ flipPosition(flipPosition(r)) = r
    BY <1>0, FlipsBack, FlipIs
  <2> QED
    BY <2>1, <2>2
<1> HIDE DEF X, Y
<1>3. UNION Y = Flipped(UNION X)
  BY <1>1, <1>2, FlippedUnions
<1> QED
  BY <1>3 DEF X, Y

LEMMA FlippedOverPieces ==
  ASSUME NEW b, NEW m, Mirrors(b, m), NEW p \in Players, NEW type \in PieceTypes, NEW F, NEW G,
         \A s \in Squares : G[flipPosition(s)] = Flipped(F[s])
  PROVE  UNION {G[r] : r \in m.pieces[nextPlayer(p)][type]} = Flipped(UNION {F[s] : s \in b.pieces[p][type]})
<1> DEFINE A == b.pieces[p][type]
           B == m.pieces[nextPlayer(p)][type]
<1>1. Flips(A, B)
  BY PiecesMirror
<1> HIDE DEF A, B
<1>2. UNION {G[r] : r \in B} = Flipped(UNION {F[s] : s \in A})
  BY <1>1, FlippedOverSquares
<1> QED
  BY <1>2 DEF A, B

LEMMA KnightsMirror ==
  ASSUME NEW b, NEW m, Mirrors(b, m), NEW p \in Players
  PROVE  getKnightScore(m, nextPlayer(p)) = Flipped(getKnightScore(b, p))
<1> DEFINE o == nextPlayer(p)
           T(c, q, x) == PieceTerms(c, q, "Knight", "psqtKnights", "knightMobilityScore", x)
           O(c, q, x) == OutpostTerm(c, q, "knightOutpostScore", x)
           F(c, q) == [x \in Squares |-> T(c, q, x) \cup O(c, q, x)]
           S(c, q) == Shelter(c, q, "Knight", "knightShelterBonus")
           All(c, q) == UNION {F(c, q)[x] : x \in c.pieces[q]["Knight"]}
<1>1. o \in Players /\ "Knight" \in PieceTypes
  BY PlayersAre, PieceTypesAre
<1>2. \A s \in Squares : F(m, o)[flipPosition(s)] = Flipped(F(b, p)[s])
  <2> TAKE s \in Squares
  <2>1. flipPosition(s) \in Squares
    BY FlipIs
  <2>2. T(m, o, flipPosition(s)) = Flipped(T(b, p, s)) /\ O(m, o, flipPosition(s)) = Flipped(O(b, p, s))
    BY PieceTermsMirror, OutpostMirrors
  <2> HIDE DEF T, O
  <2>3. Flipped(T(b, p, s) \cup O(b, p, s)) = Flipped(T(b, p, s)) \cup Flipped(O(b, p, s))
    BY FlippedUnion
  <2> QED
    BY <2>1, <2>2, <2>3
<1>3. S(m, o) = Flipped(S(b, p))
  BY <1>1, ShelterMirrors
<1> HIDE DEF F
<1>4. All(m, o) = Flipped(All(b, p))
  BY <1>1, <1>2, FlippedOverPieces
<1> USE DEF F
<1>5. \A s \in b.pieces[p]["Knight"] : s \in Squares
  BY <1>1, PiecesMirror
<1>6. \A s \in m.pieces[o]["Knight"] : s \in Squares
  BY <1>1, PiecesMirror
<1>7. getKnightScore(b, p) = S(b, p) \cup All(b, p)
  BY <1>5 DEF getKnightScore
<1>8. getKnightScore(m, o) = S(m, o) \cup All(m, o)
  BY <1>6 DEF getKnightScore
<1> HIDE DEF S, All, o
<1>9. Flipped(getKnightScore(b, p)) = Flipped(S(b, p)) \cup Flipped(All(b, p))
  BY <1>7 DEF Flipped
<1> QED
  BY <1>3, <1>4, <1>8, <1>9 DEF o

LEMMA BishopsMirror ==
  ASSUME NEW b, NEW m, Mirrors(b, m), NEW p \in Players
  PROVE  getBishopScore(m, nextPlayer(p)) = Flipped(getBishopScore(b, p))
<1> DEFINE o == nextPlayer(p)
           SameColor(x) == IF x \in lightSquares THEN lightSquares ELSE Squares \ lightSquares
           T(c, q, x) == PieceTerms(c, q, "Bishop", "psqtBishops", "bishopMobilityScore", x)
           N(c, q, x) == ADD_SCORE_INDEXED("badBishopScore",
                           Cardinality(SameColor(x) \cap c.pieces[q]["Pawn"]), x)
           L(c, q, x) == When(Cardinality(Moves(c, q, "Bishop", x) \cap centerSquares) >= 2,
                              ADD_SCORE("bishopLongDiagScore", x))
           O(c, q, x) == OutpostTerm(c, q, "bishopOutpostScore", x)
           F(c, q) == [x \in Squares |-> T(c, q, x) \cup N(c, q, x) \cup L(c, q, x) \cup O(c, q, x)]
           S(c, q) == Shelter(c, q, "Bishop", "bishopShelterBonus")
           P(c, q) == When(Cardinality(c.pieces[q]["Bishop"]) >= 2, ADD_SCORE("bishopPairScore", NoPosition))
           All(c, q) == UNION {F(c, q)[x] : x \in c.pieces[q]["Bishop"]}
<1>1. o \in Players /\ "Bishop" \in PieceTypes
  BY PlayersAre, PieceTypesAre
<1>2. \A s \in Squares : F(m, o)[flipPosition(s)] = Flipped(F(b, p)[s])
  <2> TAKE s \in Squares
  <2> DEFINE r == flipPosition(s)
  <2>1. r \in Squares
    BY FlipIs
  <2>2. T(m, o, r) = Flipped(T(b, p, s)) /\ O(m, o, r) = Flipped(O(b, p, s))
    BY PieceTermsMirror, OutpostMirrors
  <2>3. N(m, o, r) = Flipped(N(b, p, s))
    <3>1. s \in lightSquares <=> r \notin lightSquares
      BY <2>1, OtherMasksFlip DEF Flips
    <3>2. Flips(lightSquares, Squares \ lightSquares) /\ Flips(Squares \ lightSquares, lightSquares)
      <4>1. lightSquares \subseteq Squares
        BY DEF lightSquares
      <4> QED
        BY <4>1, OtherMasksFlip, FlipIs DEF Flips
    <3>3. Flips(SameColor(s), SameColor(r))
      BY <3>1, <3>2
    <3>4. Flips(b.pieces[p]["Pawn"], m.pieces[o]["Pawn"])
      BY PieceTypesAre, PiecesMirror
    <3> HIDE DEF SameColor, o
    <3>5. Flips(SameColor(s) \cap b.pieces[p]["Pawn"], SameColor(r) \cap m.pieces[o]["Pawn"])
      BY <3>3, <3>4, FlipsMeet
    <3>6. Cardinality(SameColor(s) \cap b.pieces[p]["Pawn"]) = Cardinality(SameColor(r) \cap m.pieces[o]["Pawn"])
      BY <3>5, FlipsCount
    <3> QED
      BY <3>6, FlippedTerm
  <2>4. L(m, o, r) = Flipped(L(b, p, s))
    <3>1. Flips(Moves(b, p, "Bishop", s), Moves(m, o, "Bishop", r))
      BY MovesMirror
    <3>2. Flips(Moves(b, p, "Bishop", s) \cap centerSquares, Moves(m, o, "Bishop", r) \cap centerSquares)
      BY <3>1, OtherMasksFlip, FlipsMeet
    <3>3. Cardinality(Moves(m, o, "Bishop", r) \cap centerSquares) = Cardinality(Moves(b, p, "Bishop", s) \cap centerSquares)
      BY <3>2, FlipsCount
    <3> QED
      BY <3>3, FlippedTerm, FlippedEmpty DEF When
  <2> HIDE DEF T, N, L, O, r
  <2>5. Flipped(T(b, p, s) \cup N(b, p, s) \cup L(b, p, s) \cup O(b, p, s))
          = Flipped(T(b, p, s)) \cup Flipped(N(b, p, s)) \cup Flipped(L(b, p, s)) \cup Flipped(O(b, p, s))
    BY DEF Flipped
  <2>6. F(b, p)[s] = T(b, p, s) \cup N(b, p, s) \cup L(b, p, s) \cup O(b, p, s)
        /\ F(m, o)[r] = T(m, o, r) \cup N(m, o, r) \cup L(m, o, r) \cup O(m, o, r)
    BY <2>1
  <2>7. Flipped(F(b, p)[s]) = Flipped(T(b, p, s) \cup N(b, p, s) \cup L(b, p, s) \cup O(b, p, s))
    OBVIOUS
  <2> HIDE DEF F
  <2> QED
    BY <2>2, <2>3, <2>4, <2>5, <2>6, <2>7 DEF r
<1>3. S(m, o) = Flipped(S(b, p))
  BY <1>1, ShelterMirrors
<1>4. P(m, o) = Flipped(P(b, p))
  <2>1. Flips(b.pieces[p]["Bishop"], m.pieces[o]["Bishop"])
    BY <1>1, PiecesMirror
  <2>2. Cardinality(b.pieces[p]["Bishop"]) = Cardinality(m.pieces[o]["Bishop"])
    BY <2>1, FlipsCount
  <2> QED
    BY <2>2, FlippedPlainTerm, FlippedEmpty DEF When
<1> HIDE DEF F
<1>5. All(m, o) = Flipped(All(b, p))
  BY <1>1, <1>2, FlippedOverPieces
<1> USE DEF F
<1>6. \A s \in b.pieces[p]["Bishop"] : s \in Squares
  BY <1>1, PiecesMirror
<1>7. \A s \in m.pieces[o]["Bishop"] : s \in Squares
  BY <1>1, PiecesMirror
<1>8. getBishopScore(b, p) = S(b, p) \cup P(b, p) \cup All(b, p)
  BY <1>6 DEF getBishopScore
<1>9. getBishopScore(m, o) = S(m, o) \cup P(m, o) \cup All(m, o)
  BY <1>7 DEF getBishopScore
<1> HIDE DEF S, P, All, o
<1>10. Flipped(getBishopScore(b, p)) = Flipped(S(b, p)) \cup Flipped(P(b, p)) \cup Flipped(All(b, p))
  BY <1>8 DEF Flipped
<1> QED
  BY <1>3, <1>4, <1>5, <1>9, <1>10 DEF o

LEMMA FileTermsMirror ==
  ASSUME NEW b, NEW m, Mirrors(b, m), NEW p \in Players, NEW s \in Squares, NEW open, NEW semiOpen
  PROVE  FileTerms(m, nextPlayer(p), open, semiOpen, flipPosition(s)) = Flipped(FileTerms(b, p, open, semiOpen, s))
<1> DEFINE o == nextPlayer(p)
           r == flipPosition(s)
           ours(c, q, x) == c.pieces[q]["Pawn"] \cap FileMask[File(x)]
           theirs(c, q, x) == c.pieces[nextPlayer(q)]["Pawn"] \cap FileMask[File(x)]
           T1(c, q, x) == When(ours(c, q, x) \cup theirs(c, q, x) = {}, ADD_SCORE(open, x))
           T2(c, q, x) == When(ours(c, q, x) = {}, ADD_SCORE(semiOpen, x))
<1>1. o \in Players /\ nextPlayer(o) = p
  BY PlayersAre
<1>2. /\ Flips(b.pieces[p]["Pawn"], m.pieces[o]["Pawn"]) /\ Flips(b.pieces[o]["Pawn"], m.pieces[p]["Pawn"])
      /\ Flips(FileMask[File(s)], FileMask[File(r)])
  BY <1>1, PieceTypesAre, PiecesMirror, PassedMasksFlip
<1>3. Flips(ours(b, p, s), ours(m, o, r)) /\ Flips(theirs(b, p, s), theirs(m, o, r))
  <2> HIDE DEF o, r
  <2>1. Flips(b.pieces[o]["Pawn"] \cap FileMask[File(s)], m.pieces[p]["Pawn"] \cap FileMask[File(r)])
    BY <1>2, FlipsMeet
  <2> QED
    BY <1>1, <1>2, <2>1, FlipsMeet DEF o
<1> HIDE DEF ours, theirs, o
<1>4. ours(b, p, s) = {} <=> ours(m, o, r) = {}
  BY <1>3, FlipsEmpty
<1>5. ours(b, p, s) \cup theirs(b, p, s) = {} <=> ours(m, o, r) \cup theirs(m, o, r) = {}
  <2>1. Flips(ours(b, p, s) \cup theirs(b, p, s), ours(m, o, r) \cup theirs(m, o, r))
    BY <1>3, FlipsUnion
  <2> QED
    BY <2>1, FlipsEmpty
<1>6. T1(m, o, r) = Flipped(T1(b, p, s)) /\ T2(m, o, r) = Flipped(T2(b, p, s))
  BY <1>4, <1>5, FlippedTerm, FlippedEmpty DEF When
<1>7. \A c, q, x : FileTerms(c, q, open, semiOpen, x) = T1(c, q, x) \cup T2(c, q, x)
  BY DEF FileTerms, ours, theirs
<1> HIDE DEF T1, T2, r
<1>8. Flipped(FileTerms(b, p, open, semiOpen, s)) = Flipped(T1(b, p, s)) \cup Flipped(T2(b, p, s))
  BY <1>7 DEF Flipped
<1> QED
  BY <1>6, <1>7, <1>8 DEF o, r

LEMMA RooksMirror ==
  ASSUME NEW b, NEW m, Mirrors(b, m), NEW p \in Players
  PROVE  getRookScore(m, nextPlayer(p)) = Flipped(getRookScore(b, p))
<1> DEFINE o == nextPlayer(p)
           row7Mask(q) == RowMask[IF q = "White" THEN 6 ELSE 1]
           row8Mask(q) == RowMask[IF q = "White" THEN 7 ELSE 0]
           T(c, q, x) == PieceTerms(c, q, "Rook", "psqtRooks", "rookMobilityScore", x)
           O(c, q, x) == FileTerms(c, q, "rookOpenFileBonus", "rookSemiOpenFileBonus", x)
           G(c, q) == (c.pieces[nextPlayer(q)]["Pawn"] \cap row7Mask(q))
                      \cup (c.pieces[nextPlayer(q)]["King"] \cap row8Mask(q))
           L(c, q, x) == When(x \in row7Mask(q) /\ G(c, q) # {}, ADD_SCORE("rook7thRankBonus", x))
           F(c, q) == [x \in Squares |-> T(c, q, x) \cup O(c, q, x) \cup L(c, q, x)]
           All(c, q) == UNION {F(c, q)[x] : x \in c.pieces[q]["Rook"]}
<1>1. o \in Players /\ nextPlayer(o) = p /\ "Rook" \in PieceTypes /\ "Pawn" \in PieceTypes /\ "King" \in PieceTypes
  BY PlayersAre, PieceTypesAre
<1>2. Flips(row7Mask(p), row7Mask(o)) /\ Flips(row8Mask(p), row8Mask(o))
  <2>1. /\ Flips(RowMask[6], RowMask[1]) /\ Flips(RowMask[1], RowMask[6])
        /\ Flips(RowMask[7], RowMask[0]) /\ Flips(RowMask[0], RowMask[7])
    BY MasksFlip
  <2> QED
    BY <2>1 DEF Players, nextPlayer
<1>3. G(b, p) = {} <=> G(m, o) = {}
  <2> HIDE DEF row7Mask, row8Mask
  <2>1. Flips(b.pieces[o]["Pawn"], m.pieces[p]["Pawn"]) /\ Flips(b.pieces[o]["King"], m.pieces[p]["King"])
    BY <1>1, PiecesMirror
  <2> HIDE DEF o
  <2>2. Flips(b.pieces[o]["Pawn"] \cap row7Mask(p), m.pieces[p]["Pawn"] \cap row7Mask(o))
    BY <1>2, <2>1, FlipsMeet
  <2>3. Flips(b.pieces[o]["King"] \cap row8Mask(p), m.pieces[p]["King"] \cap row8Mask(o))
    BY <1>2, <2>1, FlipsMeet
  <2>4. Flips((b.pieces[o]["Pawn"] \cap row7Mask(p)) \cup (b.pieces[o]["King"] \cap row8Mask(p)),
              (m.pieces[p]["Pawn"] \cap row7Mask(o)) \cup (m.pieces[p]["King"] \cap row8Mask(o)))
    BY <2>2, <2>3, FlipsUnion
  <2>5. (b.pieces[o]["Pawn"] \cap row7Mask(p)) \cup (b.pieces[o]["King"] \cap row8Mask(p)) = {} <=>
        (m.pieces[p]["Pawn"] \cap row7Mask(o)) \cup (m.pieces[p]["King"] \cap row8Mask(o)) = {}
    BY <2>4, FlipsEmpty
  <2> QED
    BY <1>1, <2>5 DEF o
<1>4. \A s \in Squares : F(m, o)[flipPosition(s)] = Flipped(F(b, p)[s])
  <2> TAKE s \in Squares
  <2> DEFINE r == flipPosition(s)
  <2>1. r \in Squares
    BY FlipIs
  <2>2. T(m, o, r) = Flipped(T(b, p, s)) /\ O(m, o, r) = Flipped(O(b, p, s))
    BY PieceTermsMirror, FileTermsMirror
  <2>3. L(m, o, r) = Flipped(L(b, p, s))
    <3> HIDE DEF row7Mask, G
    <3>1. s \in row7Mask(p) <=> r \in row7Mask(o)
      BY <1>2 DEF Flips
    <3> QED
      BY <1>3, <3>1, FlippedTerm, FlippedEmpty DEF When
  <2> HIDE DEF T, L, O, r
  <2>4. Flipped(T(b, p, s) \cup O(b, p, s) \cup L(b, p, s))
          = Flipped(T(b, p, s)) \cup Flipped(O(b, p, s)) \cup Flipped(L(b, p, s))
    BY FlippedThree
  <2>5. F(m, o)[r] = T(m, o, r) \cup O(m, o, r) \cup L(m, o, r)
    BY <2>1
  <2>6. Flipped(F(b, p)[s]) = Flipped(T(b, p, s) \cup O(b, p, s) \cup L(b, p, s))
    OBVIOUS
  <2> HIDE DEF F
  <2> QED
    BY <2>2, <2>3, <2>4, <2>5, <2>6 DEF r
<1> HIDE DEF F
<1>5. All(m, o) = Flipped(All(b, p))
  BY <1>1, <1>4, FlippedOverPieces
<1> USE DEF F
<1>6. \A s \in b.pieces[p]["Rook"] : s \in Squares
  BY <1>1, PiecesMirror
<1>7. \A s \in m.pieces[o]["Rook"] : s \in Squares
  BY <1>1, PiecesMirror
<1>8. getRookScore(b, p) = All(b, p)
  BY <1>6 DEF getRookScore
<1>9. getRookScore(m, o) = All(m, o)
  BY <1>7 DEF getRookScore
<1> HIDE DEF All
<1> QED
  BY <1>5, <1>8, <1>9

LEMMA DiscoveredMirror ==
  ASSUME NEW b, NEW m, Mirrors(b, m), NEW p \in Players, NEW s \in Squares
  PROVE  Flips(getDiscoveredAttacks(b, p, s), getDiscoveredAttacks(m, nextPlayer(p), flipPosition(s)))
<1> DEFINE o == nextPlayer(p)
           r == flipPosition(s)
           RA(c, x) == getRookMoves(x, both(c))
           BA(c, x) == getBishopMoves(x, both(c))
           RB(c, x) == getRookMoves(x, both(c) \ RA(c, x))
           BB(c, x) == getBishopMoves(x, both(c) \ BA(c, x))
<1>1. o \in Players /\ nextPlayer(o) = p
  BY PlayersAre
<1>2. Flips(both(b), both(m))
  BY BothMirror
<1>3. Flips(RA(b, s), RA(m, r)) /\ Flips(BA(b, s), BA(m, r))
  BY <1>2, SlidersFlip
<1>4. Flips(RB(b, s), RB(m, r)) /\ Flips(BB(b, s), BB(m, r))
  <2> HIDE DEF RA, BA
  <2>1. Flips(both(b) \ RA(b, s), both(m) \ RA(m, r)) /\ Flips(both(b) \ BA(b, s), both(m) \ BA(m, r))
    BY <1>2, <1>3, FlipsLess
  <2> QED
    BY <2>1, SlidersFlip
<1>5. Flips(b.pieces[o]["Rook"], m.pieces[p]["Rook"]) /\ Flips(b.pieces[o]["Bishop"], m.pieces[p]["Bishop"])
  BY <1>1, PieceTypesAre, PiecesMirror
<1>6. \A c, q, x : getDiscoveredAttacks(c, q, x) =
        ((c.pieces[nextPlayer(q)]["Rook"] \ RA(c, x)) \cap RB(c, x))
        \cup ((c.pieces[nextPlayer(q)]["Bishop"] \ BA(c, x)) \cap BB(c, x))
  BY DEF getDiscoveredAttacks
<1> HIDE DEF RA, BA, RB, BB, o, r
<1>7. /\ Flips(b.pieces[o]["Rook"] \ RA(b, s), m.pieces[p]["Rook"] \ RA(m, r))
      /\ Flips(b.pieces[o]["Bishop"] \ BA(b, s), m.pieces[p]["Bishop"] \ BA(m, r))
  BY <1>3, <1>5, FlipsLess
<1>8. /\ Flips((b.pieces[o]["Rook"] \ RA(b, s)) \cap RB(b, s), (m.pieces[p]["Rook"] \ RA(m, r)) \cap RB(m, r))
      /\ Flips((b.pieces[o]["Bishop"] \ BA(b, s)) \cap BB(b, s), (m.pieces[p]["Bishop"] \ BA(m, r)) \cap BB(m, r))
  BY <1>4, <1>7, FlipsMeet
<1>9. Flips(((b.pieces[o]["Rook"] \ RA(b, s)) \cap RB(b, s)) \cup ((b.pieces[o]["Bishop"] \ BA(b, s)) \cap BB(b, s)),
            ((m.pieces[p]["Rook"] \ RA(m, r)) \cap RB(m, r)) \cup ((m.pieces[p]["Bishop"] \ BA(m, r)) \cap BB(m, r)))
  BY <1>8, FlipsUnion
<1> QED
  BY <1>1, <1>6, <1>9 DEF o, r

LEMMA QueensMirror ==
  ASSUME NEW b, NEW m, Mirrors(b, m), NEW p \in Players
  PROVE  getQueenScore(m, nextPlayer(p)) = Flipped(getQueenScore(b, p))
<1> DEFINE o == nextPlayer(p)
           T(c, q, x) == PieceTerms(c, q, "Queen", "psqtQueens", "queenMobilityScore", x)
           O(c, q, x) == FileTerms(c, q, "queenOpenFileBonus", "queenSemiOpenFileBonus", x)
           L(c, q, x) == When(getDiscoveredAttacks(c, q, x) # {}, ADD_SCORE("queenDiscoveredAttackScore", x))
           F(c, q) == [x \in Squares |-> T(c, q, x) \cup O(c, q, x) \cup L(c, q, x)]
           All(c, q) == UNION {F(c, q)[x] : x \in c.pieces[q]["Queen"]}
<1>1. o \in Players /\ "Queen" \in PieceTypes
  BY PlayersAre, PieceTypesAre
<1>4. \A s \in Squares : F(m, o)[flipPosition(s)] = Flipped(F(b, p)[s])
  <2> TAKE s \in Squares
  <2> DEFINE r == flipPosition(s)
  <2>1. r \in Squares
    BY FlipIs
  <2>2. T(m, o, r) = Flipped(T(b, p, s)) /\ O(m, o, r) = Flipped(O(b, p, s))
    BY PieceTermsMirror, FileTermsMirror
  <2>3. L(m, o, r) = Flipped(L(b, p, s))
    <3>1. getDiscoveredAttacks(m, o, r) = {} <=> getDiscoveredAttacks(b, p, s) = {}
      BY DiscoveredMirror, FlipsEmpty
    <3> QED
      BY <3>1, FlippedTerm, FlippedEmpty DEF When
  <2> HIDE DEF T, L, O, r
  <2>4. Flipped(T(b, p, s) \cup O(b, p, s) \cup L(b, p, s))
          = Flipped(T(b, p, s)) \cup Flipped(O(b, p, s)) \cup Flipped(L(b, p, s))
    BY FlippedThree
  <2>5. F(m, o)[r] = T(m, o, r) \cup O(m, o, r) \cup L(m, o, r)
    BY <2>1
  <2>6. Flipped(F(b, p)[s]) = Flipped(T(b, p, s) \cup O(b, p, s) \cup L(b, p, s))
    OBVIOUS
  <2> HIDE DEF F
  <2> QED
    BY <2>2, <2>3, <2>4, <2>5, <2>6 DEF r
<1> HIDE DEF F
<1>5. All(m, o) = Flipped(All(b, p))
  BY <1>1, <1>4, FlippedOverPieces
<1> USE DEF F
<1>6. \A s \in b.pieces[p]["Queen"] : s \in Squares
  BY <1>1, PiecesMirror
<1>7. \A s \in m.pieces[o]["Queen"] : s \in Squares
  BY <1>1, PiecesMirror
<1>8. getQueenScore(b, p) = All(b, p)
  BY <1>6 DEF getQueenScore
<1>9. getQueenScore(m, o) = All(m, o)
  BY <1>7 DEF getQueenScore
<1> HIDE DEF All
<1> QED
  BY <1>5, <1>8, <1>9

LEMMA KingTermsMirror ==
  ASSUME NEW b, NEW m, Mirrors(b, m), NEW p \in Players
  PROVE  getKingScore(m, nextPlayer(p)) = Flipped(getKingScore(b, p))
<1> DEFINE o == nextPlayer(p)
           F(c, q) == [x \in Squares |-> ADD_SCORE_INDEXED("kingVirtualMobilityScore",
                                           Cardinality(Sliders(c, x) \ c.occupation[q]), x)]
           All(c, q) == UNION {F(c, q)[x] : x \in c.pieces[q]["King"]}
<1>1. o \in Players /\ "King" \in PieceTypes
  BY PlayersAre, PieceTypesAre
<1>4. \A s \in Squares : F(m, o)[flipPosition(s)] = Flipped(F(b, p)[s])
  <2> TAKE s \in Squares
  <2> DEFINE r == flipPosition(s)
  <2>1. r \in Squares
    BY FlipIs
  <2>2. Flips(Sliders(b, s), Sliders(m, r)) /\ Flips(b.occupation[p], m.occupation[o])
    BY SlidersMirror DEF Mirrors
  <2>3. Flips(Sliders(b, s) \ b.occupation[p], Sliders(m, r) \ m.occupation[o])
    BY <2>2, FlipsLess
  <2>4. Cardinality(Sliders(m, r) \ m.occupation[o]) = Cardinality(Sliders(b, s) \ b.occupation[p])
    BY <2>3, FlipsCount
  <2> QED
    BY <2>1, <2>4, FlippedTerm
<1> HIDE DEF F
<1>5. All(m, o) = Flipped(All(b, p))
  BY <1>1, <1>4, FlippedOverPieces
<1> USE DEF F
<1>6. \A s \in b.pieces[p]["King"] : s \in Squares
  BY <1>1, PiecesMirror
<1>7. \A s \in m.pieces[o]["King"] : s \in Squares
  BY <1>1, PiecesMirror
<1>8. getKingScore(b, p) = All(b, p)
  BY <1>6 DEF getKingScore
<1>9. getKingScore(m, o) = All(m, o)
  BY <1>7 DEF getKingScore
<1> HIDE DEF All
<1> QED
  BY <1>5, <1>8, <1>9

----------------------------------------------------------------------------
(* Those that consume the context.                                         *)

\* What the contexts of a board and its mirror image have in common.
ContextsMirror(ctx, other, p) ==
  LET o == nextPlayer(p)
  IN /\ other.attacksToKingZone[o] = ctx.attacksToKingZone[p]
     /\ \A t \in PieceTypes : Flips(ctx.pieceAttacks[p][t], other.pieceAttacks[o][t])
     /\ Flips(ctx.threats[p], other.threats[o])

LEMMA KingZoneScoreMirrors ==
  ASSUME NEW ctx, NEW other, NEW p \in Players, ContextsMirror(ctx, other, p)
  PROVE  getKingZoneScore(other, nextPlayer(p)) = Flipped(getKingZoneScore(ctx, p))
BY FlippedPlainTerm DEF ContextsMirror, getKingZoneScore

LEMMA PieceAttackTermsMirror ==
  ASSUME NEW b, NEW m, Mirrors(b, m), NEW p \in Players, NEW ctx, NEW other, ContextsMirror(ctx, other, p)
  PROVE  getPieceAttacksScore(m, other, nextPlayer(p)) = Flipped(getPieceAttacksScore(b, ctx, p))
<1> DEFINE o == nextPlayer(p)
           Hit(c, x, q, type, target) == c.pieces[nextPlayer(q)][target] \cap x.pieceAttacks[q][type]
           Term(c, x, q, type, target) ==
             ADD_SCORE_MULTI_INDEXED(AttackTables[type], Cardinality(Hit(c, x, q, type, target)),
                                     TypeIndex(target), NoPosition)
           Family(c, x, q) == {Term(c, x, q, type, target) :
                                 type \in DOMAIN AttackTables, target \in DOMAIN AttackTables}
<1>1. o \in Players /\ nextPlayer(o) = p
  BY PlayersAre
<1>2. DOMAIN AttackTables \subseteq PieceTypes
  BY PieceTypesAre DEF AttackTables
<1>3. ASSUME NEW type \in DOMAIN AttackTables, NEW target \in DOMAIN AttackTables
      PROVE  Term(m, other, o, type, target) = Flipped(Term(b, ctx, p, type, target))
  <2>1. Flips(b.pieces[o][target], m.pieces[p][target])
    BY <1>1, <1>2, PiecesMirror
  <2>2. Flips(ctx.pieceAttacks[p][type], other.pieceAttacks[o][type])
    BY <1>2 DEF ContextsMirror
  <2>3. Flips(Hit(b, ctx, p, type, target), Hit(m, other, o, type, target))
    BY <1>1, <2>1, <2>2, FlipsMeet
  <2> HIDE DEF Hit, o
  <2>4. Cardinality(Hit(m, other, o, type, target)) = Cardinality(Hit(b, ctx, p, type, target))
    BY <2>3, FlipsCount
  <2> QED
    BY <2>4, FlippedPlainTerm
<1>4. /\ getPieceAttacksScore(b, ctx, p) = UNION Family(b, ctx, p)
      /\ getPieceAttacksScore(m, other, o) = UNION Family(m, other, o)
  BY DEF getPieceAttacksScore
<1> HIDE DEF Term
<1>5. \A x \in Family(b, ctx, p) : Flipped(x) \in Family(m, other, o)
  BY <1>3
<1>6. \A y \in Family(m, other, o) : \E x \in Family(b, ctx, p) : y = Flipped(x)
  BY <1>3
<1> HIDE DEF Family
<1>7. UNION Family(m, other, o) = Flipped(UNION Family(b, ctx, p))
  BY <1>5, <1>6, FlippedUnions
<1> QED
  BY <1>4, <1>7

LEMMA CheckTermsMirror ==
  ASSUME NEW b, NEW m, Mirrors(b, m), NEW p \in Players, NEW ctx, NEW other,
         ContextsMirror(ctx, other, p), ContextsMirror(ctx, other, nextPlayer(p))
  PROVE  getChecksScore(m, other, nextPlayer(p)) = Flipped(getChecksScore(b, ctx, p))
<1> DEFINE o == nextPlayer(p)
           T == DOMAIN AttackTables
           king(c, q) == KingOf(c, nextPlayer(q))
           From(c, q, type) ==
             CASE type = "Pawn" -> pawnAttackMaskTable[nextPlayer(q)][king(c, q)]
               [] type = "Knight" -> knightsTable[king(c, q)]
               [] type = "Bishop" -> getBishopMoves(king(c, q), both(c))
               [] type = "Rook" -> getRookMoves(king(c, q), both(c))
               [] type = "Queen" -> Sliders(c, king(c, q))
           Reach(c, x, q, type) ==
             IF type = "Pawn" THEN x.pieceAttacks[q]["Pawn"] \cup pushForward(q, c.pieces[q]["Pawn"])
                              ELSE x.pieceAttacks[q][type]
           Checks(c, x, q, type) == Reach(c, x, q, type) \cap From(c, q, type)
           Safe(c, x, q, type) ==
             ADD_SCORE_MULTI_INDEXED("safeChecks",
               Cardinality(Checks(c, x, q, type) \ x.threats[nextPlayer(q)]), TypeIndex(type), NoPosition)
           Unsafe(c, x, q, type) ==
             ADD_SCORE_MULTI_INDEXED("unsafeChecks",
               Cardinality(Checks(c, x, q, type) \cap x.threats[nextPlayer(q)]), TypeIndex(type), NoPosition)
           Family(c, x, q) == {Safe(c, x, q, type) \cup Unsafe(c, x, q, type) : type \in T}
<1>1. o \in Players /\ nextPlayer(o) = p
  BY PlayersAre
<1>2. T = {"Pawn", "Knight", "Bishop", "Rook", "Queen"} /\ T \subseteq PieceTypes /\ "Pawn" \in PieceTypes
  BY PieceTypesAre DEF AttackTables
<1>3. king(b, p) \in Squares /\ king(m, o) = flipPosition(king(b, p))
  BY <1>1, KingsMirror
<1>4. ASSUME NEW type \in T PROVE Flips(From(b, p, type), From(m, o, type))
  <2> DEFINE k == king(b, p)
             l == king(m, o)
  <2>1. k \in Squares /\ l = flipPosition(k)
    BY <1>3
  <2> HIDE DEF k, l
  <2>2. /\ Flips(pawnAttackMaskTable[o][k], pawnAttackMaskTable[p][l])
        /\ Flips(knightsTable[k], knightsTable[l])
        /\ Flips(getBishopMoves(k, both(b)), getBishopMoves(l, both(m)))
        /\ Flips(getRookMoves(k, both(b)), getRookMoves(l, both(m)))
        /\ Flips(Sliders(b, k), Sliders(m, l))
    BY <1>1, <2>1, PawnMasksFlip, LeapersFlip, BothMirror, SlidersFlip, SlidersMirror
  <2>3. /\ type = "Pawn" => From(b, p, type) = pawnAttackMaskTable[o][k]
                            /\ From(m, o, type) = pawnAttackMaskTable[p][l]
        /\ type = "Knight" => From(b, p, type) = knightsTable[k] /\ From(m, o, type) = knightsTable[l]
        /\ type = "Bishop" => From(b, p, type) = getBishopMoves(k, both(b))
                              /\ From(m, o, type) = getBishopMoves(l, both(m))
        /\ type = "Rook" => From(b, p, type) = getRookMoves(k, both(b))
                            /\ From(m, o, type) = getRookMoves(l, both(m))
        /\ type = "Queen" => From(b, p, type) = Sliders(b, k) /\ From(m, o, type) = Sliders(m, l)
    BY <1>1 DEF k, l
  <2> HIDE DEF From, o, T
  <2> QED
    BY <1>2, <2>2, <2>3
<1>5. ASSUME NEW type \in T PROVE Flips(Reach(b, ctx, p, type), Reach(m, other, o, type))
  <2>1. /\ Flips(ctx.pieceAttacks[p][type], other.pieceAttacks[o][type])
        /\ Flips(ctx.pieceAttacks[p]["Pawn"], other.pieceAttacks[o]["Pawn"])
    BY <1>2 DEF ContextsMirror
  <2>2. Flips(pushForward(p, b.pieces[p]["Pawn"]), pushForward(o, m.pieces[o]["Pawn"]))
    BY <1>2, PiecesMirror, PawnShiftsFlip
  <2>3. Flips(ctx.pieceAttacks[p]["Pawn"] \cup pushForward(p, b.pieces[p]["Pawn"]),
              other.pieceAttacks[o]["Pawn"] \cup pushForward(o, m.pieces[o]["Pawn"]))
    BY <2>1, <2>2, FlipsUnion
  <2> QED
    BY <2>1, <2>3
<1>6. Flips(ctx.threats[o], other.threats[p])
  BY <1>1 DEF ContextsMirror
<1>7. ASSUME NEW type \in T
      PROVE  /\ Safe(m, other, o, type) = Flipped(Safe(b, ctx, p, type))
             /\ Unsafe(m, other, o, type) = Flipped(Unsafe(b, ctx, p, type))
  <2>1. Flips(Checks(b, ctx, p, type), Checks(m, other, o, type))
    <3> HIDE DEF Reach, From
    <3> QED
      BY <1>4, <1>5, FlipsMeet
  <2> HIDE DEF Checks, o
  <2>2. /\ Flips(Checks(b, ctx, p, type) \ ctx.threats[o], Checks(m, other, o, type) \ other.threats[p])
        /\ Flips(Checks(b, ctx, p, type) \cap ctx.threats[o], Checks(m, other, o, type) \cap other.threats[p])
    BY <1>6, <2>1, FlipsLess, FlipsMeet
  <2>3. /\ Cardinality(Checks(m, other, o, type) \ other.threats[p])
             = Cardinality(Checks(b, ctx, p, type) \ ctx.threats[o])
        /\ Cardinality(Checks(m, other, o, type) \cap other.threats[p])
             = Cardinality(Checks(b, ctx, p, type) \cap ctx.threats[o])
    BY <2>2, FlipsCount
  <2> QED
    BY <1>1, <2>3, FlippedPlainTerm DEF o
<1>8. /\ getChecksScore(b, ctx, p) = UNION Family(b, ctx, p)
      /\ getChecksScore(m, other, o) = UNION Family(m, other, o)
  BY DEF getChecksScore
<1> HIDE DEF Safe, Unsafe, T
<1>9. ASSUME NEW type \in T
      PROVE  Safe(m, other, o, type) \cup Unsafe(m, other, o, type)
               = Flipped(Safe(b, ctx, p, type) \cup Unsafe(b, ctx, p, type))
  BY <1>7, FlippedUnion
<1>10. \A x \in Family(b, ctx, p) : Flipped(x) \in Family(m, other, o)
  <2> TAKE x \in Family(b, ctx, p)
  <2>1. PICK type \in T : x = Safe(b, ctx, p, type) \cup Unsafe(b, ctx, p, type)
    OBVIOUS
  <2>2. Flipped(x) = Flipped(Safe(b, ctx, p, type) \cup Unsafe(b, ctx, p, type))
    BY <2>1
  <2>3. Flipped(x) = Safe(m, other, o, type) \cup Unsafe(m, other, o, type)
    BY <1>9, <2>2
  <2> QED
    BY <2>3
<1>11. \A y \in Family(m, other, o) : \E x \in Family(b, ctx, p) : y = Flipped(x)
  <2> TAKE y \in Family(m, other, o)
  <2>1. PICK type \in T : y = Safe(m, other, o, type) \cup Unsafe(m, other, o, type)
    OBVIOUS
  <2> DEFINE x == Safe(b, ctx, p, type) \cup Unsafe(b, ctx, p, type)
  <2>2. x \in Family(b, ctx, p)
    OBVIOUS
  <2>3. y = Flipped(x)
    BY <1>9, <2>1
  <2> QED
    BY <2>2, <2>3
<1> HIDE DEF Family
<1>12. UNION Family(m, other, o) = Flipped(UNION Family(b, ctx, p))
  BY <1>10, <1>11, FlippedUnions
<1> QED
  BY <1>8, <1>12

LEMMA TargetsMirror ==
  ASSUME NEW b, NEW m, Mirrors(b, m), NEW p \in Players, NEW s \in Squares
  PROVE  getTargetAtSquare(m, nextPlayer(p), flipPosition(s)) = getTargetAtSquare(b, p, s)
<1> DEFINE o == nextPlayer(p)
           r == flipPosition(s)
           On(c, q, x) == {i \in 1..6 : x \in c.pieces[q][PieceOrder[i]]}
           First(on) == IF on = {} THEN NoPiece ELSE PieceOrder[CHOOSE i \in on : \A j \in on : i =< j]
<1>1. o \in Players /\ nextPlayer(o) = p
  BY PlayersAre
<1>2. \A i \in 1..6 : PieceOrder[i] \in PieceTypes
  BY DEF PieceTypes
<1>3. \A i \in 1..6 : s \in b.pieces[o][PieceOrder[i]] <=> r \in m.pieces[p][PieceOrder[i]]
  BY <1>1, <1>2, PiecesMirror DEF Flips
<1>4. On(b, o, s) = On(m, p, r)
  BY <1>3
<1>6. getPieceAt(b, o, s) = First(On(b, o, s)) /\ getPieceAt(m, p, r) = First(On(m, p, r))
  BY Zenon DEF getPieceAt
<1> HIDE DEF On, First
<1>5. getPieceAt(b, o, s) = getPieceAt(m, p, r)
  BY <1>4, <1>6
<1> QED
  BY <1>1, <1>5 DEF getTargetAtSquare

LEMMA PushThreatsMirror ==
  ASSUME NEW b, NEW m, Mirrors(b, m), NEW p \in Players, NEW ctx, NEW other,
         ContextsMirror(ctx, other, p), ContextsMirror(ctx, other, nextPlayer(p))
  PROVE  getPawnPushThreatScore(m, other, nextPlayer(p)) = Flipped(getPawnPushThreatScore(b, ctx, p))
<1> DEFINE o == nextPlayer(p)
           thirdRow(q) == RowMask[IF q = "White" THEN 2 ELSE 5]
           targets(c, q) == c.occupation[nextPlayer(q)] \ c.pieces[nextPlayer(q)]["Pawn"]
           safe(x, q) == (Squares \ x.threats[nextPlayer(q)])
                         \cup (x.threats[q] \ x.pieceAttacks[nextPlayer(q)]["Pawn"])
           pushes(c, q) == pushForward(q, c.pieces[q]["Pawn"]) \ both(c)
           doublePushes(c, q) == pushForward(q, pushes(c, q) \cap thirdRow(q)) \ both(c)
           attacks(c, x, q) == pawnAttacks(q, (pushes(c, q) \cup doublePushes(c, q)) \cap safe(x, q))
                               \cap targets(c, q)
           F(c, q) == [s \in Squares |-> ADD_SCORE_INDEXED("pawnPushThreats",
                                           TypeIndex(getTargetAtSquare(c, q, s)), s)]
           All(c, x, q) == UNION {F(c, q)[s] : s \in attacks(c, x, q)}
<1>1. o \in Players /\ nextPlayer(o) = p /\ "Pawn" \in PieceTypes
  BY PlayersAre, PieceTypesAre
<1>2. Flips(thirdRow(p), thirdRow(o))
  <2>1. Flips(RowMask[2], RowMask[5]) /\ Flips(RowMask[5], RowMask[2])
    BY MasksFlip
  <2> QED
    BY <2>1 DEF Players, nextPlayer
<1> HIDE DEF thirdRow
<1>3. Flips(targets(b, p), targets(m, o))
  <2>1. Flips(b.occupation[o], m.occupation[p]) /\ Flips(b.pieces[o]["Pawn"], m.pieces[p]["Pawn"])
    BY <1>1 DEF Mirrors
  <2> QED
    BY <1>1, <2>1, FlipsLess
<1>4. Flips(safe(ctx, p), safe(other, o))
  <2> DEFINE T == ctx.threats[o]
             U == other.threats[p]
             V == ctx.threats[p] \ ctx.pieceAttacks[o]["Pawn"]
             W == other.threats[o] \ other.pieceAttacks[p]["Pawn"]
  <2>1. Flips(T, U)
    BY <1>1 DEF ContextsMirror
  <2>2. Flips(V, W)
    <3>1. Flips(ctx.threats[p], other.threats[o]) /\ Flips(ctx.pieceAttacks[o]["Pawn"], other.pieceAttacks[p]["Pawn"])
      BY <1>1 DEF ContextsMirror
    <3> QED
      BY <3>1, FlipsLess
  <2>4. safe(ctx, p) = (Squares \ T) \cup V /\ safe(other, o) = (Squares \ U) \cup W
    BY <1>1
  <2> HIDE DEF T, U, V, W, safe
  <2>6. Flips(Squares, Squares)
    <3>1. 0 \in Squares
      BY DEF Squares
    <3> QED
      BY <3>1, FlipOfOne
  <2>3. Flips(Squares \ T, Squares \ U)
    BY <2>1, <2>6, FlipsLess
  <2>5. Flips((Squares \ T) \cup V, (Squares \ U) \cup W)
    BY <2>2, <2>3, FlipsUnion
  <2> QED
    BY <2>4, <2>5
<1> HIDE DEF targets, safe
<1>5. Flips(pushes(b, p), pushes(m, o))
  <2>1. Flips(pushForward(p, b.pieces[p]["Pawn"]), pushForward(o, m.pieces[o]["Pawn"]))
    BY <1>1, PiecesMirror, PawnShiftsFlip
  <2> QED
    BY <2>1, BothMirror, FlipsLess
<1> HIDE DEF pushes
<1>6. Flips(doublePushes(b, p), doublePushes(m, o))
  <2>1. Flips(pushes(b, p) \cap thirdRow(p), pushes(m, o) \cap thirdRow(o))
    BY <1>2, <1>5, FlipsMeet
  <2>2. Flips(pushForward(p, pushes(b, p) \cap thirdRow(p)), pushForward(o, pushes(m, o) \cap thirdRow(o)))
    BY <2>1, PawnShiftsFlip
  <2> QED
    BY <2>2, BothMirror, FlipsLess
<1> HIDE DEF doublePushes
<1>7. Flips(attacks(b, ctx, p), attacks(m, other, o))
  <2>1. Flips(pushes(b, p) \cup doublePushes(b, p), pushes(m, o) \cup doublePushes(m, o))
    BY <1>5, <1>6, FlipsUnion
  <2>2. Flips((pushes(b, p) \cup doublePushes(b, p)) \cap safe(ctx, p),
              (pushes(m, o) \cup doublePushes(m, o)) \cap safe(other, o))
    BY <1>4, <2>1, FlipsMeet
  <2>3. Flips(pawnAttacks(p, (pushes(b, p) \cup doublePushes(b, p)) \cap safe(ctx, p)),
              pawnAttacks(o, (pushes(m, o) \cup doublePushes(m, o)) \cap safe(other, o)))
    BY <2>2, PawnAttacksFlip
  <2> QED
    BY <1>3, <2>3, FlipsMeet
<1>8. \A s \in Squares : F(m, o)[flipPosition(s)] = Flipped(F(b, p)[s])
  BY TargetsMirror, FlipIs, FlippedTerm
<1>9. attacks(b, ctx, p) \subseteq Squares /\ attacks(m, other, o) \subseteq Squares
  BY <1>7 DEF Flips
<1>10. getPawnPushThreatScore(b, ctx, p) = UNION {ADD_SCORE_INDEXED("pawnPushThreats",
                                           TypeIndex(getTargetAtSquare(b, p, s)), s) : s \in attacks(b, ctx, p)}
  BY DEF getPawnPushThreatScore, thirdRow, targets, safe, pushes, doublePushes
<1>11. getPawnPushThreatScore(m, other, o) = UNION {ADD_SCORE_INDEXED("pawnPushThreats",
                                           TypeIndex(getTargetAtSquare(m, o, s)), s) : s \in attacks(m, other, o)}
  BY DEF getPawnPushThreatScore, thirdRow, targets, safe, pushes, doublePushes
<1> HIDE DEF attacks
<1>12. getPawnPushThreatScore(b, ctx, p) = All(b, ctx, p) /\ getPawnPushThreatScore(m, other, o) = All(m, other, o)
  BY <1>9, <1>10, <1>11
<1> HIDE DEF F
<1>13. All(m, other, o) = Flipped(All(b, ctx, p))
  BY <1>7, <1>8, FlippedOverSquares
<1> HIDE DEF All
<1> QED
  BY <1>12, <1>13

\* Two sets on one board and their images on the other.
LEMMA FlipsEqual ==
  ASSUME NEW A, NEW B, Flips(A, B), NEW C, NEW D, Flips(C, D)
  PROVE  A = C <=> B = D
<1>1. A \subseteq Squares /\ B \subseteq Squares /\ C \subseteq Squares /\ D \subseteq Squares
  BY DEF Flips
<1>2. \A s \in Squares : /\ s \in A <=> flipPosition(s) \in B
                         /\ s \in C <=> flipPosition(s) \in D
  BY DEF Flips
<1>3. \A s \in Squares : /\ s \in B <=> flipPosition(s) \in A
                         /\ s \in D <=> flipPosition(s) \in C
  BY FlipsBack
<1>4. ASSUME A = C PROVE B = D
  BY <1>1, <1>3, <1>4
<1>5. ASSUME B = D PROVE A = C
  BY <1>1, <1>2, <1>5
<1> QED
  BY <1>4, <1>5

LEMMA TempoIsMirrored ==
  ASSUME NEW b, NEW m, Mirrors(b, m), NEW p \in Players
  PROVE  m.player = p <=> b.player = nextPlayer(p)
BY DEF Mirrors, Players, nextPlayer

LEMMA PassedTermsMirror ==
  ASSUME NEW b, NEW m, Mirrors(b, m), NEW p \in Players, NEW ctx, NEW other,
         ContextsMirror(ctx, other, p), ContextsMirror(ctx, other, nextPlayer(p)),
         NEW passed, NEW passedHere, Flips(passed[p], passedHere[nextPlayer(p)])
  PROVE  getPassedPawnsScore(m, other, passedHere, nextPlayer(p))
           = Flipped(getPassedPawnsScore(b, ctx, passed, p))
<1> DEFINE o == nextPlayer(p)
           only(c, q) == c.occupation[nextPlayer(q)]
                           = c.pieces[nextPlayer(q)]["King"] \cup c.pieces[nextPlayer(q)]["Pawn"]
           tempo(c, q) == IF c.player = nextPlayer(q) THEN 1 ELSE 0
           free(c, x, q, s) == pushForward(q, {s}) \cap (both(c) \cup x.threats[nextPlayer(q)]) = {}
           protected(x, q, s) == pushForward(q, {s}) \cap x.threats[q] # {}
           far(c, q, s) == /\ only(c, q)
                           /\ 7 - relativeRow(q, s) =< 4
                           /\ 7 - relativeRow(q, s) < absoluteDistance(s, KingOf(c, nextPlayer(q))) - tempo(c, q)
           One(c, x, q, s) == When(free(c, x, q, s), ADD_SCORE_INDEXED("freePassedPawnBonus", relativeRow(q, s), s))
           Two(x, q, s) == When(protected(x, q, s), ADD_SCORE_INDEXED("protectedPassedPawnBonus", relativeRow(q, s), s))
           Three(c, q, s) == When(far(c, q, s), ADD_SCORE("pawnSquareRuleBonus", s))
           F(c, x, q) == [s \in Squares |-> One(c, x, q, s) \cup Two(x, q, s) \cup Three(c, q, s)]
<1>1. o \in Players /\ nextPlayer(o) = p /\ "Pawn" \in PieceTypes /\ "King" \in PieceTypes
  BY PlayersAre, PieceTypesAre
<1>2. \A s \in Squares : flipPosition(s) \in Squares /\ relativeRow(o, flipPosition(s)) = relativeRow(p, s)
  BY FlipIs, FlipsRelativeRow
<1>3. only(b, p) <=> only(m, o)
  <2> DEFINE A == b.occupation[o]
             B == m.occupation[p]
             C == b.pieces[o]["King"] \cup b.pieces[o]["Pawn"]
             D == m.pieces[p]["King"] \cup m.pieces[p]["Pawn"]
  <2>1. Flips(C, D)
    <3>1. Flips(b.pieces[o]["King"], m.pieces[p]["King"]) /\ Flips(b.pieces[o]["Pawn"], m.pieces[p]["Pawn"])
      BY <1>1 DEF Mirrors
    <3> QED
      BY <3>1, FlipsUnion
  <2>2. Flips(A, B)
    BY <1>1 DEF Mirrors
  <2>3. (only(b, p) <=> A = C) /\ (only(m, o) <=> B = D)
    BY <1>1, Zenon
  <2> HIDE DEF A, B, C, D, only
  <2>4. A = C <=> B = D
    BY <2>1, <2>2, FlipsEqual
  <2> QED
    BY <2>3, <2>4
<1>4. tempo(b, p) = tempo(m, o)
  BY <1>1, TempoIsMirrored
<1>5. \A s \in Squares : free(b, ctx, p, s) <=> free(m, other, o, flipPosition(s))
  <2> TAKE s \in Squares
  <2>1. Flips(pushForward(p, {s}), pushForward(o, {flipPosition(s)}))
    BY FlipOfOne, PawnShiftsFlip
  <2>2. Flips(both(b) \cup ctx.threats[o], both(m) \cup other.threats[p])
    <3>1. Flips(ctx.threats[o], other.threats[p])
      BY <1>1 DEF ContextsMirror
    <3> QED
      BY <3>1, BothMirror, FlipsUnion
  <2>3. Flips(pushForward(p, {s}) \cap (both(b) \cup ctx.threats[o]),
              pushForward(o, {flipPosition(s)}) \cap (both(m) \cup other.threats[p]))
    BY <2>1, <2>2, FlipsMeet
  <2>4. pushForward(p, {s}) \cap (both(b) \cup ctx.threats[o]) = {}
          <=> pushForward(o, {flipPosition(s)}) \cap (both(m) \cup other.threats[p]) = {}
    BY <2>3, FlipsEmpty
  <2>5. other.threats[nextPlayer(o)] = other.threats[p]
    BY <1>1
  <2>6. free(b, ctx, p, s) <=> pushForward(p, {s}) \cap (both(b) \cup ctx.threats[o]) = {}
    BY Zenon
  <2>7. free(m, other, o, flipPosition(s)) <=> pushForward(o, {flipPosition(s)}) \cap (both(m) \cup other.threats[p]) = {}
    BY <2>5, Zenon
  <2> QED
    BY <2>4, <2>6, <2>7, Zenon
<1>6. \A s \in Squares : protected(ctx, p, s) <=> protected(other, o, flipPosition(s))
  <2> TAKE s \in Squares
  <2>1. Flips(pushForward(p, {s}), pushForward(o, {flipPosition(s)}))
    BY FlipOfOne, PawnShiftsFlip
  <2>2. Flips(ctx.threats[p], other.threats[o])
    BY <1>1 DEF ContextsMirror
  <2>3. Flips(pushForward(p, {s}) \cap ctx.threats[p], pushForward(o, {flipPosition(s)}) \cap other.threats[o])
    BY <2>1, <2>2, FlipsMeet
  <2> QED
    BY <2>3, FlipsEmpty
<1>7. \A s \in Squares : far(b, p, s) <=> far(m, o, flipPosition(s))
  <2> TAKE s \in Squares
  <2>1. KingOf(b, o) \in Squares /\ KingOf(m, p) = flipPosition(KingOf(b, o))
    BY <1>1, KingsMirror
  <2>2. absoluteDistance(flipPosition(s), KingOf(m, p)) = absoluteDistance(s, KingOf(b, o))
    BY <2>1, DistancesFlip
  <2> HIDE DEF only, tempo
  <2> QED
    BY <1>1, <1>2, <1>3, <1>4, <2>2
<1> HIDE DEF free, protected, far
<1>8. \A s \in Squares : /\ Flipped(One(b, ctx, p, s)) = One(m, other, o, flipPosition(s))
                         /\ Flipped(Two(ctx, p, s)) = Two(other, o, flipPosition(s))
                         /\ Flipped(Three(b, p, s)) = Three(m, o, flipPosition(s))
  BY <1>2, <1>5, <1>6, <1>7, FlippedTerm, FlippedEmpty DEF When
<1> HIDE DEF One, Two, Three
<1>9. \A s \in Squares : F(m, other, o)[flipPosition(s)] = Flipped(F(b, ctx, p)[s])
  <2> TAKE s \in Squares
  <2>1. F(b, ctx, p)[s] = One(b, ctx, p, s) \cup Two(ctx, p, s) \cup Three(b, p, s)
    OBVIOUS
  <2>2. F(m, other, o)[flipPosition(s)]
          = One(m, other, o, flipPosition(s)) \cup Two(other, o, flipPosition(s)) \cup Three(m, o, flipPosition(s))
    BY <1>2
  <2>3. Flipped(One(b, ctx, p, s) \cup Two(ctx, p, s) \cup Three(b, p, s))
          = Flipped(One(b, ctx, p, s)) \cup Flipped(Two(ctx, p, s)) \cup Flipped(Three(b, p, s))
    BY FlippedThree
  <2> HIDE DEF F
  <2> QED
    BY <1>8, <2>1, <2>2, <2>3
<1>10. passed[p] \subseteq Squares /\ passedHere[o] \subseteq Squares
  BY DEF Flips
<1>11. getPassedPawnsScore(b, ctx, passed, p) = UNION {One(b, ctx, p, s) \cup Two(ctx, p, s) \cup Three(b, p, s) : s \in passed[p]}
  BY Zenon DEF getPassedPawnsScore, One, Two, Three, free, protected, far
<1>12. getPassedPawnsScore(m, other, passedHere, o)
         = UNION {One(m, other, o, s) \cup Two(other, o, s) \cup Three(m, o, s) : s \in passedHere[o]}
  BY Zenon DEF getPassedPawnsScore, One, Two, Three, free, protected, far
<1>13. /\ UNION {One(b, ctx, p, s) \cup Two(ctx, p, s) \cup Three(b, p, s) : s \in passed[p]}
            = UNION {F(b, ctx, p)[s] : s \in passed[p]}
       /\ UNION {One(m, other, o, s) \cup Two(other, o, s) \cup Three(m, o, s) : s \in passedHere[o]}
            = UNION {F(m, other, o)[s] : s \in passedHere[o]}
  BY <1>10
<1> HIDE DEF F
<1>14. UNION {F(m, other, o)[s] : s \in passedHere[o]} = Flipped(UNION {F(b, ctx, p)[s] : s \in passed[p]})
  BY <1>9, FlippedOverSquares
<1> QED
  BY <1>11, <1>12, <1>13, <1>14

\* What the king-pawn cache returns is what is computed for the position.
CacheIsRight(b, cache) ==
  LET kp == fetchOrStoreKpCache(cache, b)
  IN \A p \in Players : kp.score[p] = getStaticKingPawnScore(b, p) /\ kp.passedPawns[p] = PassedPawns(b, p)

LEMMA EntryIsRight ==
  ASSUME NEW b
  PROVE  CacheIsRight(b, KingPawnEntry(b))
<1>1. fetchOrStoreKpCache(KingPawnEntry(b), b) = KingPawnEntry(b)
  BY Zenon DEF fetchOrStoreKpCache
<1> QED
  BY <1>1 DEF CacheIsRight, KingPawnEntry

LEMMA FreshCacheIsRight ==
  ASSUME NEW b, NEW cache, cache.key = b.kpHash => cache = KingPawnEntry(b)
  PROVE  CacheIsRight(b, cache)
<1>1. fetchOrStoreKpCache(cache, b) = KingPawnEntry(b)
  BY Zenon DEF fetchOrStoreKpCache
<1> QED
  BY <1>1 DEF CacheIsRight, KingPawnEntry

LEMMA GetMirrors ==
  ASSUME NEW b, NEW m, Mirrors(b, m), NEW p \in Players, NEW cache, NEW entry,
         CacheIsRight(b, cache), CacheIsRight(m, entry)
  PROVE  get(m, entry, nextPlayer(p)) = Flipped(get(b, cache, p))
<1> DEFINE o == nextPlayer(p)
           ctx == prepareContext(b)
           other == prepareContext(m)
           kp == fetchOrStoreKpCache(cache, b)
           kpHere == fetchOrStoreKpCache(entry, m)
           Term1 == getTempoScore(b, p)
           Term2 == kp.score[p]
           Term3 == getKnightScore(b, p)
           Term4 == getBishopScore(b, p)
           Term5 == getRookScore(b, p)
           Term6 == getQueenScore(b, p)
           Term7 == getKingScore(b, p)
           Term8 == getKingZoneScore(ctx, p)
           Term9 == getPieceAttacksScore(b, ctx, p)
           Term10 == getChecksScore(b, ctx, p)
           Term11 == getPawnPushThreatScore(b, ctx, p)
           Term12 == getPassedPawnsScore(b, ctx, kp.passedPawns, p)
           Mate1 == getTempoScore(m, o)
           Mate2 == kpHere.score[o]
           Mate3 == getKnightScore(m, o)
           Mate4 == getBishopScore(m, o)
           Mate5 == getRookScore(m, o)
           Mate6 == getQueenScore(m, o)
           Mate7 == getKingScore(m, o)
           Mate8 == getKingZoneScore(other, o)
           Mate9 == getPieceAttacksScore(m, other, o)
           Mate10 == getChecksScore(m, other, o)
           Mate11 == getPawnPushThreatScore(m, other, o)
           Mate12 == getPassedPawnsScore(m, other, kpHere.passedPawns, o)
<1>1. o \in Players /\ nextPlayer(o) = p
  BY PlayersAre
<1>2. ContextsMirror(ctx, other, p) /\ ContextsMirror(ctx, other, o)
  BY <1>1, ContextMirrors DEF ContextsMirror
<1>3. Mate2 = Flipped(Term2)
  BY <1>1, StaticKingPawnMirror DEF CacheIsRight
<1>4. Mate1 = Flipped(Term1) /\ Mate3 = Flipped(Term3) /\ Mate4 = Flipped(Term4) /\ Mate5 = Flipped(Term5)
  BY TempoMirrors, KnightsMirror, BishopsMirror, RooksMirror
<1>5. Mate6 = Flipped(Term6) /\ Mate7 = Flipped(Term7)
  BY QueensMirror, KingTermsMirror
<1> HIDE DEF ctx, other
<1>6. Mate8 = Flipped(Term8) /\ Mate9 = Flipped(Term9) /\ Mate10 = Flipped(Term10) /\ Mate11 = Flipped(Term11)
  BY <1>1, <1>2, KingZoneScoreMirrors, PieceAttackTermsMirror, CheckTermsMirror, PushThreatsMirror
<1>7. Mate12 = Flipped(Term12)
  <2>1. Flips(kp.passedPawns[p], kpHere.passedPawns[o])
    BY <1>1, PassedPawnsMirror DEF CacheIsRight
  <2> HIDE DEF kp, kpHere
  <2> QED
    BY <1>1, <1>2, <2>1, PassedTermsMirror
<1>8. get(b, cache, p) = Term1 \cup Term2 \cup Term3 \cup Term4 \cup Term5 \cup Term6 \cup Term7 \cup Term8 \cup Term9 \cup Term10 \cup Term11 \cup Term12
  BY Zenon DEF get, ctx
<1>9. get(m, entry, o) = Mate1 \cup Mate2 \cup Mate3 \cup Mate4 \cup Mate5 \cup Mate6 \cup Mate7 \cup Mate8 \cup Mate9 \cup Mate10 \cup Mate11 \cup Mate12
  BY Zenon DEF get, other
<1> HIDE DEF Term1, Term2, Term3, Term4, Term5, Term6, Term7, Term8, Term9, Term10, Term11, Term12, Mate1, Mate2, Mate3, Mate4, Mate5, Mate6, Mate7, Mate8, Mate9, Mate10, Mate11, Mate12
<1>10. Flipped(Term1 \cup Term2 \cup Term3 \cup Term4 \cup Term5 \cup Term6 \cup Term7 \cup Term8 \cup Term9 \cup Term10 \cup Term11 \cup Term12)
         = Flipped(Term1) \cup Flipped(Term2) \cup Flipped(Term3) \cup Flipped(Term4) \cup Flipped(Term5) \cup Flipped(Term6)
           \cup Flipped(Term7) \cup Flipped(Term8) \cup Flipped(Term9) \cup Flipped(Term10) \cup Flipped(Term11) \cup Flipped(Term12)
  BY DEF Flipped
<1>11. Flipped(get(b, cache, p))
         = Flipped(Term1 \cup Term2 \cup Term3 \cup Term4 \cup Term5 \cup Term6 \cup Term7 \cup Term8 \cup Term9 \cup Term10 \cup Term11 \cup Term12)
  BY <1>8, Zenon
<1> QED
  BY <1>3, <1>4, <1>5, <1>6, <1>7, <1>9, <1>10, <1>11, Zenon

LEMMA MirrorIsOne ==
  ASSUME NEW b \in Boards, OneKingEach(b), IsFresh(b)
  PROVE  Mirrors(b, Mirror(b))
<1> DEFINE m == Mirror(b)
           Flip(squares) == {flipPosition(pos) : pos \in squares}
<1>1. /\ m.player = nextPlayer(b.player)
      /\ m.pieces = [p \in Players |-> [t \in PieceTypes |-> Flip(b.pieces[nextPlayer(p)][t])]]
      /\ m.occupation = [p \in Players |-> occupationOf(m.pieces, p)]
  BY DEF Mirror, updateAttacks, updateOccupation, Boards
<1> HIDE DEF m
<1>2. \A p \in Players, t \in PieceTypes :
        b.pieces[p][t] \subseteq Squares /\ m.pieces[nextPlayer(p)][t] = Flip(b.pieces[p][t])
  BY <1>1, PlayersAre DEF Boards
<1>3. \A A : A \subseteq Squares => Flips(A, Flip(A))
  BY FlipIs DEF Flips
<1>4. \A p \in Players, t \in PieceTypes : Flips(b.pieces[p][t], m.pieces[nextPlayer(p)][t])
  BY <1>2, <1>3
<1>5. \A p \in Players : Flips(b.occupation[p], m.occupation[nextPlayer(p)])
  <2> TAKE p \in Players
  <2> DEFINE X == {b.pieces[p][t] : t \in PieceTypes}
             Y == {m.pieces[nextPlayer(p)][t] : t \in PieceTypes}
  <2>1. nextPlayer(p) \in Players
    BY PlayersAre
  <2>2. b.occupation[p] = UNION X /\ m.occupation[nextPlayer(p)] = UNION Y
    <3>1. b.occupation[p] = occupationOf(b.pieces, p)
      BY DEF IsFresh
    <3>2. m.occupation[nextPlayer(p)] = occupationOf(m.pieces, nextPlayer(p))
      BY <1>1, <2>1
    <3> QED
      BY <3>1, <3>2, Zenon DEF occupationOf
  <2>3. (\A x \in X : \E y \in Y : Flips(x, y)) /\ (\A y \in Y : \E x \in X : Flips(x, y))
    BY <1>4
  <2> HIDE DEF X, Y
  <2>4. Flips(UNION X, UNION Y)
    BY <2>3, FlipsUnions
  <2> QED
    BY <2>2, <2>4
<1>6. OneKingEach(m)
  <2> SUFFICES ASSUME NEW p \in Players PROVE \E king \in Squares : m.pieces[p]["King"] = {king}
    BY DEF OneKingEach
  <2>1. nextPlayer(p) \in Players /\ nextPlayer(nextPlayer(p)) = p /\ "King" \in PieceTypes
    BY PlayersAre, PieceTypesAre
  <2>2. PICK king \in Squares : b.pieces[nextPlayer(p)]["King"] = {king}
    BY <2>1 DEF OneKingEach
  <2>3. m.pieces[p]["King"] = Flip({king})
    BY <1>2, <2>1, <2>2
  <2>4. Flip({king}) = {flipPosition(king)}
    OBVIOUS
  <2> QED
    BY <2>3, <2>4, FlipIs
<1>7. b.player \in Players
  BY DEF Boards
<1> HIDE DEF Flip
<1>8. Mirrors(b, m)
  BY <1>1, <1>4, <1>5, <1>6, <1>7 DEF Mirrors
<1> QED
  BY <1>8 DEF m

----------------------------------------------------------------------------
(* The scale of the endgame.                                               *)

AllOf(b, t) == b.pieces["White"][t] \cup b.pieces["Black"][t]
OneOf(b, t) == \A p \in Players : Cardinality(b.pieces[p][t]) = 1

LEMMA AllMirror ==
  ASSUME NEW b, NEW m, Mirrors(b, m), NEW t \in PieceTypes
  PROVE  Flips(AllOf(b, t), AllOf(m, t)) /\ (OneOf(b, t) <=> OneOf(m, t))
<1>1. Flips(b.pieces["White"][t], m.pieces["Black"][t]) /\ Flips(b.pieces["Black"][t], m.pieces["White"][t])
  BY PiecesMirror DEF Players, nextPlayer
<1>2. Flips(b.pieces["White"][t] \cup b.pieces["Black"][t], m.pieces["Black"][t] \cup m.pieces["White"][t])
  BY <1>1, FlipsUnion
<1>3. m.pieces["Black"][t] \cup m.pieces["White"][t] = m.pieces["White"][t] \cup m.pieces["Black"][t]
  OBVIOUS
<1>4. /\ Cardinality(b.pieces["White"][t]) = Cardinality(m.pieces["Black"][t])
      /\ Cardinality(b.pieces["Black"][t]) = Cardinality(m.pieces["White"][t])
  BY <1>1, FlipsCount
<1>5. OneOf(b, t) <=> OneOf(m, t)
  BY <1>4 DEF OneOf, Players
<1> QED
  BY <1>2, <1>3, <1>5 DEF AllOf

LEMMA ColoursOfSquares ==
  ASSUME NEW s \in Squares
  PROVE  flipPosition(s) \in lightSquares <=> s \notin lightSquares
<1>1. flipPosition(s) \in Squares /\ Row(flipPosition(s)) = 7 - Row(s) /\ File(flipPosition(s)) = File(s)
  BY FlipIs
<1>2. Row(s) \in 0..7 /\ File(s) \in 0..7
  BY SquaresAre
<1>3. \A r, f \in 0..7 : (7 - r + f) % 2 = 1 <=> (r + f) % 2 # 1
  OBVIOUS
<1> QED
  BY <1>1, <1>2, <1>3 DEF lightSquares

\* One bishop a side: one of them on a light square, one on a dark one.
LEMMA BishopColours ==
  ASSUME NEW x \in Squares, NEW y \in Squares, x # y
  PROVE  Cardinality({x, y} \cap lightSquares) = 1 <=> (x \in lightSquares <=> y \notin lightSquares)
<1>1. CASE x \in lightSquares /\ y \in lightSquares
  <2>1. {x, y} \cap lightSquares = {x, y}
    BY <1>1
  <2>2. Cardinality({x, y}) # 1
    <3>1. IsFiniteSet({x, y})
      BY SquaresAreFinite
    <3>2. \A z : {x, y} # {z}
      OBVIOUS
    <3> DEFINE S == {x, y}
    <3>3. IsFiniteSet(S) /\ ~ \E z : S = {z}
      BY <3>1, <3>2
    <3> HIDE DEF S
    <3>4. Cardinality(S) # 1
      BY <3>3, FS_Singleton
    <3> QED
      BY <3>4 DEF S
  <2> QED
    BY <1>1, <2>1, <2>2
<1>2. CASE x \in lightSquares /\ y \notin lightSquares
  <2>1. {x, y} \cap lightSquares = {x}
    BY <1>2
  <2> QED
    BY <1>2, <2>1, FS_Singleton
<1>3. CASE x \notin lightSquares /\ y \in lightSquares
  <2>1. {x, y} \cap lightSquares = {y}
    BY <1>3
  <2> QED
    BY <1>3, <2>1, FS_Singleton
<1>4. CASE x \notin lightSquares /\ y \notin lightSquares
  <2>1. {x, y} \cap lightSquares = {}
    BY <1>4
  <2> QED
    BY <1>4, <2>1, FS_EmptySet
<1> QED
  BY <1>1, <1>2, <1>3, <1>4

SingleColorBishops(b) == OneOf(b, "Bishop") /\ Cardinality(AllOf(b, "Bishop") \cap lightSquares) = 1

LEMMA SingleColorBishopsMirror ==
  ASSUME NEW b, NEW m, Mirrors(b, m), PiecesStandApart(b)
  PROVE  SingleColorBishops(b) <=> SingleColorBishops(m)
<1>1. "Bishop" \in PieceTypes /\ "White" \in Players /\ "Black" \in Players
      /\ nextPlayer("White") = "Black" /\ nextPlayer("Black") = "White"
  BY PieceTypesAre DEF Players, nextPlayer
<1>2. OneOf(b, "Bishop") <=> OneOf(m, "Bishop")
  BY <1>1, AllMirror
<1> SUFFICES ASSUME OneOf(b, "Bishop")
             PROVE  Cardinality(AllOf(b, "Bishop") \cap lightSquares) = 1
                      <=> Cardinality(AllOf(m, "Bishop") \cap lightSquares) = 1
  BY <1>2 DEF SingleColorBishops
<1>3. /\ Flips(b.pieces["White"]["Bishop"], m.pieces["Black"]["Bishop"])
      /\ Flips(b.pieces["Black"]["Bishop"], m.pieces["White"]["Bishop"])
  BY <1>1, PiecesMirror
<1>4. /\ IsFiniteSet(b.pieces["White"]["Bishop"]) /\ Cardinality(b.pieces["White"]["Bishop"]) = 1
      /\ IsFiniteSet(b.pieces["Black"]["Bishop"]) /\ Cardinality(b.pieces["Black"]["Bishop"]) = 1
      /\ IsFiniteSet(m.pieces["White"]["Bishop"]) /\ Cardinality(m.pieces["White"]["Bishop"]) = 1
      /\ IsFiniteSet(m.pieces["Black"]["Bishop"]) /\ Cardinality(m.pieces["Black"]["Bishop"]) = 1
  BY <1>1, <1>2, <1>3, FlipsCount DEF OneOf
<1>5. PICK x : b.pieces["White"]["Bishop"] = {x}
  BY <1>4, FS_Singleton
<1>6. PICK y : b.pieces["Black"]["Bishop"] = {y}
  BY <1>4, FS_Singleton
<1>7. PICK u : m.pieces["White"]["Bishop"] = {u}
  BY <1>4, FS_Singleton
<1>8. PICK v : m.pieces["Black"]["Bishop"] = {v}
  BY <1>4, FS_Singleton
<1>9. x \in Squares /\ v = flipPosition(x) /\ v \in Squares
  <2>1. Flips({x}, {v})
    BY <1>3, <1>5, <1>8
  <2> QED
    BY <2>1 DEF Flips
<1>10. y \in Squares /\ u = flipPosition(y) /\ u \in Squares
  <2>1. Flips({y}, {u})
    BY <1>3, <1>6, <1>7
  <2> QED
    BY <2>1 DEF Flips
<1>11. x # y
  <2>1. <<"White", "Bishop">> # <<"Black", "Bishop">>
        /\ <<"White", "Bishop">> \in Players \X PieceTypes /\ <<"Black", "Bishop">> \in Players \X PieceTypes
    BY <1>1
  <2>2. b.pieces["White"]["Bishop"] \cap b.pieces["Black"]["Bishop"] = {}
    BY <2>1 DEF PiecesStandApart
  <2> QED
    BY <1>5, <1>6, <2>2
<1>12. u # v
  BY <1>9, <1>10, <1>11, FlipIs
<1>13. AllOf(b, "Bishop") = {x, y} /\ AllOf(m, "Bishop") = {u, v}
  BY <1>5, <1>6, <1>7, <1>8 DEF AllOf
<1>14. Cardinality({x, y} \cap lightSquares) = 1 <=> (x \in lightSquares <=> y \notin lightSquares)
  BY <1>9, <1>10, <1>11, BishopColours
<1>15. Cardinality({u, v} \cap lightSquares) = 1 <=> (u \in lightSquares <=> v \notin lightSquares)
  BY <1>9, <1>10, <1>12, BishopColours
<1>16. (u \in lightSquares <=> y \notin lightSquares) /\ (v \in lightSquares <=> x \notin lightSquares)
  BY <1>9, <1>10, ColoursOfSquares
<1> QED
  BY <1>13, <1>14, <1>15, <1>16

LEMMA ScaleFactorMirrors ==
  ASSUME NEW b, NEW m, Mirrors(b, m), PiecesStandApart(b), NEW p \in Players
  PROVE  computeEgScaleFactor(m, nextPlayer(p)) = computeEgScaleFactor(b, p)
<1> DEFINE o == nextPlayer(p)
           minors(c) == AllOf(c, "Knight") \cup AllOf(c, "Bishop")
           heavier(c) == minors(c) \cup AllOf(c, "Rook")
           pawns(c, q) == Cardinality(AllOf(c, "Pawn") \cap c.occupation[q])
           C1(c) == SingleColorBishops(c) /\ AllOf(c, "Rook") \cup AllOf(c, "Queen") = {} /\ OneOf(c, "Knight")
           C2(c) == SingleColorBishops(c) /\ AllOf(c, "Knight") \cup AllOf(c, "Queen") = {} /\ OneOf(c, "Rook")
           C3(c) == SingleColorBishops(c) /\ AllOf(c, "Knight") \cup AllOf(c, "Rook") \cup AllOf(c, "Queen") = {}
           C4(c, q) == /\ Cardinality(AllOf(c, "Queen")) = 1
                       /\ Cardinality(heavier(c)) > 1
                       /\ heavier(c) \subseteq c.occupation[nextPlayer(q)]
           C5(c, q) == minors(c) \cap c.occupation[q] # {} /\ Cardinality(c.occupation[q]) = 2
           C6(c, q) == /\ AllOf(c, "Queen") = {}
                       /\ \A x \in Players : Cardinality(heavier(c) \cap c.occupation[x]) < 2
                       /\ pawns(c, q) - pawns(c, nextPlayer(q)) > 2
           Value(n) == Min({ScaleFactor.Normal, ScaleFactor.BaseScale + n * ScaleFactor.PawnBonus})
           Scale(c, q) == CASE C1(c) -> ScaleFactor.ScbOneKnight
                            [] C2(c) -> ScaleFactor.ScbOneRook
                            [] C3(c) -> ScaleFactor.ScbBishopsOnly
                            [] OTHER ->
                               IF C4(c, q) THEN ScaleFactor.LoneQueen
                               ELSE IF C5(c, q) THEN ScaleFactor.Draw
                               ELSE IF C6(c, q) THEN ScaleFactor.LargePawnAdv
                               ELSE Value(pawns(c, q))
<1>1. computeEgScaleFactor(b, p) = Scale(b, p) /\ computeEgScaleFactor(m, o) = Scale(m, o)
  BY Zenon DEF computeEgScaleFactor, SingleColorBishops, AllOf, OneOf
<1>2. o \in Players /\ nextPlayer(o) = p /\ {"Pawn", "Knight", "Bishop", "Rook", "Queen"} \subseteq PieceTypes
  BY PlayersAre, PieceTypesAre
<1>3. \A t \in {"Pawn", "Knight", "Bishop", "Rook", "Queen"} :
        Flips(AllOf(b, t), AllOf(m, t)) /\ (OneOf(b, t) <=> OneOf(m, t))
  BY <1>2, AllMirror
<1>4. SingleColorBishops(b) <=> SingleColorBishops(m)
  BY SingleColorBishopsMirror
<1>5. Flips(minors(b), minors(m))
  BY <1>3, FlipsUnion
<1> HIDE DEF minors
<1>6. Flips(heavier(b), heavier(m))
  BY <1>3, <1>5, FlipsUnion
<1> HIDE DEF heavier
<1>7. \A q \in Players : Flips(b.occupation[q], m.occupation[nextPlayer(q)])
  BY DEF Mirrors
<1>8. \A q \in Players : pawns(m, nextPlayer(q)) = pawns(b, q)
  BY <1>3, <1>7, FlipsMeet, FlipsCount
<1> HIDE DEF pawns
<1>9. C1(b) <=> C1(m)
  <2>1. Flips(AllOf(b, "Rook") \cup AllOf(b, "Queen"), AllOf(m, "Rook") \cup AllOf(m, "Queen"))
    BY <1>3, FlipsUnion
  <2>2. AllOf(b, "Rook") \cup AllOf(b, "Queen") = {} <=> AllOf(m, "Rook") \cup AllOf(m, "Queen") = {}
    BY <2>1, FlipsEmpty
  <2> QED
    BY <1>3, <1>4, <2>2
<1>10. C2(b) <=> C2(m)
  <2>1. Flips(AllOf(b, "Knight") \cup AllOf(b, "Queen"), AllOf(m, "Knight") \cup AllOf(m, "Queen"))
    BY <1>3, FlipsUnion
  <2>2. AllOf(b, "Knight") \cup AllOf(b, "Queen") = {} <=> AllOf(m, "Knight") \cup AllOf(m, "Queen") = {}
    BY <2>1, FlipsEmpty
  <2> QED
    BY <1>3, <1>4, <2>2
<1>11. C3(b) <=> C3(m)
  <2>1. Flips(AllOf(b, "Knight") \cup AllOf(b, "Rook"), AllOf(m, "Knight") \cup AllOf(m, "Rook"))
    BY <1>3, FlipsUnion
  <2>2. Flips(AllOf(b, "Knight") \cup AllOf(b, "Rook") \cup AllOf(b, "Queen"),
              AllOf(m, "Knight") \cup AllOf(m, "Rook") \cup AllOf(m, "Queen"))
    BY <1>3, <2>1, FlipsUnion
  <2>3. AllOf(b, "Knight") \cup AllOf(b, "Rook") \cup AllOf(b, "Queen") = {}
          <=> AllOf(m, "Knight") \cup AllOf(m, "Rook") \cup AllOf(m, "Queen") = {}
    BY <2>2, FlipsEmpty
  <2> QED
    BY <1>4, <2>3
<1>12. C4(b, p) <=> C4(m, o)
  <2>1. Flips(b.occupation[o], m.occupation[p])
    BY <1>2, <1>7
  <2>2. Flips(heavier(b) \ b.occupation[o], heavier(m) \ m.occupation[p])
    BY <1>6, <2>1, FlipsLess
  <2>3. heavier(b) \ b.occupation[o] = {} <=> heavier(m) \ m.occupation[p] = {}
    BY <2>2, FlipsEmpty
  <2>4. heavier(b) \subseteq b.occupation[o] <=> heavier(m) \subseteq m.occupation[p]
    BY <2>3
  <2>5. Cardinality(AllOf(b, "Queen")) = Cardinality(AllOf(m, "Queen"))
    BY <1>3, FlipsCount
  <2>6. Cardinality(heavier(b)) = Cardinality(heavier(m))
    BY <1>6, FlipsCount
  <2> QED
    BY <1>2, <2>4, <2>5, <2>6
<1>13. C5(b, p) <=> C5(m, o)
  <2>1. Flips(b.occupation[p], m.occupation[o])
    BY <1>7
  <2>2. Flips(minors(b) \cap b.occupation[p], minors(m) \cap m.occupation[o])
    BY <1>5, <2>1, FlipsMeet
  <2>3. minors(b) \cap b.occupation[p] = {} <=> minors(m) \cap m.occupation[o] = {}
    BY <2>2, FlipsEmpty
  <2>4. Cardinality(b.occupation[p]) = Cardinality(m.occupation[o])
    BY <2>1, FlipsCount
  <2> QED
    BY <2>3, <2>4
<1>14. C6(b, p) <=> C6(m, o)
  <2>1. AllOf(b, "Queen") = {} <=> AllOf(m, "Queen") = {}
    BY <1>3, FlipsEmpty
  <2>2. \A x \in Players : Cardinality(heavier(b) \cap b.occupation[x])
                             = Cardinality(heavier(m) \cap m.occupation[nextPlayer(x)])
    BY <1>6, <1>7, FlipsMeet, FlipsCount
  <2>3. \A x \in Players : nextPlayer(x) \in Players /\ nextPlayer(nextPlayer(x)) = x
    BY PlayersAre
  <2>4. (\A x \in Players : Cardinality(heavier(b) \cap b.occupation[x]) < 2)
          <=> (\A x \in Players : Cardinality(heavier(m) \cap m.occupation[x]) < 2)
    BY <2>2, <2>3
  <2>5. pawns(m, o) = pawns(b, p) /\ pawns(m, p) = pawns(b, o)
    BY <1>2, <1>8
  <2> QED
    BY <1>2, <2>1, <2>4, <2>5
<1>15. Value(pawns(b, p)) = Value(pawns(m, o))
  BY <1>8
<1> HIDE DEF C1, C2, C3, C4, C5, C6, Value
<1>16. Scale(b, p) = Scale(m, o)
  BY <1>9, <1>10, <1>11, <1>12, <1>13, <1>14, <1>15
<1> HIDE DEF Scale
<1> QED
  BY <1>1, <1>16

\* The evaluation of a position is that of its mirror image.
LEMMA EvaluationMirrors ==
  ASSUME board \in Boards, IsFresh(board), OneKingEach(board), PiecesStandApart(board), KingPawnCacheIsFresh
  PROVE  EvaluationIsColourBlind
<1> DEFINE m == Mirror(board)
<1>1. Mirrors(board, m)
  BY MirrorIsOne
<1>2. CacheIsRight(board, kpCache) /\ CacheIsRight(m, KingPawnEntry(m))
  BY FreshCacheIsRight, EntryIsRight DEF KingPawnCacheIsFresh
<1> HIDE DEF m
<1>3. ASSUME NEW p \in Players
      PROVE  /\ get(m, KingPawnEntry(m), nextPlayer(p)) = Flipped(get(board, kpCache, p))
             /\ computeEgScaleFactor(m, nextPlayer(p)) = computeEgScaleFactor(board, p)
  BY <1>1, <1>2, GetMirrors, ScaleFactorMirrors
<1>4. \A terms : Flipped(terms) = {<<t[1], t[2], t[3], IF t[4] = NoPosition THEN t[4] ELSE flipPosition(t[4])>> : t \in terms}
  BY DEF Flipped, FlipAt
<1> QED
  BY <1>3, <1>4, Zenon DEF EvaluationIsColourBlind, m

----------------------------------------------------------------------------
(* How many squares a piece reaches.                                       *)

LEMMA Counts ==
  ASSUME NEW A, A \subseteq Squares
  PROVE  IsFiniteSet(A) /\ Cardinality(A) \in Nat
BY SquaresAreFinite, FS_CardinalityType

LEMMA CountsGrow ==
  ASSUME NEW B, B \subseteq Squares, NEW A, A \subseteq B
  PROVE  Cardinality(A) \in Nat /\ Cardinality(B) \in Nat /\ Cardinality(A) =< Cardinality(B)
<1>1. IsFiniteSet(B) /\ Cardinality(B) \in Nat /\ Cardinality(A) \in Nat
  BY Counts
<1> QED
  BY <1>1, FS_Subset

LEMMA CountsAdd ==
  ASSUME NEW A, A \subseteq Squares, NEW B, B \subseteq Squares, NEW n \in Nat, NEW k \in Nat,
         Cardinality(A) =< n, Cardinality(B) =< k
  PROVE  A \cup B \subseteq Squares /\ Cardinality(A \cup B) =< n + k
<1>1. /\ IsFiniteSet(A) /\ Cardinality(A) \in Nat /\ IsFiniteSet(B) /\ Cardinality(B) \in Nat
      /\ Cardinality(A \cap B) \in Nat /\ Cardinality(A \cup B) \in Nat
  BY Counts
<1>2. Cardinality(A \cup B) = Cardinality(A) + Cardinality(B) - Cardinality(A \cap B)
  BY <1>1, FS_Union
<1> HIDE DEF Cardinality
<1> QED
  BY <1>1, <1>2

LEMMA CountsAddUp ==
  ASSUME NEW A, A \subseteq Squares, NEW B, B \subseteq Squares, NEW C, C \subseteq Squares, NEW D, D \subseteq Squares,
         NEW k \in Nat, NEW l \in Nat, NEW m \in Nat, NEW n \in Nat,
         Cardinality(A) =< k, Cardinality(B) =< l, Cardinality(C) =< m, Cardinality(D) =< n
  PROVE  Cardinality((A \cup B) \cup (C \cup D)) =< (k + l) + (m + n)
<1> DEFINE X == A \cup B
           Y == C \cup D
<1>1. X \subseteq Squares /\ Cardinality(X) =< k + l
  BY CountsAdd
<1>2. Y \subseteq Squares /\ Cardinality(Y) =< m + n
  BY CountsAdd
<1>3. k + l \in Nat /\ m + n \in Nat
  OBVIOUS
<1> HIDE DEF X, Y
<1>4. Cardinality(X \cup Y) =< (k + l) + (m + n)
  BY <1>1, <1>2, <1>3, CountsAdd
<1> QED
  BY <1>4 DEF X, Y

\* What a piece sees along a ray.
Seen(d, s, occ) == {t \in Squares : Sees(d, s, occ, t)}

LEMMA SeenCount ==
  ASSUME NEW d \in Directions, NEW s \in Squares, NEW occ
  PROVE  Seen(d, s, occ) \subseteq Squares /\ Cardinality(Seen(d, s, occ)) =< Len(Rays[d][s])
<1> DEFINE ray == Rays[d][s]
           n == Len(ray)
<1>1. n \in 0..7
  BY RaysAre
<1>2. Seen(d, s, occ) \subseteq {ray[k] : k \in 1..n}
  BY DEF Seen, Sees
<1>3. IsFiniteSet(1..n) /\ Cardinality(1..n) = n
  <2>1. 1 \in Int /\ n \in Int
    BY <1>1
  <2>2. IsFiniteSet(1..n) /\ Cardinality(1..n) = IF 1 > n THEN 0 ELSE n - 1 + 1
    BY <2>1, FS_Interval, Zenon
  <2> HIDE DEF n
  <2> QED
    BY <1>1, <2>2
<1> HIDE DEF n, ray
<1>4. Cardinality(Seen(d, s, occ)) =< Cardinality(1..n)
  BY <1>2, <1>3, ImageCount
<1> QED
  BY <1>3, <1>4 DEF Seen, n, ray

\* A ray ends at the edge of the board.
LEMMA RayLengths ==
  ASSUME NEW s \in Squares
  PROVE  LET N(x, y) == Len(Rays[<<x, y>>][s])
             r == Row(s)
             f == File(s)
         IN /\ N(1, 0) =< 7 - r /\ N(-1, 0) =< r /\ N(0, 1) =< 7 - f /\ N(0, -1) =< f
            /\ N(1, 1) =< 7 - r /\ N(1, 1) =< 7 - f /\ N(-1, 1) =< r /\ N(-1, 1) =< 7 - f
            /\ N(1, -1) =< 7 - r /\ N(1, -1) =< f /\ N(-1, -1) =< r /\ N(-1, -1) =< f
<1>1. Row(s) \in 0..7 /\ File(s) \in 0..7
  BY SquaresAre
<1>2. ASSUME NEW d \in Directions
      PROVE  LET n == Len(Rays[d][s])
             IN n = 0 \/ (n \in 1..7 /\ Row(s) + n * d[1] \in 0..7 /\ File(s) + n * d[2] \in 0..7)
  <2> DEFINE n == Len(Rays[d][s])
  <2>1. n \in 0..7 /\ \A k \in 1..7 : k \in 1..n <=> OnRay(d, s, k)
    BY RaysAre
  <2> HIDE DEF n
  <2>2. n = 0 \/ (n \in 1..7 /\ OnRay(d, s, n))
    BY <2>1
  <2> QED
    BY <2>2 DEF OnRay, n
<1>3. ASSUME NEW x \in {-1, 0, 1}, NEW y \in {-1, 0, 1}, <<x, y>> \in Directions
      PROVE  LET n == Len(Rays[<<x, y>>][s])
             IN /\ n \in 0..7
                /\ x = 1 => n =< 7 - Row(s)
                /\ x = -1 => n =< Row(s)
                /\ y = 1 => n =< 7 - File(s)
                /\ y = -1 => n =< File(s)
  <2> DEFINE n == Len(Rays[<<x, y>>][s])
  <2>1. n = 0 \/ (n \in 1..7 /\ Row(s) + n * x \in 0..7 /\ File(s) + n * y \in 0..7)
    BY <1>2, <1>3
  <2> HIDE DEF n
  <2>2. n \in 0..7
    BY <2>1
  <2>3. /\ x = 1 => n =< 7 - Row(s)
        /\ x = -1 => n =< Row(s)
    <3>1. n = 0 \/ Row(s) + n * x \in 0..7
      BY <2>1
    <3>2. CASE x = 1
      BY <1>1, <2>2, <3>1, <3>2
    <3>3. CASE x = -1
      BY <1>1, <2>2, <3>1, <3>3
    <3> QED
      BY <3>2, <3>3
  <2>4. /\ y = 1 => n =< 7 - File(s)
        /\ y = -1 => n =< File(s)
    <3>1. n = 0 \/ File(s) + n * y \in 0..7
      BY <2>1
    <3>2. CASE y = 1
      BY <1>1, <2>2, <3>1, <3>2
    <3>3. CASE y = -1
      BY <1>1, <2>2, <3>1, <3>3
    <3> QED
      BY <3>2, <3>3
  <2> QED
    BY <2>2, <2>3, <2>4 DEF n
<1>4. /\ <<1, 0>> \in Directions /\ <<-1, 0>> \in Directions /\ <<0, 1>> \in Directions /\ <<0, -1>> \in Directions
      /\ <<1, 1>> \in Directions /\ <<-1, 1>> \in Directions /\ <<1, -1>> \in Directions /\ <<-1, -1>> \in Directions
  BY DEF Directions, bishopDirections, rookDirections
<1> QED
  BY <1>3, <1>4

LEMMA SlidersCount ==
  ASSUME NEW s \in Squares, NEW occ
  PROVE  /\ getRookMoves(s, occ) \subseteq Squares /\ Cardinality(getRookMoves(s, occ)) =< 14
         /\ getBishopMoves(s, occ) \subseteq Squares /\ Cardinality(getBishopMoves(s, occ)) =< 13
<1> DEFINE S(x, y) == Seen(<<x, y>>, s, occ)
           N(x, y) == Len(Rays[<<x, y>>][s])
           r == Row(s)
           f == File(s)
<1>1. /\ <<1, 0>> \in Directions /\ <<-1, 0>> \in Directions /\ <<0, 1>> \in Directions /\ <<0, -1>> \in Directions
      /\ <<1, 1>> \in Directions /\ <<-1, 1>> \in Directions /\ <<1, -1>> \in Directions /\ <<-1, -1>> \in Directions
  BY DEF Directions, bishopDirections, rookDirections
<1>20. \A d \in Directions : /\ Seen(d, s, occ) \subseteq Squares
                             /\ Cardinality(Seen(d, s, occ)) =< Len(Rays[d][s]) /\ Len(Rays[d][s]) \in Nat
  <2> TAKE d \in Directions
  <2>1. Len(Rays[d][s]) \in 0..7
    BY RaysAre
  <2> QED
    BY <2>1, SeenCount
<1>2. /\ S(1, 0) \subseteq Squares /\ Cardinality(S(1, 0)) =< N(1, 0) /\ N(1, 0) \in Nat
      /\ S(-1, 0) \subseteq Squares /\ Cardinality(S(-1, 0)) =< N(-1, 0) /\ N(-1, 0) \in Nat
      /\ S(0, 1) \subseteq Squares /\ Cardinality(S(0, 1)) =< N(0, 1) /\ N(0, 1) \in Nat
      /\ S(0, -1) \subseteq Squares /\ Cardinality(S(0, -1)) =< N(0, -1) /\ N(0, -1) \in Nat
  BY <1>1, <1>20
<1>3. /\ S(1, 1) \subseteq Squares /\ Cardinality(S(1, 1)) =< N(1, 1) /\ N(1, 1) \in Nat
      /\ S(-1, 1) \subseteq Squares /\ Cardinality(S(-1, 1)) =< N(-1, 1) /\ N(-1, 1) \in Nat
      /\ S(1, -1) \subseteq Squares /\ Cardinality(S(1, -1)) =< N(1, -1) /\ N(1, -1) \in Nat
      /\ S(-1, -1) \subseteq Squares /\ Cardinality(S(-1, -1)) =< N(-1, -1) /\ N(-1, -1) \in Nat
  BY <1>1, <1>20
<1>4. r \in 0..7 /\ f \in 0..7
  BY SquaresAre
<1>5. /\ N(1, 0) =< 7 - r /\ N(-1, 0) =< r /\ N(0, 1) =< 7 - f /\ N(0, -1) =< f
      /\ N(1, 1) =< 7 - r /\ N(1, 1) =< 7 - f /\ N(-1, 1) =< r /\ N(-1, 1) =< 7 - f
      /\ N(1, -1) =< 7 - r /\ N(1, -1) =< f /\ N(-1, -1) =< r /\ N(-1, -1) =< f
  BY RayLengths
<1>6. getRookMoves(s, occ) = (S(1, 0) \cup S(-1, 0)) \cup (S(0, 1) \cup S(0, -1))
  <2>1. \A t \in Squares : (\E d \in rookDirections : Sees(d, s, occ, t))
          <=> \/ Sees(<<1, 0>>, s, occ, t) \/ Sees(<<-1, 0>>, s, occ, t)
              \/ Sees(<<0, 1>>, s, occ, t) \/ Sees(<<0, -1>>, s, occ, t)
    BY DEF rookDirections
  <2> QED
    BY <2>1, RaysSee, SlidersStayOn DEF Seen
<1>7. getBishopMoves(s, occ) = (S(1, 1) \cup S(-1, 1)) \cup (S(1, -1) \cup S(-1, -1))
  <2>1. \A t \in Squares : (\E d \in bishopDirections : Sees(d, s, occ, t))
          <=> \/ Sees(<<1, 1>>, s, occ, t) \/ Sees(<<-1, 1>>, s, occ, t)
              \/ Sees(<<1, -1>>, s, occ, t) \/ Sees(<<-1, -1>>, s, occ, t)
    BY DEF bishopDirections
  <2> QED
    BY <2>1, RaysSee, SlidersStayOn DEF Seen
<1> HIDE DEF S, N, r, f
<1>8. Cardinality((S(1, 0) \cup S(-1, 0)) \cup (S(0, 1) \cup S(0, -1))) =< (N(1, 0) + N(-1, 0)) + (N(0, 1) + N(0, -1))
  BY <1>2, CountsAddUp
<1>9. Cardinality((S(1, 1) \cup S(-1, 1)) \cup (S(1, -1) \cup S(-1, -1))) =< (N(1, 1) + N(-1, 1)) + (N(1, -1) + N(-1, -1))
  BY <1>3, CountsAddUp
<1>10. getRookMoves(s, occ) \subseteq Squares /\ getBishopMoves(s, occ) \subseteq Squares
  BY SlidersStayOn
<1>11. Cardinality(getRookMoves(s, occ)) \in Nat /\ Cardinality(getBishopMoves(s, occ)) \in Nat
  BY <1>10, Counts
<1>12. (N(1, 0) + N(-1, 0)) + (N(0, 1) + N(0, -1)) =< 14
  BY <1>2, <1>4, <1>5
<1>13. (N(1, 1) + N(-1, 1)) + (N(1, -1) + N(-1, -1)) =< 13
  BY <1>3, <1>4, <1>5
<1>14. Cardinality(getRookMoves(s, occ)) =< 14
  BY <1>2, <1>6, <1>8, <1>11, <1>12
<1>15. Cardinality(getBishopMoves(s, occ)) =< 13
  BY <1>3, <1>7, <1>9, <1>11, <1>13
<1> QED
  BY <1>10, <1>14, <1>15

LEMMA MovesCount ==
  ASSUME NEW b, NEW p, NEW s \in Squares, NEW A
  PROVE  /\ A \subseteq Moves(b, p, "Knight", s) => Cardinality(A) \in 0..8
         /\ A \subseteq Moves(b, p, "Bishop", s) => Cardinality(A) \in 0..13
         /\ A \subseteq Moves(b, p, "Rook", s) => Cardinality(A) \in 0..14
         /\ A \subseteq Moves(b, p, "Queen", s) => Cardinality(A) \in 0..27
         /\ A \subseteq Sliders(b, s) => Cardinality(A) \in 0..27
<1>1. knightsTable[s] \subseteq Squares /\ Cardinality(knightsTable[s]) =< 8
  <2> DEFINE o == << <<-2, -1>>, <<-2, 1>>, <<2, -1>>, <<2, 1>>, <<-1, -2>>, <<-1, 2>>, <<1, -2>>, <<1, 2>> >>
             f == [n \in 1..8 |-> At(Row(s) + o[n][1], File(s) + o[n][2])]
  <2>1. knightsOffset = {o[n] : n \in 1..8}
    BY DEF knightsOffset
  <2>2. knightsTable[s] = UNION {Step(s, x) : x \in knightsOffset}
    BY DEF knightsTable
  <2> HIDE DEF o
  <2>3. knightsTable[s] \subseteq {f[n] : n \in 1..8}
    <3> SUFFICES ASSUME NEW t \in knightsTable[s] PROVE t \in {f[n] : n \in 1..8}
      OBVIOUS
    <3>1. PICK n \in 1..8 : t \in Step(s, o[n])
      BY <2>1, <2>2
    <3>2. t = f[n]
      BY <3>1 DEF Step
    <3> QED
      BY <3>2
  <2>4. IsFiniteSet(1..8) /\ Cardinality(1..8) = 8
    <3>1. 1 \in Int /\ 8 \in Int
      OBVIOUS
    <3>2. IsFiniteSet(1..8) /\ Cardinality(1..8) = IF 1 > 8 THEN 0 ELSE 8 - 1 + 1
      BY <3>1, FS_Interval, Zenon
    <3> QED
      BY <3>2
  <2> HIDE DEF f
  <2>5. Cardinality(knightsTable[s]) =< Cardinality(1..8)
    BY <2>3, <2>4, ImageCount
  <2> QED
    BY <2>4, <2>5, LeapersStayOn
<1>2. /\ getRookMoves(s, both(b)) \subseteq Squares /\ Cardinality(getRookMoves(s, both(b))) =< 14
      /\ getBishopMoves(s, both(b)) \subseteq Squares /\ Cardinality(getBishopMoves(s, both(b))) =< 13
  BY SlidersCount
<1>3. Sliders(b, s) \subseteq Squares /\ Cardinality(Sliders(b, s)) =< 27
  <2>1. 13 \in Nat /\ 14 \in Nat
    OBVIOUS
  <2>2. Sliders(b, s) = getBishopMoves(s, both(b)) \cup getRookMoves(s, both(b))
    BY DEF Sliders
  <2> DEFINE Term1 == getBishopMoves(s, both(b))
             Term2 == getRookMoves(s, both(b))
  <2> HIDE DEF Term1, Term2
  <2>3. Term1 \cup Term2 \subseteq Squares /\ Cardinality(Term1 \cup Term2) =< 13 + 14
    BY <1>2, <2>1, CountsAdd DEF Term1, Term2
  <2> QED
    BY <2>2, <2>3 DEF Term1, Term2
<1>4. \A B, n : n \in Nat /\ B \subseteq Squares /\ Cardinality(B) =< n /\ A \subseteq B => Cardinality(A) \in 0..n
  <2> SUFFICES ASSUME NEW B, NEW n \in Nat, B \subseteq Squares, Cardinality(B) =< n, A \subseteq B
               PROVE  Cardinality(A) \in 0..n
    OBVIOUS
  <2>1. Cardinality(A) \in Nat /\ Cardinality(B) \in Nat /\ Cardinality(A) =< Cardinality(B)
    BY CountsGrow
  <2> QED
    BY <2>1
<1>5. ASSUME A \subseteq Moves(b, p, "Knight", s) PROVE Cardinality(A) \in 0..8
  <2>1. A \subseteq knightsTable[s]
    BY <1>5 DEF Moves
  <2> QED
    BY <1>1, <1>4, <2>1
<1>6. ASSUME A \subseteq Moves(b, p, "Bishop", s) PROVE Cardinality(A) \in 0..13
  <2>1. A \subseteq getBishopMoves(s, both(b))
    BY <1>6 DEF Moves
  <2> QED
    BY <1>2, <1>4, <2>1
<1>7. ASSUME A \subseteq Moves(b, p, "Rook", s) PROVE Cardinality(A) \in 0..14
  <2>1. A \subseteq getRookMoves(s, both(b))
    BY <1>7 DEF Moves
  <2> QED
    BY <1>2, <1>4, <2>1
<1>8. ASSUME A \subseteq Moves(b, p, "Queen", s) PROVE Cardinality(A) \in 0..27
  <2>1. A \subseteq Sliders(b, s)
    BY <1>8 DEF Moves
  <2> QED
    BY <1>3, <1>4, <2>1
<1>9. ASSUME A \subseteq Sliders(b, s) PROVE Cardinality(A) \in 0..27
  BY <1>3, <1>4, <1>9
<1> QED
  BY <1>5, <1>6, <1>7, <1>8, <1>9

----------------------------------------------------------------------------
(* The tables are as large as the terms need.                              *)

LEMMA ScalarTables ==
  \A t \in {"tempoScore", "doublePawnPenalty", "isolatedPawnPenalty", "pawnPhalanxScore",
            "pawnSquareRuleBonus", "rookOpenFileBonus", "rookSemiOpenFileBonus", "rook7thRankBonus",
            "queenOpenFileBonus", "queenSemiOpenFileBonus", "knightShelterBonus", "bishopShelterBonus",
            "bishopLongDiagScore", "queenDiscoveredAttackScore", "kingAttackPawn", "bishopPairScore"} :
    TermSize[t] = 1
BY DEF TermSize

LEMMA RowTables ==
  \A t \in {"protectedPawnScore", "passedPawnBonus", "freePassedPawnBonus", "protectedPassedPawnBonus",
            "passersOurKingDistance", "passersTheirKingDistance", "passerCandidateDefended",
            "passerCandidateUndefended"} :
    TermSize[t] = 8
BY DEF TermSize

LEMMA PieceTables ==
  \A t \in {"pawnAttacks", "knightAttacks", "bishopAttacks", "rookAttacks", "queenAttacks", "safeChecks",
            "unsafeChecks"} :
    TermSize[t] = 5
BY DEF TermSize

LEMMA SquareTables ==
  \A t \in {"psqtPawns", "psqtKnights", "psqtBishops", "psqtRooks", "psqtQueens", "psqtKings"} : TermSize[t] = 64
BY DEF TermSize

LEMMA OtherTables ==
  /\ TermSize["pieceValues"] = 6 /\ TermSize["pawnShieldBonus"] = 3 /\ TermSize["pawnStormScore"] = 3
  /\ TermSize["knightMobilityScore"] = 9 /\ TermSize["knightOutpostScore"] = 4
  /\ TermSize["bishopMobilityScore"] = 14 /\ TermSize["bishopOutpostScore"] = 4 /\ TermSize["badBishopScore"] = 9
  /\ TermSize["rookMobilityScore"] = 15 /\ TermSize["queenMobilityScore"] = 28
  /\ TermSize["kingVirtualMobilityScore"] = 28 /\ TermSize["kingZone"] = 15 /\ TermSize["pawnPushThreats"] = 6
BY DEF TermSize

\* Terms that exist.
Held(terms) == \A t \in terms : t[2] \in 0..(TermSize[t[1]] - 1)

LEMMA HeldUnion ==
  ASSUME NEW X, NEW Y, Held(X), Held(Y)
  PROVE  Held(X \cup Y)
BY DEF Held

LEMMA HeldUnions ==
  ASSUME NEW X, \A x \in X : Held(x)
  PROVE  Held(UNION X)
BY DEF Held

LEMMA HeldEmpty == Held({})
BY DEF Held

LEMMA HeldTerm ==
  ASSUME NEW table, NEW i, i \in 0..(TermSize[table] - 1), NEW n, NEW s
  PROVE  /\ Held(ADD_SCORE_MULTI_INDEXED(table, n, i, s))
         /\ Held(ADD_SCORE_INDEXED(table, i, s))
<1>1. \A k, w : Held({<<table, i, k, w>>})
  BY DEF Held
<1> QED
  BY <1>1 DEF ADD_SCORE_MULTI_INDEXED, ADD_SCORE_INDEXED

LEMMA HeldScalar ==
  ASSUME NEW table, TermSize[table] = 1, NEW s
  PROVE  Held(ADD_SCORE(table, s))
<1>1. 0 \in 0..(TermSize[table] - 1)
  OBVIOUS
<1> QED
  BY <1>1, HeldTerm DEF ADD_SCORE

LEMMA LargerAndSmaller ==
  ASSUME NEW x \in Int, NEW y \in Int
  PROVE  /\ Max({x, y}) = (IF x >= y THEN x ELSE y)
         /\ Min({x, y}) = (IF x =< y THEN x ELSE y)
BY DEF Max, Min

LEMMA DistancesAre ==
  ASSUME NEW s \in Squares, NEW t \in Squares
  PROVE  /\ absoluteDistance(s, t) \in 0..7
         /\ Row(s) # Row(t) => ShieldIndex(s, t) \in 0..2
<1>1. Row(s) \in 0..7 /\ Row(t) \in 0..7 /\ File(s) \in 0..7 /\ File(t) \in 0..7
  BY SquaresAre
<1>2. ASSUME NEW x \in 0..7, NEW y \in 0..7
      PROVE  Distance(x, y) \in 0..7 /\ (x # y => Distance(x, y) \in 1..7)
  <2>1. x - y \in Int /\ y - x \in Int
    OBVIOUS
  <2>2. Distance(x, y) = IF x - y >= y - x THEN x - y ELSE y - x
    BY <2>1, LargerAndSmaller DEF Distance
  <2> QED
    BY <2>2
<1>3. absoluteDistance(s, t) \in 0..7
  <2> DEFINE d == Distance(Row(s), Row(t))
             e == Distance(File(s), File(t))
  <2>1. d \in 0..7 /\ e \in 0..7
    BY <1>1, <1>2
  <2>2. absoluteDistance(s, t) = Max({d, e})
    BY DEF absoluteDistance
  <2> HIDE DEF d, e
  <2>3. Max({d, e}) = IF d >= e THEN d ELSE e
    BY <2>1, LargerAndSmaller
  <2> QED
    BY <2>1, <2>2, <2>3
<1>4. ASSUME Row(s) # Row(t) PROVE ShieldIndex(s, t) \in 0..2
  <2> DEFINE d == Distance(Row(s), Row(t))
  <2>1. d \in 1..7
    BY <1>1, <1>2, <1>4
  <2>2. ShieldIndex(s, t) = Min({d, 3}) - 1
    BY DEF ShieldIndex
  <2> HIDE DEF d
  <2>4. d \in Int /\ 3 \in Int
    BY <2>1
  <2>3. Min({d, 3}) = IF d =< 3 THEN d ELSE 3
    BY <2>4, LargerAndSmaller, Zenon
  <2> QED
    BY <2>1, <2>2, <2>3
<1> QED
  BY <1>3, <1>4

LEMMA TypesAreNumbered ==
  /\ \A t \in PieceTypes : TypeIndex(t) \in 0..5
  /\ \A t \in {"Pawn", "Knight", "Bishop", "Rook", "Queen"} : TypeIndex(t) \in 0..4
<1>1. /\ PieceOrder[1] = "Pawn" /\ PieceOrder[2] = "Knight" /\ PieceOrder[3] = "Bishop"
      /\ PieceOrder[4] = "Rook" /\ PieceOrder[5] = "Queen" /\ PieceOrder[6] = "King"
  BY DEF PieceOrder
<1>2. \A i \in 1..6 : i = 1 \/ i = 2 \/ i = 3 \/ i = 4 \/ i = 5 \/ i = 6
  OBVIOUS
<1>3. ASSUME NEW t \in PieceTypes
      PROVE  TypeIndex(t) + 1 \in 1..6 /\ PieceOrder[TypeIndex(t) + 1] = t
  <2> DEFINE i == CHOOSE j \in 1..6 : PieceOrder[j] = t
  <2>1. \E j \in 1..6 : PieceOrder[j] = t
    BY DEF PieceTypes
  <2>2. i \in 1..6 /\ PieceOrder[i] = t
    BY <2>1
  <2>3. TypeIndex(t) = i - 1
    BY DEF TypeIndex
  <2> HIDE DEF i
  <2>4. TypeIndex(t) + 1 = i
    BY <2>2, <2>3
  <2> QED
    BY <2>2, <2>4
<1>4. \A t \in PieceTypes : TypeIndex(t) \in Int
  <2> TAKE t \in PieceTypes
  <2> DEFINE i == CHOOSE j \in 1..6 : PieceOrder[j] = t
  <2>1. \E j \in 1..6 : PieceOrder[j] = t
    BY DEF PieceTypes
  <2>2. i \in 1..6
    BY <2>1
  <2>3. TypeIndex(t) = i - 1
    BY DEF TypeIndex
  <2> HIDE DEF i
  <2> QED
    BY <2>2, <2>3
<1>5. \A t \in PieceTypes : TypeIndex(t) \in 0..5
  BY <1>3, <1>4
<1>6. ASSUME NEW t \in {"Pawn", "Knight", "Bishop", "Rook", "Queen"} PROVE TypeIndex(t) \in 0..4
  <2>1. t \in PieceTypes /\ t # "King"
    BY PieceTypesAre
  <2>2. TypeIndex(t) # 5
    BY <1>1, <1>3, <2>1
  <2> QED
    BY <1>5, <2>1, <2>2
<1> QED
  BY <1>5, <1>6

LEMMA RelativeSquares ==
  ASSUME NEW p \in Players, NEW s \in Squares
  PROVE  relativePosition(p, s) \in Squares /\ relativeRow(p, s) \in 0..7
BY FlipIs, RelativeRows DEF relativePosition

LEMMA PasserTermsHeld ==
  ASSUME NEW b, OneKingEach(b), NEW p \in Players, NEW s \in Squares
  PROVE  Held(PasserTerms(b, p, s)) /\ Held(CandidateTerms(b, p, s))
<1>1. relativeRow(p, s) \in 0..7
  BY RelativeSquares
<1>2. absoluteDistance(s, KingOf(b, p)) \in 0..7 /\ absoluteDistance(s, KingOf(b, nextPlayer(p))) \in 0..7
  BY PlayersAre, KingIs, DistancesAre
<1>3. \A t \in {"passedPawnBonus", "passersOurKingDistance", "passersTheirKingDistance", "passerCandidateDefended",
                "passerCandidateUndefended"} : 0..(TermSize[t] - 1) = 0..7
  BY RowTables
<1>4. Held(PasserTerms(b, p, s))
  <2> DEFINE A == ADD_SCORE_INDEXED("passedPawnBonus", relativeRow(p, s), s)
             B == ADD_SCORE_INDEXED("passersOurKingDistance", absoluteDistance(s, KingOf(b, p)), s)
             C == ADD_SCORE_INDEXED("passersTheirKingDistance", absoluteDistance(s, KingOf(b, nextPlayer(p))), s)
  <2>1. Held(A) /\ Held(B) /\ Held(C)
    BY <1>1, <1>2, <1>3, HeldTerm
  <2>2. PasserTerms(b, p, s) = A \cup B \cup C
    BY DEF PasserTerms
  <2> HIDE DEF A, B, C
  <2>3. Held(A \cup B \cup C)
    BY <2>1, HeldUnion
  <2> QED
    BY <2>2, <2>3
<1>5. Held(CandidateTerms(b, p, s))
  <2> DEFINE A == ADD_SCORE_INDEXED("passerCandidateDefended", relativeRow(p, s), s)
             B == ADD_SCORE_INDEXED("passerCandidateUndefended", relativeRow(p, s), s)
  <2>1. Held(A) /\ Held(B) /\ Held({})
    BY <1>1, <1>3, HeldTerm, HeldEmpty
  <2>2. CandidateTerms(b, p, s) = A \/ CandidateTerms(b, p, s) = B \/ CandidateTerms(b, p, s) = {}
    BY Zenon DEF CandidateTerms, When
  <2> HIDE DEF A, B
  <2> QED
    BY <2>1, <2>2
<1> QED
  BY <1>4, <1>5

LEMMA PawnTermsHeld ==
  ASSUME NEW b, OneKingEach(b), NEW p \in Players, NEW s \in Squares
  PROVE  Held(PawnTerms(b, p, s))
<1> DEFINE o == nextPlayer(p)
           king == KingOf(b, p)
           theirKing == KingOf(b, o)
           Term1 == ADD_SCORE_INDEXED("pieceValues", 0, s)
           Term2 == ADD_SCORE_INDEXED("psqtPawns", relativePosition(p, s), s)
           Term3 == When(Cardinality(b.pieces[p]["Pawn"] \cap FileMask[File(s)]) > 1, ADD_SCORE("doublePawnPenalty", s))
           Term4 == When(b.pieces[p]["Pawn"] \cap isolationMaskTable[s] = {}, ADD_SCORE("isolatedPawnPenalty", s))
           Term5 == When(s \in passedPawnMaskTable[p][king],
                      ADD_SCORE_INDEXED("pawnShieldBonus", ShieldIndex(king, s), s))
           Term6 == When(s \in passedPawnMaskTable[o][theirKing],
                      ADD_SCORE_INDEXED("pawnStormScore", ShieldIndex(theirKing, s), s))
           Term7 == When(s \in getPawnAttacks(b, p), ADD_SCORE_INDEXED("protectedPawnScore", relativeRow(p, s), s))
           Term8 == When(s \in moveLeft(b.pieces[p]["Pawn"]) \cup moveRight(b.pieces[p]["Pawn"]),
                      ADD_SCORE("pawnPhalanxScore", s))
           Term9 == IF Stoppers(b, p, s) = {} THEN PasserTerms(b, p, s) ELSE CandidateTerms(b, p, s)
<1>1. o \in Players /\ king \in Squares /\ theirKing \in Squares
  BY PlayersAre, KingIs
<1>2. relativePosition(p, s) \in 0..63 /\ relativeRow(p, s) \in 0..7
  BY RelativeSquares DEF Squares
<1>3. \A q \in Players, k \in Squares : s \in passedPawnMaskTable[q][k] => ShieldIndex(k, s) \in 0..2
  <2> TAKE q \in Players, k \in Squares
  <2>1. s \in passedPawnMaskTable[q][k] => Row(s) # Row(k)
    <3>1. Row(s) \in 0..7 /\ Row(k) \in 0..7
      BY SquaresAre
    <3> QED
      BY <3>1 DEF passedPawnMaskTable
  <2> QED
    BY <2>1, DistancesAre
<1>4. Held(Term1) /\ Held(Term2)
  <2>1. 0 \in 0..(TermSize["pieceValues"] - 1) /\ relativePosition(p, s) \in 0..(TermSize["psqtPawns"] - 1)
    BY <1>2, OtherTables, SquareTables
  <2> QED
    BY <2>1, HeldTerm
<1>5. Held(Term3) /\ Held(Term4) /\ Held(Term8)
  <2>1. Held(ADD_SCORE("doublePawnPenalty", s)) /\ Held(ADD_SCORE("isolatedPawnPenalty", s))
        /\ Held(ADD_SCORE("pawnPhalanxScore", s)) /\ Held({})
    BY ScalarTables, HeldScalar, HeldEmpty
  <2> QED
    BY <2>1, Zenon DEF When
<1>6. Held(Term5)
  <2>1. CASE s \in passedPawnMaskTable[p][king]
    <3>1. ShieldIndex(king, s) \in 0..(TermSize["pawnShieldBonus"] - 1)
      BY <1>1, <1>3, <2>1, OtherTables
    <3>2. Held(ADD_SCORE_INDEXED("pawnShieldBonus", ShieldIndex(king, s), s))
      BY <3>1, HeldTerm
    <3> QED
      BY <2>1, <3>2, Zenon DEF When
  <2>2. CASE s \notin passedPawnMaskTable[p][king]
    BY <2>2, HeldEmpty, Zenon DEF When
  <2> QED
    BY <2>1, <2>2
<1>7. Held(Term6)
  <2>1. CASE s \in passedPawnMaskTable[o][theirKing]
    <3>1. ShieldIndex(theirKing, s) \in 0..(TermSize["pawnStormScore"] - 1)
      BY <1>1, <1>3, <2>1, OtherTables
    <3>2. Held(ADD_SCORE_INDEXED("pawnStormScore", ShieldIndex(theirKing, s), s))
      BY <3>1, HeldTerm
    <3> QED
      BY <2>1, <3>2, Zenon DEF When
  <2>2. CASE s \notin passedPawnMaskTable[o][theirKing]
    BY <2>2, HeldEmpty, Zenon DEF When
  <2> QED
    BY <2>1, <2>2
<1>8. Held(Term7)
  <2>1. relativeRow(p, s) \in 0..(TermSize["protectedPawnScore"] - 1)
    BY <1>2, RowTables
  <2>2. Held(ADD_SCORE_INDEXED("protectedPawnScore", relativeRow(p, s), s))
    BY <2>1, HeldTerm
  <2> QED
    BY <2>2, HeldEmpty, Zenon DEF When
<1>9. Held(Term9)
  BY PasserTermsHeld
<1>10. PawnTerms(b, p, s) = Term1 \cup Term2 \cup Term3 \cup Term4 \cup Term5 \cup Term6 \cup Term7 \cup Term8 \cup Term9
  BY Zenon DEF PawnTerms
<1> HIDE DEF Term1, Term2, Term3, Term4, Term5, Term6, Term7, Term8, Term9
<1>11. Held(Term1 \cup Term2 \cup Term3 \cup Term4 \cup Term5 \cup Term6 \cup Term7 \cup Term8 \cup Term9)
  BY <1>4, <1>5, <1>6, <1>7, <1>8, <1>9 DEF Held
<1> QED
  BY <1>10, <1>11

LEMMA StaticKingPawnHeld ==
  ASSUME NEW b \in Boards, OneKingEach(b), NEW p \in Players
  PROVE  Held(getStaticKingPawnScore(b, p))
<1> DEFINE king == KingOf(b, p)
           A == ADD_SCORE_INDEXED("psqtKings", relativePosition(p, king), NoPosition)
           B == When(kingsTable[king] \cap b.pieces[nextPlayer(p)]["Pawn"] # {}, ADD_SCORE("kingAttackPawn", NoPosition))
           C == UNION {PawnTerms(b, p, s) : s \in b.pieces[p]["Pawn"]}
<1>1. relativePosition(p, king) \in 0..(TermSize["psqtKings"] - 1)
  <2>1. relativePosition(p, king) \in 0..63
    BY KingIs, RelativeSquares DEF Squares
  <2> QED
    BY <2>1, SquareTables
<1>2. Held(A)
  BY <1>1, HeldTerm
<1>3. Held(B)
  <2>1. Held(ADD_SCORE("kingAttackPawn", NoPosition)) /\ Held({})
    BY ScalarTables, HeldScalar, HeldEmpty
  <2> QED
    BY <2>1, Zenon DEF When
<1>4. Held(C)
  <2>1. b.pieces[p]["Pawn"] \subseteq Squares
    BY PieceTypesAre DEF Boards
  <2>2. \A x \in {PawnTerms(b, p, s) : s \in b.pieces[p]["Pawn"]} : Held(x)
    BY <2>1, PawnTermsHeld
  <2> QED
    BY <2>2, HeldUnions
<1>5. getStaticKingPawnScore(b, p) = A \cup B \cup C
  BY Zenon DEF getStaticKingPawnScore
<1> HIDE DEF A, B, C
<1>6. Held(A \cup B \cup C)
  BY <1>2, <1>3, <1>4 DEF Held
<1> QED
  BY <1>5, <1>6

LEMMA TempoHeld ==
  ASSUME NEW b, NEW p
  PROVE  Held(getTempoScore(b, p))
<1>1. Held(ADD_SCORE("tempoScore", NoPosition)) /\ Held({})
  BY ScalarTables, HeldScalar, HeldEmpty
<1> QED
  BY <1>1, Zenon DEF getTempoScore, When

LEMMA ShelterHeld ==
  ASSUME NEW b, NEW p, NEW type, NEW table \in {"knightShelterBonus", "bishopShelterBonus"}
  PROVE  Held(Shelter(b, p, type, table))
<1>1. 0 \in 0..(TermSize[table] - 1)
  BY ScalarTables
<1> QED
  BY <1>1, HeldTerm DEF Shelter

LEMMA PieceTermsHeld ==
  ASSUME NEW b, NEW p \in Players, NEW s \in Squares, NEW type \in {"Knight", "Bishop", "Rook", "Queen"},
         NEW psqt \in {"psqtKnights", "psqtBishops", "psqtRooks", "psqtQueens"}, NEW mobility,
         \A A : A \subseteq Moves(b, p, type, s) => Cardinality(A) \in 0..(TermSize[mobility] - 1)
  PROVE  Held(PieceTerms(b, p, type, psqt, mobility, s))
<1> DEFINE safe == Moves(b, p, type, s) \ getPawnAttacks(b, nextPlayer(p))
           A == ADD_SCORE_INDEXED("pieceValues", TypeIndex(type), s)
           B == ADD_SCORE_INDEXED(psqt, relativePosition(p, s), s)
           C == ADD_SCORE_INDEXED(mobility, Cardinality(safe), s)
<1>1. TypeIndex(type) \in 0..(TermSize["pieceValues"] - 1)
  BY TypesAreNumbered, PieceTypesAre, OtherTables
<1>2. relativePosition(p, s) \in 0..(TermSize[psqt] - 1)
  <2>1. relativePosition(p, s) \in 0..63
    BY RelativeSquares DEF Squares
  <2> QED
    BY <2>1, SquareTables
<1>3. Cardinality(safe) \in 0..(TermSize[mobility] - 1)
  OBVIOUS
<1> HIDE DEF safe
<1>4. Held(A) /\ Held(B) /\ Held(C)
  BY <1>1, <1>2, <1>3, HeldTerm
<1>5. PieceTerms(b, p, type, psqt, mobility, s) = A \cup B \cup C
  BY Zenon DEF PieceTerms, safe
<1> HIDE DEF A, B, C
<1>6. Held(A \cup B \cup C)
  BY <1>4 DEF Held
<1> QED
  BY <1>5, <1>6

LEMMA OutpostHeld ==
  ASSUME NEW b, NEW p, NEW s, NEW table \in {"knightOutpostScore", "bishopOutpostScore"}
  PROVE  Held(OutpostTerm(b, p, table, s))
<1> DEFINE isOutside == IF s \in aFile \cup hFile THEN 1 ELSE 0
           isDefended == IF s \in getPawnAttacks(b, p) THEN 2 ELSE 0
<1>1. isOutside + isDefended \in 0..3
  OBVIOUS
<1> HIDE DEF isOutside, isDefended
<1>2. isOutside + isDefended \in 0..(TermSize[table] - 1)
  BY <1>1, OtherTables
<1>3. Held(ADD_SCORE_INDEXED(table, isOutside + isDefended, s))
  BY <1>2, HeldTerm
<1>4. OutpostTerm(b, p, table, s) = ADD_SCORE_INDEXED(table, isOutside + isDefended, s)
      \/ OutpostTerm(b, p, table, s) = {}
  BY Zenon DEF OutpostTerm, When, isOutside, isDefended
<1> QED
  BY <1>3, <1>4, HeldEmpty

LEMMA KnightsHeld ==
  ASSUME NEW b \in Boards, NEW p \in Players
  PROVE  Held(getKnightScore(b, p))
<1> DEFINE X == Shelter(b, p, "Knight", "knightShelterBonus")
           T(s) == PieceTerms(b, p, "Knight", "psqtKnights", "knightMobilityScore", s)
           U(s) == OutpostTerm(b, p, "knightOutpostScore", s)
           Y == UNION {T(s) \cup U(s) : s \in b.pieces[p]["Knight"]}
<1>1. b.pieces[p]["Knight"] \subseteq Squares
  BY PieceTypesAre DEF Boards
<1>2. ASSUME NEW s \in b.pieces[p]["Knight"] PROVE Held(T(s) \cup U(s))
  <2>1. \A A : A \subseteq Moves(b, p, "Knight", s) => Cardinality(A) \in 0..(TermSize["knightMobilityScore"] - 1)
    BY <1>1, MovesCount, OtherTables
  <2>2. Held(T(s))
    BY <1>1, <2>1, PieceTermsHeld
  <2>3. Held(U(s))
    BY OutpostHeld
  <2> HIDE DEF T, U
  <2> QED
    BY <2>2, <2>3, HeldUnion
<1>3. Held(X)
  BY ShelterHeld
<1>4. Held(Y)
  <2> HIDE DEF T, U
  <2>1. \A x \in {T(s) \cup U(s) : s \in b.pieces[p]["Knight"]} : Held(x)
    BY <1>2
  <2> QED
    BY <2>1, HeldUnions
<1>5. getKnightScore(b, p) = X \cup Y
  BY Zenon DEF getKnightScore
<1> HIDE DEF X, Y
<1> QED
  BY <1>3, <1>4, <1>5, HeldUnion

LEMMA BishopsHeld ==
  ASSUME NEW b \in Boards, PawnsAreFew(b), NEW p \in Players
  PROVE  Held(getBishopScore(b, p))
<1> DEFINE SameColor(s) == IF s \in lightSquares THEN lightSquares ELSE Squares \ lightSquares
           X == Shelter(b, p, "Bishop", "bishopShelterBonus")
           Z == When(Cardinality(b.pieces[p]["Bishop"]) >= 2, ADD_SCORE("bishopPairScore", NoPosition))
           T(s) == PieceTerms(b, p, "Bishop", "psqtBishops", "bishopMobilityScore", s)
           U(s) == ADD_SCORE_INDEXED("badBishopScore", Cardinality(SameColor(s) \cap b.pieces[p]["Pawn"]), s)
           V(s) == When(Cardinality(Moves(b, p, "Bishop", s) \cap centerSquares) >= 2,
                        ADD_SCORE("bishopLongDiagScore", s))
           W(s) == OutpostTerm(b, p, "bishopOutpostScore", s)
           Y == UNION {T(s) \cup U(s) \cup V(s) \cup W(s) : s \in b.pieces[p]["Bishop"]}
<1>1. b.pieces[p]["Bishop"] \subseteq Squares /\ b.pieces[p]["Pawn"] \subseteq Squares
  BY PieceTypesAre DEF Boards
<1>2. ASSUME NEW s \in b.pieces[p]["Bishop"] PROVE Held(T(s) \cup U(s) \cup V(s) \cup W(s))
  <2>1. \A A : A \subseteq Moves(b, p, "Bishop", s) => Cardinality(A) \in 0..(TermSize["bishopMobilityScore"] - 1)
    BY <1>1, MovesCount, OtherTables
  <2>2. Held(T(s))
    BY <1>1, <2>1, PieceTermsHeld
  <2>3. Held(U(s))
    <3> DEFINE n == Cardinality(SameColor(s) \cap b.pieces[p]["Pawn"])
    <3>1. /\ n \in Nat /\ Cardinality(b.pieces[p]["Pawn"]) \in Nat
          /\ n =< Cardinality(b.pieces[p]["Pawn"])
      <4> DEFINE A == SameColor(s) \cap b.pieces[p]["Pawn"]
      <4>1. A \subseteq b.pieces[p]["Pawn"]
        OBVIOUS
      <4> HIDE DEF A
      <4>2. Cardinality(A) \in Nat /\ Cardinality(b.pieces[p]["Pawn"]) \in Nat
            /\ Cardinality(A) =< Cardinality(b.pieces[p]["Pawn"])
        BY <1>1, <4>1, CountsGrow
      <4> QED
        BY <4>2 DEF A
    <3>2. Cardinality(b.pieces[p]["Pawn"]) =< 8
      BY DEF PawnsAreFew
    <3> HIDE DEF n
    <3>3. n \in 0..(TermSize["badBishopScore"] - 1)
      BY <3>1, <3>2, OtherTables
    <3>4. Held(ADD_SCORE_INDEXED("badBishopScore", n, s))
      BY <3>3, HeldTerm
    <3> QED
      BY <3>4 DEF n
  <2>4. Held(V(s))
    <3>1. Held(ADD_SCORE("bishopLongDiagScore", s)) /\ Held({})
      BY ScalarTables, HeldScalar, HeldEmpty
    <3> QED
      BY <3>1, Zenon DEF When
  <2>5. Held(W(s))
    BY OutpostHeld
  <2> HIDE DEF T, U, V, W
  <2> QED
    BY <2>2, <2>3, <2>4, <2>5 DEF Held
<1>3. Held(X)
  BY ShelterHeld
<1>4. Held(Z)
  <2>1. Held(ADD_SCORE("bishopPairScore", NoPosition)) /\ Held({})
    BY ScalarTables, HeldScalar, HeldEmpty
  <2> QED
    BY <2>1, Zenon DEF When
<1>5. Held(Y)
  <2> HIDE DEF T, U, V, W
  <2>1. \A x \in {T(s) \cup U(s) \cup V(s) \cup W(s) : s \in b.pieces[p]["Bishop"]} : Held(x)
    BY <1>2
  <2> QED
    BY <2>1, HeldUnions
<1>6. getBishopScore(b, p) = X \cup Z \cup Y
  BY Zenon DEF getBishopScore
<1> HIDE DEF X, Y, Z
<1>7. Held(X \cup Z \cup Y)
  BY <1>3, <1>4, <1>5 DEF Held
<1> QED
  BY <1>6, <1>7

LEMMA FileTermsHeld ==
  ASSUME NEW b, NEW p, NEW s, NEW open, NEW semiOpen,
         TermSize[open] = 1, TermSize[semiOpen] = 1
  PROVE  Held(FileTerms(b, p, open, semiOpen, s))
<1> DEFINE A == ADD_SCORE(open, s)
           B == ADD_SCORE(semiOpen, s)
<1>1. Held(A) /\ Held(B) /\ Held({})
  BY HeldScalar, HeldEmpty
<1>2. \E X \in {A, {}}, Y \in {B, {}} : FileTerms(b, p, open, semiOpen, s) = X \cup Y
  BY Zenon DEF FileTerms, When
<1> HIDE DEF A, B
<1> QED
  BY <1>1, <1>2, HeldUnion

LEMMA RooksHeld ==
  ASSUME NEW b \in Boards, NEW p \in Players
  PROVE  Held(getRookScore(b, p))
<1> DEFINE their == b.pieces[nextPlayer(p)]
           row7Mask == RowMask[IF p = "White" THEN 6 ELSE 1]
           row8Mask == RowMask[IF p = "White" THEN 7 ELSE 0]
           T(s) == PieceTerms(b, p, "Rook", "psqtRooks", "rookMobilityScore", s)
           U(s) == FileTerms(b, p, "rookOpenFileBonus", "rookSemiOpenFileBonus", s)
           V(s) == When(/\ s \in row7Mask
                        /\ (their["Pawn"] \cap row7Mask) \cup (their["King"] \cap row8Mask) # {},
                        ADD_SCORE("rook7thRankBonus", s))
           Y == UNION {T(s) \cup U(s) \cup V(s) : s \in b.pieces[p]["Rook"]}
<1>1. b.pieces[p]["Rook"] \subseteq Squares
  BY PieceTypesAre DEF Boards
<1>2. ASSUME NEW s \in b.pieces[p]["Rook"] PROVE Held(T(s) \cup U(s) \cup V(s))
  <2>1. \A A : A \subseteq Moves(b, p, "Rook", s) => Cardinality(A) \in 0..(TermSize["rookMobilityScore"] - 1)
    BY <1>1, MovesCount, OtherTables
  <2>2. Held(T(s))
    BY <1>1, <2>1, PieceTermsHeld
  <2>3. Held(U(s))
    BY ScalarTables, FileTermsHeld
  <2>4. Held(V(s))
    <3>1. Held(ADD_SCORE("rook7thRankBonus", s)) /\ Held({})
      BY ScalarTables, HeldScalar, HeldEmpty
    <3> QED
      BY <3>1, Zenon DEF When
  <2> HIDE DEF T, U, V
  <2> QED
    BY <2>2, <2>3, <2>4 DEF Held
<1>3. Held(Y)
  <2> HIDE DEF T, U, V
  <2>1. \A x \in {T(s) \cup U(s) \cup V(s) : s \in b.pieces[p]["Rook"]} : Held(x)
    BY <1>2
  <2> QED
    BY <2>1, HeldUnions
<1>4. getRookScore(b, p) = Y
  BY Zenon DEF getRookScore
<1> QED
  BY <1>3, <1>4

LEMMA QueensHeld ==
  ASSUME NEW b \in Boards, NEW p \in Players
  PROVE  Held(getQueenScore(b, p))
<1> DEFINE T(s) == PieceTerms(b, p, "Queen", "psqtQueens", "queenMobilityScore", s)
           U(s) == FileTerms(b, p, "queenOpenFileBonus", "queenSemiOpenFileBonus", s)
           V(s) == When(getDiscoveredAttacks(b, p, s) # {}, ADD_SCORE("queenDiscoveredAttackScore", s))
           Y == UNION {T(s) \cup U(s) \cup V(s) : s \in b.pieces[p]["Queen"]}
<1>1. b.pieces[p]["Queen"] \subseteq Squares
  BY PieceTypesAre DEF Boards
<1>2. ASSUME NEW s \in b.pieces[p]["Queen"] PROVE Held(T(s) \cup U(s) \cup V(s))
  <2>1. \A A : A \subseteq Moves(b, p, "Queen", s) => Cardinality(A) \in 0..(TermSize["queenMobilityScore"] - 1)
    BY <1>1, MovesCount, OtherTables
  <2>2. Held(T(s))
    BY <1>1, <2>1, PieceTermsHeld
  <2>3. Held(U(s))
    BY ScalarTables, FileTermsHeld
  <2>4. Held(V(s))
    <3>1. Held(ADD_SCORE("queenDiscoveredAttackScore", s)) /\ Held({})
      BY ScalarTables, HeldScalar, HeldEmpty
    <3> QED
      BY <3>1, Zenon DEF When
  <2> HIDE DEF T, U, V
  <2> QED
    BY <2>2, <2>3, <2>4 DEF Held
<1>3. Held(Y)
  <2> HIDE DEF T, U, V
  <2>1. \A x \in {T(s) \cup U(s) \cup V(s) : s \in b.pieces[p]["Queen"]} : Held(x)
    BY <1>2
  <2> QED
    BY <2>1, HeldUnions
<1>4. getQueenScore(b, p) = Y
  BY Zenon DEF getQueenScore
<1> QED
  BY <1>3, <1>4

LEMMA KingsHeld ==
  ASSUME NEW b \in Boards, NEW p \in Players
  PROVE  Held(getKingScore(b, p))
<1> DEFINE safe(s) == Sliders(b, s) \ b.occupation[p]
           T(s) == ADD_SCORE_INDEXED("kingVirtualMobilityScore", Cardinality(safe(s)), s)
           Y == UNION {T(s) : s \in b.pieces[p]["King"]}
<1>1. b.pieces[p]["King"] \subseteq Squares
  BY PieceTypesAre DEF Boards
<1>2. ASSUME NEW s \in b.pieces[p]["King"] PROVE Held(T(s))
  <2>1. safe(s) \subseteq Sliders(b, s)
    OBVIOUS
  <2> HIDE DEF safe
  <2>3. \A A : A \subseteq Sliders(b, s) => Cardinality(A) \in 0..27
    BY <1>1, MovesCount
  <2>2. Cardinality(safe(s)) \in 0..(TermSize["kingVirtualMobilityScore"] - 1)
    BY <2>1, <2>3, OtherTables
  <2> QED
    BY <2>2, HeldTerm
<1>3. Held(Y)
  <2> HIDE DEF T
  <2>1. \A x \in {T(s) : s \in b.pieces[p]["King"]} : Held(x)
    BY <1>2
  <2> QED
    BY <2>1, HeldUnions
<1>4. getKingScore(b, p) = Y
  BY Zenon DEF getKingScore
<1> QED
  BY <1>3, <1>4

LEMMA KingZoneHitsAreFinite ==
  ASSUME NEW b \in Boards, NEW p \in Players
  PROVE  AttacksToKingZone(b, p) \in Nat
<1> DEFINE o == nextPlayer(p)
           zone == kingsTable[KingOf(b, p)]
           A == zone \cap getPawnAttacks(b, o)
<1>1. o \in Players /\ \A t \in PieceTypes : b.pieces[o][t] \subseteq Squares
  BY PlayersAre DEF Boards
<1>2. A \subseteq Squares
  BY DEF getPawnAttacks, Shift
<1>3. Cardinality(A) \in Nat
  <2> HIDE DEF A
  <2> QED
    BY <1>2, Counts
<1>4. \A t \in {"Knight", "Bishop", "Rook", "Queen"}, s \in Squares : Moves(b, o, t, s) \subseteq Squares
  <2> TAKE t \in {"Knight", "Bishop", "Rook", "Queen"}, s \in Squares
  <2>1. /\ knightsTable[s] \subseteq Squares /\ getBishopMoves(s, both(b)) \subseteq Squares
        /\ getRookMoves(s, both(b)) \subseteq Squares /\ Sliders(b, s) \subseteq Squares
    BY LeapersStayOn, SlidersStayOn DEF Sliders
  <2> QED
    BY <2>1 DEF Moves
<1>5. KingZoneHits(b, p) \subseteq Squares \X Squares
  <2> SUFFICES ASSUME NEW x \in KingZoneHits(b, p) PROVE x \in Squares \X Squares
    OBVIOUS
  <2>1. PICK t \in {"Knight", "Bishop", "Rook", "Queen"} :
          x \in UNION {{s} \X (Moves(b, o, t, s) \cap zone) : s \in b.pieces[o][t]}
    BY Zenon DEF KingZoneHits
  <2>2. PICK s \in b.pieces[o][t] : x \in {s} \X (Moves(b, o, t, s) \cap zone)
    BY <2>1
  <2>3. s \in Squares /\ Moves(b, o, t, s) \subseteq Squares
    BY <1>1, <1>4, PieceTypesAre
  <2> QED
    BY <2>2, <2>3
<1>6. IsFiniteSet(KingZoneHits(b, p))
  <2>1. IsFiniteSet(Squares)
    BY SquaresAreFinite
  <2>2. IsFiniteSet(Squares \X Squares)
    BY <2>1, FS_Product
  <2> QED
    BY <1>5, <2>2, FS_Subset
<1>7. Cardinality(KingZoneHits(b, p)) \in Nat
  BY <1>6, FS_CardinalityType
<1>8. AttacksToKingZone(b, p) = Cardinality(A) + Cardinality(KingZoneHits(b, p))
  BY Zenon DEF AttacksToKingZone
<1> HIDE DEF A
<1> QED
  BY <1>3, <1>7, <1>8

LEMMA KingZoneHeld ==
  ASSUME NEW b \in Boards, NEW p \in Players
  PROVE  Held(getKingZoneScore(prepareContext(b), p))
<1> DEFINE n == AttacksToKingZone(b, p)
<1>1. n \in Nat
  BY KingZoneHitsAreFinite
<1>2. prepareContext(b).attacksToKingZone[p] = n
  BY ContextIs
<1> HIDE DEF n
<1>3. n \in Int /\ 14 \in Int
  BY <1>1
<1>4. Min({n, 14}) = IF n =< 14 THEN n ELSE 14
  BY <1>3, LargerAndSmaller, Zenon
<1>5. Min({n, 14}) \in 0..(TermSize["kingZone"] - 1)
  BY <1>1, <1>4, OtherTables
<1>6. Held(ADD_SCORE_INDEXED("kingZone", Min({n, 14}), NoPosition))
  BY <1>5, HeldTerm
<1> QED
  BY <1>2, <1>6 DEF getKingZoneScore

LEMMA AttackTablesAre ==
  /\ DOMAIN AttackTables = {"Pawn", "Knight", "Bishop", "Rook", "Queen"}
  /\ \A t \in DOMAIN AttackTables : TermSize[AttackTables[t]] = 5
<1>1. DOMAIN AttackTables = {"Pawn", "Knight", "Bishop", "Rook", "Queen"}
  BY DEF AttackTables
<1>2. \A t \in {"Pawn", "Knight", "Bishop", "Rook", "Queen"} :
        AttackTables[t] \in {"pawnAttacks", "knightAttacks", "bishopAttacks", "rookAttacks", "queenAttacks"}
  BY DEF AttackTables
<1> QED
  BY <1>1, <1>2, PieceTables

LEMMA PieceAttacksHeld ==
  ASSUME NEW b, NEW ctx, NEW p
  PROVE  Held(getPieceAttacksScore(b, ctx, p))
<1> DEFINE hit(t, u) == b.pieces[nextPlayer(p)][u] \cap ctx.pieceAttacks[p][t]
           T(t, u) == ADD_SCORE_MULTI_INDEXED(AttackTables[t], Cardinality(hit(t, u)), TypeIndex(u), NoPosition)
<1>1. \A t, u \in DOMAIN AttackTables : Held(T(t, u))
  <2> TAKE t, u \in DOMAIN AttackTables
  <2>1. TypeIndex(u) \in 0..(TermSize[AttackTables[t]] - 1)
    BY AttackTablesAre, TypesAreNumbered
  <2> HIDE DEF hit
  <2> QED
    BY <2>1, HeldTerm
<1> DEFINE Family == {T(t, u) : t \in DOMAIN AttackTables, u \in DOMAIN AttackTables}
<1>2. getPieceAttacksScore(b, ctx, p) = UNION Family
  BY DEF getPieceAttacksScore
<1> HIDE DEF T
<1>3. ASSUME NEW x \in Family PROVE Held(x)
  <2>1. PICK t \in DOMAIN AttackTables, u \in DOMAIN AttackTables : x = T(t, u)
    OBVIOUS
  <2> QED
    BY <1>1, <2>1
<1> HIDE DEF Family
<1>4. Held(UNION Family)
  BY <1>3, HeldUnions
<1> QED
  BY <1>2, <1>4

LEMMA ChecksHeld ==
  ASSUME NEW b, NEW ctx, NEW p
  PROVE  Held(getChecksScore(b, ctx, p))
<1> DEFINE opponent == nextPlayer(p)
           king == KingOf(b, opponent)
           attacks == ctx.pieceAttacks[p]
           From(type) == CASE type = "Pawn" -> pawnAttackMaskTable[opponent][king]
                           [] type = "Knight" -> knightsTable[king]
                           [] type = "Bishop" -> getBishopMoves(king, both(b))
                           [] type = "Rook" -> getRookMoves(king, both(b))
                           [] type = "Queen" -> Sliders(b, king)
           Reach(type) == IF type = "Pawn"
                            THEN attacks["Pawn"] \cup pushForward(p, b.pieces[p]["Pawn"])
                            ELSE attacks[type]
           Checks(type) == Reach(type) \cap From(type)
           S(t) == ADD_SCORE_MULTI_INDEXED("safeChecks",
                     Cardinality(Checks(t) \ ctx.threats[opponent]), TypeIndex(t), NoPosition)
           U(t) == ADD_SCORE_MULTI_INDEXED("unsafeChecks",
                     Cardinality(Checks(t) \cap ctx.threats[opponent]), TypeIndex(t), NoPosition)
<1>1. \A t \in DOMAIN AttackTables : Held(S(t) \cup U(t))
  <2> TAKE t \in DOMAIN AttackTables
  <2>1. TypeIndex(t) \in 0..(TermSize["safeChecks"] - 1) /\ TypeIndex(t) \in 0..(TermSize["unsafeChecks"] - 1)
    BY AttackTablesAre, TypesAreNumbered, PieceTables
  <2> HIDE DEF Checks
  <2>2. Held(S(t)) /\ Held(U(t))
    BY <2>1, HeldTerm
  <2> HIDE DEF S, U
  <2> QED
    BY <2>2, HeldUnion
<1>2. getChecksScore(b, ctx, p) = UNION {S(t) \cup U(t) : t \in DOMAIN AttackTables}
  BY Zenon DEF getChecksScore
<1> HIDE DEF S, U
<1>3. \A x \in {S(t) \cup U(t) : t \in DOMAIN AttackTables} : Held(x)
  BY <1>1
<1>4. Held(UNION {S(t) \cup U(t) : t \in DOMAIN AttackTables})
  BY <1>3, HeldUnions
<1> QED
  BY <1>2, <1>4

LEMMA PushThreatsHeld ==
  ASSUME NEW b \in Boards, IsFresh(b), NEW ctx, NEW p \in Players
  PROVE  Held(getPawnPushThreatScore(b, ctx, p))
<1> DEFINE opponent == nextPlayer(p)
           thirdRow == RowMask[IF p = "White" THEN 2 ELSE 5]
           targets == b.occupation[opponent] \ b.pieces[opponent]["Pawn"]
           safe == (Squares \ ctx.threats[opponent])
                   \cup (ctx.threats[p] \ ctx.pieceAttacks[opponent]["Pawn"])
           pushes == pushForward(p, b.pieces[p]["Pawn"]) \ both(b)
           doublePushes == pushForward(p, pushes \cap thirdRow) \ both(b)
           attacks == pawnAttacks(p, (pushes \cup doublePushes) \cap safe) \cap targets
           T(s) == ADD_SCORE_INDEXED("pawnPushThreats", TypeIndex(getTargetAtSquare(b, p, s)), s)
<1>1. \A s \in attacks : Held(T(s))
  <2> TAKE s \in attacks
  <2>1. opponent \in Players /\ s \in b.occupation[opponent]
    BY PlayersAre
  <2>2. s \in occupationOf(b.pieces, opponent)
    BY <2>1 DEF IsFresh
  <2>3. PICK t \in PieceTypes : s \in b.pieces[opponent][t]
    BY <2>2 DEF occupationOf
  <2>4. getPieceAt(b, opponent, s) \in PieceTypes
    BY <2>3, PieceAtIs
  <2>5. TypeIndex(getTargetAtSquare(b, p, s)) \in 0..(TermSize["pawnPushThreats"] - 1)
    BY <2>4, TypesAreNumbered, OtherTables DEF getTargetAtSquare
  <2> QED
    BY <2>5, HeldTerm
<1>2. getPawnPushThreatScore(b, ctx, p) = UNION {T(s) : s \in attacks}
  BY Zenon DEF getPawnPushThreatScore
<1> HIDE DEF T, attacks
<1>3. \A x \in {T(s) : s \in attacks} : Held(x)
  BY <1>1
<1>4. Held(UNION {T(s) : s \in attacks})
  BY <1>3, HeldUnions
<1> QED
  BY <1>2, <1>4

LEMMA PassedHeld ==
  ASSUME NEW b, NEW ctx, NEW p \in Players, NEW passed, passed[p] \subseteq Squares
  PROVE  Held(getPassedPawnsScore(b, ctx, passed, p))
<1> DEFINE opponent == nextPlayer(p)
           their == b.pieces[opponent]
           kingPawnsOnly == b.occupation[opponent] = their["King"] \cup their["Pawn"]
           tempo == IF b.player = opponent THEN 1 ELSE 0
           row(s) == relativeRow(p, s)
           pushed(s) == pushForward(p, {s})
           A(s) == When(pushed(s) \cap (both(b) \cup ctx.threats[opponent]) = {},
                        ADD_SCORE_INDEXED("freePassedPawnBonus", row(s), s))
           B(s) == When(pushed(s) \cap ctx.threats[p] # {},
                        ADD_SCORE_INDEXED("protectedPassedPawnBonus", row(s), s))
           C(s) == When(/\ kingPawnsOnly
                        /\ 7 - row(s) =< 4
                        /\ 7 - row(s) < absoluteDistance(s, KingOf(b, opponent)) - tempo,
                        ADD_SCORE("pawnSquareRuleBonus", s))
<1>1. \A s \in passed[p] : Held(A(s) \cup B(s) \cup C(s))
  <2> TAKE s \in passed[p]
  <2>1. row(s) \in 0..(TermSize["freePassedPawnBonus"] - 1) /\ row(s) \in 0..(TermSize["protectedPassedPawnBonus"] - 1)
    <3>1. row(s) \in 0..7
      BY RelativeSquares
    <3> QED
      BY <3>1, RowTables
  <2> HIDE DEF row
  <2>2. /\ Held(ADD_SCORE_INDEXED("freePassedPawnBonus", row(s), s))
        /\ Held(ADD_SCORE_INDEXED("protectedPassedPawnBonus", row(s), s))
        /\ Held(ADD_SCORE("pawnSquareRuleBonus", s)) /\ Held({})
    BY <2>1, ScalarTables, HeldTerm, HeldScalar, HeldEmpty
  <2> HIDE DEF pushed, kingPawnsOnly, tempo
  <2>3. Held(A(s))
    BY <2>2, Zenon DEF When
  <2>4. Held(B(s))
    BY <2>2, Zenon DEF When
  <2>5. Held(C(s))
    BY <2>2, Zenon DEF When
  <2> HIDE DEF A, B, C
  <2> QED
    BY <2>3, <2>4, <2>5 DEF Held
<1>2. getPassedPawnsScore(b, ctx, passed, p) = UNION {A(s) \cup B(s) \cup C(s) : s \in passed[p]}
  BY Zenon DEF getPassedPawnsScore
<1> HIDE DEF A, B, C
<1>3. \A x \in {A(s) \cup B(s) \cup C(s) : s \in passed[p]} : Held(x)
  BY <1>1
<1>4. Held(UNION {A(s) \cup B(s) \cup C(s) : s \in passed[p]})
  BY <1>3, HeldUnions
<1> QED
  BY <1>2, <1>4

\* No term of a position is read outside its table.
LEMMA TermsHeld ==
  ASSUME board \in Boards, IsFresh(board), OneKingEach(board), PawnsAreFew(board), KingPawnCacheIsFresh
  PROVE  TermsStayInTheirTables
<1> SUFFICES ASSUME NEW p \in Players PROVE Held(get(board, kpCache, p))
  BY Zenon DEF TermsStayInTheirTables, Held
<1> DEFINE ctx == prepareContext(board)
           kp == fetchOrStoreKpCache(kpCache, board)
           Term1 == getTempoScore(board, p)
           Term2 == kp.score[p]
           Term3 == getKnightScore(board, p)
           Term4 == getBishopScore(board, p)
           Term5 == getRookScore(board, p)
           Term6 == getQueenScore(board, p)
           Term7 == getKingScore(board, p)
           Term8 == getKingZoneScore(ctx, p)
           Term9 == getPieceAttacksScore(board, ctx, p)
           Term10 == getChecksScore(board, ctx, p)
           Term11 == getPawnPushThreatScore(board, ctx, p)
           Term12 == getPassedPawnsScore(board, ctx, kp.passedPawns, p)
<1>1. Term2 = getStaticKingPawnScore(board, p) /\ kp.passedPawns[p] = PassedPawns(board, p)
  BY FreshCacheIsRight DEF CacheIsRight, KingPawnCacheIsFresh
<1>2. Held(Term1) /\ Held(Term2) /\ Held(Term3) /\ Held(Term4) /\ Held(Term5) /\ Held(Term6) /\ Held(Term7)
  BY <1>1, TempoHeld, StaticKingPawnHeld, KnightsHeld, BishopsHeld, RooksHeld, QueensHeld, KingsHeld
<1>3. Held(Term8) /\ Held(Term9) /\ Held(Term10) /\ Held(Term11)
  BY KingZoneHeld, PieceAttacksHeld, ChecksHeld, PushThreatsHeld
<1>4. Held(Term12)
  <2>1. kp.passedPawns[p] \subseteq Squares
    BY <1>1, PieceTypesAre DEF PassedPawns, Boards
  <2> HIDE DEF kp, ctx
  <2> QED
    BY <2>1, PassedHeld
<1>5. get(board, kpCache, p)
        = Term1 \cup Term2 \cup Term3 \cup Term4 \cup Term5 \cup Term6 \cup Term7 \cup Term8 \cup Term9 \cup Term10 \cup Term11 \cup Term12
  BY Zenon DEF get
<1> HIDE DEF Term1, Term2, Term3, Term4, Term5, Term6, Term7, Term8, Term9, Term10, Term11, Term12
<1>6. Held(Term1 \cup Term2 \cup Term3 \cup Term4 \cup Term5 \cup Term6 \cup Term7 \cup Term8 \cup Term9 \cup Term10 \cup Term11 \cup Term12)
  BY <1>2, <1>3, <1>4 DEF Held
<1> QED
  BY <1>5, <1>6

\* In every position of every game the evaluation is the same for both colours,
\* and no term is read outside its table: every position has one king and at
\* most eight pawns a side, and the cache holds what is computed.
THEOREM EvaluationStaysFair == Spec => []EvaluationIsFair
<1>1. GameInvariant => EvaluationIsFair
  <2> SUFFICES ASSUME GameInvariant PROVE EvaluationIsFair
    OBVIOUS
  <2>1. board \in Boards /\ IsFresh(board) /\ IsPosition(board) /\ IsEntryOfABoard(kpCache)
    BY DEF GameInvariant, BoardIsSound, TypeInvariant, CacheIsOfABoard
  <2>2. PiecesStandApart(board) /\ OneKingEach(board) /\ PawnsAreFew(board)
    BY <2>1 DEF IsPosition
  <2>3. KingPawnCacheIsFresh
    BY <2>1, EntryServes DEF KingPawnCacheIsFresh
  <2> QED
    BY <2>1, <2>2, <2>3, EvaluationMirrors, TermsHeld DEF EvaluationIsFair
<1> QED
  BY <1>1, GameInvariantHolds, PTL
=============================================================================
