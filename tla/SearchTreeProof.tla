--------------------------- MODULE SearchTreeProof ---------------------------
(***************************************************************************)
(* Proofs about SearchTree: the calls, the stack of positions, the picker  *)
(* and the PV table agree, for any graph of positions and any depth.       *)
(***************************************************************************)
EXTENDS SearchTree, FiniteSetTheorems, WellFoundedInduction, TLAPS

(* Sets of natural numbers *)

\* A non-empty set of naturals has a least element.
LEMMA LeastNatural ==
  ASSUME NEW S \in SUBSET Nat, S # {}
  PROVE  \E m \in S : \A n \in S : m <= n
<1>1. PICK m \in S : \A n \in S : <<n, m>> \notin OpToRel(<, Nat)
  BY NatLessThanWellFounded, WFMin, Zenon
<1>2. \A n \in S : ~(n < m)
  BY <1>1, Zenon DEF OpToRel
<1> QED
  BY <1>2

\* A set of naturals with 0 and every successor has all of them.
LEMMA SetInduction ==
  ASSUME NEW S, 0 \in S, \A n \in Nat : n \in S => n + 1 \in S
  PROVE  \A n \in Nat : n \in S
<1> SUFFICES ASSUME Nat \ S # {} PROVE FALSE
  OBVIOUS
<1>1. PICK m \in Nat \ S : \A n \in Nat \ S : m <= n
  BY LeastNatural
<1> QED
  BY <1>1, m # 0, m - 1 \in Nat

\* One with an upper bound has a greatest element.
LEMMA GreatestNatural ==
  ASSUME NEW S \in SUBSET Nat, S # {}, NEW b \in Nat, \A n \in S : n <= b
  PROVE  \E m \in S : \A n \in S : n <= m
<1> DEFINE T == {b - n : n \in S}
<1>1. T \in SUBSET Nat /\ T # {}
  <2>1. \A n \in S : n \in Nat /\ b - n \in Nat
    OBVIOUS
  <2> QED
    BY <2>1
<1>2. PICK t \in T : \A u \in T : t <= u
  BY <1>1, LeastNatural
<1>3. PICK m \in S : t = b - m
  BY <1>2
<1>4. \A n \in S : b - m <= b - n /\ n \in Nat /\ m \in Nat
  BY <1>2, <1>3
<1>5. \A n \in S : n <= m
  BY <1>4
<1> QED
  BY <1>5

Positions == DOMAIN Moves
GraphMove == [from : Positions, to : Positions, kind : Kinds, pawn : BOOLEAN, legal : BOOLEAN]
AnyMove == GraphMove \cup {NoMove}

(* The calls *)

Waiting == {"full", "zero", "null", "razored"}
InLoop == {"loop", "full", "zero"}

Call ==
  [fn : {"negamax", "quiesence"}, pc : {"enter", "static", "razor", "tt", "loop"} \cup Waiting,
   depth : Nat, isPv : BOOLEAN, isRoot : BOOLEAN, nullSearch : BOOLEAN,
   phase : {"TtMove", "NoisyGood", "QuietMove", "NoisyBad"}, left : Seq(GraphMove),
   tried : SUBSET GraphMove, ttMove : GraphMove \cup {NoMove}, skipQuiets : BOOLEAN,
   move : GraphMove \cup {NoMove}, reduction : Nat, movesSearched : Nat, score : Scores,
   cut : BOOLEAN, afterStop : {0, 1}]

Answer == [score : Scores, cut : BOOLEAN]

\* An extension by check is paid back by the move.
DepthFits(f) ==
  /\ f.pc = "enter" => f.depth =< Depth
  /\ f.pc # "enter" => f.depth =< Depth + 1
  /\ f.fn = "negamax" /\ f.pc # "enter" => f.depth >= 1

Distinct(s) == \A i, j \in 1 .. Len(s) : s[i] = s[j] => i = j
NoGood(S) == \A m \in S : m.kind \notin {"Good", "QueenPromotion"}

\* What the picker is done with is not left behind; no quiet move is skipped and
\* no legal one dropped before a move has a score.
PickerFits(f) ==
  /\ f.pc \notin InLoop => f.left = <<>> /\ f.tried = {} /\ f.movesSearched = 0 /\ f.phase = "TtMove"
  /\ Distinct(f.left) /\ f.tried \cap ToSet(f.left) = {}
  /\ f.phase \in {"QuietMove", "NoisyBad"} => NoGood(ToSet(f.left))
  /\ f.phase = "NoisyBad" /\ ~f.skipQuiets => \A m \in ToSet(f.left) : IsNoisy(m)
  /\ f.fn = "negamax" /\ f.movesSearched = 0 =>
       /\ ~f.skipQuiets
       /\ f.pc = "loop" => \A m \in f.tried : ~m.legal

\* Made-up scores meet a stopped search only, and no move is judged after.
StopFits(f, stopped) ==
  /\ f.cut => stopped /\ f.movesSearched = 0 /\ f.fn = "negamax"
  /\ f.pc \notin {"full", "zero"} => f.afterStop = 0
  /\ f.afterStop = 1 => stopped

CallFits(f, stopped) ==
  /\ f \in Call
  /\ f.fn = "quiesence" => f.pc \in {"enter", "loop", "full"}
  /\ DepthFits(f)
  /\ PickerFits(f)
  /\ StopFits(f, stopped)

RootFits(f) ==
  /\ f.fn = "negamax" /\ f.isRoot /\ f.isPv /\ f.pc \in {"enter", "tt", "loop", "full", "zero"}
  /\ f.pc = "enter" => f.depth = Depth /\ f.score = "low"

\* Each call but the last waits for the one above it; quiesence() calls nothing
\* but itself.
CallsIn(fs, answer, stopped) ==
  /\ fs \in Seq(Call) /\ answer \in Answer \cup {NoResult}
  /\ \A i \in 1 .. Len(fs) : CallFits(fs[i], stopped)
  /\ \A i \in 1 .. (Len(fs) - 1) :
       /\ fs[i].pc \in Waiting
       /\ fs[i].fn = "quiesence" \/ fs[i].pc = "razored" => fs[i + 1].fn = "quiesence"
  /\ fs # <<>> => RootFits(fs[1]) /\ (fs[Len(fs)].pc \in Waiting <=> answer # NoResult)
  /\ fs = <<>> => answer # NoResult
  /\ answer.cut => stopped

------------------------------------------------------------------------------
(* The line: at[i] is the ply of call i, sent[i] the number of moves and null *)
(* moves made above it.                                                       *)

BoardAt(ents, q) == ents[q].board
Made(f) == IF Steps(f) > 0 THEN 1 ELSE 0

PliesIn(fs, at, sent) ==
  /\ at[1] = 0 /\ sent[1] = 0
  /\ \A i \in 1 .. Len(fs) : at[i + 1] = at[i] + Steps(fs[i]) /\ sent[i + 1] = sent[i] + Made(fs[i])
  /\ \A i, j \in 1 .. (Len(fs) + 1) : i =< j => at[i] =< at[j] /\ sent[i] =< sent[j]
  /\ \A i \in 1 .. (Len(fs) + 1) : sent[i] =< at[i] /\ at[i] < MaxSearchDepth

\* The half-move clock after a move.
Clock(move, halfMoves) == IF IsZeroing(move) THEN 0 ELSE halfMoves + 1

\* The moves a call has tried and those it has left are the moves of its own
\* position; the one it makes leads to the board of the next call.
PlaceFits(f, here, next) ==
  /\ f.pc \in InLoop => ToSet(f.left) \subseteq Moves[here.position]
  /\ f.pc \in InLoop /\ f.fn = "negamax" => f.tried \cup ToSet(f.left) = Moves[here.position]
  /\ f.pc \in {"full", "zero"} =>
       /\ f.move \in Moves[here.position] /\ f.move.legal /\ next.position = f.move.to
       /\ next.halfMoves = Clock(f.move, here.halfMoves)
  /\ f.pc = "null" =>
       /\ here.position \in DOMAIN NullMoves /\ next.position = NullMoves[here.position]
       /\ next.halfMoves = here.halfMoves

PlacesIn(fs, ents, at) ==
  /\ \A i \in 1 .. Len(fs) : PlaceFits(fs[i], BoardAt(ents, at[i]), BoardAt(ents, at[i + 1]))
  /\ BoardAt(ents, 0) = Board(Root, RootHalfMoves)

HashesIn(fs, ents, reps, at, sent) ==
  /\ Len(reps) = Len(History) + sent[Len(fs) + 1]
  /\ \A k \in 1 .. Len(History) : reps[k] = History[k]
  /\ \A i \in 1 .. Len(fs) :
       Steps(fs[i]) > 0 => reps[Len(History) + sent[i] + 1] = BoardAt(ents, at[i]).position

LineIn(fs, ents, p, reps, at, sent) ==
  /\ p = at[Len(fs) + 1]
  /\ PliesIn(fs, at, sent)
  /\ PlacesIn(fs, ents, at)
  /\ HashesIn(fs, ents, reps, at, sent)

------------------------------------------------------------------------------
(* The PV table *)

PvTyped ==
  /\ pvTable \in [0 .. MaxSearchDepth -> [0 .. MaxSearchDepth -> AnyMove]]
  /\ pvLength \in [0 .. MaxSearchDepth -> 0 .. MaxSearchDepth]

\* The rows up to their length; one that ends before it starts is no line.
pv == [q \in 0 .. MaxSearchDepth |-> IF pvLength[q] >= q THEN Line(q) ELSE <<NoMove>>]

\* The row of a ply is a call's own once its negamax() has cleared it, in the
\* quiesence() that negamax() turned into as well, and until its caller reads it.
OwnsRow(fs, answer, i) ==
  IF i =< Len(fs)
    THEN \/ fs[i].fn = "negamax" /\ fs[i].pc # "enter"
         \/ fs[i].fn = "quiesence" /\ i > 1 /\ fs[i - 1].fn = "negamax"
    ELSE answer # NoResult /\ (i = 1 \/ fs[i - 1].fn = "negamax")

RowsIn(fs, answer, ents, row, at) ==
  \A i \in 1 .. (Len(fs) + 1) :
    OwnsRow(fs, answer, i) => IsLine(BoardAt(ents, at[i]).position, row[at[i]])

RootHasALine(fs, answer, row) ==
  /\ fs # <<>> /\ fs[1].score = "in" => row[0] # <<>>
  /\ fs = <<>> /\ answer.score = "in" => row[0] # <<>> \/ LegalMoves(Root) = {}

------------------------------------------------------------------------------
(* The inductive invariant *)

Entry == [board : [position : Positions, halfMoves : Nat], move : AnyMove]
Hash == Positions \cup {History[i] : i \in DOMAIN History}

Types ==
  /\ entries \in [0 .. (MaxSearchDepth - 1) -> Entry]
  /\ ply \in Nat
  /\ repetitions \in Seq(Hash)
  /\ PvTyped
  /\ searchStopped \in BOOLEAN

Placed(at, sent) ==
  /\ LineIn(frames, entries, ply, repetitions, at, sent)
  /\ RowsIn(frames, returned, entries, pv, at)

CallsAreSound ==
  /\ Types
  /\ keptCut = FALSE
  /\ CallsIn(frames, returned, searchStopped)
  /\ RootHasALine(frames, returned, pv)

\* The last move or null move went past the end of m_stack.
Overrun ==
  /\ frames # <<>> /\ ply \in MaxSearchDepth .. (MaxSearchDepth + 1)
  /\ Len(repetitions) \in Len(History) .. (Len(History) + MaxSearchDepth)

SearchInv ==
  /\ CallsAreSound
  /\ InsideStack => \E at, sent \in [Nat -> Nat] : Placed(at, sent)
  /\ ~InsideStack => Overrun

------------------------------------------------------------------------------
(* Sequences of calls *)

\* g in the place of the last call.
Swapped(fs, fs2, g) ==
  /\ fs2 \in Seq(Call) /\ Len(fs2) = Len(fs) /\ fs2[Len(fs)] = g
  /\ \A i \in 1 .. (Len(fs) - 1) : fs2[i] = fs[i]

Pushed(fs, fs2, c) ==
  /\ fs2 \in Seq(Call) /\ Len(fs2) = Len(fs) + 1 /\ fs2[Len(fs) + 1] = c
  /\ \A i \in 1 .. Len(fs) : fs2[i] = fs[i]

Popped(fs, fs2) ==
  /\ fs2 \in Seq(Call) /\ Len(fs2) = Len(fs) - 1
  /\ \A i \in 1 .. (Len(fs) - 1) : fs2[i] = fs[i]

LEMMA SwapIs ==
  ASSUME NEW fs \in Seq(Call), fs # <<>>, NEW g \in Call
  PROVE  Swapped(fs, [fs EXCEPT ![Len(fs)] = g], g)
<1> DEFINE gs == [fs EXCEPT ![Len(fs)] = g]
<1>1. Len(fs) \in Nat /\ Len(fs) # 0 /\ \A i \in 1 .. Len(fs) : fs[i] \in Call
  OBVIOUS
<1>2. gs = [i \in 1 .. Len(fs) |-> IF i = Len(fs) THEN g ELSE fs[i]]
  OBVIOUS
<1> HIDE DEF gs
<1>3. \A i \in 1 .. Len(fs) : gs[i] = IF i = Len(fs) THEN g ELSE fs[i]
  BY <1>2
<1>4. gs \in Seq(Call) /\ Len(gs) = Len(fs)
  <2>1. gs \in [1 .. Len(fs) -> Call]
    BY <1>1, <1>2
  <2> QED
    BY <1>1, <2>1
<1>5. \A i \in 1 .. (Len(fs) - 1) : i \in 1 .. Len(fs) /\ i # Len(fs)
  BY <1>1
<1>6. Len(fs) \in 1 .. Len(fs)
  BY <1>1
<1>7. Swapped(fs, gs, g)
  BY <1>3, <1>4, <1>5, <1>6 DEF Swapped
<1> QED
  BY <1>7 DEF gs

LEMMA PushIs ==
  ASSUME NEW fs \in Seq(Call), NEW c \in Call
  PROVE  Pushed(fs, Append(fs, c), c)
  BY DEF Pushed

LEMMA PopIs ==
  ASSUME NEW fs \in Seq(Call), fs # <<>>
  PROVE  Popped(fs, Front(fs))
<1>1. Len(fs) \in Nat /\ Len(fs) # 0 /\ \A i \in 1 .. Len(fs) : fs[i] \in Call
  OBVIOUS
<1>2. Front(fs) = [i \in 1 .. (Len(fs) - 1) |-> fs[i]]
  BY <1>1 DEF Front
<1> QED
  BY <1>1, <1>2 DEF Popped

\* What is popped does not depend on what the last call became.
LEMMA PopAfterSwap ==
  ASSUME NEW fs \in Seq(Call), fs # <<>>, NEW gs, NEW g, Swapped(fs, gs, g)
  PROVE  Front(gs) = Front(fs)
<1>1. Len(fs) \in Nat /\ Len(fs) # 0
  OBVIOUS
<1>2. /\ Front(fs) = [i \in 1 .. (Len(fs) - 1) |-> fs[i]]
      /\ Front(gs) = [i \in 1 .. (Len(fs) - 1) |-> gs[i]]
  BY <1>1 DEF Front, Swapped
<1> QED
  BY <1>2 DEF Swapped

------------------------------------------------------------------------------
(* The line moves with the calls *)

LEMMA StepsAre ==
  \A f : /\ f.pc \in {"full", "zero"} => Steps(f) = 1
         /\ f.pc = "null" => Steps(f) = 2
         /\ f.pc \notin {"full", "zero", "null"} => Steps(f) = 0
         /\ Steps(f) \in Nat /\ Made(f) \in Nat /\ Made(f) =< Steps(f) /\ Steps(f) =< 2
         /\ Steps(f) > 0 => Made(f) = 1 /\ f.pc \in {"full", "zero", "null"}
         /\ Steps(f) = 0 => Made(f) = 0
  BY SMT DEF Steps, Made

LEMMA Sizes ==
  /\ Depth \in Nat /\ Depth # 0 /\ MaxSearchDepth \in Nat /\ MaxSearchDepth # 0
  /\ Len(History) \in Nat
  BY DepthAssumption, GraphAssumption

LEMMA Within ==
  \A h, a, b : h \in Nat /\ a \in Nat /\ b \in Nat /\ a + 1 =< b => h + a + 1 \in 1 .. (h + b)
  OBVIOUS

Numbers(f) == \A i \in Nat : f[i] \in Nat
Altered(f, f2, k, v) == f2[k] = v /\ \A i \in Nat : i # k => f2[i] = f[i]

LEMMA Altering ==
  ASSUME NEW f \in [Nat -> Nat], NEW k \in Nat, NEW v \in Nat
  PROVE  /\ [f EXCEPT ![k] = v] \in [Nat -> Nat]
         /\ Altered(f, [f EXCEPT ![k] = v], k, v)
         /\ Numbers(f)
  BY DEF Altered, Numbers

\* A call with the same step.
LEMMA LineSwaps ==
  ASSUME NEW fs \in Seq(Call), fs # <<>>, NEW ents, NEW p, NEW reps,
         NEW at, NEW sent, Numbers(at), Numbers(sent),
         LineIn(fs, ents, p, reps, at, sent),
         NEW gs, NEW g, Swapped(fs, gs, g), Steps(g) = Steps(fs[Len(fs)]),
         PlaceFits(g, BoardAt(ents, at[Len(fs)]), BoardAt(ents, at[Len(fs) + 1]))
  PROVE  LineIn(gs, ents, p, reps, at, sent)
<1> DEFINE n == Len(fs)
<1>1. /\ n \in Nat /\ n # 0 /\ Len(gs) = n /\ gs[n] = g
      /\ \A i \in 1 .. n : i = n \/ gs[i] = fs[i]
  BY DEF Swapped
<1>2. \A i \in 1 .. n : Steps(gs[i]) = Steps(fs[i]) /\ Made(gs[i]) = Made(fs[i])
  BY <1>1 DEF Made
<1>3. PliesIn(gs, at, sent)
  BY <1>1, <1>2 DEF LineIn, PliesIn
<1>4. PlacesIn(gs, ents, at)
  BY <1>1 DEF LineIn, PlacesIn
<1>5. HashesIn(gs, ents, reps, at, sent)
  BY <1>1, <1>2 DEF LineIn, HashesIn
<1> QED
  BY <1>1, <1>3, <1>4, <1>5 DEF LineIn

\* A call of the node the line ends at.
LEMMA LineGrows ==
  ASSUME NEW fs \in Seq(Call), fs # <<>>, NEW ents, NEW p, NEW reps,
         NEW at, NEW sent, Numbers(at), Numbers(sent),
         LineIn(fs, ents, p, reps, at, sent),
         NEW gs, NEW c, Pushed(fs, gs, c), c.pc = "enter",
         NEW at2, Altered(at, at2, Len(fs) + 2, at[Len(fs) + 1]),
         NEW sent2, Altered(sent, sent2, Len(fs) + 2, sent[Len(fs) + 1])
  PROVE  LineIn(gs, ents, p, reps, at2, sent2)
<1> DEFINE n == Len(fs)
<1>1. /\ n \in Nat /\ n # 0 /\ Len(gs) = n + 1 /\ gs[n + 1] = c
      /\ \A i \in 1 .. n : gs[i] = fs[i]
  BY DEF Pushed
<1>2. /\ at2[n + 2] = at[n + 1] /\ sent2[n + 2] = sent[n + 1]
      /\ \A i \in 1 .. (n + 1) : at2[i] = at[i] /\ sent2[i] = sent[i]
  BY <1>1 DEF Altered
<1>3. Steps(c) = 0 /\ Made(c) = 0
  BY StepsAre
<1>4. \A i \in 1 .. (n + 1) : at[i] \in Nat /\ sent[i] \in Nat
  BY <1>1 DEF Numbers
<1>5. PliesIn(gs, at2, sent2)
  <2>1. PliesIn(fs, at, sent)
    BY DEF LineIn
  <2>2. \A i \in 1 .. (n + 2) : i = n + 2 \/ i \in 1 .. (n + 1)
    BY <1>1
  <2>3. at2[1] = 0 /\ sent2[1] = 0
    BY <1>1, <1>2, <1>4, <2>1, Sizes DEF PliesIn
  <2>4. \A i \in 1 .. (n + 1) : /\ at2[i + 1] = at2[i] + Steps(gs[i])
                              /\ sent2[i + 1] = sent2[i] + Made(gs[i])
    BY <1>1, <1>2, <1>3, <1>4, <2>1, SMTT(60) DEF PliesIn
  <2>5. \A i, j \in 1 .. (n + 2) : i =< j => at2[i] =< at2[j] /\ sent2[i] =< sent2[j]
    BY <1>1, <1>2, <1>4, <2>1, <2>2, Sizes DEF PliesIn
  <2>6. \A i \in 1 .. (n + 2) : sent2[i] =< at2[i] /\ at2[i] < MaxSearchDepth
    BY <1>1, <1>2, <1>4, <2>1, <2>2, Sizes DEF PliesIn
  <2> QED
    BY <1>1, <2>3, <2>4, <2>5, <2>6 DEF PliesIn
<1>6. PlacesIn(gs, ents, at2)
  <2>1. PlaceFits(c, BoardAt(ents, at2[n + 1]), BoardAt(ents, at2[n + 2]))
    BY DEF PlaceFits, InLoop
  <2>2. \A i \in 1 .. (n + 1) : i = n + 1 \/ (i \in 1 .. n /\ i + 1 \in 1 .. (n + 1))
    BY <1>1
  <2>3. PlacesIn(fs, ents, at)
    BY DEF LineIn
  <2>4. ASSUME NEW i \in 1 .. n
        PROVE  PlaceFits(gs[i], BoardAt(ents, at2[i]), BoardAt(ents, at2[i + 1]))
    BY <1>1, <1>2, <2>3 DEF PlacesIn
  <2> QED
    BY <1>1, <2>1, <2>2, <2>3, <2>4 DEF PlacesIn
<1>7. HashesIn(gs, ents, reps, at2, sent2)
  <2>1. HashesIn(fs, ents, reps, at, sent)
    BY DEF LineIn
  <2>2. \A i \in 1 .. (n + 1) : i = n + 1 \/ i \in 1 .. n
    BY <1>1
  <2>3. \A i \in 1 .. n : i \in 1 .. (n + 1)
    BY <1>1
  <2>4. Len(reps) = Len(History) + sent2[Len(gs) + 1]
    BY <1>1, <1>2, <2>1 DEF HashesIn
  <2>5. ASSUME NEW i \in 1 .. n, Steps(gs[i]) > 0
        PROVE  reps[Len(History) + sent2[i] + 1] = BoardAt(ents, at2[i]).position
    BY <1>1, <1>2, <2>1, <2>3, <2>5 DEF HashesIn
  <2> QED
    BY <1>1, <1>3, <2>1, <2>2, <2>4, <2>5 DEF HashesIn
<1>8. p = at2[Len(gs) + 1]
  BY <1>1, <1>2 DEF LineIn
<1> QED
  BY <1>5, <1>6, <1>7, <1>8 DEF LineIn

\* The last call returns from the node it was called for.
LEMMA LineShrinks ==
  ASSUME NEW fs \in Seq(Call), fs # <<>>, NEW ents, NEW p, NEW reps,
         NEW at, NEW sent, Numbers(at), Numbers(sent),
         LineIn(fs, ents, p, reps, at, sent),
         NEW gs, Popped(fs, gs), Steps(fs[Len(fs)]) = 0
  PROVE  LineIn(gs, ents, p, reps, at, sent)
<1> DEFINE n == Len(fs)
<1>1. /\ n \in Nat /\ n # 0 /\ Len(gs) = n - 1
      /\ \A i \in 1 .. (n - 1) : gs[i] = fs[i]
  BY DEF Popped
<1>2. Made(fs[n]) = 0 /\ at[n + 1] = at[n] /\ sent[n + 1] = sent[n]
  <2>1. n \in 1 .. n /\ at[n] \in Nat /\ sent[n] \in Nat /\ Made(fs[n]) = 0
    BY <1>1, StepsAre DEF Numbers
  <2>2. at[n + 1] = at[n] + Steps(fs[n]) /\ sent[n + 1] = sent[n] + Made(fs[n])
    BY <2>1 DEF LineIn, PliesIn
  <2>3. Steps(fs[n]) = 0
    OBVIOUS
  <2> QED
    BY <2>1, <2>2, <2>3
<1>3. PliesIn(gs, at, sent)
  <2>1. PliesIn(fs, at, sent)
    BY DEF LineIn
  <2>2. /\ \A i \in 1 .. n : i \in 1 .. (n + 1)
        /\ \A i \in 1 .. (n - 1) : i \in 1 .. n
        /\ Len(gs) + 1 = n
    BY <1>1
  <2> QED
    BY <1>1, <2>1, <2>2 DEF PliesIn
<1>4. PlacesIn(gs, ents, at)
  BY <1>1 DEF LineIn, PlacesIn
<1>5. HashesIn(gs, ents, reps, at, sent)
  BY <1>1, <1>2 DEF LineIn, HashesIn
<1> QED
  BY <1>1, <1>2, <1>3, <1>4, <1>5 DEF LineIn

\* The last call makes a move or a null move.
LEMMA LineMoves ==
  ASSUME NEW fs \in Seq(Call), fs # <<>>, NEW ents, NEW p, NEW reps,
         NEW at, NEW sent, Numbers(at), Numbers(sent),
         LineIn(fs, ents, p, reps, at, sent),
         NEW gs, NEW g, Swapped(fs, gs, g), Steps(fs[Len(fs)]) = 0, Steps(g) > 0,
         p + Steps(g) < MaxSearchDepth,
         NEW ents2, \A q \in Nat : q =< p => BoardAt(ents2, q) = BoardAt(ents, q),
         NEW reps2, Len(reps2) = Len(reps) + 1, reps2[Len(reps) + 1] = BoardAt(ents, p).position,
         \A k \in 1 .. Len(reps) : reps2[k] = reps[k],
         PlaceFits(g, BoardAt(ents, p), BoardAt(ents2, p + Steps(g))),
         NEW at2, Altered(at, at2, Len(fs) + 1, p + Steps(g)),
         NEW sent2, Altered(sent, sent2, Len(fs) + 1, sent[Len(fs) + 1] + 1)
  PROVE  LineIn(gs, ents2, p + Steps(g), reps2, at2, sent2)
<1> DEFINE n == Len(fs)
<1>1. /\ n \in Nat /\ n # 0 /\ Len(gs) = n /\ gs[n] = g
      /\ \A i \in 1 .. (n - 1) : gs[i] = fs[i]
  BY DEF Swapped
<1>2. /\ at2[n + 1] = p + Steps(g) /\ sent2[n + 1] = sent[n + 1] + 1
      /\ \A i \in 1 .. n : at2[i] = at[i] /\ sent2[i] = sent[i]
  BY <1>1 DEF Altered
<1>3. \A i \in 1 .. (n + 1) : at[i] \in Nat /\ sent[i] \in Nat
  BY <1>1 DEF Numbers
<1>4. /\ \A i \in 1 .. (n + 1) : i = n + 1 \/ i \in 1 .. n
      /\ \A i \in 1 .. n : i \in 1 .. (n + 1) /\ i + 1 \in 1 .. (n + 1) /\ (i = n \/ i \in 1 .. (n - 1))
      /\ \A i \in 1 .. (n - 1) : i \in 1 .. n /\ i + 1 \in 1 .. n
      /\ n \in 1 .. n /\ n + 1 \in 1 .. (n + 1)
  BY <1>1
<1>12. at[n] \in Nat /\ sent[n] \in Nat /\ at[n + 1] \in Nat /\ sent[n + 1] \in Nat
  BY <1>3, <1>4
<1>5. PliesIn(fs, at, sent) /\ p = at[n + 1]
  BY DEF LineIn
<1>6. p = at[n] /\ sent[n + 1] = sent[n] /\ p \in Nat
  <2>1. at[n + 1] = at[n] + Steps(fs[n]) /\ sent[n + 1] = sent[n] + Made(fs[n])
    BY <1>4, <1>5 DEF PliesIn
  <2>2. Steps(fs[n]) = 0 /\ Made(fs[n]) = 0
    BY StepsAre
  <2> QED
    BY <1>12, <1>5, <2>1, <2>2
<1>7. Steps(g) \in Nat /\ Steps(g) =< 2 /\ Made(g) = 1
  BY StepsAre
<1>8. PliesIn(gs, at2, sent2)
  <2>1. at2[1] = 0 /\ sent2[1] = 0
    BY <1>1, <1>2, <1>5 DEF PliesIn
  <2>2. ASSUME NEW i \in 1 .. n
        PROVE  at2[i + 1] = at2[i] + Steps(gs[i]) /\ sent2[i + 1] = sent2[i] + Made(gs[i])
    <3>1. CASE i = n
      BY <1>1, <1>2, <1>3, <1>4, <1>6, <1>7, <3>1
    <3>2. CASE i # n
      <4>1. i \in 1 .. (n - 1)
        BY <1>4, <3>2
      <4> QED
        BY <1>1, <1>2, <1>4, <1>5, <4>1 DEF PliesIn, Made
    <3> QED
      BY <3>1, <3>2
  <2>3. ASSUME NEW i \in 1 .. (n + 1), NEW j \in 1 .. (n + 1), i =< j
        PROVE  at2[i] =< at2[j] /\ sent2[i] =< sent2[j]
    <3>1. CASE j = n + 1 /\ i # n + 1
      <4>1. i \in 1 .. n /\ at[i] =< at[n + 1] /\ sent[i] =< sent[n + 1]
        BY <1>4, <1>5, <3>1 DEF PliesIn
      <4>2. at2[i] = at[i] /\ sent2[i] = sent[i] /\ at[i] \in Nat /\ sent[i] \in Nat
        BY <1>2, <1>3, <1>4, <4>1
      <4> QED
        BY <1>2, <1>5, <1>6, <1>7, <1>12, <3>1, <4>1, <4>2, SMTT(60)
    <3>2. CASE j = n + 1 /\ i = n + 1
      BY <1>2, <1>3, <1>4, <1>6, <1>7, <3>2, SMTT(60)
    <3>3. CASE j # n + 1
      <4>1. i \in 1 .. n /\ j \in 1 .. n
        BY <1>1, <1>4, <2>3, <3>3
      <4> QED
        BY <1>2, <1>4, <1>5, <2>3, <4>1 DEF PliesIn
    <3> QED
      BY <3>1, <3>2, <3>3
  <2>4. ASSUME NEW i \in 1 .. (n + 1)
        PROVE  sent2[i] =< at2[i] /\ at2[i] < MaxSearchDepth
    <3>1. CASE i = n + 1
      <4>1. sent[n + 1] =< p
        BY <1>4, <1>5 DEF PliesIn
      <4> QED
        BY <1>2, <1>6, <1>7, <1>12, <3>1, <4>1, Sizes, SMTT(60)
    <3>2. CASE i # n + 1
      BY <1>2, <1>4, <1>5, <3>2 DEF PliesIn
    <3> QED
      BY <3>1, <3>2
  <2> QED
    BY <1>1, <2>1, <2>2, <2>3, <2>4 DEF PliesIn
<1>9. \A i \in 1 .. n : BoardAt(ents2, at2[i]) = BoardAt(ents, at[i])
  <2> TAKE i \in 1 .. n
  <2>1. at[i] =< p /\ at[i] \in Nat
    BY <1>3, <1>4, <1>5 DEF PliesIn
  <2> QED
    BY <1>2, <2>1
<1>10. PlacesIn(gs, ents2, at2)
  <2>1. PlacesIn(fs, ents, at)
    BY DEF LineIn
  <2>2. ASSUME NEW i \in 1 .. n
        PROVE  PlaceFits(gs[i], BoardAt(ents2, at2[i]), BoardAt(ents2, at2[i + 1]))
    <3>1. CASE i = n
      BY <1>1, <1>2, <1>4, <1>6, <1>9, <3>1
    <3>2. CASE i # n
      <4>1. i \in 1 .. (n - 1)
        BY <1>4, <3>2
      <4> QED
        BY <1>1, <1>4, <1>9, <2>1, <4>1 DEF PlacesIn
    <3> QED
      BY <3>1, <3>2
  <2>3. BoardAt(ents2, 0) = Board(Root, RootHalfMoves)
    BY <1>6, <2>1 DEF PlacesIn
  <2> QED
    BY <1>1, <2>2, <2>3 DEF PlacesIn
<1>11. HashesIn(gs, ents2, reps2, at2, sent2)
  <2>1. HashesIn(fs, ents, reps, at, sent)
    BY DEF LineIn
  <2>2. Len(reps) = Len(History) + sent[n + 1] /\ Len(reps) \in Nat
    BY <1>3, <1>4, <2>1, Sizes DEF HashesIn
  <2>3. Len(reps2) = Len(History) + sent2[Len(gs) + 1]
    BY <1>1, <1>2, <1>12, <2>2, Sizes
  <2>4. ASSUME NEW k \in 1 .. Len(History) PROVE reps2[k] = History[k]
    <3>1. k \in 1 .. Len(reps)
      BY <1>12, <2>2, Sizes
    <3> QED
      BY <2>1, <3>1 DEF HashesIn
  <2>5. ASSUME NEW i \in 1 .. n, Steps(gs[i]) > 0
        PROVE  reps2[Len(History) + sent2[i] + 1] = BoardAt(ents2, at2[i]).position
    <3>1. CASE i = n
      BY <1>2, <1>4, <1>6, <1>9, <2>2, <3>1
    <3>2. CASE i # n
      <4>1. i \in 1 .. (n - 1)
        BY <1>4, <3>2
      <4>2. /\ Steps(fs[i]) > 0
            /\ reps[Len(History) + sent[i] + 1] = BoardAt(ents, at[i]).position
        BY <1>1, <1>4, <2>1, <2>5, <4>1 DEF HashesIn
      <4>3. sent[i + 1] = sent[i] + 1 /\ sent[i + 1] =< sent[n + 1]
        <5>1. Made(fs[i]) = 1
          BY <4>2, StepsAre
        <5>2. sent[i + 1] = sent[i] + Made(fs[i])
          BY <1>4, <1>5, <4>1 DEF PliesIn
        <5>3. i + 1 \in 1 .. (n + 1) /\ i + 1 =< n + 1
          BY <1>1, <1>4, <4>1
        <5>4. sent[i + 1] =< sent[n + 1]
          BY <1>4, <1>5, <5>3 DEF PliesIn
        <5> QED
          BY <5>1, <5>2, <5>4
      <4>5. sent[i] \in Nat
        BY <1>3, <1>4, <4>1
      <4>4. Len(History) + sent[i] + 1 \in 1 .. Len(reps)
        <5>1. sent[i] + 1 =< sent[n + 1]
          BY <4>3
        <5> QED
          BY <1>12, <2>2, <4>5, <5>1, Sizes, Within, Zenon
      <4> QED
        BY <1>2, <1>9, <4>2, <4>4
    <3> QED
      BY <3>1, <3>2
  <2> QED
    BY <1>1, <2>3, <2>4, <2>5 DEF HashesIn
<1> QED
  BY <1>1, <1>2, <1>8, <1>10, <1>11 DEF LineIn

\* It takes the move back.
LEMMA LineReturns ==
  ASSUME NEW fs \in Seq(Call), fs # <<>>, NEW ents, NEW p, NEW reps,
         NEW at, NEW sent, Numbers(at), Numbers(sent),
         LineIn(fs, ents, p, reps, at, sent),
         NEW gs, NEW g, Swapped(fs, gs, g), Steps(fs[Len(fs)]) > 0, Steps(g) = 0,
         NEW reps2, Len(reps2) = Len(reps) - 1, \A k \in 1 .. Len(reps2) : reps2[k] = reps[k],
         PlaceFits(g, BoardAt(ents, at[Len(fs)]), BoardAt(ents, at[Len(fs)])),
         NEW at2, Altered(at, at2, Len(fs) + 1, at[Len(fs)]),
         NEW sent2, Altered(sent, sent2, Len(fs) + 1, sent[Len(fs)])
  PROVE  LineIn(gs, ents, p - Steps(fs[Len(fs)]), reps2, at2, sent2)
<1> DEFINE n == Len(fs)
<1>1. /\ n \in Nat /\ n # 0 /\ Len(gs) = n /\ gs[n] = g
      /\ \A i \in 1 .. (n - 1) : gs[i] = fs[i]
  BY DEF Swapped
<1>2. /\ at2[n + 1] = at[n] /\ sent2[n + 1] = sent[n]
      /\ \A i \in 1 .. n : at2[i] = at[i] /\ sent2[i] = sent[i]
  BY <1>1 DEF Altered
<1>3. \A i \in 1 .. (n + 1) : at[i] \in Nat /\ sent[i] \in Nat
  BY <1>1 DEF Numbers
<1>4. /\ \A i \in 1 .. (n + 1) : i = n + 1 \/ i \in 1 .. n
      /\ \A i \in 1 .. n : i \in 1 .. (n + 1) /\ i + 1 \in 1 .. (n + 1) /\ (i = n \/ i \in 1 .. (n - 1))
      /\ \A i \in 1 .. (n - 1) : i \in 1 .. n /\ i + 1 \in 1 .. n
      /\ n \in 1 .. n /\ n + 1 \in 1 .. (n + 1)
  BY <1>1
<1>12. at[n] \in Nat /\ sent[n] \in Nat /\ at[n + 1] \in Nat /\ sent[n + 1] \in Nat
  BY <1>3, <1>4
<1>5. PliesIn(fs, at, sent) /\ p = at[n + 1]
  BY DEF LineIn
<1>6. p = at[n] + Steps(fs[n]) /\ sent[n + 1] = sent[n] + 1
  BY <1>4, <1>5, StepsAre, ZenonT(90) DEF PliesIn
<1>7. Steps(g) = 0 /\ Made(g) = 0
  BY StepsAre
<1>8. p - Steps(fs[n]) = at2[n + 1]
  <2>1. Steps(fs[n]) \in Nat
    BY StepsAre
  <2> QED
    BY <1>2, <1>6, <1>12, <2>1
<1>9. PliesIn(gs, at2, sent2)
  <2>1. at2[1] = 0 /\ sent2[1] = 0
    BY <1>1, <1>2, <1>5 DEF PliesIn
  <2>2. ASSUME NEW i \in 1 .. n
        PROVE  at2[i + 1] = at2[i] + Steps(gs[i]) /\ sent2[i + 1] = sent2[i] + Made(gs[i])
    <3>1. CASE i = n
      BY <1>1, <1>2, <1>3, <1>4, <1>7, <3>1
    <3>2. CASE i # n
      <4>1. i \in 1 .. (n - 1)
        BY <1>4, <3>2
      <4> QED
        BY <1>1, <1>2, <1>4, <1>5, <4>1 DEF PliesIn, Made
    <3> QED
      BY <3>1, <3>2
  <2>3. ASSUME NEW i \in 1 .. (n + 1), NEW j \in 1 .. (n + 1), i =< j
        PROVE  at2[i] =< at2[j] /\ sent2[i] =< sent2[j]
    <3>1. CASE j = n + 1 /\ i # n + 1
      <4>1. i \in 1 .. n /\ at[i] =< at[n] /\ sent[i] =< sent[n]
        BY <1>1, <1>4, <1>5, <3>1 DEF PliesIn
      <4> QED
        BY <1>2, <3>1, <4>1
    <3>2. CASE j = n + 1 /\ i = n + 1
      BY <1>2, <1>3, <1>4, <3>2
    <3>3. CASE j # n + 1
      <4>2. j \in 1 .. n
        BY <1>4, <3>3
      <4>1. i \in 1 .. n /\ j \in 1 .. n
        BY <1>1, <2>3, <4>2
      <4> QED
        BY <1>2, <1>4, <1>5, <2>3, <4>1 DEF PliesIn
    <3> QED
      BY <3>1, <3>2, <3>3
  <2>4. ASSUME NEW i \in 1 .. (n + 1)
        PROVE  sent2[i] =< at2[i] /\ at2[i] < MaxSearchDepth
    <3>1. CASE i = n + 1
      BY <1>2, <1>4, <1>5, <3>1 DEF PliesIn
    <3>2. CASE i # n + 1
      BY <1>2, <1>4, <1>5, <3>2 DEF PliesIn
    <3> QED
      BY <3>1, <3>2
  <2> QED
    BY <1>1, <2>1, <2>2, <2>3, <2>4 DEF PliesIn
<1>10. PlacesIn(gs, ents, at2)
  <2>1. PlacesIn(fs, ents, at)
    BY DEF LineIn
  <2>2. ASSUME NEW i \in 1 .. n
        PROVE  PlaceFits(gs[i], BoardAt(ents, at2[i]), BoardAt(ents, at2[i + 1]))
    <3>1. CASE i = n
      BY <1>1, <1>2, <1>4, <3>1
    <3>2. CASE i # n
      <4>1. i \in 1 .. (n - 1)
        BY <1>4, <3>2
      <4> QED
        BY <1>1, <1>2, <1>4, <2>1, <4>1 DEF PlacesIn
    <3> QED
      BY <3>1, <3>2
  <2> QED
    BY <1>1, <2>1, <2>2 DEF PlacesIn
<1>11. HashesIn(gs, ents, reps2, at2, sent2)
  <2>1. HashesIn(fs, ents, reps, at, sent)
    BY DEF LineIn
  <2>2. Len(reps2) = Len(History) + sent[n] /\ Len(reps2) \in Nat
    <3>1. Len(reps) = Len(History) + sent[n + 1]
      BY <2>1 DEF HashesIn
    <3> QED
      BY <1>6, <1>12, <3>1, Sizes, SMTT(60)
  <2>3. Len(reps2) = Len(History) + sent2[Len(gs) + 1]
    BY <1>1, <1>2, <2>2
  <2>4. ASSUME NEW k \in 1 .. Len(History) PROVE reps2[k] = History[k]
    <3>1. k \in 1 .. Len(reps2)
      BY <1>12, <2>2, Sizes
    <3> QED
      BY <2>1, <3>1 DEF HashesIn
  <2>5. ASSUME NEW i \in 1 .. n, Steps(gs[i]) > 0
        PROVE  reps2[Len(History) + sent2[i] + 1] = BoardAt(ents, at2[i]).position
    <3>1. i \in 1 .. (n - 1)
      BY <1>1, <1>4, <1>7, <2>5
    <3>2. /\ Steps(fs[i]) > 0
          /\ reps[Len(History) + sent[i] + 1] = BoardAt(ents, at[i]).position
      BY <1>1, <1>4, <2>1, <2>5, <3>1 DEF HashesIn
    <3>3. sent[i + 1] = sent[i] + 1 /\ sent[i + 1] =< sent[n]
      <4>1. Made(fs[i]) = 1
        BY <3>2, StepsAre
      <4>2. sent[i + 1] = sent[i] + Made(fs[i])
        BY <1>4, <1>5, <3>1 DEF PliesIn
      <4>3. i + 1 \in 1 .. (n + 1) /\ i + 1 =< n
        BY <1>1, <1>4, <3>1
      <4>4. sent[i + 1] =< sent[n]
        BY <1>4, <1>5, <4>3 DEF PliesIn
      <4> QED
        BY <4>1, <4>2, <4>4
    <3>5. sent[i] \in Nat
      BY <1>3, <1>4, <3>1
    <3>4. Len(History) + sent[i] + 1 \in 1 .. Len(reps2)
      <4>1. sent[i] + 1 =< sent[n]
        BY <3>3
      <4> QED
        BY <1>12, <2>2, <3>5, <4>1, Sizes, Within, Zenon
    <3> QED
      BY <1>2, <3>2, <3>4
  <2> QED
    BY <1>1, <2>3, <2>4, <2>5 DEF HashesIn
<1> QED
  BY <1>1, <1>8, <1>9, <1>10, <1>11 DEF LineIn

------------------------------------------------------------------------------
(* The calls change from the top *)

LEMMA AnswersAreNoCalls == NoResult \notin Answer /\ NoResult.cut = FALSE /\ NoResult.score # "in"
  BY DEF NoResult, Answer, Scores

LEMMA CallsSwap ==
  ASSUME NEW fs, fs # <<>>, NEW a, NEW stopped, CallsIn(fs, a, stopped),
         NEW gs, NEW g, Swapped(fs, gs, g), CallFits(g, stopped), g.pc \notin Waiting,
         g.fn = fs[Len(fs)].fn \/ g.fn = "quiesence",
         Len(fs) = 1 => RootFits(g)
  PROVE  CallsIn(gs, NoResult, stopped)
<1> DEFINE n == Len(fs)
<1>1. fs \in Seq(Call)
  BY DEF CallsIn
<1>2. /\ n \in Nat /\ n # 0 /\ Len(gs) = n /\ gs[n] = g /\ gs \in Seq(Call)
      /\ \A i \in 1 .. (n - 1) : gs[i] = fs[i]
  BY <1>1 DEF Swapped
<1>3. /\ \A i \in 1 .. n : i = n \/ i \in 1 .. (n - 1)
      /\ \A i \in 1 .. (n - 1) : i \in 1 .. n /\ (i + 1 = n \/ i + 1 \in 1 .. (n - 1))
      /\ n # 1 => 1 \in 1 .. (n - 1)
  BY <1>2
<1>4. \A i \in 1 .. n : CallFits(gs[i], stopped)
  BY <1>2, <1>3 DEF CallsIn
<1>5. ASSUME NEW i \in 1 .. (n - 1)
      PROVE  /\ gs[i].pc \in Waiting
             /\ gs[i].fn = "quiesence" \/ gs[i].pc = "razored" => gs[i + 1].fn = "quiesence"
  <2>1. /\ fs[i].pc \in Waiting
        /\ fs[i].fn = "quiesence" \/ fs[i].pc = "razored" => fs[i + 1].fn = "quiesence"
    BY DEF CallsIn
  <2> QED
    BY <1>2, <1>3, <2>1
<1>6. gs # <<>> /\ RootFits(gs[1])
  BY <1>2, <1>3 DEF CallsIn
<1> QED
  BY <1>2, <1>4, <1>5, <1>6, AnswersAreNoCalls DEF CallsIn

LEMMA CallsCall ==
  ASSUME NEW fs, fs # <<>>, NEW a, NEW stopped, CallsIn(fs, a, stopped),
         NEW gs, NEW g, Swapped(fs, gs, g), CallFits(g, stopped), g.pc \in Waiting,
         g.fn = fs[Len(fs)].fn,
         Len(fs) = 1 => RootFits(g),
         NEW hs, NEW c, Pushed(gs, hs, c), CallFits(c, stopped), c.pc = "enter",
         g.fn = "quiesence" \/ g.pc = "razored" => c.fn = "quiesence"
  PROVE  CallsIn(hs, NoResult, stopped)
<1> DEFINE n == Len(fs)
<1>1. fs \in Seq(Call)
  BY DEF CallsIn
<1>2. /\ n \in Nat /\ n # 0 /\ Len(hs) = n + 1 /\ hs[n] = g /\ hs[n + 1] = c
      /\ hs \in Seq(Call) /\ \A i \in 1 .. (n - 1) : hs[i] = fs[i]
  BY <1>1 DEF Swapped, Pushed
<1>3. /\ \A i \in 1 .. (n + 1) : i = n + 1 \/ i = n \/ i \in 1 .. (n - 1)
      /\ \A i \in 1 .. n : i = n \/ i \in 1 .. (n - 1)
      /\ \A i \in 1 .. (n - 1) : i \in 1 .. n /\ (i + 1 = n \/ i + 1 \in 1 .. (n - 1))
      /\ n # 1 => 1 \in 1 .. (n - 1)
  <2>1. n \in Nat /\ n # 0
    BY <1>2
  <2> HIDE DEF n
  <2>2. \A i \in 1 .. (n + 1) : i = n + 1 \/ i \in 1 .. n
    BY <2>1
  <2>3. \A i \in 1 .. n : i = n \/ i \in 1 .. (n - 1)
    BY <2>1
  <2> QED
    BY <2>1, <2>2, <2>3
<1>4. \A i \in 1 .. (n + 1) : CallFits(hs[i], stopped)
  BY <1>2, <1>3 DEF CallsIn
<1>5. ASSUME NEW i \in 1 .. n
      PROVE  /\ hs[i].pc \in Waiting
             /\ hs[i].fn = "quiesence" \/ hs[i].pc = "razored" => hs[i + 1].fn = "quiesence"
  <2>1. CASE i = n
    BY <1>2, <2>1
  <2>2. CASE i \in 1 .. (n - 1)
    <3>1. /\ fs[i].pc \in Waiting
          /\ fs[i].fn = "quiesence" \/ fs[i].pc = "razored" => fs[i + 1].fn = "quiesence"
      BY <2>2 DEF CallsIn
    <3> QED
      BY <1>2, <1>3, <2>2, <3>1
  <2> QED
    BY <1>3, <2>1, <2>2
<1>6. hs # <<>> /\ RootFits(hs[1])
  BY <1>2, <1>3 DEF CallsIn
<1>7. hs[Len(hs)].pc \notin Waiting
  BY <1>2 DEF Waiting
<1> QED
  BY <1>2, <1>4, <1>5, <1>6, <1>7, AnswersAreNoCalls DEF CallsIn

LEMMA CallsPop ==
  ASSUME NEW fs, fs # <<>>, NEW a, NEW stopped, CallsIn(fs, a, stopped),
         NEW gs, Popped(fs, gs), NEW b \in Answer, b.cut => stopped
  PROVE  CallsIn(gs, b, stopped)
<1> DEFINE n == Len(fs)
<1>1. fs \in Seq(Call)
  BY DEF CallsIn
<1>2. /\ n \in Nat /\ n # 0 /\ Len(gs) = n - 1 /\ gs \in Seq(Call)
      /\ \A i \in 1 .. (n - 1) : gs[i] = fs[i]
  BY <1>1 DEF Popped
<1>3. /\ \A i \in 1 .. (n - 1) : i \in 1 .. n
      /\ \A i \in 1 .. ((n - 1) - 1) : i \in 1 .. (n - 1) /\ i + 1 \in 1 .. (n - 1)
      /\ n # 1 => 1 \in 1 .. (n - 1) /\ n - 1 \in 1 .. (n - 1)
  BY <1>2
<1>4. gs # <<>> => n # 1
  BY <1>2
<1>5. gs # <<>> => RootFits(gs[1]) /\ gs[Len(gs)].pc \in Waiting
  BY <1>2, <1>3, <1>4 DEF CallsIn
<1>6. \A i \in 1 .. Len(gs) : CallFits(gs[i], stopped)
  BY <1>2, <1>3 DEF CallsIn
<1>7. ASSUME NEW i \in 1 .. (Len(gs) - 1)
      PROVE  /\ gs[i].pc \in Waiting
             /\ gs[i].fn = "quiesence" \/ gs[i].pc = "razored" => gs[i + 1].fn = "quiesence"
  <2>1. i \in 1 .. (n - 1) /\ i + 1 \in 1 .. (n - 1)
    BY <1>2, <1>3
  <2>2. /\ fs[i].pc \in Waiting
        /\ fs[i].fn = "quiesence" \/ fs[i].pc = "razored" => fs[i + 1].fn = "quiesence"
    BY <2>1 DEF CallsIn
  <2> QED
    BY <1>2, <2>1, <2>2
<1>8. b # NoResult
  BY AnswersAreNoCalls
<1> QED
  BY <1>2, <1>5, <1>6, <1>7, <1>8 DEF CallsIn

------------------------------------------------------------------------------
(* The rows stay with their calls *)

LEMMA RowsSwap ==
  ASSUME NEW fs \in Seq(Call), fs # <<>>, NEW a, NEW ents, NEW row, NEW at,
         RowsIn(fs, a, ents, row, at),
         NEW gs, NEW g, Swapped(fs, gs, g),
         NEW at2, \A i \in 1 .. Len(fs) : at2[i] = at[i] /\ at[i] \in Nat,
         NEW row2, \A q \in Nat : q # at[Len(fs)] => row2[q] = row[q],
         \/ IsLine(BoardAt(ents, at[Len(fs)]).position, row2[at[Len(fs)]])
         \/ /\ row2[at[Len(fs)]] = row[at[Len(fs)]]
            /\ OwnsRow(gs, NoResult, Len(fs)) => OwnsRow(fs, a, Len(fs))
  PROVE  RowsIn(gs, NoResult, ents, row2, at2)
<1> DEFINE n == Len(fs)
<1>1. /\ n \in Nat /\ n # 0 /\ Len(gs) = n /\ gs[n] = g
      /\ \A i \in 1 .. (n - 1) : gs[i] = fs[i]
  BY DEF Swapped
<1>2. SUFFICES ASSUME NEW i \in 1 .. (n + 1), OwnsRow(gs, NoResult, i)
               PROVE  IsLine(BoardAt(ents, at2[i]).position, row2[at2[i]])
  BY <1>1 DEF RowsIn
<1>3. i \in 1 .. n /\ i =< n
  BY <1>1, <1>2 DEF OwnsRow
<1>4. i \in 1 .. (n + 1) /\ i - 1 < n
  BY <1>1, <1>3
<1>5. CASE i # n
  <2>1. i \in 1 .. (n - 1) /\ (i > 1 => i - 1 \in 1 .. (n - 1))
    BY <1>1, <1>3, <1>5
  <2>2. OwnsRow(fs, a, i)
    BY <1>1, <1>2, <1>3, <2>1 DEF OwnsRow
  <2>3. IsLine(BoardAt(ents, at[i]).position, row[at[i]])
    BY <1>4, <2>2 DEF RowsIn
  <2> QED
    BY <1>3, <2>3
<1>6. CASE i = n
  <2>1. OwnsRow(fs, a, n) => IsLine(BoardAt(ents, at[n]).position, row[at[n]])
    BY <1>4, <1>6 DEF RowsIn
  <2> QED
    BY <1>2, <1>3, <1>6, <2>1
<1> QED
  BY <1>5, <1>6

LEMMA RowsCall ==
  ASSUME NEW fs \in Seq(Call), fs # <<>>, NEW a, NEW ents, NEW row, NEW at,
         RowsIn(fs, a, ents, row, at),
         NEW gs, NEW g, Swapped(fs, gs, g), NEW hs, NEW c, Pushed(gs, hs, c), c.pc = "enter",
         g.fn = fs[Len(fs)].fn, fs[Len(fs)].pc # "enter",
         NEW at2, \A i \in 1 .. Len(fs) : at2[i] = at[i] /\ at[i] \in Nat /\ at[i] =< at[Len(fs)],
         g.fn = "negamax" /\ c.fn = "quiesence" => at2[Len(fs) + 1] = at[Len(fs)],
         NEW ents2, \A q \in Nat : q =< at[Len(fs)] => BoardAt(ents2, q) = BoardAt(ents, q)
  PROVE  RowsIn(hs, NoResult, ents2, row, at2)
<1> DEFINE n == Len(fs)
<1>1. /\ n \in Nat /\ n # 0 /\ Len(hs) = n + 1 /\ hs[n] = g /\ hs[n + 1] = c
      /\ \A i \in 1 .. (n - 1) : hs[i] = fs[i]
  BY DEF Swapped, Pushed
<1>2. SUFFICES ASSUME NEW i \in 1 .. (n + 2), OwnsRow(hs, NoResult, i)
               PROVE  IsLine(BoardAt(ents2, at2[i]).position, row[at2[i]])
  BY <1>1 DEF RowsIn
<1>3. i =< n + 1 /\ (i = n + 1 \/ i \in 1 .. n)
  BY <1>1, <1>2 DEF OwnsRow
<1>4. ASSUME NEW k \in 1 .. n, OwnsRow(fs, a, k)
      PROVE  IsLine(BoardAt(ents2, at2[k]).position, row[at2[k]])
  <2>1. k \in 1 .. (n + 1)
    BY <1>1
  <2>2. IsLine(BoardAt(ents, at[k]).position, row[at[k]])
    BY <1>4, <2>1 DEF RowsIn
  <2>3. BoardAt(ents2, at[k]) = BoardAt(ents, at[k]) /\ at2[k] = at[k]
    OBVIOUS
  <2> QED
    BY <2>2, <2>3
<1>5. CASE i \in 1 .. n
  <2>1. i > 1 => i - 1 \in 1 .. (n - 1)
    BY <1>1, <1>5
  <2>2. i = n \/ i \in 1 .. (n - 1)
    BY <1>1, <1>5
  <2>3. i =< n
    BY <1>5
  <2>4. OwnsRow(fs, a, i)
    BY <1>1, <1>2, <1>3, <2>1, <2>2, <2>3 DEF OwnsRow
  <2> QED
    BY <1>4, <1>5, <2>4
<1>6. CASE i = n + 1
  <2>1. c.fn = "quiesence" /\ g.fn = "negamax"
    BY <1>1, <1>2, <1>3, <1>6 DEF OwnsRow
  <2>2. n \in 1 .. n /\ OwnsRow(fs, a, n)
    BY <1>1, <2>1 DEF OwnsRow
  <2>3. at2[n + 1] = at2[n]
    BY <2>1, <2>2
  <2> QED
    BY <1>4, <1>6, <2>2, <2>3
<1> QED
  BY <1>3, <1>5, <1>6

LEMMA RowsPop ==
  ASSUME NEW fs \in Seq(Call), fs # <<>>, NEW a, NEW ents, NEW row, NEW at,
         RowsIn(fs, a, ents, row, at),
         NEW gs, Popped(fs, gs), NEW b,
         NEW at2, \A i \in 1 .. Len(fs) : at2[i] = at[i] /\ at[i] \in Nat,
         NEW row2, \A q \in Nat : q # at[Len(fs)] => row2[q] = row[q],
         \/ IsLine(BoardAt(ents, at[Len(fs)]).position, row2[at[Len(fs)]])
         \/ /\ row2[at[Len(fs)]] = row[at[Len(fs)]]
            /\ Len(fs) = 1 \/ fs[Len(fs) - 1].fn = "negamax" => OwnsRow(fs, a, Len(fs))
  PROVE  RowsIn(gs, b, ents, row2, at2)
<1> DEFINE n == Len(fs)
<1>1. /\ n \in Nat /\ n # 0 /\ Len(gs) = n - 1
      /\ \A i \in 1 .. (n - 1) : gs[i] = fs[i]
  BY DEF Popped
<1>2. SUFFICES ASSUME NEW i \in 1 .. n, OwnsRow(gs, b, i)
               PROVE  IsLine(BoardAt(ents, at2[i]).position, row2[at2[i]])
  BY <1>1 DEF RowsIn
<1>3. i \in 1 .. (n + 1) /\ (i = n \/ i \in 1 .. (n - 1)) /\ n \in 1 .. n /\ n \in 1 .. (n + 1)
  BY <1>1
<1>4. CASE i # n
  <2>1. i \in 1 .. (n - 1) /\ i =< n - 1 /\ i =< n /\ (i > 1 => i - 1 \in 1 .. (n - 1))
    BY <1>1, <1>3, <1>4
  <2>2. OwnsRow(fs, a, i)
    BY <1>1, <1>2, <1>3, <2>1 DEF OwnsRow
  <2>3. IsLine(BoardAt(ents, at[i]).position, row[at[i]])
    BY <1>3, <2>2 DEF RowsIn
  <2> QED
    BY <2>3
<1>5. CASE i = n
  <2>1. n = 1 \/ (n - 1 \in 1 .. (n - 1) /\ gs[n - 1].fn = "negamax")
    BY <1>1, <1>2, <1>5 DEF OwnsRow
  <2>2. n = 1 \/ fs[n - 1].fn = "negamax"
    BY <1>1, <2>1
  <2>3. OwnsRow(fs, a, n) => IsLine(BoardAt(ents, at[n]).position, row[at[n]])
    BY <1>3 DEF RowsIn
  <2> QED
    BY <1>5, <2>2, <2>3
<1> QED
  BY <1>4, <1>5

LEMMA MovesAreMoves ==
  \A here \in Positions : \A m \in Moves[here] : m \in GraphMove
  BY GraphAssumption DEF GraphMove, Positions

LEMMA EmptyLine == \A here : IsLine(here, <<>>)
  BY DEF IsLine

LEMMA LongerLine ==
  ASSUME NEW here, NEW S, NEW m \in S, m \in LegalMoves(here),
         NEW line \in Seq(S), IsLine(m.to, line)
  PROVE  /\ IsLine(here, <<m>> \o line)
         /\ <<m>> \o line \in Seq(S) /\ <<m>> \o line # <<>>
<1> DEFINE longer == <<m>> \o line
<1>1. /\ longer \in Seq(S) /\ Len(longer) = Len(line) + 1 /\ longer[1] = m
      /\ \A k \in 1 .. Len(line) : longer[k + 1] = line[k]
      /\ Len(line) \in Nat
  OBVIOUS
<1> HIDE DEF longer
<1>2. longer # <<>>
  BY <1>1
<1>3. ASSUME NEW k \in 1 .. Len(longer)
      PROVE  longer[k] \in LegalMoves(IF k = 1 THEN here ELSE longer[k - 1].to)
  <2>1. CASE k = 1
    BY <1>1, <2>1
  <2>2. CASE k # 1
    <3>1. k - 1 \in 1 .. Len(line) /\ (k - 1) + 1 = k
      BY <1>1, <2>2
    <3>2. longer[k] = line[k - 1]
      BY <1>1, <3>1
    <3>3. line[k - 1] \in LegalMoves(IF k - 1 = 1 THEN m.to ELSE line[(k - 1) - 1].to)
      <4>1. k - 1 \in DOMAIN line
        BY <3>1
      <4> QED
        BY <4>1 DEF IsLine
    <3>4. CASE k - 1 = 1
      BY <1>1, <2>2, <3>2, <3>3, <3>4
    <3>5. CASE k - 1 # 1
      <4>1. (k - 1) - 1 \in 1 .. Len(line) /\ ((k - 1) - 1) + 1 = k - 1
        BY <3>1, <3>5
      <4>2. longer[k - 1] = line[(k - 1) - 1]
        BY <1>1, <4>1
      <4> QED
        BY <2>2, <3>2, <3>3, <3>5, <4>2
    <3> QED
      BY <3>4, <3>5
  <2> QED
    BY <2>1, <2>2
<1>4. DOMAIN longer = 1 .. Len(longer)
  BY <1>1
<1>5. IsLine(here, longer)
  BY <1>3, <1>4 DEF IsLine
<1> QED
  BY <1>1, <1>2, <1>5 DEF longer

\* What the last call may rely on.
LEMMA OnTop ==
  ASSUME CallsAreSound, frames # <<>>, NEW at, NEW sent, Numbers(at), Placed(at, sent)
  PROVE  /\ frames \in Seq(Call) /\ Len(frames) \in Nat /\ Len(frames) # 0
         /\ Top = frames[Len(frames)] /\ CallFits(Top, searchStopped)
         /\ ply = at[Len(frames) + 1] /\ ply = at[Len(frames)] + Steps(Top)
         /\ at[Len(frames)] \in Nat /\ at[Len(frames)] < MaxSearchDepth /\ ply < MaxSearchDepth
         /\ PlaceFits(Top, BoardAt(entries, at[Len(frames)]), BoardAt(entries, ply))
         /\ \A i \in 1 .. Len(frames) : at[i] \in Nat /\ at[i] =< at[Len(frames)]
         /\ Len(frames) = 1 => RootFits(Top) /\ at[Len(frames)] = 0
         /\ Len(frames) # 1 => at[Len(frames)] >= 1
         /\ Top.pc \in Waiting <=> returned # NoResult
<1> DEFINE n == Len(frames)
<1>1. CallsIn(frames, returned, searchStopped) /\ frames \in Seq(Call)
  BY DEF CallsAreSound, CallsIn
<1>2. n \in Nat /\ n # 0 /\ n \in 1 .. n /\ 1 \in 1 .. n /\ Top = frames[n]
  BY <1>1 DEF Top
<1>3. \A i \in 1 .. (n + 1) : at[i] \in Nat
  BY <1>2 DEF Numbers
<1>4. /\ LineIn(frames, entries, ply, repetitions, at, sent)
      /\ PliesIn(frames, at, sent) /\ PlacesIn(frames, entries, at) /\ ply = at[n + 1]
  BY DEF Placed, LineIn
<1>5. at[n + 1] = at[n] + Steps(Top)
  BY <1>2, <1>4 DEF PliesIn
<1>6. \A i \in 1 .. n : i \in 1 .. (n + 1) /\ i =< n
  BY <1>2
<1>7. at[n] < MaxSearchDepth /\ ply < MaxSearchDepth
  <2>1. n + 1 \in 1 .. (n + 1)
    BY <1>2
  <2> QED
    BY <1>2, <1>4, <1>6, <2>1 DEF PliesIn
<1>8. \A i \in 1 .. n : at[i] \in Nat /\ at[i] =< at[n]
  BY <1>2, <1>3, <1>4, <1>6 DEF PliesIn
<1>9. PlaceFits(Top, BoardAt(entries, at[n]), BoardAt(entries, ply))
  BY <1>2, <1>4 DEF PlacesIn
<1>10. CallFits(Top, searchStopped) /\ RootFits(frames[1]) /\ (Top.pc \in Waiting <=> returned # NoResult)
  BY <1>1, <1>2 DEF CallsIn
<1>11. at[1] = 0
  BY <1>4 DEF PliesIn
<1>12. ASSUME n # 1 PROVE at[n] >= 1
  <2>1. 1 \in 1 .. (n - 1) /\ 1 + 1 \in 1 .. n
    <3>1. \A k \in Nat : k # 0 /\ k # 1 => 1 \in 1 .. (k - 1) /\ 1 + 1 \in 1 .. k
      OBVIOUS
    <3> QED
      BY <1>2, <1>12, <3>1
  <2>2. frames[1].pc \in Waiting
    BY <1>1, <2>1 DEF CallsIn
  <2>3. frames[1].pc \in {"full", "zero"}
    BY <1>10, <2>2 DEF RootFits, Waiting
  <2>4. at[1 + 1] = at[1] + Steps(frames[1]) /\ Steps(frames[1]) = 1
    BY <1>2, <1>4, <2>3, StepsAre DEF PliesIn
  <2>5. at[1 + 1] =< at[n]
    BY <1>8, <2>1
  <2> QED
    BY <1>11, <2>4, <2>5
<1> QED
  BY <1>1, <1>2, <1>3, <1>4, <1>5, <1>7, <1>8, <1>9, <1>10, <1>11, <1>12

\* A move on the line has left a hash.
LEMMA LineHasHashes ==
  ASSUME NEW fs \in Seq(Call), fs # <<>>, NEW ents, NEW p, NEW reps,
         NEW at, NEW sent, Numbers(sent),
         LineIn(fs, ents, p, reps, at, sent), Steps(fs[Len(fs)]) > 0
  PROVE  Len(reps) > 0
<1> DEFINE n == Len(fs)
<1>1. n \in 1 .. n /\ n \in Nat
  OBVIOUS
<1>2. sent[n] \in Nat /\ sent[n + 1] = sent[n] + Made(fs[n]) /\ Made(fs[n]) = 1
  BY <1>1, StepsAre DEF LineIn, PliesIn, Numbers
<1>3. Len(reps) = Len(History) + sent[n + 1]
  BY DEF LineIn, HashesIn
<1> QED
  BY <1>2, <1>3, Sizes

LEMMA FrontIs ==
  ASSUME NEW S, NEW s \in Seq(S), Len(s) > 0
  PROVE  /\ Front(s) \in Seq(S) /\ Len(Front(s)) = Len(s) - 1
         /\ \A k \in 1 .. Len(Front(s)) : Front(s)[k] = s[k]
<1>1. Len(s) \in Nat /\ \A k \in 1 .. Len(s) : s[k] \in S
  OBVIOUS
<1>2. Front(s) = [k \in 1 .. (Len(s) - 1) |-> s[k]]
  BY <1>1 DEF Front
<1> QED
  BY <1>1, <1>2

\* The row a negamax() waits for belongs to the last call once it has begun.
LEMMA LastOwnsRow ==
  ASSUME NEW fs, NEW a, NEW n \in Nat, n # 0, n = Len(fs), NEW f, f = fs[n],
         f.fn \in {"negamax", "quiesence"}, n = 1 => f.fn = "negamax",
         f.fn = "negamax" => f.pc # "enter"
  PROVE  n = 1 \/ fs[n - 1].fn = "negamax" => OwnsRow(fs, a, n)
<1>1. n = 1 \/ n > 1
  OBVIOUS
<1>2. n =< Len(fs)
  OBVIOUS
<1>3. f.fn = "negamax" \/ (f.fn = "quiesence" /\ n # 1)
  OBVIOUS
<1> QED
  BY <1>1, <1>2, <1>3 DEF OwnsRow

------------------------------------------------------------------------------
(* The kinds of steps *)

Goes(g) ==
  /\ CallFits(g, searchStopped)
  /\ Len(frames) = 1 => RootFits(g)
  /\ searchStopped' = searchStopped /\ keptCut' = FALSE

\* A row is cleared, or it learns the move and the line below it.
Keeps == pv' = pv /\ PvTyped'
Clears == pv' = [pv EXCEPT ![ply] = <<>>] /\ PvTyped'
Learns ==
  /\ pv' = [pv EXCEPT ![ply'] = <<Top.move>> \o pv[ply' + 1]] /\ PvTyped'
  /\ Top.fn = "negamax" /\ Top.pc \in {"full", "zero"} /\ returned # NoResult

TakesBack == ply' = ply - Steps(Top) /\ repetitions' = Front(repetitions) /\ UNCHANGED entries

\* A call goes on at its node.
GoesOnAs(g) ==
  /\ frames' = [frames EXCEPT ![Len(frames)] = g] /\ returned' = NoResult
  /\ Goes(g) /\ g.pc \notin Waiting /\ Steps(Top) = 0
  /\ UNCHANGED treeVars
  /\ PlaceFits(g, board, board)
  /\ g.fn = Top.fn \/ g.fn = "quiesence"
  /\ Len(frames) = 1 /\ g.score = "in" => Top.score = "in"
  /\ \/ Clears /\ (Len(frames) = 1 => g.score # "in")
     \/ Keeps /\ g.fn = Top.fn /\ (Top.fn = "negamax" => Top.pc # "enter")

LEMMA RowsAreMoves == PvTyped => pv \in [0 .. MaxSearchDepth -> Seq(AnyMove)]
<1> SUFFICES ASSUME PvTyped, NEW p \in 0 .. MaxSearchDepth
             PROVE  (IF pvLength[p] >= p THEN Line(p) ELSE <<NoMove>>) \in Seq(AnyMove)
  BY DEF pv
<1>1. CASE pvLength[p] >= p
  <2>0. pvLength[p] \in 0 .. MaxSearchDepth
    BY DEF PvTyped
  <2>1. pvLength[p] \in 0 .. MaxSearchDepth /\ pvLength[p] - p \in Nat
    BY <1>1, <2>0, Sizes
  <2>2. \A k \in 1 .. (pvLength[p] - p) : p + k - 1 \in 0 .. MaxSearchDepth
    BY <2>1, Sizes
  <2>3. pvTable[p] \in [0 .. MaxSearchDepth -> AnyMove]
    BY DEF PvTyped
  <2>4. \A k \in 1 .. (pvLength[p] - p) : pvTable[p][p + k - 1] \in AnyMove
    BY <2>2, <2>3
  <2>5. Line(p) \in Seq(AnyMove)
    BY <2>1, <2>4 DEF Line
  <2> QED
    BY <1>1, <2>5
<1>2. CASE ~(pvLength[p] >= p)
  <2>1. NoMove \in AnyMove
    BY DEF AnyMove
  <2>2. <<NoMove>> \in Seq(AnyMove)
    BY <2>1
  <2> QED
    BY <1>2, <2>2
<1> QED
  BY <1>1, <1>2

LEMMA KeepsRows ==
  ASSUME PvTyped, UNCHANGED pvVars
  PROVE  Keeps
<1>1. pvTable' = pvTable /\ pvLength' = pvLength
  BY DEF pvVars
<1>2. pv' = pv
  BY <1>1 DEF pv, Line
<1>3. PvTyped'
  BY <1>1 DEF PvTyped
<1> QED
  BY <1>2, <1>3 DEF Keeps

LEMMA ResetsRow ==
  ASSUME PvTyped, ply \in 0 .. MaxSearchDepth, ResetRow
  PROVE  Clears
<1>1. pvTable' = pvTable /\ pvLength' = [pvLength EXCEPT ![ply] = ply]
  BY DEF ResetRow
<1>2. PvTyped'
  BY <1>1 DEF PvTyped
<1>3. /\ pvLength \in [0 .. MaxSearchDepth -> 0 .. MaxSearchDepth]
      /\ pvLength'[ply] = ply
      /\ \A q \in 0 .. MaxSearchDepth : q # ply => pvLength'[q] = pvLength[q]
  BY <1>1 DEF PvTyped
<1> DEFINE Row(q) == IF pvLength[q] >= q THEN Line(q) ELSE <<NoMove>>
<1> DEFINE Row2(q) == IF pvLength'[q] >= q
                        THEN [k \in 1..(pvLength'[q] - q) |-> pvTable[q][q + k - 1]]
                        ELSE <<NoMove>>
<1>4. pv = [q \in 0 .. MaxSearchDepth |-> Row(q)] /\ pv' = [q \in 0 .. MaxSearchDepth |-> Row2(q)]
  BY <1>1 DEF pv, Line
<1>5. Row2(ply) = <<>>
  <2>1. pvLength'[ply] >= ply /\ 1 .. (pvLength'[ply] - ply) = {}
    BY <1>3
  <2>2. Row2(ply) = [k \in {} |-> pvTable[ply][ply + k - 1]]
    BY <2>1
  <2> QED
    BY <2>2
<1>6. \A q \in 0 .. MaxSearchDepth : q # ply => Row2(q) = Row(q)
  BY <1>3 DEF Line
<1> HIDE DEF Row, Row2
<1>7. pv' = [pv EXCEPT ![ply] = <<>>]
  BY <1>4, <1>5, <1>6
<1> QED
  BY <1>2, <1>7 DEF Clears

LEMMA GoesOnStep ==
  ASSUME CallsAreSound, frames # <<>>, NEW at, NEW sent, Numbers(at), Numbers(sent),
         Placed(at, sent), NEW g, GoesOnAs(g)
  PROVE  CallsAreSound' /\ Placed(at, sent)'
<1> DEFINE n == Len(frames)
<1> DEFINE gs == [frames EXCEPT ![Len(frames)] = g]
<1> DEFINE here == at[n]
<1>3. /\ frames \in Seq(Call) /\ n \in Nat /\ n # 0 /\ Top = frames[n] /\ here \in Nat
      /\ ply = at[n + 1] /\ ply = here /\ here < MaxSearchDepth
      /\ \A i \in 1 .. n : at[i] \in Nat /\ at[i] =< here
      /\ n = 1 => here = 0
      /\ n # 1 => here >= 1
  BY OnTop DEF GoesOnAs
<1>4. g \in Call /\ Steps(g) = 0 /\ g.pc \notin Waiting
  BY StepsAre DEF GoesOnAs, Goes, CallFits, Waiting
<1>5. Swapped(frames, gs, g) /\ frames' = gs
  BY <1>3, <1>4, SwapIs DEF GoesOnAs
<1> HIDE DEF gs
<1>6. CallsIn(gs, NoResult, searchStopped)
  BY <1>3, <1>5, CallsSwap DEF CallsAreSound, GoesOnAs, Goes
<1>7. LineIn(gs, entries, ply, repetitions, at, sent)
  <2>1. board = BoardAt(entries, here)
    BY <1>3 DEF board, BoardAt
  <2>2. PlaceFits(g, BoardAt(entries, at[n]), BoardAt(entries, at[n + 1]))
    BY <1>3, <2>1 DEF GoesOnAs
  <2>3. Steps(g) = Steps(frames[n])
    BY <1>3, <1>4 DEF GoesOnAs
  <2>4. LineIn(frames, entries, ply, repetitions, at, sent)
    BY DEF Placed
  <2> QED
    BY <1>3, <1>5, <2>2, <2>3, <2>4, LineSwaps
<1>8. /\ pv \in [0 .. MaxSearchDepth -> Seq(AnyMove)] /\ here \in 0 .. MaxSearchDepth
  BY <1>3, Sizes, RowsAreMoves DEF CallsAreSound, Types
<1>9. /\ PvTyped' /\ \A q \in Nat : q # here => pv'[q] = pv[q]
      /\ pv' = pv \/ (pv'[here] = <<>> /\ Clears)
  <2>1. CASE Keeps
    BY <1>8, <2>1 DEF Keeps
  <2>2. CASE Clears
    BY <1>3, <1>8, <2>2 DEF Clears
  <2> QED
    BY <2>1, <2>2 DEF GoesOnAs
<1>10. \/ IsLine(BoardAt(entries, at[n]).position, pv'[at[n]])
       \/ /\ pv'[at[n]] = pv[at[n]]
          /\ OwnsRow(gs, NoResult, n) => OwnsRow(frames, returned, n)
  <2>1. CASE Clears
    BY <1>3, <1>8, <2>1, EmptyLine DEF Clears
  <2>2. CASE Keeps /\ g.fn = Top.fn /\ (Top.fn = "negamax" => Top.pc # "enter")
    <3>1. Len(gs) = n /\ gs[n] = g /\ (n > 1 => gs[n - 1] = frames[n - 1])
      BY <1>3, <1>5 DEF Swapped
    <3> QED
      BY <1>3, <2>2, <3>1 DEF OwnsRow, Keeps
  <2> QED
    BY <2>1, <2>2 DEF GoesOnAs
<1>11. RowsIn(gs, NoResult, entries, pv', at)
  <2>1. RowsIn(frames, returned, entries, pv, at)
    BY DEF Placed
  <2>2. \A i \in 1 .. n : at[i] = at[i] /\ at[i] \in Nat
    BY <1>3
  <2>3. frames \in Seq(Call) /\ \A q \in Nat : q # at[Len(frames)] => pv'[q] = pv[q]
    BY <1>3, <1>9
  <2>4. Swapped(frames, gs, g)
    BY <1>5
  <2> DEFINE row2 == pv'
  <2>5. \A q \in Nat : q # at[Len(frames)] => row2[q] = pv[q]
    BY <2>3
  <2>6. \/ IsLine(BoardAt(entries, at[Len(frames)]).position, row2[at[Len(frames)]])
        \/ /\ row2[at[Len(frames)]] = pv[at[Len(frames)]]
           /\ OwnsRow(gs, NoResult, Len(frames)) => OwnsRow(frames, returned, Len(frames))
    BY <1>10
  <2> HIDE DEF row2
  <2>7. RowsIn(gs, NoResult, entries, row2, at)
    BY <2>1, <2>2, <2>3, <2>4, <2>5, <2>6, RowsSwap
  <2> QED
    BY <2>7 DEF row2
<1>12. RootHasALine(gs, NoResult, pv')
  <2>1. gs # <<>> /\ (n = 1 => gs[1] = g) /\ (n # 1 => gs[1] = frames[1])
    BY <1>3, <1>5 DEF Swapped
  <2>2. CASE n # 1
    <3>1. pv'[0] = pv[0]
      BY <1>3, <1>9, <2>2
    <3> QED
      BY <2>1, <2>2, <3>1 DEF RootHasALine, CallsAreSound
  <2>3. CASE n = 1
    <3>1. g.score = "in" => pv' = pv /\ frames[1].score = "in"
      BY <1>3, <2>3 DEF GoesOnAs, Keeps
    <3> QED
      BY <2>1, <2>3, <3>1 DEF RootHasALine, CallsAreSound
  <2> QED
    BY <2>2, <2>3
<1>13. /\ entries' = entries /\ ply' = ply /\ repetitions' = repetitions /\ returned' = NoResult
       /\ searchStopped' = searchStopped /\ keptCut' = FALSE
  BY DEF GoesOnAs, Goes, treeVars
<1>14. Types'
  BY <1>9, <1>13 DEF CallsAreSound, Types
<1>15. Placed(at, sent)'
  BY <1>5, <1>7, <1>11, <1>13 DEF Placed
<1> QED
  BY <1>5, <1>6, <1>12, <1>13, <1>14, <1>15 DEF CallsAreSound

LEMMA RowLearns ==
  ASSUME CallsAreSound, frames # <<>>, NEW at, NEW sent, Numbers(at), Placed(at, sent),
         TakesBack, Learns, NEW here, here = at[Len(frames)], NEW row2, row2 = pv'
  PROVE  /\ \A q \in Nat : q # here => row2[q] = pv[q]
         /\ IsLine(BoardAt(entries, here).position, row2[here]) /\ row2[here] # <<>>
<1> DEFINE n == Len(frames)
<1>1. /\ n \in Nat /\ n # 0 /\ Top = frames[n] /\ here \in Nat /\ ply < MaxSearchDepth
      /\ ply = at[n + 1] /\ ply = here + Steps(Top) /\ CallFits(Top, searchStopped)
      /\ PlaceFits(Top, BoardAt(entries, here), BoardAt(entries, ply))
  BY OnTop
<1>2. Top.fn = "negamax" /\ Top.pc \in {"full", "zero"} /\ returned # NoResult
  BY DEF Learns
<1>3. ply' = here /\ ply = here + 1 /\ ply \in 0 .. MaxSearchDepth
      /\ here \in 0 .. MaxSearchDepth
  <2>1. Steps(Top) = 1
    BY <1>2, StepsAre
  <2> QED
    BY <1>1, <2>1, Sizes DEF TakesBack
<1>4. /\ Top.move \in AnyMove /\ Top.move \in LegalMoves(BoardAt(entries, here).position)
      /\ BoardAt(entries, ply).position = Top.move.to
  <2>1. Top.move \in AnyMove
    BY <1>1 DEF CallFits, Call, AnyMove
  <2> QED
    BY <1>1, <1>2, <2>1 DEF PlaceFits, LegalMoves
<1>5. IsLine(Top.move.to, pv[ply])
  <2>1. n + 1 \in 1 .. (n + 1) /\ ~(n + 1 =< n) /\ (n + 1) - 1 = n
    BY <1>1
  <2>2. OwnsRow(frames, returned, n + 1)
    BY <1>1, <1>2, <2>1 DEF OwnsRow
  <2>3. RowsIn(frames, returned, entries, pv, at)
    BY DEF Placed
  <2>4. IsLine(BoardAt(entries, at[n + 1]).position, pv[at[n + 1]])
    BY <2>1, <2>2, <2>3 DEF RowsIn
  <2> QED
    BY <1>1, <1>4, <2>4
<1>6. pv \in [0 .. MaxSearchDepth -> Seq(AnyMove)] /\ pv[ply] \in Seq(AnyMove)
  BY <1>3, RowsAreMoves DEF CallsAreSound, Types
<1> DEFINE longer == <<Top.move>> \o pv[ply]
<1>7. /\ IsLine(BoardAt(entries, here).position, longer)
      /\ longer \in Seq(AnyMove) /\ longer # <<>>
  BY <1>4, <1>5, <1>6, LongerLine
<1>8. row2 = [pv EXCEPT ![here] = longer]
  BY <1>3 DEF Learns
<1> QED
  BY <1>3, <1>6, <1>7, <1>8

\* A call takes its move back and goes on.
TurnsBackAs(g) ==
  /\ frames' = [frames EXCEPT ![Len(frames)] = g] /\ returned' = NoResult
  /\ Goes(g) /\ g.pc \notin Waiting /\ Steps(Top) > 0
  /\ TakesBack
  /\ \A here, next : PlaceFits(Top, here, next) => PlaceFits(g, here, here)
  /\ g.fn = Top.fn
  /\ Len(frames) = 1 /\ g.score = "in" => Top.score = "in" \/ Learns
  /\ Keeps \/ Learns

LEMMA TurnsBackStep ==
  ASSUME CallsAreSound, frames # <<>>, NEW at, NEW sent, Numbers(at), Numbers(sent),
         Placed(at, sent), NEW g, TurnsBackAs(g),
         NEW at2, Altered(at, at2, Len(frames) + 1, at[Len(frames)]),
         NEW sent2, Altered(sent, sent2, Len(frames) + 1, sent[Len(frames)])
  PROVE  CallsAreSound' /\ Placed(at2, sent2)'
<1> DEFINE n == Len(frames)
<1> DEFINE gs == [frames EXCEPT ![Len(frames)] = g]
<1> DEFINE here == at[n]
<1> DEFINE row2 == pv'
<1> DEFINE reps2 == repetitions'
<1> DEFINE p2 == ply'
<1>1. /\ frames \in Seq(Call) /\ n \in Nat /\ n # 0 /\ Top = frames[n] /\ here \in Nat
      /\ ply = at[n + 1] /\ ply = here + Steps(Top) /\ here < MaxSearchDepth
      /\ \A i \in 1 .. n : at[i] \in Nat /\ at[i] =< here
      /\ n = 1 => here = 0
      /\ n # 1 => here >= 1
      /\ PlaceFits(Top, BoardAt(entries, here), BoardAt(entries, ply))
  BY OnTop
<1>2. Steps(Top) \in {1, 2} /\ Top.pc # "enter"
  BY <1>1, StepsAre DEF TurnsBackAs
<1>3. g \in Call /\ Steps(g) = 0 /\ g.pc \notin Waiting
  BY StepsAre DEF TurnsBackAs, Goes, CallFits, Waiting
<1>4. Swapped(frames, gs, g) /\ frames' = gs
  BY <1>1, <1>3, SwapIs DEF TurnsBackAs
<1>5. /\ entries' = entries /\ returned' = NoResult /\ searchStopped' = searchStopped
      /\ keptCut' = FALSE /\ p2 = ply - Steps(Top) /\ reps2 = Front(repetitions) /\ p2 = here
  BY <1>1, <1>2 DEF TurnsBackAs, Goes, TakesBack
<1> HIDE DEF gs, row2, reps2, p2
<1>6. CallsIn(gs, NoResult, searchStopped)
  BY <1>1, <1>4, CallsSwap DEF CallsAreSound, TurnsBackAs, Goes
<1>7. LineIn(frames, entries, ply, repetitions, at, sent) /\ RowsIn(frames, returned, entries, pv, at)
  BY DEF Placed
<1>8. /\ reps2 \in Seq(Hash) /\ Len(reps2) = Len(repetitions) - 1
      /\ \A k \in 1 .. Len(reps2) : reps2[k] = repetitions[k]
  <2>1. repetitions \in Seq(Hash)
    BY DEF CallsAreSound, Types
  <2>2. Len(repetitions) > 0
    BY <1>1, <1>2, <1>7, LineHasHashes
  <2> QED
    BY <1>5, <2>1, <2>2, FrontIs
<1>9. LineIn(gs, entries, p2, reps2, at2, sent2)
  <2>1. PlaceFits(g, BoardAt(entries, at[Len(frames)]), BoardAt(entries, at[Len(frames)]))
    BY <1>1 DEF TurnsBackAs
  <2>2. Steps(frames[Len(frames)]) > 0
    BY <1>1, <1>2
  <2>3. p2 = ply - Steps(frames[Len(frames)])
    BY <1>1, <1>5
  <2>4. frames \in Seq(Call)
    BY <1>1
  <2> QED
    BY <1>3, <1>4, <1>7, <1>8, <2>1, <2>2, <2>3, <2>4, LineReturns
<1>10. /\ PvTyped' /\ \A q \in Nat : q # here => row2[q] = pv[q]
       /\ row2 = pv \/ (IsLine(BoardAt(entries, here).position, row2[here]) /\ row2[here] # <<>>)
  <2>1. CASE Keeps
    BY <2>1 DEF Keeps, row2
  <2>2. CASE Learns
    <3>1. PvTyped'
      BY <2>2 DEF Learns
    <3> QED
      BY <2>2, <3>1, RowLearns DEF TurnsBackAs, row2
  <2> QED
    BY <2>1, <2>2 DEF TurnsBackAs, row2
<1>11. \/ IsLine(BoardAt(entries, at[Len(frames)]).position, row2[at[Len(frames)]])
       \/ /\ row2[at[Len(frames)]] = pv[at[Len(frames)]]
          /\ OwnsRow(gs, NoResult, Len(frames)) => OwnsRow(frames, returned, Len(frames))
  <2>1. Len(gs) = n /\ gs[n] = g /\ (n > 1 => gs[n - 1] = frames[n - 1])
    BY <1>1, <1>4 DEF Swapped
  <2>2. g.fn = Top.fn
    BY DEF TurnsBackAs
  <2>3. OwnsRow(gs, NoResult, n) => OwnsRow(frames, returned, n)
    BY <1>1, <1>2, <2>1, <2>2 DEF OwnsRow
  <2> QED
    BY <1>10, <2>3
<1>12. RowsIn(gs, NoResult, entries, row2, at2)
  <2>1. \A i \in 1 .. Len(frames) : at2[i] = at[i] /\ at[i] \in Nat
    BY <1>1 DEF Altered
  <2>2. frames \in Seq(Call) /\ \A q \in Nat : q # at[Len(frames)] => row2[q] = pv[q]
    BY <1>1, <1>10
  <2> QED
    BY <1>4, <1>7, <1>11, <2>1, <2>2, RowsSwap
<1>13. RootHasALine(gs, NoResult, row2)
  <2>1. gs # <<>> /\ (n = 1 => gs[1] = g) /\ (n # 1 => gs[1] = frames[1])
    BY <1>1, <1>4 DEF Swapped
  <2>2. CASE n # 1
    <3>1. row2[0] = pv[0]
      BY <1>1, <1>10, <2>2
    <3> QED
      BY <2>1, <2>2, <3>1 DEF RootHasALine, CallsAreSound
  <2>3. CASE n = 1
    <3>1. here = 0
      BY <1>1, <2>3
    <3>2. g.score = "in" => row2[0] # <<>>
      <4>1. CASE Learns
        BY <3>1, <4>1, RowLearns DEF TurnsBackAs, row2
      <4>2. CASE ~Learns
        <5>1. row2 = pv /\ (g.score = "in" => frames[1].score = "in")
          BY <1>1, <2>3, <4>2 DEF TurnsBackAs, row2, Keeps
        <5> QED
          BY <5>1 DEF RootHasALine, CallsAreSound
      <4> QED
        BY <4>1, <4>2
    <3> QED
      BY <2>1, <2>3, <3>2 DEF RootHasALine
  <2> QED
    BY <2>2, <2>3
<1>14. Types'
  BY <1>1, <1>5, <1>8, <1>10 DEF CallsAreSound, Types, reps2, p2
<1>15. Placed(at2, sent2)'
  BY <1>4, <1>5, <1>9, <1>12 DEF Placed, row2, reps2, p2
<1> QED
  BY <1>4, <1>5, <1>6, <1>13, <1>14, <1>15 DEF CallsAreSound, row2

\* A call returns from its own node.
AnswersHere(b) ==
  /\ frames' = Front(frames) /\ returned' = b /\ b \in Answer /\ (b.cut => searchStopped)
  /\ searchStopped' = searchStopped /\ keptCut' = FALSE
  /\ Steps(Top) = 0 /\ UNCHANGED treeVars
  /\ Len(frames) = 1 /\ b.score = "in" => Top.score = "in" \/ LegalMoves(Root) = {}
  /\ \/ Clears /\ Len(frames) # 1
     \/ Keeps /\ (Top.fn = "negamax" => Top.pc # "enter")

LEMMA AnswersHereStep ==
  ASSUME CallsAreSound, frames # <<>>, NEW at, NEW sent, Numbers(at), Numbers(sent),
         Placed(at, sent), NEW b, AnswersHere(b)
  PROVE  CallsAreSound' /\ Placed(at, sent)'
<1> DEFINE n == Len(frames)
<1> DEFINE gs == Front(frames)
<1> DEFINE here == at[n]
<1> DEFINE row2 == pv'
<1>1. /\ frames \in Seq(Call) /\ n \in Nat /\ n # 0 /\ Top = frames[n] /\ here \in Nat
      /\ ply = at[n + 1] /\ ply = here + Steps(Top) /\ here < MaxSearchDepth
      /\ \A i \in 1 .. n : at[i] \in Nat /\ at[i] =< here
      /\ n = 1 => here = 0 /\ RootFits(Top)
      /\ n # 1 => here >= 1
  BY OnTop
<1>2. ply = here /\ Steps(frames[Len(frames)]) = 0
  BY <1>1 DEF AnswersHere
<1>3. Popped(frames, gs) /\ frames' = gs
  BY <1>1, PopIs DEF AnswersHere
<1>4. /\ entries' = entries /\ returned' = b /\ searchStopped' = searchStopped
      /\ keptCut' = FALSE /\ ply' = ply /\ repetitions' = repetitions
  BY DEF AnswersHere, treeVars
<1> HIDE DEF gs, row2
<1>5. CallsIn(gs, b, searchStopped)
  BY <1>3, CallsPop DEF CallsAreSound, AnswersHere
<1>6. LineIn(frames, entries, ply, repetitions, at, sent) /\ RowsIn(frames, returned, entries, pv, at)
  BY DEF Placed
<1>7. LineIn(gs, entries, ply, repetitions, at, sent)
  <2>1. frames \in Seq(Call)
    BY <1>1
  <2> QED
    BY <1>2, <1>3, <1>6, <2>1, LineShrinks
<1>8. /\ pv \in [0 .. MaxSearchDepth -> Seq(AnyMove)] /\ here \in 0 .. MaxSearchDepth
  BY <1>1, Sizes, RowsAreMoves DEF CallsAreSound, Types
<1>9. /\ PvTyped' /\ \A q \in Nat : q # here => row2[q] = pv[q]
      /\ row2 = pv \/ (row2[here] = <<>> /\ n # 1)
  <2>1. CASE Keeps
    BY <1>8, <2>1 DEF row2, Keeps
  <2>2. CASE Clears /\ n # 1
    BY <1>2, <1>8, <2>2 DEF Clears, row2
  <2> QED
    BY <2>1, <2>2 DEF AnswersHere
<1>10. \/ IsLine(BoardAt(entries, at[Len(frames)]).position, row2[at[Len(frames)]])
       \/ /\ row2[at[Len(frames)]] = pv[at[Len(frames)]]
          /\ Len(frames) = 1 \/ frames[Len(frames) - 1].fn = "negamax"
               => OwnsRow(frames, returned, Len(frames))
  <2>1. CASE Clears
    BY <1>2, <1>8, <2>1, EmptyLine DEF Clears, row2
  <2>2. CASE row2 = pv /\ (Top.fn = "negamax" => Top.pc # "enter")
    <3>1. Top.fn \in {"negamax", "quiesence"} /\ (n = 1 => Top.fn = "negamax")
      BY <1>1, OnTop DEF CallFits, Call, RootFits
    <3>2. n = 1 \/ frames[n - 1].fn = "negamax" => OwnsRow(frames, returned, n)
      BY <1>1, <2>2, <3>1, LastOwnsRow
    <3> QED
      BY <2>2, <3>2
  <2> QED
    BY <2>1, <2>2 DEF AnswersHere, row2, Keeps
<1>11. RowsIn(gs, b, entries, row2, at)
  <2>1. \A i \in 1 .. Len(frames) : at[i] = at[i] /\ at[i] \in Nat
    BY <1>1
  <2>2. frames \in Seq(Call) /\ \A q \in Nat : q # at[Len(frames)] => row2[q] = pv[q]
    BY <1>1, <1>9
  <2> QED
    BY <1>3, <1>6, <1>10, <2>1, <2>2, RowsPop
<1>12. RootHasALine(gs, b, row2)
  <2>1. (n = 1 => gs = <<>>) /\ (n # 1 => gs # <<>> /\ gs[1] = frames[1])
    BY <1>1, <1>3 DEF Popped
  <2>2. CASE n # 1
    <3>1. row2[0] = pv[0]
      BY <1>1, <1>9, <2>2
    <3> QED
      BY <2>1, <2>2, <3>1 DEF RootHasALine, CallsAreSound
  <2>3. CASE n = 1
    <3>1. row2 = pv /\ (b.score = "in" => frames[1].score = "in" \/ LegalMoves(Root) = {})
      BY <1>1, <1>9, <2>3 DEF AnswersHere
    <3> QED
      BY <2>1, <2>3, <3>1 DEF RootHasALine, CallsAreSound
  <2> QED
    BY <2>2, <2>3
<1>13. Types'
  BY <1>4, <1>9 DEF CallsAreSound, Types
<1>14. Placed(at, sent)'
  BY <1>3, <1>4, <1>7, <1>11 DEF Placed, row2
<1> QED
  BY <1>3, <1>4, <1>5, <1>12, <1>13, <1>14 DEF CallsAreSound, row2

\* A call takes its move back and returns.
AnswersAbove(b) ==
  /\ frames' = Front(frames) /\ returned' = b /\ b \in Answer /\ (b.cut => searchStopped)
  /\ searchStopped' = searchStopped /\ keptCut' = FALSE
  /\ Steps(Top) > 0 /\ TakesBack
  /\ Len(frames) = 1 => b.score # "in"
  /\ Keeps \/ Learns

LEMMA AnswersAboveStep ==
  ASSUME CallsAreSound, frames # <<>>, NEW at, NEW sent, Numbers(at), Numbers(sent),
         Placed(at, sent), NEW b, AnswersAbove(b),
         NEW at2, Numbers(at2), Altered(at, at2, Len(frames) + 1, at[Len(frames)]),
         NEW sent2, Numbers(sent2), Altered(sent, sent2, Len(frames) + 1, sent[Len(frames)])
  PROVE  CallsAreSound' /\ Placed(at2, sent2)'
<1> DEFINE n == Len(frames)
<1> DEFINE hs == Front(frames)
<1> DEFINE here == at[n]
<1> DEFINE row2 == pv'
<1> DEFINE reps2 == repetitions'
<1> DEFINE p2 == ply'
<1>1. /\ frames \in Seq(Call) /\ n \in Nat /\ n # 0 /\ Top = frames[n] /\ here \in Nat
      /\ ply = at[n + 1] /\ ply = here + Steps(Top) /\ here < MaxSearchDepth
      /\ \A i \in 1 .. n : at[i] \in Nat /\ at[i] =< here
      /\ n = 1 => RootFits(Top)
      /\ n # 1 => here >= 1
  BY OnTop
<1>2. Steps(Top) \in {1, 2} /\ Top.pc # "enter" /\ Top \in Call
      /\ Steps(frames[Len(frames)]) > 0
  BY <1>1, StepsAre, OnTop DEF AnswersAbove, CallFits
<1>3. Popped(frames, hs) /\ frames' = hs
  BY <1>1, PopIs DEF AnswersAbove
<1>4. /\ entries' = entries /\ returned' = b /\ searchStopped' = searchStopped
      /\ keptCut' = FALSE /\ p2 = ply - Steps(Top) /\ reps2 = Front(repetitions) /\ p2 = here
  BY <1>1, <1>2 DEF AnswersAbove, TakesBack
<1> HIDE DEF hs, row2, reps2, p2
<1>5. CallsIn(hs, b, searchStopped)
  BY <1>3, CallsPop DEF CallsAreSound, AnswersAbove
<1>6. LineIn(frames, entries, ply, repetitions, at, sent) /\ RowsIn(frames, returned, entries, pv, at)
  BY DEF Placed
<1>7. /\ reps2 \in Seq(Hash) /\ Len(reps2) = Len(repetitions) - 1
      /\ \A k \in 1 .. Len(reps2) : reps2[k] = repetitions[k]
  <2>1. repetitions \in Seq(Hash)
    BY DEF CallsAreSound, Types
  <2>2. Len(repetitions) > 0
    BY <1>1, <1>2, <1>6, LineHasHashes
  <2> QED
    BY <1>4, <2>1, <2>2, FrontIs
\* First as a call that has nothing on the line, which then ends.
<1> DEFINE g == [Top EXCEPT !.pc = "enter"]
<1> DEFINE gs == [frames EXCEPT ![Len(frames)] = g]
<1>8. g \in Call /\ g.pc = "enter" /\ Steps(g) = 0
  <2>1. g \in Call /\ g.pc = "enter"
    BY <1>2 DEF Call
  <2> QED
    BY <2>1, StepsAre
<1> HIDE DEF g
<1>9. Swapped(frames, gs, g)
  BY <1>1, <1>8, SwapIs
<1> HIDE DEF gs
<1>10. LineIn(gs, entries, p2, reps2, at2, sent2)
  <2>1. PlaceFits(g, BoardAt(entries, at[Len(frames)]), BoardAt(entries, at[Len(frames)]))
    BY <1>8 DEF PlaceFits, InLoop
  <2>2. p2 = ply - Steps(frames[Len(frames)]) /\ frames \in Seq(Call)
    BY <1>1, <1>4
  <2> QED
    BY <1>2, <1>6, <1>7, <1>8, <1>9, <2>1, <2>2, LineReturns
<1>11. LineIn(hs, entries, p2, reps2, at2, sent2)
  <2>1. gs \in Seq(Call) /\ gs # <<>> /\ Steps(gs[Len(gs)]) = 0
    BY <1>1, <1>8, <1>9 DEF Swapped
  <2>2. Popped(gs, hs)
    BY <1>1, <1>3, <1>9 DEF Swapped, Popped
  <2> QED
    BY <1>10, <2>1, <2>2, LineShrinks
<1>12. /\ PvTyped' /\ \A q \in Nat : q # here => row2[q] = pv[q]
       /\ row2 = pv \/ IsLine(BoardAt(entries, here).position, row2[here])
  <2>1. CASE Keeps
    BY <2>1 DEF Keeps, row2
  <2>2. CASE Learns
    <3>1. PvTyped'
      BY <2>2 DEF Learns
    <3> QED
      BY <2>2, <3>1, RowLearns DEF AnswersAbove, row2
  <2> QED
    BY <2>1, <2>2 DEF AnswersAbove, row2
<1>13. \/ IsLine(BoardAt(entries, at[Len(frames)]).position, row2[at[Len(frames)]])
       \/ /\ row2[at[Len(frames)]] = pv[at[Len(frames)]]
          /\ Len(frames) = 1 \/ frames[Len(frames) - 1].fn = "negamax"
               => OwnsRow(frames, returned, Len(frames))
  <2>1. Top.fn \in {"negamax", "quiesence"} /\ (n = 1 => Top.fn = "negamax")
    BY <1>1, <1>2 DEF Call, RootFits
  <2>2. n = 1 \/ frames[n - 1].fn = "negamax" => OwnsRow(frames, returned, n)
    BY <1>1, <1>2, <2>1, LastOwnsRow
  <2> QED
    BY <1>12, <2>2
<1>14. RowsIn(hs, b, entries, row2, at2)
  <2>1. \A i \in 1 .. Len(frames) : at2[i] = at[i] /\ at[i] \in Nat
    BY <1>1 DEF Altered
  <2>2. frames \in Seq(Call) /\ \A q \in Nat : q # at[Len(frames)] => row2[q] = pv[q]
    BY <1>1, <1>12
  <2> QED
    BY <1>3, <1>6, <1>13, <2>1, <2>2, RowsPop
<1>15. RootHasALine(hs, b, row2)
  <2>1. (n = 1 => hs = <<>>) /\ (n # 1 => hs # <<>> /\ hs[1] = frames[1])
    BY <1>1, <1>3 DEF Popped
  <2>2. CASE n # 1
    <3>1. row2[0] = pv[0]
      BY <1>1, <1>12, <2>2
    <3> QED
      BY <2>1, <2>2, <3>1 DEF RootHasALine, CallsAreSound
  <2>3. CASE n = 1
    BY <2>1, <2>3 DEF RootHasALine, AnswersAbove
  <2> QED
    BY <2>2, <2>3
<1>16. Types'
  BY <1>1, <1>4, <1>7, <1>12 DEF CallsAreSound, Types, reps2, p2
<1>17. Placed(at2, sent2)'
  BY <1>3, <1>4, <1>11, <1>14 DEF Placed, row2, reps2, p2
<1> QED
  BY <1>3, <1>4, <1>5, <1>15, <1>16, <1>17 DEF CallsAreSound, row2

\* A call that has entered its node calls, from there or after a move.
Calls(g, c) ==
  /\ frames' = Append([frames EXCEPT ![Len(frames)] = g], c) /\ returned' = NoResult
  /\ Goes(g) /\ g.pc \in Waiting /\ g.fn = Top.fn
  /\ Len(frames) = 1 /\ g.score = "in" => Top.score = "in"
  /\ CallFits(c, searchStopped) /\ c.pc = "enter"
  /\ g.fn = "quiesence" \/ g.pc = "razored" => c.fn = "quiesence"
  /\ g.fn = "negamax" /\ c.fn = "quiesence" => Steps(g) = 0
  /\ Keeps /\ Top.pc # "enter"

CallsHere(g, c) ==
  /\ Calls(g, c)
  /\ UNCHANGED treeVars
  /\ Steps(g) = Steps(Top)
  /\ \A here, next : PlaceFits(Top, here, next) => PlaceFits(g, here, next)

CallsAfter(g, c, entry) ==
  /\ Calls(g, c)
  /\ g.pc # "razored" /\ Top.pc \notin Waiting
  /\ ply' = ply + Steps(g) /\ repetitions' = Append(repetitions, board.position)
  /\ entries' = Written(ply + Steps(g), entry)
  /\ ply + Steps(g) < MaxSearchDepth => entry \in Entry /\ PlaceFits(g, board, entry.board)

\* Whatever the line does, calls and rows fit after a call.
LEMMA CallsStep ==
  ASSUME CallsAreSound, frames # <<>>, NEW at, NEW sent, Numbers(at), Numbers(sent),
         Placed(at, sent), NEW g, NEW c, Calls(g, c),
         NEW at2, \A i \in 1 .. Len(frames) : at2[i] = at[i],
         at2[Len(frames) + 1] = at[Len(frames)] + Steps(g),
         NEW ents2, \A q \in Nat : q =< at[Len(frames)] => BoardAt(ents2, q) = BoardAt(entries, q)
  PROVE  /\ CallsIn(frames', NoResult, searchStopped)
         /\ RowsIn(frames', NoResult, ents2, pv, at2)
         /\ RootHasALine(frames', NoResult, pv)
<1> DEFINE n == Len(frames)
<1> DEFINE gs == [frames EXCEPT ![Len(frames)] = g]
<1> DEFINE hs == Append(gs, c)
<1>1. /\ frames \in Seq(Call) /\ n \in Nat /\ n # 0 /\ Top = frames[n]
      /\ \A i \in 1 .. n : at[i] \in Nat /\ at[i] =< at[n]
  BY OnTop
<1>2. g \in Call /\ c \in Call
  BY DEF Calls, Goes, CallFits
<1>3. Swapped(frames, gs, g)
  BY <1>1, <1>2, SwapIs, SMTT(60)
<1> HIDE DEF gs
<1>4. Pushed(gs, hs, c) /\ frames' = hs
  BY <1>2, <1>3, PushIs DEF Calls, Swapped, gs
<1> HIDE DEF hs
<1>5. CallsIn(hs, NoResult, searchStopped)
  <2>1. CallsIn(frames, returned, searchStopped)
    BY DEF CallsAreSound
  <2> QED
    BY <1>1, <1>3, <1>4, <2>1, CallsCall DEF Calls, Goes
<1>6. RowsIn(hs, NoResult, ents2, pv, at2)
  <2>1. RowsIn(frames, returned, entries, pv, at)
    BY DEF Placed
  <2>2. \A i \in 1 .. Len(frames) : at2[i] = at[i] /\ at[i] \in Nat /\ at[i] =< at[Len(frames)]
    BY <1>1
  <2>3. frames \in Seq(Call) /\ g.fn = frames[Len(frames)].fn /\ frames[Len(frames)].pc # "enter"
    BY <1>1 DEF Calls
  <2>4. at[n] + 0 = at[n]
    BY <1>1
  <2>5. g.fn = "negamax" /\ c.fn = "quiesence" => at2[Len(frames) + 1] = at[Len(frames)]
    BY <2>4 DEF Calls
  <2>6. c.pc = "enter"
    BY DEF Calls
  <2> QED
    BY <1>3, <1>4, <2>1, <2>2, <2>3, <2>5, <2>6, RowsCall
<1>7. RootHasALine(hs, NoResult, pv)
  <2>1. hs # <<>> /\ (n = 1 => hs[1] = g) /\ (n # 1 => hs[1] = frames[1])
    BY <1>1, <1>3, <1>4 DEF Swapped, Pushed
  <2>2. hs[1].score = "in" => frames[1].score = "in"
    BY <1>1, <2>1 DEF Calls
  <2> QED
    BY <2>1, <2>2 DEF RootHasALine, CallsAreSound
<1> QED
  BY <1>4, <1>5, <1>6, <1>7

LEMMA CallsHereStep ==
  ASSUME CallsAreSound, frames # <<>>, NEW at, NEW sent, Numbers(at), Numbers(sent),
         Placed(at, sent), NEW g, NEW c, CallsHere(g, c),
         NEW at2, Altered(at, at2, Len(frames) + 2, at[Len(frames) + 1]),
         NEW sent2, Altered(sent, sent2, Len(frames) + 2, sent[Len(frames) + 1])
  PROVE  CallsAreSound' /\ Placed(at2, sent2)'
<1> DEFINE n == Len(frames)
<1> DEFINE gs == [frames EXCEPT ![Len(frames)] = g]
<1> DEFINE hs == Append(gs, c)
<1> DEFINE here == at[n]
<1>1. /\ frames \in Seq(Call) /\ n \in Nat /\ n # 0 /\ Top = frames[n] /\ here \in Nat
      /\ ply = at[n + 1] /\ ply = here + Steps(Top)
      /\ PlaceFits(Top, BoardAt(entries, here), BoardAt(entries, ply))
  BY OnTop
<1>2. Calls(g, c) /\ g \in Call /\ c \in Call /\ c.pc = "enter"
  BY DEF CallsHere, Calls, Goes, CallFits
<1>3. /\ entries' = entries /\ returned' = NoResult /\ searchStopped' = searchStopped
      /\ keptCut' = FALSE /\ ply' = ply /\ repetitions' = repetitions /\ pv' = pv /\ PvTyped'
      /\ frames' = hs
  BY DEF CallsHere, Calls, Goes, Keeps, treeVars
<1>4. Swapped(frames, gs, g)
  BY <1>1, <1>2, SwapIs
<1> HIDE DEF gs
<1>5. Pushed(gs, hs, c)
  BY <1>2, <1>4, PushIs DEF Swapped
<1> HIDE DEF hs
<1>6. LineIn(gs, entries, ply, repetitions, at, sent)
  <2>1. PlaceFits(g, BoardAt(entries, at[Len(frames)]), BoardAt(entries, at[Len(frames) + 1]))
    BY <1>1 DEF CallsHere
  <2>2. frames \in Seq(Call) /\ Steps(g) = Steps(frames[Len(frames)])
    BY <1>1 DEF CallsHere
  <2>3. LineIn(frames, entries, ply, repetitions, at, sent)
    BY DEF Placed
  <2> QED
    BY <1>4, <2>1, <2>2, <2>3, LineSwaps
<1>7. LineIn(hs, entries, ply, repetitions, at2, sent2)
  <2>1. gs \in Seq(Call) /\ gs # <<>> /\ Len(gs) = n
    BY <1>1, <1>4 DEF Swapped
  <2>2. Altered(at, at2, Len(gs) + 2, at[Len(gs) + 1]) /\ Altered(sent, sent2, Len(gs) + 2, sent[Len(gs) + 1])
    BY <2>1
  <2> QED
    BY <1>2, <1>5, <1>6, <2>1, <2>2, LineGrows
<1>8. /\ CallsIn(hs, NoResult, searchStopped)
      /\ RowsIn(hs, NoResult, entries, pv, at2)
      /\ RootHasALine(hs, NoResult, pv)
  <2>1. \A i \in 1 .. Len(frames) : at2[i] = at[i]
    BY <1>1 DEF Altered
  <2>2. at2[Len(frames) + 1] = at[Len(frames)] + Steps(g)
    <3>1. Steps(g) = Steps(Top)
      BY DEF CallsHere
    <3>2. n + 1 \in Nat /\ n + 1 # n + 2
      BY <1>1
    <3>3. at2[n + 1] = at[n + 1]
      BY <3>2 DEF Altered
    <3> QED
      BY <1>1, <3>1, <3>3
  <2>3. \A q \in Nat : q =< at[Len(frames)] => BoardAt(entries, q) = BoardAt(entries, q)
    OBVIOUS
  <2> QED
    BY <1>2, <1>3, <2>1, <2>2, <2>3, CallsStep
<1>9. Types'
  BY <1>3 DEF CallsAreSound, Types
<1>10. Placed(at2, sent2)'
  BY <1>3, <1>7, <1>8 DEF Placed
<1> QED
  BY <1>3, <1>8, <1>9, <1>10 DEF CallsAreSound

LEMMA CallsAfterStep ==
  ASSUME CallsAreSound, frames # <<>>, NEW at, NEW sent, Numbers(at), Numbers(sent),
         Placed(at, sent), NEW g, NEW c, NEW entry, CallsAfter(g, c, entry),
         NEW at2, Numbers(at2), Altered(at, at2, Len(frames) + 1, ply + Steps(g)),
         NEW sent2, Numbers(sent2), Altered(sent, sent2, Len(frames) + 1, sent[Len(frames) + 1] + 1),
         NEW at3, Altered(at2, at3, Len(frames) + 2, at2[Len(frames) + 1]),
         NEW sent3, Altered(sent2, sent3, Len(frames) + 2, sent2[Len(frames) + 1])
  PROVE  /\ CallsAreSound'
         /\ InsideStack' => Placed(at3, sent3)'
         /\ ~InsideStack' => Overrun'
<1> DEFINE n == Len(frames)
<1> DEFINE gs == [frames EXCEPT ![Len(frames)] = g]
<1> DEFINE hs == Append(gs, c)
<1> DEFINE here == at[n]
<1> DEFINE ents2 == entries'
<1> DEFINE reps2 == repetitions'
<1> DEFINE p2 == ply + Steps(g)
<1>1. /\ frames \in Seq(Call) /\ n \in Nat /\ n # 0 /\ Top = frames[n] /\ here \in Nat
      /\ ply = at[n + 1] /\ ply = here + Steps(Top) /\ ply < MaxSearchDepth
  BY OnTop
<1>2. Calls(g, c) /\ g \in Call /\ c \in Call /\ c.pc = "enter" /\ Top.pc # "enter"
  BY DEF CallsAfter, Calls, Goes, CallFits
<1>3. /\ Steps(Top) = 0 /\ ply = here /\ ply < MaxSearchDepth
      /\ Steps(g) \in {1, 2} /\ Steps(g) > 0
  <2>1. Steps(Top) = 0
    BY StepsAre DEF CallsAfter, Waiting
  <2>2. g.pc \in {"full", "zero", "null"}
    BY <1>2 DEF CallsAfter, Calls, Waiting
  <2>3. Steps(g) \in {1, 2}
    BY <2>2, StepsAre
  <2> QED
    BY <1>1, <1>2, <2>1, <2>3, Sizes
<1>4. /\ returned' = NoResult /\ searchStopped' = searchStopped
      /\ keptCut' = FALSE /\ ply' = p2 /\ pv' = pv /\ PvTyped'
      /\ frames' = hs
  BY DEF CallsAfter, Calls, Goes, Keeps
<1>5. Swapped(frames, gs, g)
  BY <1>1, <1>2, SwapIs
<1> HIDE DEF gs
<1>6. Pushed(gs, hs, c)
  BY <1>2, <1>5, PushIs DEF Swapped
<1> HIDE DEF hs
<1>15. p2 \in Nat /\ ~(p2 =< ply) /\ p2 =< MaxSearchDepth + 1
  BY <1>1, <1>3, Sizes
<1> HIDE DEF p2
<1>16. entries \in [0 .. (MaxSearchDepth - 1) -> Entry] /\ ents2 = Written(p2, entry)
  BY DEF CallsAreSound, Types, CallsAfter, p2
<1>17. p2 < MaxSearchDepth <=> p2 \in 0 .. (MaxSearchDepth - 1)
  BY <1>15, Sizes
<1>18. p2 < MaxSearchDepth => ents2 = [entries EXCEPT ![p2] = entry]
  BY <1>16, <1>17 DEF Written
<1>19. ~(p2 < MaxSearchDepth) => ents2 = entries
  BY <1>16, <1>17 DEF Written
<1>20. p2 < MaxSearchDepth => entry \in Entry /\ PlaceFits(g, board, entry.board)
  BY DEF CallsAfter, p2
<1> HIDE DEF ents2
<1>7. /\ ents2 \in [0 .. (MaxSearchDepth - 1) -> Entry]
      /\ \A q \in Nat : q =< ply => BoardAt(ents2, q) = BoardAt(entries, q)
      /\ p2 < MaxSearchDepth => BoardAt(ents2, p2) = entry.board
  <2>1. CASE p2 < MaxSearchDepth
    <3>1. ents2 \in [0 .. (MaxSearchDepth - 1) -> Entry] /\ ents2[p2] = entry
      BY <1>16, <1>17, <1>18, <1>20, <2>1
    <3>2. \A q \in Nat : q =< ply => ents2[q] = entries[q]
      <4> TAKE q \in Nat
      <4> HAVE q =< ply
      <4>1. q \in 0 .. (MaxSearchDepth - 1) /\ q # p2
        BY <1>1, <1>3, <1>15, Sizes
      <4> QED
        BY <1>16, <1>18, <2>1, <4>1
    <3> QED
      BY <3>1, <3>2 DEF BoardAt
  <2>2. CASE ~(p2 < MaxSearchDepth)
    BY <1>16, <1>19, <2>2 DEF BoardAt
  <2> QED
    BY <2>1, <2>2
<1>8. board \in [position : Positions, halfMoves : Nat] /\ board = BoardAt(entries, ply)
  <2>1. ply \in 0 .. (MaxSearchDepth - 1)
    BY <1>1, <1>3, Sizes
  <2> QED
    BY <2>1 DEF board, BoardAt, CallsAreSound, Types, Entry
<1>9. /\ reps2 \in Seq(Hash) /\ Len(reps2) = Len(repetitions) + 1
      /\ reps2[Len(repetitions) + 1] = BoardAt(entries, ply).position
      /\ \A k \in 1 .. Len(repetitions) : reps2[k] = repetitions[k]
  <2>1. repetitions \in Seq(Hash) /\ board.position \in Hash
    BY <1>8 DEF CallsAreSound, Types, Hash
  <2>2. reps2 = Append(repetitions, board.position)
    BY DEF CallsAfter
  <2> QED
    BY <1>8, <2>1, <2>2
<1> HIDE DEF reps2
<1>12. /\ CallsIn(hs, NoResult, searchStopped)
       /\ RowsIn(hs, NoResult, ents2, pv, at3)
       /\ RootHasALine(hs, NoResult, pv)
  <2>1. \A i \in 1 .. Len(frames) : at3[i] = at[i]
    BY <1>1 DEF Altered
  <2>2. at3[Len(frames) + 1] = at[Len(frames)] + Steps(g)
    BY <1>1, <1>3 DEF Altered
  <2>3. \A q \in Nat : q =< at[Len(frames)] => BoardAt(ents2, q) = BoardAt(entries, q)
    BY <1>3, <1>7
  <2> QED
    BY <1>2, <1>4, <2>1, <2>2, <2>3, CallsStep
<1>13. Types'
  BY <1>1, <1>3, <1>4, <1>7, <1>9, <1>15 DEF CallsAreSound, Types, ents2, reps2
<1>21. CallsAreSound'
  BY <1>4, <1>12, <1>13 DEF CallsAreSound
<1>22. InsideStack' <=> p2 < MaxSearchDepth
  <2>1. InsideStack' <=> p2 \in DOMAIN ents2
    BY <1>4 DEF InsideStack, ents2
  <2> QED
    BY <1>7, <1>17, <2>1
<1>23. ASSUME p2 < MaxSearchDepth PROVE Placed(at3, sent3)'
  <2>1. LineIn(gs, ents2, ply + Steps(g), reps2, at2, sent2)
    <3>1. PlaceFits(g, BoardAt(entries, ply), BoardAt(ents2, ply + Steps(g)))
      BY <1>7, <1>8, <1>20, <1>23 DEF p2
    <3>2. frames \in Seq(Call) /\ Steps(frames[Len(frames)]) = 0 /\ Steps(g) > 0
          /\ ply + Steps(g) < MaxSearchDepth
      BY <1>1, <1>3, <1>23 DEF p2
    <3>3. LineIn(frames, entries, ply, repetitions, at, sent)
      BY DEF Placed
    <3>4. /\ Len(reps2) = Len(repetitions) + 1
          /\ reps2[Len(repetitions) + 1] = BoardAt(entries, ply).position
          /\ \A k \in 1 .. Len(repetitions) : reps2[k] = repetitions[k]
          /\ \A q \in Nat : q =< ply => BoardAt(ents2, q) = BoardAt(entries, q)
      BY <1>7, <1>9
    <3> QED
      BY <1>5, <3>1, <3>2, <3>3, <3>4, LineMoves
  <2>2. LineIn(hs, ents2, p2, reps2, at3, sent3)
    <3>1. gs \in Seq(Call) /\ gs # <<>> /\ Len(gs) = n
      BY <1>1, <1>5 DEF Swapped
    <3>2. /\ Altered(at2, at3, Len(gs) + 2, at2[Len(gs) + 1])
          /\ Altered(sent2, sent3, Len(gs) + 2, sent2[Len(gs) + 1])
      BY <3>1
    <3> QED
      BY <1>2, <1>6, <2>1, <3>1, <3>2, LineGrows DEF p2
  <2> QED
    BY <1>4, <1>12, <2>2 DEF Placed, ents2, reps2
<1>24. ASSUME ~(p2 < MaxSearchDepth) PROVE Overrun'
  <2>1. ply' \in MaxSearchDepth .. (MaxSearchDepth + 1)
    BY <1>4, <1>15, <1>24, Sizes
  <2>2. frames' # <<>>
    BY <1>4, <1>6 DEF Pushed
  <2>3. Len(repetitions) = Len(History) + sent[n + 1] /\ sent[n + 1] =< at[n + 1]
    <3>1. LineIn(frames, entries, ply, repetitions, at, sent)
      BY DEF Placed
    <3>2. HashesIn(frames, entries, repetitions, at, sent) /\ PliesIn(frames, at, sent)
      BY <3>1 DEF LineIn
    <3>3. n + 1 \in 1 .. (n + 1)
      BY <1>1
    <3> QED
      BY <3>2, <3>3 DEF HashesIn, PliesIn
  <2>4. sent[n + 1] \in Nat /\ Len(History) \in Nat
    BY <1>1, GraphAssumption DEF Numbers
  <2>5. Len(reps2) = Len(History) + sent[n + 1] + 1 /\ sent[n + 1] + 1 =< MaxSearchDepth
    BY <1>1, <1>3, <1>9, <2>3, <2>4, Sizes
  <2>6. Len(reps2) \in Len(History) .. (Len(History) + MaxSearchDepth)
    BY <2>4, <2>5, Sizes
  <2> QED
    BY <2>1, <2>2, <2>6 DEF Overrun, reps2
<1> QED
  BY <1>21, <1>22, <1>23, <1>24

SearchStep ==
  \/ \E g : GoesOnAs(g) \/ TurnsBackAs(g)
  \/ \E b : AnswersHere(b) \/ AnswersAbove(b)
  \/ \E g, c : CallsHere(g, c) \/ \E entry : CallsAfter(g, c, entry)

LEMMA PlacedIsInside ==
  ASSUME CallsAreSound', NEW a \in [Nat -> Nat], NEW s \in [Nat -> Nat], Placed(a, s)'
  PROVE  InsideStack'
<1>1. frames' \in Seq(Call) /\ entries' \in [0 .. (MaxSearchDepth - 1) -> Entry] /\ ply' \in Nat
  BY DEF CallsAreSound, CallsIn, Types
<1> DEFINE k == Len(frames') + 1
<1>2. Len(frames') \in Nat
  BY <1>1
<1>5. k \in 1 .. k
  BY <1>2
<1>3. ply' = a[k] /\ a[k] < MaxSearchDepth
  <2>1. LineIn(frames', entries', ply', repetitions', a, s)
    BY DEF Placed
  <2>2. ply' = a[k] /\ PliesIn(frames', a, s)
    BY <2>1 DEF LineIn
  <2> QED
    BY <1>5, <2>2 DEF PliesIn
<1>4. ply' \in 0 .. (MaxSearchDepth - 1)
  BY <1>1, <1>3, Sizes
<1> QED
  BY <1>1, <1>4 DEF InsideStack

LEMMA StepsKeepTheInvariant ==
  ASSUME SearchInv, InsideStack, frames # <<>>, SearchStep
  PROVE  SearchInv'
<1> DEFINE n == Len(frames)
<1>1. CallsAreSound
  BY DEF SearchInv
<1>2. PICK at, sent : at \in [Nat -> Nat] /\ sent \in [Nat -> Nat] /\ Placed(at, sent)
  BY DEF SearchInv
<1>3. Numbers(at) /\ Numbers(sent)
  BY <1>2 DEF Numbers
<1>4. n \in Nat /\ ply \in Nat
  BY <1>1, <1>2, <1>3, OnTop DEF CallsAreSound, Types
<1>5. /\ n + 1 \in Nat /\ n + 2 \in Nat
      /\ at[n] \in Nat /\ sent[n] \in Nat /\ at[n + 1] \in Nat /\ sent[n + 1] \in Nat
  BY <1>3, <1>4 DEF Numbers
<1>6. \A a, s : a \in [Nat -> Nat] /\ s \in [Nat -> Nat] /\ CallsAreSound' /\ Placed(a, s)' => SearchInv'
  <2> SUFFICES ASSUME NEW a \in [Nat -> Nat], NEW s \in [Nat -> Nat], CallsAreSound', Placed(a, s)'
               PROVE  SearchInv'
    OBVIOUS
  <2>1. InsideStack'
    BY PlacedIsInside
  <2> QED
    BY <2>1 DEF SearchInv
<1>7. ASSUME NEW g, GoesOnAs(g) PROVE SearchInv'
  BY <1>1, <1>2, <1>3, <1>6, <1>7, GoesOnStep
<1>8. ASSUME NEW b, AnswersHere(b) PROVE SearchInv'
  BY <1>1, <1>2, <1>3, <1>6, <1>8, AnswersHereStep
<1> DEFINE at2 == [at EXCEPT ![n + 1] = at[n]]
<1> DEFINE sent2 == [sent EXCEPT ![n + 1] = sent[n]]
<1> DEFINE at3 == [at EXCEPT ![n + 2] = at[n + 1]]
<1> DEFINE sent3 == [sent EXCEPT ![n + 2] = sent[n + 1]]
<1>9. /\ at2 \in [Nat -> Nat] /\ Altered(at, at2, Len(frames) + 1, at[Len(frames)]) /\ Numbers(at2)
      /\ sent2 \in [Nat -> Nat] /\ Altered(sent, sent2, Len(frames) + 1, sent[Len(frames)])
      /\ Numbers(sent2)
      /\ at3 \in [Nat -> Nat] /\ Altered(at, at3, Len(frames) + 2, at[Len(frames) + 1])
      /\ sent3 \in [Nat -> Nat] /\ Altered(sent, sent3, Len(frames) + 2, sent[Len(frames) + 1])
  BY <1>2, <1>5, Altering DEF Numbers
<1> HIDE DEF at2, sent2, at3, sent3
<1>10. ASSUME NEW g, TurnsBackAs(g) PROVE SearchInv'
  BY <1>1, <1>2, <1>3, <1>6, <1>9, <1>10, TurnsBackStep
<1>11. ASSUME NEW b, AnswersAbove(b) PROVE SearchInv'
  BY <1>1, <1>2, <1>3, <1>6, <1>9, <1>11, AnswersAboveStep
<1>12. ASSUME NEW g, NEW c, CallsHere(g, c) PROVE SearchInv'
  BY <1>1, <1>2, <1>3, <1>6, <1>9, <1>12, CallsHereStep
<1>13. ASSUME NEW g, NEW c, NEW entry, CallsAfter(g, c, entry) PROVE SearchInv'
  <2>1. ply + Steps(g) \in Nat /\ sent[n + 1] + 1 \in Nat
    <3>1. Steps(g) \in Nat
      BY StepsAre
    <3> QED
      BY <1>4, <1>5, <3>1
  <2> DEFINE at4 == [at EXCEPT ![n + 1] = ply + Steps(g)]
  <2> DEFINE sent4 == [sent EXCEPT ![n + 1] = sent[n + 1] + 1]
  <2>2. /\ at4 \in [Nat -> Nat] /\ Altered(at, at4, Len(frames) + 1, ply + Steps(g))
        /\ sent4 \in [Nat -> Nat] /\ Altered(sent, sent4, Len(frames) + 1, sent[Len(frames) + 1] + 1)
    BY <1>2, <1>5, <2>1, Altering
  <2> HIDE DEF at4, sent4
  <2>3. Numbers(at4) /\ Numbers(sent4)
    BY <2>2 DEF Numbers
  <2>4. at4[n + 1] \in Nat /\ sent4[n + 1] \in Nat
    BY <1>5, <2>3 DEF Numbers
  <2> DEFINE at5 == [at4 EXCEPT ![n + 2] = at4[n + 1]]
  <2> DEFINE sent5 == [sent4 EXCEPT ![n + 2] = sent4[n + 1]]
  <2>5. /\ at5 \in [Nat -> Nat] /\ Altered(at4, at5, Len(frames) + 2, at4[Len(frames) + 1])
        /\ sent5 \in [Nat -> Nat] /\ Altered(sent4, sent5, Len(frames) + 2, sent4[Len(frames) + 1])
    BY <1>5, <2>2, <2>4, Altering
  <2> HIDE DEF at5, sent5
  <2>6. PICK a \in [Nat -> Nat], s \in [Nat -> Nat] :
          /\ Altered(at4, a, Len(frames) + 2, at4[Len(frames) + 1])
          /\ Altered(sent4, s, Len(frames) + 2, sent4[Len(frames) + 1])
    BY <2>5
  <2>7. /\ CallsAreSound'
        /\ InsideStack' => Placed(a, s)'
        /\ ~InsideStack' => Overrun'
    BY <1>1, <1>2, <1>3, <1>13, <2>2, <2>3, <2>6, CallsAfterStep
  <2>8. CASE InsideStack'
    BY <1>6, <2>7, <2>8
  <2>9. CASE ~InsideStack'
    BY <2>7, <2>9 DEF SearchInv
  <2> QED
    BY <2>8, <2>9
<1> QED
  BY <1>7, <1>8, <1>10, <1>11, <1>12, <1>13 DEF SearchStep

------------------------------------------------------------------------------
(* The picker *)

LEMMA Phases ==
  /\ PhaseIndex("TtMove") = 1 /\ PhaseIndex("NoisyGood") = 2
  /\ PhaseIndex("QuietMove") = 3 /\ PhaseIndex("NoisyBad") = 4
  /\ PhaseOrder[1] = "TtMove" /\ PhaseOrder[2] = "NoisyGood"
  /\ PhaseOrder[3] = "QuietMove" /\ PhaseOrder[4] = "NoisyBad"
<1>1. /\ PhaseOrder[1] = "TtMove" /\ PhaseOrder[2] = "NoisyGood"
      /\ PhaseOrder[3] = "QuietMove" /\ PhaseOrder[4] = "NoisyBad" /\ PhaseOrder[5] = "Done"
  BY DEF PhaseOrder
<1>2. /\ PhaseIndex("TtMove") = 1 /\ PhaseIndex("NoisyGood") = 2
      /\ PhaseIndex("QuietMove") = 3 /\ PhaseIndex("NoisyBad") = 4
  BY <1>1 DEF PhaseIndex
<1> QED
  BY <1>1, <1>2

LEMMA PickableIs ==
  \A f : /\ Pickable(f, "TtMove") = {i \in DOMAIN f.left : f.left[i] = f.ttMove}
         /\ Pickable(f, "NoisyGood") =
              {i \in DOMAIN f.left : f.left[i].kind \in {"Good", "QueenPromotion"}}
         /\ Pickable(f, "QuietMove") =
              {i \in DOMAIN f.left : ~IsNoisy(f.left[i]) /\ ~f.skipQuiets}
         /\ Pickable(f, "NoisyBad") =
              {i \in DOMAIN f.left :
                 IsNoisy(f.left[i]) /\ ~(f.skipQuiets /\ f.left[i].kind = "BadPromotion")}
         /\ Pickable(f, "Done") = {}
         /\ \A phase : Pickable(f, phase) \subseteq DOMAIN f.left
  BY DEF Pickable, MayGive

LEMMA ToSetIs == \A s : ToSet(s) = {s[i] : i \in DOMAIN s}
  BY Zenon DEF ToSet

LEMMA FunctionIsSequence ==
  ASSUME NEW S, NEW k \in Nat, NEW f \in [1 .. k -> S]
  PROVE  f \in Seq(S) /\ Len(f) = k
  OBVIOUS

\* The last move fills the gap: the one at the gap is gone, the others stay.
LEMMA FillsGapIs ==
  ASSUME NEW S, NEW left \in Seq(S), Distinct(left), NEW i \in DOMAIN left
  PROVE  /\ FillsGap(left, i) \in Seq(S) /\ Distinct(FillsGap(left, i))
         /\ left[i] \in ToSet(left)
         /\ ToSet(FillsGap(left, i)) = ToSet(left) \ {left[i]}
<1> DEFINE n == Len(left)
<1> DEFINE filled == FillsGap(left, i)
<1>1. n \in Nat /\ i \in 1 .. n /\ DOMAIN left = 1 .. n /\ n - 1 \in Nat
  <2>1. n \in Nat /\ DOMAIN left = 1 .. n
    OBVIOUS
  <2> QED
    BY <2>1
<1>2. \A k \in 1 .. n : left[k] \in S
  BY <1>1
<1>5. filled = [k \in 1 .. (n - 1) |-> IF k = i THEN left[n] ELSE left[k]]
  BY DEF FillsGap
<1>8. \A j, k \in 1 .. n : left[j] = left[k] => j = k
  BY DEF Distinct
<1> HIDE DEF n
<1>3. \A k \in 1 .. (n - 1) : k \in 1 .. n /\ k # n
  <2>1. n \in Nat
    BY <1>1
  <2> QED
    BY <2>1
<1>16. \A k \in 1 .. n : k = n \/ k \in 1 .. (n - 1)
  <2>1. n \in Nat
    BY <1>1
  <2> QED
    BY <2>1
<1>4. n \in 1 .. n
  BY <1>1
<1>6. filled \in Seq(S) /\ Len(filled) = n - 1
  <2>1. \A k \in 1 .. (n - 1) : (IF k = i THEN left[n] ELSE left[k]) \in S
    BY <1>2, <1>3, <1>4
  <2> HIDE DEF filled
  <2>2. filled \in [1 .. (n - 1) -> S]
    BY <1>5, <2>1
  <2> QED
    BY <1>1, <2>2, FunctionIsSequence
<1> HIDE DEF filled
<1>7. \A k \in 1 .. (n - 1) : filled[k] = IF k = i THEN left[n] ELSE left[k]
  BY <1>5
<1>9. Distinct(filled)
  <2> SUFFICES ASSUME NEW j \in 1 .. (n - 1), NEW k \in 1 .. (n - 1), filled[j] = filled[k]
               PROVE  j = k
    BY <1>6 DEF Distinct
  <2>1. j \in 1 .. n /\ j # n /\ k \in 1 .. n /\ k # n
    BY <1>3
  <2> QED
    BY <1>4, <1>7, <1>8, <2>1
<1>10. \A m : m \in ToSet(filled) <=> \E k \in 1 .. (n - 1) : m = filled[k]
  BY <1>6, ToSetIs
<1>11. \A m : m \in ToSet(left) <=> \E k \in 1 .. n : m = left[k]
  BY <1>1, ToSetIs
<1>12. ASSUME NEW m \in ToSet(filled) PROVE m \in ToSet(left) \ {left[i]}
  <2>1. PICK k \in 1 .. (n - 1) : m = filled[k]
    BY <1>10, <1>12
  <2>2. k \in 1 .. n /\ k # n
    BY <1>3
  <2>3. CASE k = i
    BY <1>1, <1>4, <1>7, <1>8, <1>11, <2>1, <2>2, <2>3
  <2>4. CASE k # i
    BY <1>1, <1>7, <1>8, <1>11, <2>1, <2>2, <2>4
  <2> QED
    BY <2>3, <2>4
<1>13. ASSUME NEW m \in ToSet(left), m # left[i] PROVE m \in ToSet(filled)
  <2>1. PICK k \in 1 .. n : m = left[k]
    BY <1>11, <1>13
  <2>2. k # i
    BY <1>13, <2>1
  <2>3. CASE k = n
    <3>1. i \in 1 .. (n - 1)
      BY <1>1, <1>16, <2>2, <2>3
    <3> QED
      BY <1>7, <1>10, <2>1, <2>3, <3>1
  <2>4. CASE k # n
    <3>1. k \in 1 .. (n - 1)
      BY <1>16, <2>4
    <3> QED
      BY <1>7, <1>10, <2>1, <2>2, <3>1
  <2> QED
    BY <2>3, <2>4
<1>14. left[i] \in ToSet(left)
  BY <1>1, <1>11
<1>15. ToSet(filled) = ToSet(left) \ {left[i]}
  BY <1>12, <1>13, Zenon
<1> QED
  BY <1>6, <1>9, <1>14, <1>15 DEF filled

\* The list of the picker holds every generated move once.
LEMMA SetToSeqIs ==
  ASSUME NEW S, IsFiniteSet(S)
  PROVE  SetToSeq(S) \in Seq(S) /\ Distinct(SetToSeq(S)) /\ ToSet(SetToSeq(S)) = S
<1> DEFINE n == Cardinality(S)
<1> DEFINE s == SetToSeq(S)
<1>1. n \in Nat /\ ExistsBijection(1 .. n, S)
  BY FS_CardinalityType, Zenon
<1>2. \E f \in [1 .. n -> S] : IsInjective(f)
  BY <1>1, Zenon DEF ExistsBijection, Bijection, Injection
<1>3. s \in [1 .. n -> S] /\ IsInjective(s)
  BY <1>2, Zenon DEF SetToSeq
<1> HIDE DEF s
<1>4. s \in Injection(1 .. n, S)
  BY <1>3, Zenon DEF Injection
<1>5. Cardinality(1 .. n) = n
  <2>1. IsFiniteSet(1 .. n) /\ Cardinality(1 .. n) = IF 1 > n THEN 0 ELSE n - 1 + 1
    BY <1>1, FS_Interval
  <2> HIDE DEF n
  <2> QED
    BY <1>1, <2>1
<1>6. s \in Surjection(1 .. n, S)
  BY <1>4, <1>5, FS_Injection, Zenon
<1> HIDE DEF n
<1>7. \A m \in S : \E k \in 1 .. n : s[k] = m
  BY <1>6, Zenon DEF Surjection
<1>8. \A j, k \in 1 .. n : s[j] = s[k] => j = k
  BY <1>3, Zenon DEF IsInjective
<1>9. s \in Seq(S) /\ Len(s) = n /\ DOMAIN s = 1 .. n
  BY <1>1, <1>3
<1>10. Distinct(s)
  BY <1>8, <1>9 DEF Distinct
<1>11. ToSet(s) = S
  BY <1>3, <1>7, <1>9, ToSetIs
<1> QED
  BY <1>9, <1>10, <1>11 DEF s

Opens(f, i) == PhaseOrder[i] \in PhasesOf(f) /\ Pickable(f, PhaseOrder[i]) # {}

LEMMA NextPhaseIs ==
  ASSUME NEW f, f.phase \in {"TtMove", "NoisyGood", "QuietMove", "NoisyBad"}
  PROVE  LET p == PhaseIndex(f.phase)
         IN /\ NextPhase(f) = "Done" => \A i \in p .. 4 : ~Opens(f, i)
            /\ NextPhase(f) # "Done" =>
                 \E k \in p .. 4 : /\ NextPhase(f) = PhaseOrder[k] /\ Opens(f, k)
                                   /\ \A i \in p .. 4 : i < k => ~Opens(f, i)
<1> DEFINE p == PhaseIndex(f.phase)
<1> DEFINE open == {i \in p .. 4 : Opens(f, i)}
<1>1. p \in 1 .. 4
  BY Phases
<1>2. NextPhase(f) = IF open = {} THEN "Done"
                     ELSE PhaseOrder[CHOOSE i \in open : \A j \in open : i =< j]
  BY DEF NextPhase, Opens
<1>3. CASE open = {}
  BY <1>2, <1>3
<1>4. CASE open # {}
  <2>1. \E i \in open : \A j \in open : i =< j
    <3>1. open \subseteq Nat
      BY <1>1
    <3> HIDE DEF open
    <3> QED
      BY <1>4, <3>1, LeastNatural
  <2>2. PICK k \in open : /\ k = CHOOSE i \in open : \A j \in open : i =< j
                          /\ \A j \in open : k =< j
    BY <2>1
  <2>3. NextPhase(f) = PhaseOrder[k] /\ k \in p .. 4 /\ k \in 1 .. 4 /\ Opens(f, k)
    BY <1>1, <1>2, <1>4, <2>2
  <2>4. NextPhase(f) # "Done"
    BY <2>3, Phases
  <2>5. \A i \in p .. 4 : i < k => ~Opens(f, i)
    BY <1>1, <2>2, <2>3
  <2> QED
    BY <2>3, <2>4, <2>5
<1> QED
  BY <1>3, <1>4

\* The picker ends when nothing is left, if quiet moves are not skipped.
LEMMA NothingLeft ==
  ASSUME NEW f \in Call, PickerFits(f), f.fn = "negamax", NextPhase(f) = "Done", ~f.skipQuiets
  PROVE  ToSet(f.left) = {}
<1> DEFINE p == PhaseIndex(f.phase)
<1>1. f.phase \in {"TtMove", "NoisyGood", "QuietMove", "NoisyBad"}
  BY DEF Call
<1>2. p \in 1 .. 4 /\ (p = 4 => f.phase = "NoisyBad")
  BY <1>1, Phases
<1>3. \A i \in p .. 4 : ~Opens(f, i)
  BY <1>1, NextPhaseIs
<1>4. Pickable(f, "NoisyBad") = {} /\ (p =< 3 => Pickable(f, "QuietMove") = {})
  <2>1. "NoisyBad" \in PhasesOf(f) /\ "QuietMove" \in PhasesOf(f)
    BY DEF PhasesOf
  <2>2. 4 \in p .. 4 /\ (p =< 3 => 3 \in p .. 4)
    BY <1>2
  <2> QED
    BY <1>3, <2>1, <2>2, Phases DEF Opens
<1>5. \A i \in DOMAIN f.left : ~IsNoisy(f.left[i])
  BY <1>4, PickableIs
<1>6. \A i \in DOMAIN f.left : IsNoisy(f.left[i])
  <2>1. CASE p =< 3
    BY <1>4, <2>1, PickableIs
  <2>2. CASE p = 4
    <3>1. \A m \in ToSet(f.left) : IsNoisy(m)
      BY <1>2, <2>2 DEF PickerFits
    <3> QED
      BY <3>1, ToSetIs
  <2> QED
    BY <1>2, <2>1, <2>2
<1> QED
  BY <1>5, <1>6, ToSetIs

\* The move a call picks is one it has left.
LEMMA PicksAre ==
  ASSUME NEW stopped, CallFits(Top, stopped), Top.pc = "loop", NEW g \in Picks
  PROVE  /\ g \in Call
         /\ g.fn = Top.fn /\ g.pc = "loop" /\ g.depth = Top.depth /\ g.isPv = Top.isPv
         /\ g.isRoot = Top.isRoot /\ g.movesSearched = Top.movesSearched /\ g.score = Top.score
         /\ g.cut = Top.cut /\ g.afterStop = Top.afterStop
         /\ g.move \in ToSet(Top.left) /\ ToSet(g.left) = ToSet(Top.left) \ {g.move}
         /\ Distinct(g.left) /\ g.tried = Top.tried \cup {g.move}
         /\ g.phase \in {"QuietMove", "NoisyBad"} => NoGood(ToSet(g.left))
         /\ g.phase = "NoisyBad" /\ ~g.skipQuiets => \A m \in ToSet(g.left) : IsNoisy(m)
         /\ g.skipQuiets => Top.skipQuiets \/ Top.movesSearched > 0
<1> DEFINE phase == NextPhase(Top)
<1>1. PICK i \in Pickable(Top, phase), skip \in {FALSE, MaySkipQuiets(Top)} :
        g = [Picked(Top, i) EXCEPT !.skipQuiets = @ \/ skip]
  BY DEF Picks
<1> DEFINE m == Top.left[i]
<1> DEFINE left == FillsGap(Top.left, i)
<1>2. Top \in Call /\ PickerFits(Top)
  BY DEF CallFits
<1>3. Top.phase \in {"TtMove", "NoisyGood", "QuietMove", "NoisyBad"} /\ Top.left \in Seq(GraphMove)
  BY <1>2 DEF Call
<1>4. PhaseIndex(Top.phase) \in 1 .. 4
  BY <1>3, Phases
<1>5. phase # "Done"
  BY <1>1, PickableIs
<1>6. PICK k \in PhaseIndex(Top.phase) .. 4 :
        /\ phase = PhaseOrder[k] /\ Opens(Top, k)
        /\ \A j \in PhaseIndex(Top.phase) .. 4 : j < k => ~Opens(Top, j)
  BY <1>3, <1>5, NextPhaseIs
<1>7. k \in 1 .. 4 /\ phase \in {"TtMove", "NoisyGood", "QuietMove", "NoisyBad"}
  BY <1>4, <1>6, Phases
<1>15. i \in DOMAIN Top.left /\ Distinct(Top.left)
  BY <1>1, <1>2, PickableIs DEF PickerFits
<1>16. /\ left \in Seq(GraphMove) /\ Distinct(left) /\ m \in ToSet(Top.left)
       /\ ToSet(left) = ToSet(Top.left) \ {m}
  BY <1>3, <1>15, FillsGapIs
<1> HIDE DEF left
<1>8. m \in ToSet(Top.left) /\ m \in GraphMove
  BY <1>3, <1>15, <1>16
<1>9. skip \in BOOLEAN /\ (skip => Top.movesSearched > 0) /\ Top.skipQuiets \in BOOLEAN
  BY <1>1, <1>2 DEF MaySkipQuiets, Call
<1>10. g = [Top EXCEPT !.phase = phase, !.left = left, !.tried = Top.tried \cup {m},
                       !.move = m, !.ttMove = IF phase = "TtMove" THEN NoMove ELSE Top.ttMove,
                       !.skipQuiets = Top.skipQuiets \/ skip]
  BY <1>1, <1>2 DEF Picked, Call, left
<1> HIDE DEF phase, m
<1>11. g \in Call
  BY <1>2, <1>7, <1>8, <1>9, <1>10, <1>16, ZenonT(90) DEF Call
<1>12. /\ g.fn = Top.fn /\ g.pc = "loop" /\ g.depth = Top.depth /\ g.isPv = Top.isPv
       /\ g.isRoot = Top.isRoot /\ g.movesSearched = Top.movesSearched /\ g.score = Top.score
       /\ g.cut = Top.cut /\ g.afterStop = Top.afterStop
       /\ g.move = m /\ g.left = left /\ g.tried = Top.tried \cup {m}
       /\ g.phase = phase /\ g.skipQuiets = (Top.skipQuiets \/ skip)
  BY <1>2, <1>10 DEF Call
<1>13. ASSUME phase \in {"QuietMove", "NoisyBad"} PROVE NoGood(ToSet(Top.left))
  <2>1. k \in {3, 4}
    BY <1>6, <1>7, <1>13, Phases
  <2>2. CASE PhaseIndex(Top.phase) =< 2
    <3>1. ~Opens(Top, 2) /\ "NoisyGood" \in PhasesOf(Top)
      BY <1>4, <1>6, <2>1, <2>2 DEF PhasesOf
    <3>2. Pickable(Top, "NoisyGood") = {}
      BY <3>1, Phases DEF Opens
    <3>3. \A j \in DOMAIN Top.left : Top.left[j].kind \notin {"Good", "QueenPromotion"}
      BY <3>2, PickableIs
    <3> QED
      BY <3>3, ToSetIs DEF NoGood
  <2>3. CASE PhaseIndex(Top.phase) > 2
    <3>1. Top.phase \in {"QuietMove", "NoisyBad"}
      BY <1>3, <2>3, Phases
    <3> QED
      BY <1>2, <3>1 DEF PickerFits
  <2> QED
    BY <1>4, <2>2, <2>3
<1>14. ASSUME phase = "NoisyBad", ~Top.skipQuiets PROVE \A x \in ToSet(Top.left) : IsNoisy(x)
  <2>1. k = 4 /\ Top.fn = "negamax"
    <3>1. k = 4
      <4>1. k \in {1, 2, 3, 4} /\ PhaseOrder[k] = "NoisyBad"
        BY <1>6, <1>7, <1>14
      <4> QED
        BY <4>1, Phases
    <3>2. "NoisyBad" \in PhasesOf(Top)
      BY <1>6, <3>1, Phases DEF Opens
    <3> QED
      BY <3>1, <3>2 DEF PhasesOf
  <2>2. CASE PhaseIndex(Top.phase) =< 3
    <3>1. ~Opens(Top, 3) /\ "QuietMove" \in PhasesOf(Top)
      BY <1>4, <1>6, <2>1, <2>2 DEF PhasesOf
    <3>2. Pickable(Top, "QuietMove") = {}
      BY <3>1, Phases DEF Opens
    <3>3. \A j \in DOMAIN Top.left : IsNoisy(Top.left[j])
      BY <1>14, <3>2, PickableIs
    <3> QED
      BY <3>3, ToSetIs
  <2>3. CASE PhaseIndex(Top.phase) > 3
    <3>1. Top.phase = "NoisyBad"
      BY <1>3, <2>3, Phases
    <3> QED
      BY <1>2, <1>14, <3>1 DEF PickerFits
  <2> QED
    BY <1>4, <2>2, <2>3
<1>17. g.phase \in {"QuietMove", "NoisyBad"} => NoGood(ToSet(g.left))
  BY <1>12, <1>13, <1>16 DEF NoGood
<1>18. g.phase = "NoisyBad" /\ ~g.skipQuiets => \A x \in ToSet(g.left) : IsNoisy(x)
  BY <1>12, <1>14, <1>16
<1> QED
  BY <1>8, <1>9, <1>11, <1>12, <1>16, <1>17, <1>18

------------------------------------------------------------------------------
(* Every action is one of these steps *)

\* A call as Frame() makes it.
Fresh(c) ==
  /\ c \in Call /\ c.pc = "enter" /\ c.depth =< Depth /\ c.score = "low" /\ c.phase = "TtMove"
  /\ c.left = <<>> /\ c.tried = {} /\ c.movesSearched = 0 /\ ~c.cut /\ c.afterStop = 0
  /\ (c.fn = "negamax" => ~c.skipQuiets)

LEMMA FramesAreFresh ==
  ASSUME NEW fn \in {"negamax", "quiesence"}, NEW depth \in Nat, depth =< Depth,
         NEW isPv \in BOOLEAN, NEW isRoot \in BOOLEAN, NEW nullSearch \in BOOLEAN
  PROVE  /\ Fresh(Frame(fn, depth, isPv, isRoot, nullSearch))
         /\ Frame(fn, depth, isPv, isRoot, nullSearch).fn = fn
<1> DEFINE skip == fn = "quiesence"
<1> DEFINE c == Frame(fn, depth, isPv, isRoot, nullSearch)
<1>1. skip \in BOOLEAN /\ (fn = "negamax" => ~skip)
  OBVIOUS
<1>2. <<>> \in Seq(GraphMove)
  OBVIOUS
<1> HIDE DEF skip
<1>3. c = [fn |-> fn, pc |-> "enter", depth |-> depth, isPv |-> isPv, isRoot |-> isRoot,
           nullSearch |-> nullSearch, phase |-> "TtMove", left |-> <<>>, tried |-> {},
           ttMove |-> NoMove, skipQuiets |-> skip, move |-> NoMove, reduction |-> 0,
           movesSearched |-> 0, score |-> "low", cut |-> FALSE, afterStop |-> 0]
  BY DEF Frame, skip
<1> HIDE DEF c
<1>4. c \in Call
  BY <1>1, <1>2, <1>3 DEF Call, Scores
<1>5. Fresh(c) /\ c.fn = fn
  BY <1>1, <1>3, <1>4 DEF Fresh
<1> QED
  BY <1>5 DEF c

LEMMA FreshCallFits ==
  ASSUME NEW c, Fresh(c), NEW stopped
  PROVE  CallFits(c, stopped)
<1>1. DepthFits(c)
  BY DEF DepthFits, Fresh
<1>2. PickerFits(c)
  <2>1. Distinct(c.left)
    BY DEF Distinct, Fresh
  <2> QED
    BY <2>1 DEF PickerFits, InLoop, Fresh
<1>3. StopFits(c, stopped)
  BY DEF StopFits, Fresh
<1> QED
  BY <1>1, <1>2, <1>3 DEF CallFits, Fresh

LEMMA TopFacts ==
  ASSUME SearchInv, InsideStack, frames # <<>>
  PROVE  /\ Top \in Call /\ CallFits(Top, searchStopped) /\ keptCut = FALSE
         /\ searchStopped \in BOOLEAN
         /\ Len(frames) = 1 => RootFits(Top)
         /\ returned \in Answer \cup {NoResult} /\ (returned.cut => searchStopped)
         /\ Top.pc \in Waiting <=> returned # NoResult
         /\ ply \in Nat /\ ply \in 0 .. (MaxSearchDepth - 1)
         /\ Steps(Top) = 0 => /\ board \in [position : Positions, halfMoves : Nat]
                              /\ PlaceFits(Top, board, board)
         /\ Steps(Top) = 0 /\ Len(frames) = 1 => ply = 0 /\ board.position = Root
<1>1. PICK at, sent : at \in [Nat -> Nat] /\ sent \in [Nat -> Nat] /\ Placed(at, sent)
  BY DEF SearchInv
<1>2. Numbers(at)
  BY <1>1 DEF Numbers
<1>3. Placed(at, sent) /\ CallsAreSound
  BY <1>1 DEF SearchInv
<1> DEFINE here == at[Len(frames)]
<1>4. /\ CallFits(Top, searchStopped) /\ (Len(frames) = 1 => RootFits(Top) /\ here = 0)
      /\ Top.pc \in Waiting <=> returned # NoResult
      /\ ply = here + Steps(Top) /\ here \in Nat /\ ply < MaxSearchDepth
      /\ PlaceFits(Top, BoardAt(entries, here), BoardAt(entries, ply))
  BY <1>2, <1>3, OnTop
<1>5. Top \in Call /\ keptCut = FALSE /\ searchStopped \in BOOLEAN /\ ply \in Nat
  BY <1>3, <1>4 DEF CallFits, CallsAreSound, Types
<1>6. returned \in Answer \cup {NoResult} /\ (returned.cut => searchStopped)
  BY <1>3 DEF CallsAreSound, CallsIn
<1>9. ply \in 0 .. (MaxSearchDepth - 1)
  BY <1>4, <1>5, Sizes
<1>7. ASSUME Steps(Top) = 0
      PROVE  /\ ply = here
             /\ board \in [position : Positions, halfMoves : Nat]
             /\ board = BoardAt(entries, here)
  <2>1. ply = here
    BY <1>4, <1>7, Sizes
  <2>2. entries \in [0 .. (MaxSearchDepth - 1) -> Entry]
    BY <1>3 DEF CallsAreSound, Types
  <2>3. entries[ply] \in Entry
    BY <1>9, <2>2
  <2> QED
    BY <2>1, <2>3 DEF board, BoardAt, Entry
<1>8. BoardAt(entries, 0).position = Root
  BY <1>3 DEF Placed, LineIn, PlacesIn, Board
<1> QED
  BY <1>4, <1>5, <1>6, <1>7, <1>8, <1>9

\* A call elsewhere in its node, with nothing else changed.
LEMMA GotoFits ==
  ASSUME Top \in Call, CallFits(Top, searchStopped), NEW pc, NEW g, g = Goto(pc),
         Top.pc \in {"static", "razor", "null"}, pc \in {"razor", "tt", "null", "razored"}
  PROVE  /\ CallFits(g, searchStopped) /\ g.pc = pc /\ g.fn = Top.fn /\ g.score = Top.score
         /\ g.fn = "negamax" /\ \A here, next : pc # "null" => PlaceFits(g, here, next)
<1>1. /\ g \in Call /\ g.pc = pc /\ g.fn = Top.fn /\ g.score = Top.score /\ g.depth = Top.depth
      /\ g.left = Top.left /\ g.tried = Top.tried /\ g.movesSearched = Top.movesSearched
      /\ g.phase = Top.phase /\ g.skipQuiets = Top.skipQuiets /\ g.cut = Top.cut
      /\ g.afterStop = Top.afterStop
  BY DEF Goto, Call, Waiting
<1>2. Top.fn = "negamax"
  BY DEF CallFits, Call
<1>3. DepthFits(g)
  BY <1>1 DEF CallFits, DepthFits
<1>4. PickerFits(g)
  BY <1>1 DEF CallFits, PickerFits, InLoop
<1>5. StopFits(g, searchStopped)
  BY <1>1 DEF CallFits, StopFits
<1>6. \A here, next : pc # "null" => PlaceFits(g, here, next)
  BY <1>1 DEF PlaceFits, InLoop
<1> QED
  BY <1>1, <1>2, <1>3, <1>4, <1>5, <1>6 DEF CallFits

LEMMA AnswersAreAnswers ==
  \A score \in Scores, cut \in BOOLEAN :
    LET b == [score |-> score, cut |-> cut]
    IN b \in Answer /\ b.score = score /\ b.cut = cut
  BY DEF Answer

LEMMA KeepsAll ==
  ASSUME SearchInv, UNCHANGED pvVars
  PROVE  Keeps
  BY KeepsRows DEF SearchInv, CallsAreSound, Types

LEMMA ClearsOne ==
  ASSUME SearchInv, InsideStack, ResetRow
  PROVE  Clears
<1>1. PvTyped /\ entries \in [0 .. (MaxSearchDepth - 1) -> Entry]
  BY DEF SearchInv, CallsAreSound, Types
<1>2. ply \in 0 .. (MaxSearchDepth - 1)
  BY <1>1 DEF InsideStack
<1>3. ply \in 0 .. MaxSearchDepth
  BY <1>2, Sizes
<1> QED
  BY <1>1, <1>3, ResetsRow

LEMMA ReturnsEarly ==
  ASSUME SearchInv, InsideStack, ReturnEarly \/ QuiescenceReturnsEarly
  PROVE  SearchInv'
<1>1. frames # <<>> /\ returned = NoResult /\ Top.pc = "enter"
  BY DEF ReturnEarly, QuiescenceReturnsEarly, At, Running
<1>2. Steps(Top) = 0
  BY <1>1, StepsAre
<1>3. PICK score \in ScoresOf(Top.isPv) : Return(score, FALSE)
  BY DEF ReturnEarly, QuiescenceReturnsEarly, AnyScore
<1> DEFINE b == [score |-> score, cut |-> FALSE]
<1>4. b \in Answer /\ b.cut = FALSE
  BY AnswersAreAnswers DEF ScoresOf, Scores
<1>5. /\ frames' = Front(frames) /\ returned' = b /\ searchStopped' = searchStopped
      /\ keptCut' = FALSE /\ UNCHANGED treeVars
  BY <1>1, <1>3, TopFacts DEF ReturnEarly, QuiescenceReturnsEarly, Return
<1>6. Len(frames) # 1 /\ (Clears \/ (Keeps /\ Top.fn = "quiesence"))
  <2>1. CASE ReturnEarly
    <3>1. ASSUME Len(frames) = 1 PROVE FALSE
      <4>1. ply = 0 /\ Top.isRoot /\ Top.isPv
        BY <1>1, <1>2, <3>1, TopFacts DEF RootFits
      <4> QED
        BY <2>1, <4>1, Sizes DEF ReturnEarly
    <3> QED
      BY <2>1, <3>1, ClearsOne DEF ReturnEarly
  <2>2. CASE QuiescenceReturnsEarly
    BY <1>1, <2>2, TopFacts, KeepsAll DEF QuiescenceReturnsEarly, At, RootFits
  <2> QED
    BY <2>1, <2>2
<1> HIDE DEF b
<1>7. AnswersHere(b)
  BY <1>2, <1>4, <1>5, <1>6 DEF AnswersHere
<1> QED
  BY <1>1, <1>7, StepsKeepTheInvariant DEF SearchStep

LEMMA EntersQuiescence ==
  ASSUME SearchInv, InsideStack, EnterQuiescence
  PROVE  SearchInv'
<1> DEFINE g == Frame("quiesence", 0, Top.isPv, FALSE, FALSE)
<1>1. /\ frames # <<>> /\ returned = NoResult /\ Top.pc = "enter" /\ Top.fn = "negamax"
      /\ Extended = 0 /\ ply < MaxSearchDepth /\ Clears
      /\ frames' = [frames EXCEPT ![Len(frames)] = g] /\ returned' = NoResult
      /\ UNCHANGED treeVars /\ searchStopped' = searchStopped /\ keptCut' = keptCut
  BY ClearsOne DEF EnterQuiescence, At, Running, NotTooDeep, Replace
<1>2. Steps(Top) = 0
  BY <1>1, StepsAre
<1>3. Top \in Call /\ CallFits(Top, searchStopped) /\ keptCut = FALSE /\ ply \in Nat
  BY <1>1, TopFacts
<1>4. CallFits(g, searchStopped) /\ g.pc = "enter" /\ g.fn = "quiesence" /\ g.score = "low"
  <2>1. Top.isPv \in BOOLEAN /\ 0 =< Depth
    BY <1>3, Sizes DEF Call
  <2>2. Fresh(g) /\ g.fn = "quiesence"
    BY <2>1, FramesAreFresh
  <2> HIDE DEF g
  <2> QED
    BY <2>2, FreshCallFits DEF Fresh
<1> HIDE DEF g
<1>5. Len(frames) # 1
  <2>1. ASSUME Len(frames) = 1 PROVE FALSE
    <3>1. Top.depth = Depth
      BY <1>1, <2>1, TopFacts DEF RootFits
    <3> QED
      BY <1>1, <3>1, Sizes DEF Extended
  <2> QED
    BY <2>1
<1>6. PlaceFits(g, board, board)
  BY <1>4 DEF PlaceFits, InLoop
<1>7. g.pc \notin Waiting
  BY <1>4 DEF Waiting
<1>8. GoesOnAs(g)
  BY <1>1, <1>2, <1>3, <1>4, <1>5, <1>6, <1>7 DEF GoesOnAs, Goes
<1> QED
  BY <1>1, <1>8, StepsKeepTheInvariant DEF SearchStep

LEMMA EntersNode ==
  ASSUME SearchInv, InsideStack, EnterNode
  PROVE  SearchInv'
<1> DEFINE pc == IF Top.isPv \/ isChecked THEN "tt" ELSE "static"
<1> DEFINE g == [Top EXCEPT !.pc = pc, !.depth = Extended]
<1>1. /\ frames # <<>> /\ returned = NoResult /\ Top.pc = "enter" /\ Top.fn = "negamax"
      /\ Extended > 0 /\ ply < MaxSearchDepth /\ Clears
      /\ frames' = [frames EXCEPT ![Len(frames)] = g] /\ returned' = NoResult
      /\ UNCHANGED treeVars /\ searchStopped' = searchStopped /\ keptCut' = keptCut
  BY ClearsOne DEF EnterNode, At, Running, NotTooDeep, Replace
<1>2. Steps(Top) = 0
  BY <1>1, StepsAre
<1>3. Top \in Call /\ CallFits(Top, searchStopped) /\ keptCut = FALSE /\ ply \in Nat
  BY <1>1, TopFacts
<1>4. pc \in {"tt", "static"} /\ (Top.isPv => pc = "tt")
  OBVIOUS
<1>5. Extended \in Nat /\ Extended >= 1 /\ Extended =< Depth + 1
  <2>1. Top.depth \in Nat /\ Top.depth =< Depth
    BY <1>1, <1>3 DEF CallFits, DepthFits, Call
  <2> QED
    BY <1>1, <2>1, Sizes DEF Extended
<1> HIDE DEF pc
<1>6. /\ g \in Call /\ g.pc = pc /\ g.fn = Top.fn /\ g.score = Top.score /\ g.depth = Extended
      /\ g.left = Top.left /\ g.tried = Top.tried /\ g.movesSearched = Top.movesSearched
      /\ g.phase = Top.phase /\ g.skipQuiets = Top.skipQuiets /\ g.cut = Top.cut
      /\ g.afterStop = Top.afterStop /\ g.isPv = Top.isPv /\ g.isRoot = Top.isRoot
  BY <1>3, <1>4, <1>5 DEF Call
<1> HIDE DEF g
<1>7. CallFits(g, searchStopped)
  <2>1. DepthFits(g)
    BY <1>4, <1>5, <1>6 DEF DepthFits
  <2>2. PickerFits(g)
    BY <1>1, <1>3, <1>4, <1>6 DEF CallFits, PickerFits, InLoop
  <2>3. StopFits(g, searchStopped)
    BY <1>1, <1>3, <1>4, <1>6 DEF CallFits, StopFits
  <2> QED
    BY <1>1, <1>6, <2>1, <2>2, <2>3 DEF CallFits
<1>8. Len(frames) = 1 => RootFits(g) /\ g.score = "low"
  BY <1>1, <1>4, <1>6, TopFacts DEF RootFits
<1>9. PlaceFits(g, board, board) /\ g.pc \notin Waiting
  BY <1>4, <1>6 DEF PlaceFits, InLoop, Waiting
<1>10. GoesOnAs(g)
  BY <1>1, <1>2, <1>3, <1>6, <1>7, <1>8, <1>9 DEF GoesOnAs, Goes
<1> QED
  BY <1>1, <1>10, StepsKeepTheInvariant DEF SearchStep

LEMMA ReversesFutility ==
  ASSUME SearchInv, InsideStack, ReverseFutility
  PROVE  SearchInv'
<1> DEFINE b == [score |-> "high", cut |-> FALSE]
<1>1. /\ frames # <<>> /\ returned = NoResult /\ Top.pc = "static" /\ Top.fn = "negamax"
      /\ frames' = Front(frames) /\ returned' = b
      /\ UNCHANGED treeVars /\ Keeps /\ searchStopped' = searchStopped /\ keptCut' = keptCut
  BY KeepsAll DEF ReverseFutility, At, Running, Return
<1>2. Steps(Top) = 0 /\ keptCut = FALSE
  BY <1>1, StepsAre, TopFacts
<1>3. b \in Answer /\ b.score = "high" /\ b.cut = FALSE
  BY AnswersAreAnswers DEF Scores
<1> HIDE DEF b
<1>4. AnswersHere(b)
  BY <1>1, <1>2, <1>3 DEF AnswersHere
<1> QED
  BY <1>1, <1>4, StepsKeepTheInvariant DEF SearchStep

LEMMA PrunesByNullMove ==
  ASSUME SearchInv, InsideStack, NullMovePruning
  PROVE  SearchInv'
<1> DEFINE g == Goto("null")
<1>1. /\ frames # <<>> /\ returned = NoResult /\ Top.pc = "static" /\ Top.fn = "negamax"
      /\ board.position \in DOMAIN NullMoves
      /\ repetitions' = Append(repetitions, board.position) /\ ply' = ply + 2
      /\ Keeps /\ returned' = returned /\ searchStopped' = searchStopped /\ keptCut' = keptCut
  BY KeepsAll DEF NullMovePruning, At, Running, MakeNullMove
<1>2. PICK depth \in 0 .. (Top.depth - 1) :
        CallFrom(g, Frame("negamax", depth, FALSE, FALSE, TRUE))
  BY DEF NullMovePruning
<1> DEFINE c == Frame("negamax", depth, FALSE, FALSE, TRUE)
<1>3. frames' = Append([frames EXCEPT ![Len(frames)] = g], c)
  BY <1>2 DEF CallFrom
<1>4. /\ Top \in Call /\ CallFits(Top, searchStopped) /\ keptCut = FALSE
      /\ ply \in Nat /\ Len(frames) # 1
  BY <1>1, TopFacts DEF RootFits
<1>5. /\ Steps(Top) = 0 /\ ply < MaxSearchDepth
      /\ board \in [position : Positions, halfMoves : Nat]
  <2>1. Steps(Top) = 0
    BY <1>1, StepsAre
  <2> QED
    BY <1>1, <1>4, <2>1, TopFacts, Sizes
<1>6. CallFits(g, searchStopped) /\ g.pc = "null" /\ g.fn = Top.fn
  BY <1>1, <1>4, GotoFits
<1>7. CallFits(c, searchStopped) /\ c.pc = "enter" /\ c.fn = "negamax"
  <2>1. depth \in Nat /\ depth =< Depth
    BY <1>1, <1>4, Sizes DEF CallFits, DepthFits, Call
  <2>2. Fresh(c) /\ c.fn = "negamax"
    BY <2>1, FramesAreFresh
  <2> HIDE DEF c
  <2> QED
    BY <2>2, FreshCallFits DEF Fresh
<1>8. Steps(g) = 2 /\ g.pc \in Waiting
  BY <1>6, StepsAre DEF Waiting
<1> HIDE DEF g, c
<1> DEFINE placed == Board(NullMoves[board.position], board.halfMoves)
<1> DEFINE entry == [board |-> placed, move |-> entries[ply + 2].move]
<1>9. /\ placed \in [position : Positions, halfMoves : Nat] /\ placed.position = NullMoves[board.position]
      /\ placed.halfMoves = board.halfMoves
  BY <1>1, <1>5, GraphAssumption DEF Board, Positions
<1>10. /\ entries' = Written(ply + 2, entry) /\ entry.board = placed
       /\ ply + 2 < MaxSearchDepth => entry \in Entry
  <2>1. entries' = Written(ply + 2, entry)
    BY DEF NullMovePruning, MakeNullMove
  <2>2. ASSUME ply + 2 < MaxSearchDepth PROVE entries[ply + 2].move \in AnyMove
    <3>1. entries \in [0 .. (MaxSearchDepth - 1) -> Entry]
      BY DEF SearchInv, CallsAreSound, Types
    <3>2. ply + 2 \in 0 .. (MaxSearchDepth - 1)
      BY <1>4, <2>2, Sizes
    <3> QED
      BY <3>1, <3>2 DEF Entry
  <2> HIDE DEF placed
  <2> QED
    BY <1>9, <2>1, <2>2 DEF Entry
<1> HIDE DEF placed, entry
<1>11. PlaceFits(g, board, entry.board)
  BY <1>1, <1>6, <1>9, <1>10 DEF PlaceFits, InLoop
<1>12. Calls(g, c)
  BY <1>1, <1>3, <1>4, <1>6, <1>7, <1>8 DEF Calls, Goes
<1>13. CallsAfter(g, c, entry)
  BY <1>1, <1>6, <1>8, <1>10, <1>11, <1>12 DEF CallsAfter, Waiting
<1> QED
  BY <1>1, <1>13, StepsKeepTheInvariant DEF SearchStep

LEMMA ReturnsFromNullMove ==
  ASSUME SearchInv, InsideStack, NullMoveReturns
  PROVE  SearchInv'
<1>1. /\ frames # <<>> /\ returned # NoResult /\ Top.pc = "null"
      /\ ply' = ply - 2 /\ repetitions' = Front(repetitions) /\ UNCHANGED entries
      /\ Keeps /\ searchStopped' = searchStopped /\ keptCut' = keptCut
  BY KeepsAll DEF NullMoveReturns, Resumed, UndoNullMove
<1>2. /\ Top \in Call /\ CallFits(Top, searchStopped) /\ keptCut = FALSE
      /\ Len(frames) # 1 /\ returned \in Answer /\ (returned.cut => searchStopped)
  BY <1>1, TopFacts DEF RootFits
<1>3. Steps(Top) = 2 /\ Steps(Top) > 0 /\ TakesBack
  BY <1>1, StepsAre DEF TakesBack
<1>4. CASE Negated[returned.score] = "high"
  <2> DEFINE b == [score |-> "high", cut |-> returned.cut]
  <2>1. frames' = Front(frames) /\ returned' = b
    BY <1>4 DEF NullMoveReturns, Return
  <2>2. b \in Answer /\ b.cut = returned.cut
    BY <1>2, AnswersAreAnswers DEF Scores, Answer
  <2> HIDE DEF b
  <2>3. AnswersAbove(b)
    BY <1>1, <1>2, <1>3, <2>1, <2>2 DEF AnswersAbove
  <2> QED
    BY <1>1, <2>3, StepsKeepTheInvariant DEF SearchStep
<1>5. CASE Negated[returned.score] # "high"
  <2> DEFINE g == Goto("razor")
  <2>1. frames' = [frames EXCEPT ![Len(frames)] = g] /\ returned' = NoResult
    BY <1>5 DEF NullMoveReturns, Replace
  <2>2. /\ CallFits(g, searchStopped) /\ g.pc = "razor" /\ g.fn = Top.fn
        /\ \A here, next : PlaceFits(g, here, next)
    BY <1>1, <1>2, GotoFits
  <2> HIDE DEF g
  <2>3. TurnsBackAs(g)
    BY <1>1, <1>2, <1>3, <2>1, <2>2 DEF TurnsBackAs, Goes, Waiting
  <2> QED
    BY <1>1, <2>3, StepsKeepTheInvariant DEF SearchStep
<1> QED
  BY <1>4, <1>5

LEMMA Razors ==
  ASSUME SearchInv, InsideStack, Razoring
  PROVE  SearchInv'
<1> DEFINE g == Goto("razored")
<1> DEFINE c == Frame("quiesence", 0, Top.isPv, FALSE, FALSE)
<1>1. /\ frames # <<>> /\ returned = NoResult /\ Top.pc \in {"static", "razor"}
      /\ Top.fn = "negamax"
      /\ frames' = Append([frames EXCEPT ![Len(frames)] = g], c) /\ returned' = NoResult
      /\ UNCHANGED treeVars
      /\ Keeps /\ searchStopped' = searchStopped /\ keptCut' = keptCut
  BY KeepsAll DEF Razoring, At, Running, CallFrom
<1>2. /\ Top \in Call /\ CallFits(Top, searchStopped) /\ keptCut = FALSE /\ Len(frames) # 1
  BY <1>1, TopFacts DEF RootFits
<1>3. /\ CallFits(g, searchStopped) /\ g.pc = "razored" /\ g.fn = Top.fn
      /\ \A here, next : PlaceFits(g, here, next)
  BY <1>1, <1>2, GotoFits
<1>4. CallFits(c, searchStopped) /\ c.pc = "enter" /\ c.fn = "quiesence"
  <2>1. Top.isPv \in BOOLEAN /\ 0 =< Depth
    BY <1>2, Sizes DEF Call
  <2>2. Fresh(c) /\ c.fn = "quiesence"
    BY <2>1, FramesAreFresh
  <2> HIDE DEF c
  <2> QED
    BY <2>2, FreshCallFits DEF Fresh
<1> HIDE DEF g, c
<1>5. Steps(Top) = 0 /\ Steps(g) = 0
  BY <1>1, <1>3, StepsAre
<1>6. Calls(g, c)
  BY <1>1, <1>2, <1>3, <1>4, <1>5 DEF Calls, Goes, Waiting
<1>7. CallsHere(g, c)
  BY <1>1, <1>3, <1>5, <1>6 DEF CallsHere
<1> QED
  BY <1>1, <1>7, StepsKeepTheInvariant DEF SearchStep

LEMMA ReturnsFromRazoring ==
  ASSUME SearchInv, InsideStack, RazoringReturns
  PROVE  SearchInv'
<1>1. /\ frames # <<>> /\ returned # NoResult /\ Top.pc = "razored"
      /\ UNCHANGED treeVars
      /\ Keeps /\ searchStopped' = searchStopped /\ keptCut' = keptCut
  BY KeepsAll DEF RazoringReturns, Resumed
<1>2. /\ Top \in Call /\ CallFits(Top, searchStopped) /\ keptCut = FALSE
      /\ Len(frames) # 1 /\ returned \in Answer /\ (returned.cut => searchStopped)
      /\ Top.fn = "negamax" /\ ply \in Nat
  BY <1>1, TopFacts DEF RootFits, CallFits, Call
<1>3. Steps(Top) = 0
  BY <1>1, StepsAre
<1>4. CASE Top.depth = 1 \/ returned.score = "low"
  <2> DEFINE b == [score |-> returned.score, cut |-> returned.cut]
  <2>1. frames' = Front(frames) /\ returned' = b
    BY <1>4 DEF RazoringReturns, Return
  <2>2. b \in Answer /\ b.cut = returned.cut
    BY <1>2, AnswersAreAnswers DEF Answer
  <2> HIDE DEF b
  <2>3. AnswersHere(b)
    BY <1>1, <1>2, <1>3, <2>1, <2>2 DEF AnswersHere
  <2> QED
    BY <1>1, <2>3, StepsKeepTheInvariant DEF SearchStep
<1>5. CASE ~(Top.depth = 1 \/ returned.score = "low")
  <2> DEFINE g == [Goto("tt") EXCEPT !.cut = returned.cut]
  <2>1. frames' = [frames EXCEPT ![Len(frames)] = g] /\ returned' = NoResult
    BY <1>5 DEF RazoringReturns, Replace
  <2>2. /\ g \in Call /\ g.pc = "tt" /\ g.fn = Top.fn /\ g.score = Top.score /\ g.depth = Top.depth
        /\ g.left = Top.left /\ g.tried = Top.tried /\ g.movesSearched = Top.movesSearched
        /\ g.phase = Top.phase /\ g.skipQuiets = Top.skipQuiets /\ g.cut = returned.cut
        /\ g.afterStop = Top.afterStop
    BY <1>2 DEF Goto, Call, Answer
  <2> HIDE DEF g
  <2>3. CallFits(g, searchStopped)
    <3>1. DepthFits(g)
      BY <1>1, <1>2, <2>2 DEF CallFits, DepthFits
    <3>2. PickerFits(g)
      BY <1>1, <1>2, <2>2 DEF CallFits, PickerFits, InLoop
    <3>3. StopFits(g, searchStopped)
      BY <1>1, <1>2, <2>2 DEF CallFits, StopFits, PickerFits, InLoop
    <3> QED
      BY <1>2, <2>2, <3>1, <3>2, <3>3 DEF CallFits
  <2>4. PlaceFits(g, board, board) /\ g.pc \notin Waiting
    BY <1>1, <1>2, <1>3, <2>2, TopFacts DEF PlaceFits, InLoop, Waiting
  <2>5. GoesOnAs(g)
    BY <1>1, <1>2, <1>3, <2>1, <2>2, <2>3, <2>4 DEF GoesOnAs, Goes
  <2> QED
    BY <1>1, <2>5, StepsKeepTheInvariant DEF SearchStep
<1> QED
  BY <1>4, <1>5

LEMMA IsNotPruned ==
  ASSUME SearchInv, InsideStack, NotPruned
  PROVE  SearchInv'
<1> DEFINE g == Goto("tt")
<1>1. /\ frames # <<>> /\ returned = NoResult /\ Top.pc \in {"static", "razor"}
      /\ Top.fn = "negamax"
      /\ frames' = [frames EXCEPT ![Len(frames)] = g] /\ returned' = NoResult
      /\ UNCHANGED treeVars
      /\ Keeps /\ searchStopped' = searchStopped /\ keptCut' = keptCut
  BY KeepsAll DEF NotPruned, At, Running, Replace
<1>2. /\ Top \in Call /\ CallFits(Top, searchStopped) /\ keptCut = FALSE /\ Len(frames) # 1
      /\ ply \in Nat
  BY <1>1, TopFacts DEF RootFits
<1>3. /\ CallFits(g, searchStopped) /\ g.pc = "tt" /\ g.fn = Top.fn
      /\ \A here, next : PlaceFits(g, here, next)
  BY <1>1, <1>2, GotoFits
<1> HIDE DEF g
<1>4. Steps(Top) = 0
  BY <1>1, StepsAre
<1>5. g.pc \notin Waiting
  BY <1>3 DEF Waiting
<1>6. GoesOnAs(g)
  BY <1>1, <1>2, <1>3, <1>4, <1>5 DEF GoesOnAs, Goes
<1> QED
  BY <1>1, <1>6, StepsKeepTheInvariant DEF SearchStep

LEMMA StartsItsLoop ==
  ASSUME SearchInv, InsideStack, StartLoop \/ QuiescenceStarts
  PROVE  SearchInv'
<1>1. /\ frames # <<>> /\ returned = NoResult /\ returned' = NoResult
      /\ \/ Top.pc = "tt" /\ Top.fn = "negamax"
         \/ Top.pc = "enter" /\ Top.fn = "quiesence" /\ ply < MaxSearchDepth
      /\ UNCHANGED treeVars
      /\ Keeps /\ searchStopped' = searchStopped /\ keptCut' = keptCut
  BY KeepsAll DEF StartLoop, QuiescenceStarts, At, Running
<1>2. Steps(Top) = 0
  BY <1>1, StepsAre
<1>3. /\ Top \in Call /\ CallFits(Top, searchStopped) /\ keptCut = FALSE
      /\ ply \in Nat /\ board.position \in Positions
  BY <1>1, <1>2, TopFacts, Sizes
<1>4. PICK ttMove \in TtMoves, depth \in Nat, score \in Scores :
        /\ frames' = [frames EXCEPT ![Len(frames)] =
             WithPicker([Top EXCEPT !.pc = "loop", !.depth = depth, !.score = score], ttMove)]
        /\ depth =< Depth + 1 /\ (Top.fn = "negamax" => depth >= 1 /\ score = Top.score)
  <2>1. Top.depth \in Nat /\ Top.depth =< Depth + 1 /\ Top.score \in Scores
    BY <1>1, <1>3, Sizes DEF CallFits, DepthFits, Call
  <2>2. CASE StartLoop
    <3>1. PICK ttMove \in TtMoves, cutNode \in BOOLEAN :
            LET reduced == Top.depth >= 2 /\ (Top.isPv \/ cutNode) /\ ttMove = NoMove
            IN Replace(WithPicker([Goto("loop") EXCEPT !.depth = IF reduced THEN @ - 1 ELSE @],
                                  ttMove))
      BY <2>2 DEF StartLoop
    <3> DEFINE reduced == Top.depth >= 2 /\ (Top.isPv \/ cutNode) /\ ttMove = NoMove
    <3> DEFINE depth == IF reduced THEN Top.depth - 1 ELSE Top.depth
    <3> DEFINE h == [Top EXCEPT !.pc = "loop", !.depth = depth, !.score = Top.score]
    <3>2. Top.fn = "negamax" /\ Top.pc = "tt"
      BY <2>2 DEF StartLoop, At
    <3>3. depth \in Nat /\ depth =< Depth + 1 /\ depth >= 1
      <4>1. Top.depth >= 1 /\ Depth \in Nat
        BY <1>3, <3>2, Sizes DEF CallFits, DepthFits
      <4>2. reduced => Top.depth >= 2
        OBVIOUS
      <4> HIDE DEF reduced
      <4> QED
        BY <2>1, <4>1, <4>2
    <3>4. [Goto("loop") EXCEPT !.depth = IF reduced THEN @ - 1 ELSE @] = h
      BY <1>3 DEF Goto, Call
    <3>5. frames' = [frames EXCEPT ![Len(frames)] = WithPicker(h, ttMove)]
      BY <3>1, <3>4 DEF Replace
    <3> HIDE DEF depth
    <3> QED
      BY <2>1, <3>2, <3>3, <3>5
  <2>3. CASE QuiescenceStarts
    <3>1. PICK ttMove \in TtMoves, score \in ScoresOf(Top.isPv) \ {"high"} :
            Replace(WithPicker([Goto("loop") EXCEPT !.score = score], ttMove))
      BY <2>3 DEF QuiescenceStarts
    <3>2. score \in Scores /\ Top.fn = "quiesence"
      BY <2>3 DEF ScoresOf, Scores, QuiescenceStarts, At
    <3>3. [Goto("loop") EXCEPT !.score = score]
            = [Top EXCEPT !.pc = "loop", !.depth = Top.depth, !.score = score]
      BY <1>3 DEF Goto, Call
    <3>4. frames' = [frames EXCEPT ![Len(frames)] =
             WithPicker([Top EXCEPT !.pc = "loop", !.depth = Top.depth, !.score = score], ttMove)]
      BY <3>1, <3>3 DEF Replace
    <3> QED
      BY <2>1, <3>2, <3>4
  <2> QED
    BY <2>2, <2>3
<1> DEFINE h == [Top EXCEPT !.pc = "loop", !.depth = depth, !.score = score]
<1> DEFINE g == WithPicker(h, ttMove)
<1>5. /\ h \in Call /\ h.pc = "loop" /\ h.fn = Top.fn /\ h.score = score /\ h.depth = depth
      /\ h.left = Top.left /\ h.tried = Top.tried /\ h.movesSearched = Top.movesSearched
      /\ h.phase = Top.phase /\ h.skipQuiets = Top.skipQuiets /\ h.cut = Top.cut
      /\ h.afterStop = Top.afterStop /\ h.isPv = Top.isPv /\ h.isRoot = Top.isRoot
  BY <1>3 DEF Call
<1> HIDE DEF h
<1> DEFINE all == Moves[board.position]
<1> DEFINE noisy == {m \in Moves[board.position] : IsNoisy(m)}
<1>6. ttMove \in GraphMove \cup {NoMove} /\ all \subseteq GraphMove /\ noisy \subseteq all
  BY <1>3, MovesAreMoves DEF TtMoves
<1>14. IsFiniteSet(all) /\ IsFiniteSet(noisy)
  <2>1. IsFiniteSet(all)
    BY <1>3, GraphAssumption DEF Positions
  <2> HIDE DEF all, noisy
  <2> QED
    BY <1>6, <2>1, FS_Subset
<1> HIDE DEF all, noisy
<1>15. /\ SetToSeq(all) \in Seq(GraphMove) /\ Distinct(SetToSeq(all)) /\ ToSet(SetToSeq(all)) = all
       /\ SetToSeq(noisy) \in Seq(GraphMove) /\ Distinct(SetToSeq(noisy))
       /\ ToSet(SetToSeq(noisy)) = noisy
  <2>1. /\ SetToSeq(all) \in Seq(all) /\ Distinct(SetToSeq(all)) /\ ToSet(SetToSeq(all)) = all
        /\ SetToSeq(noisy) \in Seq(noisy) /\ Distinct(SetToSeq(noisy))
        /\ ToSet(SetToSeq(noisy)) = noisy
    BY <1>14, SetToSeqIs
  <2>2. \A S, T : S \subseteq T => \A s \in Seq(S) : s \in Seq(T)
    OBVIOUS
  <2>3. all \subseteq GraphMove /\ noisy \subseteq GraphMove
    BY <1>6
  <2> QED
    BY <2>1, <2>2, <2>3, Zenon
<1>7. /\ g \in Call /\ g.pc = "loop" /\ g.fn = Top.fn /\ g.score = score /\ g.depth = depth
      /\ ToSet(g.left) \subseteq all /\ Distinct(g.left) /\ g.tried = Top.tried
      /\ g.fn = "negamax" => ToSet(g.left) = all
      /\ g.movesSearched = Top.movesSearched
      /\ g.phase = Top.phase /\ g.skipQuiets = Top.skipQuiets /\ g.cut = Top.cut
      /\ g.afterStop = Top.afterStop /\ g.isPv = Top.isPv /\ g.isRoot = Top.isRoot
  <2>1. CASE h.fn = "negamax"
    <3> DEFINE list == SetToSeq(all)
    <3>1. g = [h EXCEPT !.left = list, !.ttMove = ttMove]
      BY <2>1 DEF WithPicker, all
    <3>2. list \in Seq(GraphMove) /\ Distinct(list) /\ ToSet(list) = all
      BY <1>15
    <3> HIDE DEF g, list
    <3>3. /\ g \in Call /\ g.pc = "loop" /\ g.fn = Top.fn /\ g.score = score /\ g.depth = depth
          /\ g.left = list /\ g.tried = Top.tried
          /\ g.movesSearched = Top.movesSearched
          /\ g.phase = Top.phase /\ g.skipQuiets = Top.skipQuiets /\ g.cut = Top.cut
          /\ g.afterStop = Top.afterStop /\ g.isPv = Top.isPv /\ g.isRoot = Top.isRoot
      BY <1>5, <1>6, <3>1, <3>2 DEF Call
    <3> QED
      BY <3>2, <3>3
  <2>2. CASE h.fn # "negamax"
    <3> DEFINE list == SetToSeq(noisy)
    <3> DEFINE tt == IF IsCapture(ttMove) THEN ttMove ELSE NoMove
    <3>1. g = [h EXCEPT !.left = list, !.ttMove = tt]
      BY <2>2 DEF WithPicker, noisy
    <3>2. list \in Seq(GraphMove) /\ Distinct(list) /\ ToSet(list) = noisy
      BY <1>15
    <3>4. tt \in GraphMove \cup {NoMove}
      BY <1>6
    <3> HIDE DEF g, list, tt
    <3>3. /\ g \in Call /\ g.pc = "loop" /\ g.fn = Top.fn /\ g.score = score /\ g.depth = depth
          /\ g.left = list /\ g.tried = Top.tried
          /\ g.movesSearched = Top.movesSearched
          /\ g.phase = Top.phase /\ g.skipQuiets = Top.skipQuiets /\ g.cut = Top.cut
          /\ g.afterStop = Top.afterStop /\ g.isPv = Top.isPv /\ g.isRoot = Top.isRoot
      BY <1>5, <3>1, <3>2, <3>4 DEF Call
    <3> QED
      BY <1>5, <1>6, <2>2, <3>2, <3>3
  <2> QED
    BY <2>1, <2>2
<1> HIDE DEF g
<1>8. frames' = [frames EXCEPT ![Len(frames)] = g]
  BY <1>4 DEF g, h
<1>9. /\ Top.tried = {} /\ Top.movesSearched = 0 /\ Top.phase = "TtMove"
      /\ (Top.fn = "negamax" => ~Top.skipQuiets)
  BY <1>1, <1>3 DEF CallFits, PickerFits, InLoop
<1>10. CallFits(g, searchStopped)
  <2>1. DepthFits(g)
    BY <1>4, <1>7 DEF DepthFits
  <2>2. PickerFits(g)
    BY <1>7, <1>9 DEF PickerFits, InLoop
  <2>3. StopFits(g, searchStopped)
    BY <1>1, <1>3, <1>7 DEF CallFits, StopFits
  <2> QED
    BY <1>7, <2>1, <2>2, <2>3 DEF CallFits
<1>11. Len(frames) = 1 => RootFits(g) /\ g.score = Top.score
  BY <1>1, <1>4, <1>7, TopFacts DEF RootFits
<1>12. PlaceFits(g, board, board) /\ g.pc \notin Waiting
  BY <1>7, <1>9 DEF PlaceFits, InLoop, Waiting, all
<1>13. GoesOnAs(g)
  BY <1>1, <1>2, <1>3, <1>7, <1>8, <1>10, <1>11, <1>12 DEF GoesOnAs, Goes
<1> QED
  BY <1>1, <1>13, StepsKeepTheInvariant DEF SearchStep

\* Dropping the picked move: only an illegal one before a move has a score.
LEMMA PickedFits ==
  ASSUME CallFits(Top, searchStopped), Top.pc = "loop", NEW g \in Picks,
         Top.fn = "negamax" /\ Top.movesSearched = 0 => ~g.move.legal
  PROVE  CallFits(g, searchStopped)
<1>1. /\ g \in Call
      /\ g.fn = Top.fn /\ g.pc = "loop" /\ g.depth = Top.depth
      /\ g.movesSearched = Top.movesSearched
      /\ g.cut = Top.cut /\ g.afterStop = Top.afterStop
      /\ g.move \in ToSet(Top.left) /\ ToSet(g.left) = ToSet(Top.left) \ {g.move}
      /\ Distinct(g.left) /\ g.tried = Top.tried \cup {g.move}
  BY PicksAre
<1>2. /\ g.phase \in {"QuietMove", "NoisyBad"} => NoGood(ToSet(g.left))
      /\ g.phase = "NoisyBad" /\ ~g.skipQuiets => \A m \in ToSet(g.left) : IsNoisy(m)
      /\ g.skipQuiets => Top.skipQuiets \/ Top.movesSearched > 0
  BY PicksAre
<1>3. DepthFits(g)
  BY <1>1 DEF CallFits, DepthFits
<1>4. PickerFits(g)
  <2>1. g.tried \cap ToSet(g.left) = {}
    BY <1>1 DEF CallFits, PickerFits
  <2>2. g.fn = "negamax" /\ g.movesSearched = 0 => ~g.skipQuiets /\ \A m \in g.tried : ~m.legal
    BY <1>1, <1>2 DEF CallFits, PickerFits
  <2> QED
    BY <1>1, <1>2, <2>1, <2>2 DEF PickerFits, InLoop
<1>5. StopFits(g, searchStopped)
  BY <1>1 DEF CallFits, StopFits
<1> QED
  BY <1>1, <1>3, <1>4, <1>5 DEF CallFits

\* Making it.
Sent(g, pc, reduction) == Counted([g EXCEPT !.pc = pc, !.reduction = reduction])

LEMMA MovedFits ==
  ASSUME Top \in Call, CallFits(Top, searchStopped), Top.pc = "loop", NEW g \in Picks,
         NEW pc \in {"full", "zero"}, NEW reduction \in Nat, Top.fn = "quiesence" => pc = "full",
         searchStopped \in BOOLEAN,
         NEW h, h = Sent(g, pc, reduction)
  PROVE  /\ CallFits(h, searchStopped)
         /\ h.pc = pc /\ h.fn = Top.fn /\ h.score = Top.score /\ h.move = g.move
         /\ h.isPv = Top.isPv /\ h.isRoot = Top.isRoot
         /\ g.move \in ToSet(Top.left) /\ ToSet(h.left) = ToSet(Top.left) \ {g.move}
         /\ h.tried = Top.tried \cup {g.move}
<1>1. /\ g \in Call
      /\ g.fn = Top.fn /\ g.pc = "loop" /\ g.depth = Top.depth /\ g.isPv = Top.isPv
      /\ g.isRoot = Top.isRoot /\ g.movesSearched = Top.movesSearched /\ g.score = Top.score
      /\ g.cut = Top.cut /\ g.afterStop = Top.afterStop
      /\ g.move \in ToSet(Top.left) /\ ToSet(g.left) = ToSet(Top.left) \ {g.move}
      /\ Distinct(g.left) /\ g.tried = Top.tried \cup {g.move}
  BY PicksAre
<1>2. /\ g.phase \in {"QuietMove", "NoisyBad"} => NoGood(ToSet(g.left))
      /\ g.phase = "NoisyBad" /\ ~g.skipQuiets => \A m \in ToSet(g.left) : IsNoisy(m)
      /\ g.skipQuiets => Top.skipQuiets \/ Top.movesSearched > 0
  BY PicksAre
<1>3. Top.afterStop = 0
  BY DEF CallFits, StopFits
<1> DEFINE k == [g EXCEPT !.pc = pc, !.reduction = reduction]
<1>4. /\ k \in Call /\ k.fn = g.fn /\ k.pc = pc /\ k.depth = g.depth /\ k.isPv = g.isPv
      /\ k.isRoot = g.isRoot /\ k.movesSearched = g.movesSearched /\ k.score = g.score
      /\ k.cut = g.cut /\ k.afterStop = 0 /\ k.move = g.move /\ k.left = g.left
      /\ k.tried = g.tried /\ k.phase = g.phase /\ k.skipQuiets = g.skipQuiets
  BY <1>1, <1>3, ZenonT(90) DEF Call, Waiting
<1>10. h = [k EXCEPT !.afterStop = IF searchStopped THEN k.afterStop + 1 ELSE k.afterStop]
  BY DEF Sent, Counted
<1> HIDE DEF k
<1>5. PICK after \in {0, 1} : h = [k EXCEPT !.afterStop = after] /\ (after = 1 => searchStopped)
  <2>1. CASE searchStopped
    <3>1. h = [k EXCEPT !.afterStop = 1]
      BY <1>4, <1>10, <2>1
    <3> QED
      BY <2>1, <3>1
  <2>2. CASE ~searchStopped
    <3>1. h = [k EXCEPT !.afterStop = 0]
      BY <1>4, <1>10, <2>2
    <3> QED
      BY <3>1
  <2> QED
    BY <2>1, <2>2
<1>6. /\ h \in Call /\ h.fn = g.fn /\ h.pc = pc /\ h.depth = g.depth /\ h.isPv = g.isPv
      /\ h.isRoot = g.isRoot /\ h.movesSearched = g.movesSearched /\ h.score = g.score
      /\ h.cut = g.cut /\ h.afterStop = after /\ h.move = g.move /\ h.left = g.left
      /\ h.tried = g.tried /\ h.phase = g.phase /\ h.skipQuiets = g.skipQuiets
  BY <1>4, <1>5, ZenonT(90) DEF Call
<1>7. DepthFits(h)
  BY <1>1, <1>6 DEF CallFits, DepthFits
<1>8. PickerFits(h)
  <2>1. h.tried \cap ToSet(h.left) = {}
    BY <1>1, <1>6 DEF CallFits, PickerFits
  <2>2. h.fn = "negamax" /\ h.movesSearched = 0 => ~h.skipQuiets
    BY <1>1, <1>2, <1>6 DEF CallFits, PickerFits
  <2> QED
    BY <1>1, <1>2, <1>6, <2>1, <2>2 DEF PickerFits, InLoop
<1>9. StopFits(h, searchStopped)
  BY <1>1, <1>5, <1>6 DEF CallFits, StopFits
<1> QED
  BY <1>1, <1>6, <1>7, <1>8, <1>9 DEF CallFits

LEMMA Skips ==
  ASSUME SearchInv, InsideStack, SkipMove \/ QuiescenceSkips
  PROVE  SearchInv'
<1>1. /\ frames # <<>> /\ returned = NoResult /\ returned' = NoResult /\ Top.pc = "loop"
      /\ UNCHANGED treeVars
      /\ Keeps /\ searchStopped' = searchStopped /\ keptCut' = keptCut
  BY KeepsAll DEF SkipMove, QuiescenceSkips, At, Running
<1>2. PICK g \in Picks : /\ frames' = [frames EXCEPT ![Len(frames)] = g]
                         /\ Top.fn = "negamax" /\ Top.movesSearched = 0 => ~g.move.legal
  <2>1. CASE SkipMove
    <3>1. PICK g \in Picks : (MayPrune(g, g.move) \/ ~g.move.legal) /\ Replace(g)
      BY <2>1 DEF SkipMove
    <3>2. g.movesSearched = Top.movesSearched
      BY <1>1, TopFacts, PicksAre
    <3>3. MayPrune(g, g.move) => g.movesSearched > 0
      BY DEF MayPrune
    <3>4. ~(0 > 0)
      OBVIOUS
    <3>5. Replace(g) => frames' = [frames EXCEPT ![Len(frames)] = g]
      BY DEF Replace
    <3> QED
      BY <3>1, <3>2, <3>3, <3>4, <3>5
  <2>2. CASE QuiescenceSkips
    BY <2>2 DEF QuiescenceSkips, Replace
  <2> QED
    BY <2>1, <2>2
<1>3. Steps(Top) = 0
  BY <1>1, StepsAre
<1>4. /\ Top \in Call /\ CallFits(Top, searchStopped) /\ keptCut = FALSE
      /\ PlaceFits(Top, board, board)
  BY <1>1, <1>3, TopFacts
<1>5. /\ g.fn = Top.fn /\ g.pc = "loop" /\ g.score = Top.score
      /\ g.isPv = Top.isPv /\ g.isRoot = Top.isRoot
      /\ g.move \in ToSet(Top.left) /\ ToSet(g.left) = ToSet(Top.left) \ {g.move}
      /\ Distinct(g.left) /\ g.tried = Top.tried \cup {g.move}
  BY <1>1, <1>4, PicksAre
<1>6. CallFits(g, searchStopped)
  BY <1>1, <1>2, <1>4, PickedFits
<1>7. Len(frames) = 1 => RootFits(g)
  BY <1>1, <1>5, TopFacts DEF RootFits
<1>8. PlaceFits(g, board, board) /\ g.pc \notin Waiting
  <2>1. ToSet(Top.left) \subseteq Moves[board.position]
    BY <1>1, <1>4 DEF PlaceFits, InLoop
  <2>2. Top.fn = "negamax" => Top.tried \cup ToSet(Top.left) = Moves[board.position]
    BY <1>1, <1>4 DEF PlaceFits, InLoop
  <2> QED
    BY <1>5, <2>1, <2>2 DEF PlaceFits, Waiting
<1>9. GoesOnAs(g)
  BY <1>1, <1>2, <1>3, <1>4, <1>5, <1>6, <1>7, <1>8 DEF GoesOnAs, Goes
<1> QED
  BY <1>1, <1>9, StepsKeepTheInvariant DEF SearchStep

\* What a move does to the stack of positions.
LEMMA MoveIsMade ==
  ASSUME NEW m \in GraphMove, MakeMove(m), board \in [position : Positions, halfMoves : Nat]
  PROVE  \E entry \in Entry :
           /\ entries' = Written(ply + 1, entry) /\ entry.board.position = m.to
           /\ entry.board.halfMoves = Clock(m, board.halfMoves)
           /\ ply' = ply + 1 /\ repetitions' = Append(repetitions, board.position) /\ m.legal
<1> DEFINE half == IF IsZeroing(m) THEN 0 ELSE board.halfMoves + 1
<1> DEFINE entry == [board |-> Board(m.to, half), move |-> m]
<1>1. /\ entries' = Written(ply + 1, entry)
      /\ ply' = ply + 1 /\ repetitions' = Append(repetitions, board.position) /\ m.legal
  BY DEF MakeMove
<1>2. half \in Nat /\ m.to \in Positions /\ half = Clock(m, board.halfMoves)
  BY DEF GraphMove, Clock
<1> HIDE DEF half
<1>3. /\ entry \in Entry /\ entry.board.position = m.to
      /\ entry.board.halfMoves = Clock(m, board.halfMoves)
  BY <1>2 DEF Entry, Board, AnyMove
<1> QED
  BY <1>1, <1>3

LEMMA Searches ==
  ASSUME SearchInv, InsideStack, SearchMove \/ QuiescenceSearches
  PROVE  SearchInv'
<1>1. /\ frames # <<>> /\ returned = NoResult /\ returned' = NoResult /\ Top.pc = "loop"
      /\ Keeps /\ searchStopped' = searchStopped /\ keptCut' = keptCut
  BY KeepsAll DEF SearchMove, QuiescenceSearches, At, Running
<1>2. Steps(Top) = 0
  BY <1>1, StepsAre
<1>3. /\ Top \in Call /\ CallFits(Top, searchStopped) /\ keptCut = FALSE /\ searchStopped \in BOOLEAN
      /\ board \in [position : Positions, halfMoves : Nat]
      /\ PlaceFits(Top, board, board)
  BY <1>1, <1>2, TopFacts
<1>4. PICK g \in Picks, pc \in {"full", "zero"}, reduction \in Nat, c \in Call :
        /\ MakeMove(g.move)
        /\ frames' = Append([frames EXCEPT ![Len(frames)] =
             Sent(g, pc, reduction)], c)
        /\ Fresh(c) /\ c.fn = Top.fn /\ (Top.fn = "quiesence" => pc = "full")
  <2>1. CASE SearchMove
    <3>1. Top.fn = "negamax"
      BY <2>1 DEF SearchMove, At
    <3>2. PICK g \in Picks :
            /\ MakeMove(g.move)
            /\ \/ CallFrom(Sent(g, "full", 0), Frame("negamax", g.depth - 1, g.isPv, FALSE, FALSE))
               \/ \E reduction \in 0 .. (g.depth - 1) :
                    CallFrom(Sent(g, "zero", reduction),
                             Frame("negamax", g.depth - 1 - reduction, FALSE, FALSE, FALSE))
      <4>1. PICK g \in Picks :
              /\ MakeMove(g.move)
              /\ IF g.movesSearched = 0
                   THEN CallFrom(Sent(g, "full", 0), Frame("negamax", g.depth - 1, g.isPv, FALSE, FALSE))
                   ELSE \E reduction \in IF g.movesSearched >= 2 /\ ~IsNoisy(g.move)
                                           THEN 0 .. (g.depth - 1) ELSE {0} :
                          CallFrom(Sent(g, "zero", reduction),
                                   Frame("negamax", g.depth - 1 - reduction, FALSE, FALSE, FALSE))
        BY <2>1 DEF SearchMove, Sent
      <4>2. 0 \in 0 .. (g.depth - 1)
        BY <1>1, <1>3, <3>1, PicksAre, Sizes DEF CallFits, DepthFits, Call
      <4> QED
        BY <4>1, <4>2
    <3>3. /\ g.depth \in Nat /\ g.depth >= 1 /\ g.depth =< Depth + 1 /\ g.isPv \in BOOLEAN
      BY <1>1, <1>3, <3>1, PicksAre DEF CallFits, DepthFits, Call
    <3>4. CASE CallFrom(Sent(g, "full", 0), Frame("negamax", g.depth - 1, g.isPv, FALSE, FALSE))
      <4> DEFINE c == Frame("negamax", g.depth - 1, g.isPv, FALSE, FALSE)
      <4>1. g.depth - 1 \in Nat /\ g.depth - 1 =< Depth
        BY <3>3, Sizes
      <4>2. Fresh(c) /\ c.fn = "negamax"
        BY <3>3, <4>1, FramesAreFresh
      <4>3. frames' = Append([frames EXCEPT ![Len(frames)] =
              Sent(g, "full", 0)], c)
        BY <3>4 DEF CallFrom
      <4> HIDE DEF c
      <4> QED
        BY <3>1, <3>2, <4>2, <4>3 DEF Fresh
    <3>5. ASSUME NEW reduction \in 0 .. (g.depth - 1),
                 CallFrom(Sent(g, "zero", reduction),
                          Frame("negamax", g.depth - 1 - reduction, FALSE, FALSE, FALSE))
          PROVE  \E r \in Nat, c \in Call :
                   /\ frames' = Append([frames EXCEPT ![Len(frames)] =
                        Sent(g, "zero", r)], c)
                   /\ Fresh(c) /\ c.fn = "negamax"
      <4> DEFINE c == Frame("negamax", g.depth - 1 - reduction, FALSE, FALSE, FALSE)
      <4>1. reduction \in Nat /\ g.depth - 1 - reduction \in Nat /\ g.depth - 1 - reduction =< Depth
        BY <3>3, Sizes
      <4>2. Fresh(c) /\ c.fn = "negamax"
        BY <4>1, FramesAreFresh
      <4>3. frames' = Append([frames EXCEPT ![Len(frames)] =
              Sent(g, "zero", reduction)], c)
        BY <3>5 DEF CallFrom
      <4> HIDE DEF c
      <4> QED
        BY <4>1, <4>2, <4>3 DEF Fresh
    <3> QED
      BY <3>1, <3>2, <3>4, <3>5
  <2>2. CASE QuiescenceSearches
    <3>1. Top.fn = "quiesence"
      BY <2>2 DEF QuiescenceSearches, At
    <3>2. PICK g \in Picks :
            /\ MakeMove(g.move)
            /\ CallFrom(Counted([g EXCEPT !.pc = "full"]),
                        Frame("quiesence", 0, g.isPv, FALSE, FALSE))
      BY <2>2 DEF QuiescenceSearches
    <3>3. g \in Call /\ g.isPv \in BOOLEAN /\ g.reduction \in Nat /\ 0 =< Depth
      BY <1>1, <1>3, PicksAre, Sizes DEF Call
    <3>4. [g EXCEPT !.pc = "full"] = [g EXCEPT !.pc = "full", !.reduction = g.reduction]
      BY <3>3 DEF Call
    <3> DEFINE c == Frame("quiesence", 0, g.isPv, FALSE, FALSE)
    <3>5. Fresh(c) /\ c.fn = "quiesence"
      BY <3>3, FramesAreFresh
    <3>6. frames' = Append([frames EXCEPT ![Len(frames)] =
            Sent(g, "full", g.reduction)], c)
      BY <3>2, <3>4 DEF CallFrom, Sent
    <3> HIDE DEF c
    <3> QED
      BY <3>1, <3>2, <3>3, <3>5, <3>6 DEF Fresh
  <2> QED
    BY <2>1, <2>2
<1> DEFINE h == Sent(g, pc, reduction)
<1>5. /\ CallFits(h, searchStopped)
      /\ h.pc = pc /\ h.fn = Top.fn /\ h.score = Top.score /\ h.move = g.move
      /\ h.isPv = Top.isPv /\ h.isRoot = Top.isRoot
      /\ g.move \in ToSet(Top.left) /\ ToSet(h.left) = ToSet(Top.left) \ {g.move}
      /\ h.tried = Top.tried \cup {g.move}
  BY <1>1, <1>3, <1>4, MovedFits
<1>6. frames' = Append([frames EXCEPT ![Len(frames)] = h], c)
  BY <1>4
<1> HIDE DEF h
<1>7. Steps(h) = 1 /\ h.pc \in Waiting /\ h.pc # "razored"
  BY <1>5, StepsAre DEF Waiting
<1>8. CallFits(c, searchStopped) /\ c.pc = "enter" /\ c.fn = Top.fn
  BY <1>4, FreshCallFits DEF Fresh
<1>9. Len(frames) = 1 => RootFits(h)
  BY <1>1, <1>5, TopFacts DEF RootFits
<1>10. Calls(h, c)
  BY <1>1, <1>3, <1>5, <1>6, <1>7, <1>8, <1>9 DEF Calls, Goes
<1>11. g.move \in GraphMove
  <2>1. Top.left \in Seq(GraphMove)
    BY <1>3 DEF Call
  <2> QED
    BY <1>5, <2>1, ToSetIs
<1>12. PICK entry \in Entry :
         /\ entries' = Written(ply + 1, entry) /\ entry.board.position = g.move.to
         /\ entry.board.halfMoves = Clock(g.move, board.halfMoves)
         /\ ply' = ply + 1 /\ repetitions' = Append(repetitions, board.position) /\ g.move.legal
  BY <1>3, <1>4, <1>11, MoveIsMade
<1>13. PlaceFits(h, board, entry.board)
  <2>1. ToSet(Top.left) \subseteq Moves[board.position]
    BY <1>1, <1>3 DEF PlaceFits, InLoop
  <2>2. Top.fn = "negamax" => Top.tried \cup ToSet(Top.left) = Moves[board.position]
    BY <1>1, <1>3 DEF PlaceFits, InLoop
  <2> QED
    BY <1>5, <1>12, <2>1, <2>2 DEF PlaceFits
<1>14. CallsAfter(h, c, entry)
  BY <1>1, <1>7, <1>10, <1>12, <1>13 DEF CallsAfter, Waiting
<1> QED
  BY <1>1, <1>14, StepsKeepTheInvariant DEF SearchStep

LEMMA SearchesAgain ==
  ASSUME SearchInv, InsideStack, SearchAgain
  PROVE  SearchInv'
<1>1. /\ frames # <<>> /\ returned # NoResult /\ returned' = NoResult /\ Top.pc = "zero"
      /\ UNCHANGED treeVars
      /\ Keeps /\ searchStopped' = searchStopped /\ keptCut' = keptCut
  BY KeepsAll DEF SearchAgain, Resumed
<1>2. /\ Top \in Call /\ CallFits(Top, searchStopped) /\ keptCut = FALSE
      /\ Len(frames) = 1 => RootFits(Top)
  BY <1>1, TopFacts
<1>3. Top.fn = "negamax" /\ Top.depth \in Nat /\ Top.depth >= 1 /\ Top.depth =< Depth + 1
  BY <1>1, <1>2 DEF CallFits, DepthFits, Call
<1>4. Top.depth - 1 \in Nat /\ Top.depth - 1 =< Depth
  BY <1>3, Sizes
<1>5. PICK g \in Call, c \in Call :
        /\ frames' = Append([frames EXCEPT ![Len(frames)] = g], c)
        /\ g.pc \in {"full", "zero"} /\ g.fn = Top.fn /\ g.depth = Top.depth
        /\ g.left = Top.left /\ g.tried = Top.tried /\ g.movesSearched = Top.movesSearched
        /\ g.phase = Top.phase /\ g.skipQuiets = Top.skipQuiets /\ g.cut = Top.cut
        /\ g.afterStop = Top.afterStop /\ g.score = Top.score /\ g.move = Top.move
        /\ g.isPv = Top.isPv /\ g.isRoot = Top.isRoot
        /\ Fresh(c) /\ c.fn = "negamax"
  <2>1. CASE CallFrom([Top EXCEPT !.reduction = 0],
                      Frame("negamax", Top.depth - 1, FALSE, FALSE, FALSE))
    <3> DEFINE g == [Top EXCEPT !.reduction = 0]
    <3> DEFINE c == Frame("negamax", Top.depth - 1, FALSE, FALSE, FALSE)
    <3>1. Fresh(c) /\ c.fn = "negamax"
      BY <1>4, FramesAreFresh
    <3>2. /\ g \in Call
          /\ g.pc \in {"full", "zero"} /\ g.fn = Top.fn /\ g.depth = Top.depth
          /\ g.left = Top.left /\ g.tried = Top.tried /\ g.movesSearched = Top.movesSearched
          /\ g.phase = Top.phase /\ g.skipQuiets = Top.skipQuiets /\ g.cut = Top.cut
          /\ g.afterStop = Top.afterStop /\ g.score = Top.score /\ g.move = Top.move
          /\ g.isPv = Top.isPv /\ g.isRoot = Top.isRoot
      BY <1>1, <1>2 DEF Call
    <3>3. frames' = Append([frames EXCEPT ![Len(frames)] = g], c)
      BY <2>1 DEF CallFrom
    <3> HIDE DEF g, c
    <3> QED
      BY <3>1, <3>2, <3>3 DEF Fresh
  <2>2. CASE CallFrom(Goto("full"), Frame("negamax", Top.depth - 1, TRUE, FALSE, FALSE))
    <3> DEFINE g == Goto("full")
    <3> DEFINE c == Frame("negamax", Top.depth - 1, TRUE, FALSE, FALSE)
    <3>1. Fresh(c) /\ c.fn = "negamax"
      BY <1>4, FramesAreFresh
    <3>2. /\ g \in Call
          /\ g.pc \in {"full", "zero"} /\ g.fn = Top.fn /\ g.depth = Top.depth
          /\ g.left = Top.left /\ g.tried = Top.tried /\ g.movesSearched = Top.movesSearched
          /\ g.phase = Top.phase /\ g.skipQuiets = Top.skipQuiets /\ g.cut = Top.cut
          /\ g.afterStop = Top.afterStop /\ g.score = Top.score /\ g.move = Top.move
          /\ g.isPv = Top.isPv /\ g.isRoot = Top.isRoot
      BY <1>1, <1>2 DEF Call, Goto, Waiting
    <3>3. frames' = Append([frames EXCEPT ![Len(frames)] = g], c)
      BY <2>2 DEF CallFrom
    <3> HIDE DEF g, c
    <3> QED
      BY <3>1, <3>2, <3>3 DEF Fresh
  <2> QED
    BY <2>1, <2>2 DEF SearchAgain
<1>6. CallFits(g, searchStopped)
  <2>1. DepthFits(g)
    BY <1>1, <1>2, <1>5 DEF CallFits, DepthFits
  <2>2. PickerFits(g)
    BY <1>1, <1>2, <1>5 DEF CallFits, PickerFits, InLoop
  <2>3. StopFits(g, searchStopped)
    BY <1>1, <1>2, <1>5 DEF CallFits, StopFits
  <2> QED
    BY <1>2, <1>3, <1>5, <2>1, <2>2, <2>3 DEF CallFits
<1>7. Len(frames) = 1 => RootFits(g)
  BY <1>1, <1>2, <1>5 DEF RootFits
<1>8. Steps(g) = 1 /\ Steps(Top) = 1 /\ g.pc \in Waiting
  BY <1>1, <1>5, StepsAre DEF Waiting
<1>9. CallFits(c, searchStopped) /\ c.pc = "enter"
  BY <1>5, FreshCallFits DEF Fresh
<1>10. \A here, next : PlaceFits(Top, here, next) => PlaceFits(g, here, next)
  BY <1>1, <1>5 DEF PlaceFits, InLoop
<1>11. Calls(g, c)
  BY <1>1, <1>2, <1>3, <1>5, <1>6, <1>7, <1>8, <1>9 DEF Calls, Goes
<1>12. CallsHere(g, c)
  BY <1>1, <1>8, <1>10, <1>11 DEF CallsHere
<1> QED
  BY <1>1, <1>12, StepsKeepTheInvariant DEF SearchStep

\* A move that has its score.
LEMMA SettledFacts ==
  ASSUME SearchInv, InsideStack, Settled
  PROVE  /\ frames # <<>> /\ returned # NoResult /\ Top.pc \in {"full", "zero"}
         /\ Steps(Top) = 1 /\ (UndoMove => TakesBack)
         /\ Top \in Call /\ CallFits(Top, searchStopped) /\ keptCut = FALSE
         /\ returned \in Answer /\ returned.score \in Scores /\ returned.cut \in BOOLEAN
         /\ (returned.cut => searchStopped) /\ (Top.cut => searchStopped)
         /\ Top.cut \in BOOLEAN /\ (Len(frames) = 1 => RootFits(Top))
<1>1. frames # <<>> /\ returned # NoResult /\ Top.pc \in {"full", "zero"}
  BY DEF Settled, Resumed
<1>2. Steps(Top) = 1
  BY <1>1, StepsAre
<1>3. UndoMove => TakesBack
  BY <1>2 DEF UndoMove, TakesBack
<1>4. /\ Top \in Call /\ CallFits(Top, searchStopped) /\ keptCut = FALSE
      /\ returned \in Answer /\ (returned.cut => searchStopped)
      /\ (Len(frames) = 1 => RootFits(Top))
  BY <1>1, TopFacts
<1>5. Top.cut \in BOOLEAN /\ (Top.cut => searchStopped)
  BY <1>4 DEF CallFits, StopFits, Call
<1>6. returned.score \in Scores /\ returned.cut \in BOOLEAN
  BY <1>4 DEF Answer
<1> QED
  BY <1>1, <1>2, <1>3, <1>4, <1>5, <1>6

\* The row of the node takes the move and the row below it.
LEMMA UpdatesRow ==
  ASSUME SearchInv, InsideStack, Settled, Top.fn = "negamax", UndoMove, UpdatePv
  PROVE  Learns
<1>1. /\ frames # <<>> /\ returned # NoResult /\ Top.pc \in {"full", "zero"}
      /\ Steps(Top) = 1 /\ ply' = ply - 1
  BY SettledFacts DEF UndoMove
<1>2. PICK at, sent : at \in [Nat -> Nat] /\ sent \in [Nat -> Nat] /\ Placed(at, sent)
  BY DEF SearchInv
<1>3. Numbers(at) /\ CallsAreSound /\ PvTyped
  BY <1>2 DEF Numbers, SearchInv, CallsAreSound, Types
<1> DEFINE n == Len(frames)
<1> DEFINE here == ply - 1
<1>4. /\ n \in Nat /\ n # 0 /\ Top = frames[n] /\ ply = at[n + 1] /\ ply = at[n] + Steps(Top)
      /\ at[n] \in Nat /\ ply < MaxSearchDepth /\ CallFits(Top, searchStopped)
  BY <1>1, <1>2, <1>3, OnTop
<1>5. /\ here \in 0 .. MaxSearchDepth /\ ply \in 0 .. MaxSearchDepth /\ ply = here + 1
      /\ here \in Nat /\ ply \in Nat
  BY <1>1, <1>4, Sizes
<1>6. Top.move \in AnyMove
  BY <1>4 DEF CallFits, Call, AnyMove
<1>7. pvLength[ply] >= ply
  <2>1. IsLine(BoardAt(entries, ply).position, pv[ply])
    <3>1. n + 1 \in 1 .. (n + 1) /\ ~(n + 1 =< n) /\ (n + 1) - 1 = n
      BY <1>4
    <3>2. OwnsRow(frames, returned, n + 1)
      BY <1>1, <1>4, <3>1 DEF OwnsRow
    <3>3. RowsIn(frames, returned, entries, pv, at)
      BY <1>2 DEF Placed
    <3> QED
      BY <1>4, <3>1, <3>2, <3>3 DEF RowsIn
  <2>2. ASSUME ~(pvLength[ply] >= ply) PROVE FALSE
    <3>1. pv[ply] = <<NoMove>>
      BY <1>5, <2>2 DEF pv
    <3>2. NoMove \in LegalMoves(BoardAt(entries, ply).position)
      BY <2>1, <3>1 DEF IsLine
    <3> QED
      BY <3>2 DEF LegalMoves, NoMove
  <2> QED
    BY <2>2
<1> DEFINE row == [q \in 0 .. MaxSearchDepth |->
                     IF q < here THEN pvTable[here][q]
                     ELSE IF q = here THEN Top.move ELSE pvTable[ply][q]]
<1> DEFINE l == pvLength[ply]
<1>8. /\ pvTable \in [0 .. MaxSearchDepth -> [0 .. MaxSearchDepth -> AnyMove]]
      /\ pvLength \in [0 .. MaxSearchDepth -> 0 .. MaxSearchDepth]
  BY <1>3 DEF PvTyped
<1>9. l \in 0 .. MaxSearchDepth /\ l \in Nat /\ l >= here
  <2>1. l \in 0 .. MaxSearchDepth
    BY <1>5, <1>8
  <2> QED
    BY <1>5, <1>7, <2>1
<1>10. pvTable' = [pvTable EXCEPT ![here] = row] /\ pvLength' = [pvLength EXCEPT ![here] = l]
  <2>1. DOMAIN pvTable[here] = 0 .. MaxSearchDepth
    BY <1>5, <1>8
  <2>2. ply' + 1 = ply /\ ply' = here
    BY <1>1, <1>5
  <2> QED
    BY <1>8, <2>1, <2>2 DEF UpdatePv
<1>11. row \in [0 .. MaxSearchDepth -> AnyMove]
  <2>1. pvTable[here] \in [0 .. MaxSearchDepth -> AnyMove]
        /\ pvTable[ply] \in [0 .. MaxSearchDepth -> AnyMove]
    BY <1>5, <1>8
  <2> QED
    BY <1>6, <2>1
<1>12. \A q \in 0 .. MaxSearchDepth : row[q] = IF q < here THEN pvTable[here][q]
                                              ELSE IF q = here THEN Top.move ELSE pvTable[ply][q]
  OBVIOUS
<1> HIDE DEF row, l
<1>13. PvTyped'
  BY <1>5, <1>8, <1>9, <1>10, <1>11 DEF PvTyped
<1> DEFINE below == [k \in 1 .. (l - ply) |-> pvTable[ply][ply + k - 1]]
<1>14. pv[ply] = below
  BY <1>5, <1>7 DEF pv, Line, l
<1> DEFINE line == [k \in 1 .. (l - here) |-> row[here + k - 1]]
<1>15. line = <<Top.move>> \o below
  <2>1. l - ply \in Nat /\ l - here = (l - ply) + 1
    BY <1>5, <1>7, <1>9 DEF l
  <2>2. \A k \in 1 .. (l - ply) : /\ ply + k - 1 \in 0 .. MaxSearchDepth
                                  /\ here + (k + 1) - 1 = ply + k - 1
                                  /\ ~(ply + k - 1 < here) /\ ply + k - 1 # here
    BY <1>5, <1>9, <2>1, Sizes
  <2>3. \A k \in 1 .. (l - ply) : pvTable[ply][ply + k - 1] \in AnyMove
    <3>1. pvTable[ply] \in [0 .. MaxSearchDepth -> AnyMove]
      BY <1>5, <1>8
    <3> QED
      BY <2>2, <3>1
  <2>4. below \in [1 .. (l - ply) -> AnyMove]
    BY <2>3
  <2>5. below \in Seq(AnyMove) /\ Len(below) = l - ply
    BY <2>1, <2>4, FunctionIsSequence
  <2>6. \A k \in 1 .. (l - ply) : below[k] = pvTable[ply][ply + k - 1]
    OBVIOUS
  <2>7. \A k \in 1 .. (l - here) : line[k] = row[here + k - 1]
    OBVIOUS
  <2>8. DOMAIN line = 1 .. ((l - ply) + 1)
    BY <2>1
  <2>11. line[1] = Top.move
    <3>1. 1 \in 1 .. (l - here) /\ here + 1 - 1 = here /\ ~(here < here)
      BY <1>5, <2>1
    <3> QED
      BY <1>5, <1>12, <2>7, <3>1
  <2>12. \A k \in 1 .. (l - ply) : line[k + 1] = below[k]
    <3> TAKE k \in 1 .. (l - ply)
    <3>1. k + 1 \in 1 .. (l - here)
      BY <2>1
    <3>2. line[k + 1] = row[ply + k - 1]
      BY <2>2, <2>7, <3>1
    <3> QED
      BY <1>12, <2>2, <2>6, <3>2
  <2> HIDE DEF below, line
  <2> DEFINE m == l - ply
  <2>13. m \in Nat /\ Len(below) = m /\ below \in Seq(AnyMove) /\ DOMAIN line = 1 .. (m + 1)
         /\ \A k \in 1 .. m : line[k + 1] = below[k]
    BY <2>1, <2>5, <2>8, <2>12
  <2>14. \E f, S : line = [k \in S |-> f[k]]
    <3>1. line = [k \in 1 .. (l - here) |-> line[k]]
      BY DEF line
    <3> QED
      BY <3>1
  <2> HIDE DEF m
  <2>15. \A k \in 1 .. (m + 1) : k = 1 \/ (k - 1 \in 1 .. m /\ (k - 1) + 1 = k)
    BY <2>13
  <2>16. <<Top.move>> \o below = [k \in 1 .. (m + 1) |-> IF k = 1 THEN Top.move ELSE below[k - 1]]
    BY <1>6, <2>13
  <2>17. \A k \in 1 .. (m + 1) : line[k] = IF k = 1 THEN Top.move ELSE below[k - 1]
    BY <2>11, <2>13, <2>15
  <2> QED
    BY <2>13, <2>14, <2>16, <2>17
<1> DEFINE Row(q) == IF pvLength[q] >= q THEN Line(q) ELSE <<NoMove>>
<1> DEFINE Row2(q) == IF pvLength'[q] >= q
                        THEN [k \in 1..(pvLength'[q] - q) |-> pvTable'[q][q + k - 1]]
                        ELSE <<NoMove>>
<1>16. pv = [q \in 0 .. MaxSearchDepth |-> Row(q)] /\ pv' = [q \in 0 .. MaxSearchDepth |-> Row2(q)]
  BY DEF pv, Line
<1>17. pvLength'[here] = l /\ pvTable'[here] = row
  BY <1>5, <1>8, <1>10
<1>18. Row2(here) = line
  BY <1>9, <1>17
<1>19. \A q \in 0 .. MaxSearchDepth : q # here => Row2(q) = Row(q)
  <2> TAKE q \in 0 .. MaxSearchDepth
  <2> HAVE q # here
  <2>1. pvLength'[q] = pvLength[q] /\ pvTable'[q] = pvTable[q]
    BY <1>5, <1>8, <1>10
  <2> QED
    BY <2>1 DEF Line
<1> HIDE DEF Row, Row2, line, below
<1>20. pv' = [pv EXCEPT ![here] = <<Top.move>> \o pv[ply]]
  BY <1>5, <1>14, <1>15, <1>16, <1>18, <1>19
<1>21. ply' = here /\ ply' + 1 = ply
  BY <1>1, <1>5
<1>22. pv' = [pv EXCEPT ![ply'] = <<Top.move>> \o pv[ply' + 1]]
  BY <1>20, <1>21
<1> QED
  BY <1>1, <1>13, <1>22 DEF Learns

LEMMA ReturnsStopped ==
  ASSUME SearchInv, InsideStack, StopReturns
  PROVE  SearchInv'
<1>1. Settled /\ searchStopped /\ UndoMove /\ Return("low", TRUE)
      /\ Keeps /\ searchStopped' = searchStopped /\ keptCut' = keptCut
  BY KeepsAll DEF StopReturns
<1> DEFINE b == [score |-> "low", cut |-> TRUE]
<1>2. b \in Answer /\ b.score = "low"
  BY AnswersAreAnswers DEF Scores
<1>3. frames' = Front(frames) /\ returned' = b
  BY <1>1 DEF Return
<1> HIDE DEF b
<1>4. AnswersAbove(b)
  BY <1>1, <1>2, <1>3, SettledFacts DEF AnswersAbove
<1> QED
  BY <1>1, <1>4, SettledFacts, StepsKeepTheInvariant DEF SearchStep

\* A call that was not stopped goes on after its move.
LEMMA JudgedFits ==
  ASSUME SearchInv, InsideStack, Settled, ~searchStopped, NEW score \in Scores, NEW g, g = Searched(score)
  PROVE  /\ CallFits(g, searchStopped) /\ g.fn = Top.fn /\ g.pc = "loop" /\ g.score = score
         /\ Len(frames) = 1 => RootFits(g)
         /\ \A here, next : PlaceFits(Top, here, next) => PlaceFits(g, here, here)
<1>1. /\ frames # <<>> /\ Top \in Call /\ CallFits(Top, searchStopped)
      /\ Top.pc \in {"full", "zero"} /\ returned.cut = FALSE /\ Top.cut = FALSE
      /\ (Len(frames) = 1 => RootFits(Top))
  BY SettledFacts
<1>2. Top.afterStop = 0 /\ Top.movesSearched \in Nat
  BY <1>1 DEF CallFits, StopFits, Call
<1> DEFINE k == Goto("loop")
<1>3. /\ k \in Call /\ k.fn = Top.fn /\ k.pc = "loop" /\ k.depth = Top.depth /\ k.isPv = Top.isPv
      /\ k.isRoot = Top.isRoot /\ k.left = Top.left /\ k.tried = Top.tried
      /\ k.movesSearched = Top.movesSearched /\ k.phase = Top.phase
      /\ k.skipQuiets = Top.skipQuiets /\ k.cut = FALSE /\ k.afterStop = 0
  BY <1>1, <1>2 DEF Goto, Call
<1> DEFINE searched == Top.movesSearched + 1
<1>4. g = [k EXCEPT !.movesSearched = searched, !.score = score, !.cut = FALSE, !.move = NoMove]
  BY <1>1, <1>3 DEF Searched
<1>12. searched \in Nat /\ searched # 0
  BY <1>2
<1> HIDE DEF k, searched
<1> DEFINE l == [k EXCEPT !.movesSearched = searched, !.score = score]
<1>13. /\ l \in Call /\ l.fn = Top.fn /\ l.pc = "loop" /\ l.depth = Top.depth /\ l.isPv = Top.isPv
       /\ l.isRoot = Top.isRoot /\ l.left = Top.left /\ l.tried = Top.tried
       /\ l.movesSearched = searched /\ l.phase = Top.phase
       /\ l.skipQuiets = Top.skipQuiets /\ l.cut = FALSE /\ l.afterStop = 0 /\ l.score = score
  BY <1>3, <1>12, ZenonT(90) DEF Call
<1>14. g = [l EXCEPT !.cut = FALSE, !.move = NoMove]
  BY <1>4
<1> HIDE DEF l
<1>5. /\ g \in Call /\ g.fn = Top.fn /\ g.pc = "loop" /\ g.depth = Top.depth /\ g.isPv = Top.isPv
      /\ g.isRoot = Top.isRoot /\ g.left = Top.left /\ g.tried = Top.tried
      /\ g.movesSearched = searched /\ g.phase = Top.phase
      /\ g.skipQuiets = Top.skipQuiets /\ g.cut = FALSE /\ g.afterStop = 0 /\ g.score = score
  BY <1>13, <1>14, ZenonT(90) DEF Call
<1>6. DepthFits(g)
  BY <1>1, <1>5 DEF CallFits, DepthFits
<1>7. PickerFits(g)
  <2>1. g.movesSearched # 0
    BY <1>5, <1>12
  <2> QED
    BY <1>1, <1>5, <2>1 DEF CallFits, PickerFits, InLoop
<1>8. StopFits(g, searchStopped)
  BY <1>5 DEF StopFits
<1>9. CallFits(g, searchStopped)
  BY <1>5, <1>6, <1>7, <1>8 DEF CallFits
<1>10. Len(frames) = 1 => RootFits(g)
  BY <1>1, <1>5 DEF RootFits
<1>11. \A here, next : PlaceFits(Top, here, next) => PlaceFits(g, here, here)
  BY <1>1, <1>5 DEF PlaceFits, InLoop
<1> QED
  BY <1>5, <1>9, <1>10, <1>11

LEMMA TurnsBack ==
  ASSUME SearchInv, InsideStack, Settled, ~searchStopped, UndoMove, NEW score \in Scores,
         frames' = [frames EXCEPT ![Len(frames)] = Searched(score)], returned' = NoResult,
         searchStopped' = searchStopped, keptCut' = FALSE, Keeps \/ Learns,
         Len(frames) = 1 /\ score = "in" => Top.score = "in" \/ Learns
  PROVE  SearchInv'
<1> DEFINE g == Searched(score)
<1>1. /\ CallFits(g, searchStopped) /\ g.fn = Top.fn /\ g.pc = "loop" /\ g.score = score
      /\ Len(frames) = 1 => RootFits(g)
      /\ \A here, next : PlaceFits(Top, here, next) => PlaceFits(g, here, here)
  BY JudgedFits
<1>2. frames' = [frames EXCEPT ![Len(frames)] = g]
  OBVIOUS
<1> HIDE DEF g
<1>3. frames # <<>> /\ Steps(Top) = 1 /\ TakesBack
  BY SettledFacts
<1>4. g.pc \notin Waiting /\ Steps(Top) > 0
  BY <1>1, <1>3 DEF Waiting
<1>5. TurnsBackAs(g)
  BY <1>1, <1>2, <1>3, <1>4 DEF TurnsBackAs, Goes
<1> QED
  BY <1>3, <1>5, StepsKeepTheInvariant DEF SearchStep

LEMMA FailsLow ==
  ASSUME SearchInv, InsideStack, MoveFailsLow
  PROVE  SearchInv'
<1>1. Settled /\ ~searchStopped /\ UndoMove /\ Replace(Searched(Top.score)) /\ returned' = NoResult
      /\ Keeps /\ searchStopped' = searchStopped /\ keptCut' = keptCut
  BY KeepsAll DEF MoveFailsLow, GoesOn
<1>2. Top.score \in Scores /\ keptCut = FALSE
  BY <1>1, SettledFacts DEF Call
<1>3. frames' = [frames EXCEPT ![Len(frames)] = Searched(Top.score)]
  BY <1>1 DEF Replace
<1> QED
  BY <1>1, <1>2, <1>3, TurnsBack

LEMMA IsBetter ==
  ASSUME SearchInv, InsideStack, MoveIsBetter
  PROVE  SearchInv'
<1>1. Settled /\ ~searchStopped /\ UndoMove /\ UpdatePv /\ Replace(Searched("in"))
      /\ returned' = NoResult /\ searchStopped' = searchStopped
      /\ keptCut' = (keptCut \/ returned.cut) /\ Top.fn = "negamax"
  BY DEF MoveIsBetter, GoesOn
<1>2. keptCut' = FALSE /\ "in" \in Scores
  BY <1>1, SettledFacts DEF Scores
<1>3. frames' = [frames EXCEPT ![Len(frames)] = Searched("in")]
  BY <1>1 DEF Replace
<1>4. Learns
  BY <1>1, UpdatesRow
<1> QED
  BY <1>1, <1>2, <1>3, <1>4, TurnsBack

LEMMA FailsHigh ==
  ASSUME SearchInv, InsideStack, MoveFailsHigh
  PROVE  SearchInv'
<1>1. Settled /\ ~searchStopped /\ UndoMove /\ UpdatePv
      /\ Return("high", Top.cut \/ returned.cut) /\ searchStopped' = searchStopped
      /\ keptCut' = (keptCut \/ Top.cut \/ returned.cut) /\ Top.fn = "negamax"
  BY DEF MoveFailsHigh, GoesOn
<1> DEFINE b == [score |-> "high", cut |-> Top.cut \/ returned.cut]
<1>2. keptCut' = FALSE /\ (Top.cut \/ returned.cut) = FALSE
  BY <1>1, SettledFacts
<1>3. frames' = Front(frames) /\ returned' = b
  BY <1>1 DEF Return
<1>4. b = [score |-> "high", cut |-> FALSE]
  BY <1>2
<1>5. b \in Answer /\ b.score = "high" /\ b.cut = FALSE
  BY <1>4, AnswersAreAnswers DEF Scores
<1> HIDE DEF b
<1>6. Learns
  BY <1>1, UpdatesRow
<1>7. Steps(Top) > 0 /\ TakesBack
  BY <1>1, SettledFacts
<1>8. AnswersAbove(b)
  BY <1>1, <1>2, <1>3, <1>5, <1>6, <1>7 DEF AnswersAbove
<1> QED
  BY <1>1, <1>8, SettledFacts, StepsKeepTheInvariant DEF SearchStep

LEMMA JudgesInQuiescence ==
  ASSUME SearchInv, InsideStack, QuiescenceJudges
  PROVE  SearchInv'
<1>1. Settled /\ ~searchStopped /\ UndoMove /\ Top.fn = "quiesence"
      /\ Keeps /\ searchStopped' = searchStopped
  BY KeepsAll DEF QuiescenceJudges, GoesOn
<1>2. /\ Len(frames) # 1 /\ keptCut = FALSE /\ (Top.cut \/ returned.cut) = FALSE
      /\ Top.score \in Scores /\ Steps(Top) > 0 /\ TakesBack /\ frames # <<>>
  BY <1>1, SettledFacts DEF RootFits, Call
<1>3. CASE MoveScore = "high"
  <2> DEFINE b == [score |-> "high", cut |-> Top.cut \/ returned.cut]
  <2>1. /\ frames' = Front(frames) /\ returned' = b
        /\ keptCut' = (keptCut \/ Top.cut \/ returned.cut)
    BY <1>3 DEF QuiescenceJudges, Return
  <2>2. b = [score |-> "high", cut |-> FALSE] /\ keptCut' = FALSE
    BY <1>2, <2>1
  <2>3. b \in Answer /\ b.cut = FALSE
    BY <2>2, AnswersAreAnswers DEF Scores
  <2> HIDE DEF b
  <2>4. AnswersAbove(b)
    BY <1>1, <1>2, <2>1, <2>2, <2>3 DEF AnswersAbove
  <2> QED
    BY <1>2, <2>4, StepsKeepTheInvariant DEF SearchStep
<1>4. CASE MoveScore # "high"
  <2> DEFINE score == IF MoveScore = "in" THEN "in" ELSE Top.score
  <2>1. /\ frames' = [frames EXCEPT ![Len(frames)] = Searched(score)]
        /\ returned' = NoResult /\ keptCut' = keptCut
    BY <1>4 DEF QuiescenceJudges, Replace
  <2>2. score \in Scores
    BY <1>2 DEF Scores
  <2> HIDE DEF score
  <2> QED
    BY <1>1, <1>2, <2>1, <2>2, TurnsBack
<1> QED
  BY <1>3, <1>4

\* A call that runs out of moves before one has a score has no legal move.
LEMMA MateNeedsNoMove ==
  ASSUME SearchInv, InsideStack, NoPick, Top.movesSearched = 0
  PROVE  LegalMoves(board.position) = {}
<1>1. frames # <<>> /\ Top.pc = "loop" /\ Top.fn = "negamax" /\ NextPhase(Top) = "Done"
  BY DEF NoPick, At, Running
<1>2. Steps(Top) = 0
  BY <1>1, StepsAre
<1>3. Top \in Call /\ CallFits(Top, searchStopped) /\ PlaceFits(Top, board, board)
  BY <1>1, <1>2, TopFacts
<1>4. PickerFits(Top) /\ ~Top.skipQuiets /\ \A m \in Top.tried : ~m.legal
  BY <1>1, <1>3 DEF CallFits, PickerFits
<1>5. ToSet(Top.left) = {}
  BY <1>1, <1>3, <1>4, NothingLeft
<1>6. Top.tried \cup ToSet(Top.left) = Moves[board.position]
  BY <1>1, <1>3 DEF PlaceFits, InLoop
<1> QED
  BY <1>4, <1>5, <1>6 DEF LegalMoves

LEMMA ReturnsWithoutMoves ==
  ASSUME SearchInv, InsideStack, ReturnWithoutMoves
  PROVE  SearchInv'
<1>1. /\ frames # <<>> /\ Top.pc = "loop" /\ NoPick /\ Top.movesSearched = 0
      /\ UNCHANGED treeVars
      /\ Keeps /\ searchStopped' = searchStopped /\ keptCut' = keptCut
  BY KeepsAll DEF ReturnWithoutMoves, NoPick, At, Running
<1>2. Steps(Top) = 0
  BY <1>1, StepsAre
<1>3. /\ Top \in Call /\ CallFits(Top, searchStopped) /\ keptCut = FALSE
      /\ Len(frames) = 1 => board.position = Root
  BY <1>1, <1>2, TopFacts
<1>4. PICK score \in ScoresOf(Top.isPv) : Return(score, Top.cut)
  BY DEF ReturnWithoutMoves, AnyScore
<1> DEFINE b == [score |-> score, cut |-> Top.cut]
<1>5. Top.cut \in BOOLEAN /\ (Top.cut => searchStopped) /\ score \in Scores
  BY <1>3 DEF CallFits, StopFits, Call, ScoresOf, Scores
<1>6. b \in Answer /\ b.cut = Top.cut
  BY <1>5, AnswersAreAnswers
<1>7. frames' = Front(frames) /\ returned' = b
  BY <1>4 DEF Return
<1> HIDE DEF b
<1>8. Len(frames) = 1 => LegalMoves(Root) = {}
  BY <1>1, <1>3, MateNeedsNoMove
<1>9. AnswersHere(b)
  BY <1>1, <1>2, <1>3, <1>5, <1>6, <1>7, <1>8 DEF AnswersHere
<1> QED
  BY <1>1, <1>9, StepsKeepTheInvariant DEF SearchStep

LEMMA ReturnsItsBest ==
  ASSUME SearchInv, InsideStack, ReturnBest \/ QuiescenceReturns
  PROVE  SearchInv'
<1>1. /\ frames # <<>> /\ Top.pc = "loop" /\ (Top.fn = "quiesence" \/ Top.movesSearched > 0)
      /\ Return(Top.score, Top.cut) /\ keptCut' = (keptCut \/ Top.cut)
      /\ UNCHANGED treeVars
      /\ Keeps /\ searchStopped' = searchStopped
  BY KeepsAll DEF ReturnBest, QuiescenceReturns, NoPick, At, Running
<1>2. Steps(Top) = 0
  BY <1>1, StepsAre
<1>3. Top \in Call /\ CallFits(Top, searchStopped) /\ keptCut = FALSE
  BY <1>1, TopFacts
<1>4. Top.cut \in BOOLEAN /\ ~Top.cut /\ Top.score \in Scores
  <2>1. Top.cut => Top.movesSearched = 0 /\ Top.fn = "negamax"
    BY <1>3 DEF CallFits, StopFits
  <2>2. Top.cut \in BOOLEAN /\ Top.score \in Scores
    BY <1>3 DEF Call
  <2>3. ~(0 > 0)
    OBVIOUS
  <2> QED
    BY <1>1, <2>1, <2>2, <2>3
<1> DEFINE b == [score |-> Top.score, cut |-> Top.cut]
<1>5. b \in Answer /\ b.cut = Top.cut /\ b.score = Top.score
  BY <1>4, AnswersAreAnswers
<1>6. frames' = Front(frames) /\ returned' = b /\ keptCut' = FALSE
  BY <1>1, <1>3, <1>4 DEF Return
<1> HIDE DEF b
<1>7. AnswersHere(b)
  BY <1>1, <1>2, <1>4, <1>5, <1>6 DEF AnswersHere
<1> QED
  BY <1>1, <1>7, StepsKeepTheInvariant DEF SearchStep

LEMMA Stops ==
  ASSUME SearchInv, Stop
  PROVE  SearchInv'
<1>1. /\ ~searchStopped /\ searchStopped' = TRUE
      /\ frames' = frames /\ returned' = returned /\ entries' = entries /\ ply' = ply
      /\ repetitions' = repetitions /\ pv' = pv /\ keptCut' = keptCut
  <2>1. pvTable' = pvTable /\ pvLength' = pvLength
    BY DEF Stop, pvVars
  <2>2. pv' = pv
    BY <2>1 DEF pv, Line
  <2> QED
    BY <2>2 DEF Stop, treeVars
<1>2. CallsIn(frames, returned, searchStopped)
  BY DEF SearchInv, CallsAreSound
<1>3. \A f : CallFits(f, searchStopped) => CallFits(f, TRUE)
  BY <1>1 DEF CallFits, StopFits
<1>4. CallsIn(frames, returned, TRUE)
  BY <1>2, <1>3 DEF CallsIn
<1>5. PvTyped'
  BY KeepsAll DEF Stop, Keeps
<1>6. CallsAreSound'
  BY <1>1, <1>4, <1>5 DEF SearchInv, CallsAreSound, Types
<1>7. \A at, sent : Placed(at, sent) => Placed(at, sent)'
  BY <1>1 DEF Placed
<1>8. (InsideStack' <=> InsideStack) /\ (Overrun' <=> Overrun)
  BY <1>1 DEF InsideStack, Overrun
<1> QED
  BY <1>6, <1>7, <1>8 DEF SearchInv

LEMMA Stutters ==
  ASSUME SearchInv, UNCHANGED vars
  PROVE  SearchInv'
<1>1. /\ searchStopped' = searchStopped
      /\ frames' = frames /\ returned' = returned /\ entries' = entries /\ ply' = ply
      /\ repetitions' = repetitions /\ pv' = pv /\ keptCut' = keptCut
  <2>1. pvTable' = pvTable /\ pvLength' = pvLength
    BY DEF vars
  <2>2. pv' = pv
    BY <2>1 DEF pv, Line
  <2> QED
    BY <2>2 DEF vars
<1>2. PvTyped'
  BY KeepsAll DEF vars, pvVars, Keeps
<1>3. CallsAreSound'
  BY <1>1, <1>2 DEF SearchInv, CallsAreSound, Types
<1>4. \A at, sent : Placed(at, sent) => Placed(at, sent)'
  BY <1>1 DEF Placed
<1>5. (InsideStack' <=> InsideStack) /\ (Overrun' <=> Overrun)
  BY <1>1 DEF InsideStack, Overrun
<1> QED
  BY <1>3, <1>4, <1>5 DEF SearchInv

\* Only a stop meets a search that has left m_stack.
LEMMA StepsAreInside ==
  /\ ( ReturnEarly \/ EnterQuiescence \/ EnterNode \/ ReverseFutility \/ NullMovePruning
       \/ Razoring \/ NotPruned \/ StartLoop \/ SkipMove \/ SearchMove
       \/ QuiescenceReturnsEarly \/ QuiescenceStarts \/ QuiescenceSkips
       \/ QuiescenceSearches \/ QuiescenceReturns ) => InsideStack
  /\ ( NullMoveReturns \/ RazoringReturns \/ SearchAgain \/ StopReturns \/ MoveFailsLow
       \/ MoveIsBetter \/ MoveFailsHigh \/ ReturnWithoutMoves \/ ReturnBest
       \/ QuiescenceJudges ) => InsideStack
<1>1. /\ \A fn, pc : At(fn, pc) => InsideStack
      /\ \A pc : Resumed(pc) => InsideStack
  BY DEF At, Running, Resumed
<1>2. (NoPick => InsideStack) /\ (Settled => InsideStack)
  BY <1>1 DEF NoPick, Settled
<1>3. ( ReturnEarly \/ EnterQuiescence \/ EnterNode \/ ReverseFutility \/ NullMovePruning
        \/ Razoring \/ NotPruned \/ StartLoop \/ SkipMove \/ SearchMove
        \/ QuiescenceReturnsEarly \/ QuiescenceStarts \/ QuiescenceSkips
        \/ QuiescenceSearches \/ QuiescenceReturns ) => InsideStack
  BY <1>1, Zenon DEF ReturnEarly, EnterQuiescence, EnterNode, ReverseFutility, NullMovePruning,
     Razoring, NotPruned, StartLoop, SkipMove, SearchMove, QuiescenceReturnsEarly,
     QuiescenceStarts, QuiescenceSkips, QuiescenceSearches, QuiescenceReturns
<1>4. ( NullMoveReturns \/ RazoringReturns \/ SearchAgain \/ StopReturns \/ MoveFailsLow
        \/ MoveIsBetter \/ MoveFailsHigh \/ ReturnWithoutMoves \/ ReturnBest
        \/ QuiescenceJudges ) => InsideStack
  BY <1>1, <1>2, Zenon DEF NullMoveReturns, RazoringReturns, SearchAgain, StopReturns,
     MoveFailsLow, MoveIsBetter, MoveFailsHigh, ReturnWithoutMoves, ReturnBest, QuiescenceJudges
<1> QED
  BY <1>3, <1>4, Zenon

LEMMA SearchInvHolds ==
  ASSUME SearchInv, [Next]_vars
  PROVE  SearchInv'
<1>1. CASE ReturnEarly \/ QuiescenceReturnsEarly
  BY <1>1, StepsAreInside, ReturnsEarly
<1>2. CASE EnterQuiescence
  BY <1>2, StepsAreInside, EntersQuiescence
<1>3. CASE EnterNode
  BY <1>3, StepsAreInside, EntersNode
<1>4. CASE ReverseFutility
  BY <1>4, StepsAreInside, ReversesFutility
<1>5. CASE NullMovePruning
  BY <1>5, StepsAreInside, PrunesByNullMove
<1>6. CASE NullMoveReturns
  BY <1>6, StepsAreInside, ReturnsFromNullMove
<1>7. CASE Razoring
  BY <1>7, StepsAreInside, Razors
<1>8. CASE RazoringReturns
  BY <1>8, StepsAreInside, ReturnsFromRazoring
<1>9. CASE NotPruned
  BY <1>9, StepsAreInside, IsNotPruned
<1>10. CASE StartLoop \/ QuiescenceStarts
  BY <1>10, StepsAreInside, StartsItsLoop
<1>11. CASE SkipMove \/ QuiescenceSkips
  BY <1>11, StepsAreInside, Skips
<1>12. CASE SearchMove \/ QuiescenceSearches
  BY <1>12, StepsAreInside, Searches
<1>13. CASE SearchAgain
  BY <1>13, StepsAreInside, SearchesAgain
<1>14. CASE StopReturns
  BY <1>14, StepsAreInside, ReturnsStopped
<1>15. CASE MoveFailsLow
  BY <1>15, StepsAreInside, FailsLow
<1>16. CASE MoveIsBetter
  BY <1>16, StepsAreInside, IsBetter
<1>17. CASE MoveFailsHigh
  BY <1>17, StepsAreInside, FailsHigh
<1>18. CASE ReturnWithoutMoves
  BY <1>18, StepsAreInside, ReturnsWithoutMoves
<1>19. CASE ReturnBest \/ QuiescenceReturns
  BY <1>19, StepsAreInside, ReturnsItsBest
<1>20. CASE QuiescenceJudges
  BY <1>20, StepsAreInside, JudgesInQuiescence
<1>21. CASE Stop
  BY <1>21, Stops
<1>22. CASE UNCHANGED vars
  BY <1>22, Stutters
<1> QED
  BY <1>1, StepsAreInside, <1>2, <1>3, <1>4, <1>5, <1>6, <1>7, <1>8, <1>9, <1>10, <1>11, <1>12, <1>13, <1>14,
     <1>15, <1>16, <1>17, <1>18, <1>19, <1>20, <1>21, <1>22 DEF Next

LEMMA HistoryIsHashes == History \in Seq(Hash)
<1>1. Len(History) \in Nat /\ History = [i \in 1 .. Len(History) |-> History[i]]
      /\ DOMAIN History = 1 .. Len(History)
  BY GraphAssumption
<1>2. \A i \in 1 .. Len(History) : History[i] \in Hash
  BY <1>1 DEF Hash
<1> QED
  BY <1>1, <1>2

LEMMA SearchStarts ==
  ASSUME Init
  PROVE  SearchInv
<1> DEFINE c == Frame("negamax", Depth, TRUE, TRUE, FALSE)
<1> DEFINE zeros == [i \in Nat |-> 0]
<1>1. /\ Fresh(c) /\ c.fn = "negamax" /\ c.isRoot /\ c.isPv /\ c.depth = Depth
  <2>1. Depth \in Nat /\ Depth =< Depth
    BY Sizes
  <2>2. Fresh(c)
    BY <2>1, FramesAreFresh
  <2>3. c.fn = "negamax" /\ c.isRoot /\ c.isPv /\ c.depth = Depth
    BY DEF Frame
  <2> QED
    BY <2>2, <2>3
<1>2. frames = <<c>>
  BY DEF Init
<1> HIDE DEF c
<1>3. c \in Call /\ c.pc = "enter" /\ c.score = "low"
  BY <1>1 DEF Fresh
<1>4. frames \in Seq(Call) /\ Len(frames) = 1 /\ frames[1] = c /\ frames # <<>>
  BY <1>2, <1>3
<1>5. returned = NoResult /\ ply = 0 /\ repetitions = History /\ searchStopped = FALSE /\ keptCut = FALSE
  BY DEF Init
<1>6. CallsIn(frames, returned, searchStopped)
  <2>1. CallFits(c, searchStopped)
    BY <1>1, FreshCallFits
  <2>2. RootFits(c)
    BY <1>1, <1>3 DEF RootFits
  <2>3. c.pc \notin Waiting
    BY <1>3 DEF Waiting
  <2> QED
    BY <1>4, <1>5, <2>1, <2>2, <2>3, AnswersAreNoCalls DEF CallsIn
<1>7. RootHasALine(frames, returned, pv)
  BY <1>3, <1>4 DEF RootHasALine
<1>8. Root \in Positions /\ RootHalfMoves \in Nat
  BY GraphAssumption DEF Positions
<1>9. entries = [q \in 0 .. (MaxSearchDepth - 1) |-> [board |-> Board(Root, RootHalfMoves), move |-> NoMove]]
  BY DEF Init
<1>10. Types
  <2>1. [board |-> Board(Root, RootHalfMoves), move |-> NoMove] \in Entry
    BY <1>8 DEF Entry, Board, AnyMove
  <2>2. entries \in [0 .. (MaxSearchDepth - 1) -> Entry]
    BY <1>9, <2>1
  <2>3. History \in Seq(Hash)
    BY HistoryIsHashes
  <2>4. NoMove \in AnyMove /\ 0 \in 0 .. MaxSearchDepth
    BY Sizes DEF AnyMove
  <2>5. pvTable = [p \in 0 .. MaxSearchDepth |-> [q \in 0 .. MaxSearchDepth |-> NoMove]]
    BY DEF Init
  <2>6. pvLength = [p \in 0 .. MaxSearchDepth |-> 0]
    BY DEF Init
  <2>7. PvTyped
    BY <2>4, <2>5, <2>6 DEF PvTyped
  <2> QED
    BY <1>5, <2>2, <2>3, <2>7 DEF Types
<1>11. \A i \in Nat : zeros[i] = 0
  OBVIOUS
<1>12. zeros \in [Nat -> Nat]
  OBVIOUS
<1> HIDE DEF zeros
<1>13. zeros[1] = 0 /\ zeros[1 + 1] = 0 /\ zeros[Len(frames) + 1] = 0
  BY <1>4, <1>11
<1>14. PliesIn(frames, zeros, zeros)
  <2>1. Steps(c) = 0 /\ Made(c) = 0
    BY <1>3, StepsAre
  <2>2. \A i \in 1 .. 2 : zeros[i] = 0
    BY <1>11
  <2>3. 0 < MaxSearchDepth
    BY Sizes, DepthAssumption
  <2> QED
    BY <1>3, <1>4, <1>13, <2>1, <2>2, <2>3, Sizes DEF PliesIn
<1>15. PlacesIn(frames, entries, zeros)
  <2>1. \A here, next : PlaceFits(c, here, next)
    BY <1>3 DEF PlaceFits, InLoop
  <2>2. BoardAt(entries, 0) = Board(Root, RootHalfMoves)
    <3>1. 0 \in 0 .. (MaxSearchDepth - 1)
      BY Sizes, DepthAssumption
    <3>2. entries[0] = [board |-> Board(Root, RootHalfMoves), move |-> NoMove]
      BY <1>9, <3>1
    <3> QED
      BY <3>2 DEF BoardAt, Board
  <2> QED
    BY <1>4, <2>1, <2>2 DEF PlacesIn
<1>16. HashesIn(frames, entries, repetitions, zeros, zeros)
  <2>1. ~(Steps(c) > 0)
    BY <1>3, StepsAre
  <2>2. Len(repetitions) = Len(History) + 0
    BY <1>5, Sizes
  <2> QED
    BY <1>4, <1>5, <1>13, <2>1, <2>2 DEF HashesIn
<1>17. LineIn(frames, entries, ply, repetitions, zeros, zeros)
  BY <1>5, <1>13, <1>14, <1>15, <1>16 DEF LineIn
<1>18. RowsIn(frames, returned, entries, pv, zeros)
  <2>1. \A i \in 1 .. (Len(frames) + 1) : ~OwnsRow(frames, returned, i)
    BY <1>1, <1>3, <1>4, <1>5 DEF OwnsRow
  <2> QED
    BY <2>1 DEF RowsIn
<1>19. InsideStack
  <2>1. 0 \in 0 .. (MaxSearchDepth - 1)
    BY Sizes, DepthAssumption
  <2> QED
    BY <1>5, <1>9, <2>1 DEF InsideStack
<1> QED
  BY <1>5, <1>6, <1>7, <1>10, <1>12, <1>17, <1>18, <1>19 DEF SearchInv, CallsAreSound, Placed

\* The inductive invariant of a search.
THEOREM SearchIsSound == Spec => []SearchInv
<1>1. Init => SearchInv
  BY SearchStarts
<1>2. SearchInv /\ [Next]_vars => SearchInv'
  BY SearchInvHolds
<1> QED
  BY <1>1, <1>2, PTL DEF Spec

------------------------------------------------------------------------------
(* The properties of a search *)

\* The ply of each call is the one it was called at.
LEMMA PlyOfIs ==
  ASSUME CallsAreSound, NEW at, NEW sent, Numbers(at), Placed(at, sent)
  PROVE  \A i \in 1 .. (Len(frames) + 1) : PlyOf[i] = at[i]
<1> DEFINE n == Len(frames)
<1> DEFINE S == 1 .. (n + 1)
<1>1. n \in Nat /\ at[1] = 0 /\ \A i \in 1 .. n : at[i + 1] = at[i] + Steps(frames[i])
  BY DEF CallsAreSound, CallsIn, Placed, LineIn, PliesIn
<1>2. \A i \in S : at[i] = IF i = 1 THEN 0 ELSE at[i - 1] + Steps(frames[i - 1])
  <2> SUFFICES ASSUME NEW i \in S, i # 1 PROVE at[i] = at[i - 1] + Steps(frames[i - 1])
    BY <1>1
  <2>1. i - 1 \in 1 .. n /\ (i - 1) + 1 = i
    BY <1>1
  <2> QED
    BY <1>1, <2>1
<1> DEFINE Ply(f) == f = [i \in S |-> IF i = 1 THEN 0 ELSE f[i - 1] + Steps(frames[i - 1])]
<1>3. \E f : Ply(f)
  <2> DEFINE f == [i \in S |-> at[i]]
  <2>1. \A i \in S : i # 1 => i - 1 \in S
    BY <1>1
  <2>2. Ply(f)
    BY <1>2, <2>1
  <2> QED
    BY <2>2
<1>4. PlyOf = CHOOSE f : Ply(f)
  BY DEF PlyOf
<1>5. Ply(PlyOf)
  BY <1>3, <1>4
<1>6. \A i \in S : PlyOf[i] = IF i = 1 THEN 0 ELSE PlyOf[i - 1] + Steps(frames[i - 1])
  BY <1>5
<1> DEFINE same == {k \in Nat : k + 1 \in S => PlyOf[k + 1] = at[k + 1]}
<1>7. 0 \in same
  BY <1>1, <1>6
<1>8. ASSUME NEW k \in Nat, k \in same PROVE k + 1 \in same
  <2> SUFFICES ASSUME (k + 1) + 1 \in S PROVE PlyOf[(k + 1) + 1] = at[(k + 1) + 1]
    OBVIOUS
  <2>1. k + 1 \in S /\ (k + 1) + 1 # 1 /\ ((k + 1) + 1) - 1 = k + 1
    BY <1>1
  <2> QED
    BY <1>2, <1>6, <1>8, <2>1
<1>9. \A k \in Nat : k \in same
  <2> HIDE DEF same
  <2> QED
    BY <1>7, <1>8, SetInduction
<1>10. \A i \in S : i - 1 \in Nat /\ (i - 1) + 1 = i
  BY <1>1
<1> QED
  BY <1>9, <1>10

\* The line of calls behind the invariant.
LEMMA LineOfCalls ==
  ASSUME SearchInv, InsideStack
  PROVE  \E at, sent \in [Nat -> Nat] :
           /\ Numbers(at) /\ Numbers(sent) /\ Placed(at, sent)
           /\ \A i \in 1 .. (Len(frames) + 1) : PlyOf[i] = at[i]
<1>1. PICK at, sent : at \in [Nat -> Nat] /\ sent \in [Nat -> Nat] /\ Placed(at, sent)
  BY DEF SearchInv
<1>2. Numbers(at) /\ Numbers(sent)
  BY <1>1 DEF Numbers
<1>3. \A i \in 1 .. (Len(frames) + 1) : PlyOf[i] = at[i]
  BY <1>1, <1>2, PlyOfIs DEF SearchInv
<1> QED
  BY <1>1, <1>2, <1>3

LEMMA FramesAre ==
  ASSUME SearchInv
  PROVE  /\ frames \in Seq(Call) /\ Len(frames) \in Nat /\ DOMAIN frames = 1 .. Len(frames)
         /\ \A i \in 1 .. Len(frames) : frames[i] \in Call /\ CallFits(frames[i], searchStopped)
<1>1. frames \in Seq(Call) /\ \A i \in 1 .. Len(frames) : CallFits(frames[i], searchStopped)
  BY DEF SearchInv, CallsAreSound, CallsIn
<1>2. Len(frames) \in Nat /\ DOMAIN frames = 1 .. Len(frames)
  BY <1>1
<1>3. \A i \in 1 .. Len(frames) : frames[i] \in Call
  BY <1>1 DEF CallFits
<1> QED
  BY <1>1, <1>2, <1>3

LEMMA TypesHold ==
  ASSUME SearchInv
  PROVE  TypeInvariant
<1>1. returned.score \in Scores \cup {"none"} /\ returned.cut \in BOOLEAN
  <2>1. returned \in Answer \cup {NoResult}
    BY DEF SearchInv, CallsAreSound, CallsIn
  <2>2. NoResult.score = "none" /\ NoResult.cut = FALSE
    BY DEF NoResult
  <2>3. CASE returned = NoResult
    BY <2>2, <2>3
  <2>4. CASE returned \in Answer
    BY <2>4 DEF Answer
  <2> QED
    BY <2>1, <2>3, <2>4
<1>2. ASSUME NEW i \in DOMAIN frames
      PROVE  /\ frames[i].fn \in {"negamax", "quiesence"} /\ frames[i].score \in Scores
             /\ frames[i].depth \in 0 .. (Depth + MaxSearchDepth)
  <2>1. frames[i] \in Call /\ CallFits(frames[i], searchStopped)
    BY FramesAre
  <2>2. frames[i].fn \in {"negamax", "quiesence"} /\ frames[i].score \in Scores
    BY <2>1 DEF Call
  <2>3. frames[i].depth \in Nat /\ frames[i].depth =< Depth + 1
    BY <2>1, Sizes DEF CallFits, DepthFits, Call
  <2> QED
    BY <2>2, <2>3, Sizes
<1>3. searchStopped \in BOOLEAN /\ keptCut \in BOOLEAN
  BY DEF SearchInv, CallsAreSound, Types
<1>4. \A p \in 0 .. MaxSearchDepth : pvLength[p] \in 0 .. MaxSearchDepth
  BY DEF SearchInv, CallsAreSound, Types, PvTyped
<1>5. /\ ply \in 0 .. (MaxSearchDepth + 1)
      /\ Len(repetitions) \in Len(History) .. (Len(History) + MaxSearchDepth)
  <2>1. CASE ~InsideStack
    <3>1. Overrun
      BY <2>1 DEF SearchInv
    <3> QED
      BY <3>1, Sizes DEF Overrun
  <2>2. CASE InsideStack
    <3>1. PICK at, sent : Numbers(at) /\ Numbers(sent) /\ Placed(at, sent)
      BY <2>2, LineOfCalls
    <3>2. /\ PliesIn(frames, at, sent) /\ HashesIn(frames, entries, repetitions, at, sent)
          /\ ply = at[Len(frames) + 1]
      BY <3>1 DEF Placed, LineIn
    <3> DEFINE n == Len(frames) + 1
    <3>3. n \in 1 .. n /\ n \in Nat
      BY FramesAre
    <3>4. at[n] \in Nat /\ sent[n] \in Nat /\ sent[n] =< at[n] /\ at[n] < MaxSearchDepth
      BY <3>1, <3>2, <3>3 DEF Numbers, PliesIn
    <3>5. Len(repetitions) = Len(History) + sent[n] /\ ply = at[n]
      BY <3>2 DEF HashesIn
    <3> HIDE DEF n
    <3> QED
      BY <3>4, <3>5, Sizes
  <2> QED
    BY <2>1, <2>2
<1> QED
  BY <1>1, <1>2, <1>3, <1>4, <1>5 DEF TypeInvariant

\* The calls that have made a move are counted by the hashes sent before them,
\* and each of these hashes is of one of them.
CountsTo(L, sent, i) ==
  LET below == {j \in L : j =< i}
  IN /\ IsFiniteSet(below) /\ Cardinality(below) = sent[i + 1]
     /\ \A k \in 1 .. sent[i + 1] : \E j \in below : sent[j + 1] = k

LEMMA LineIsCounted ==
  ASSUME NEW fs, NEW n \in Nat, NEW sent, Numbers(sent), sent[1] = 0,
         \A i \in 1 .. n : sent[i + 1] = sent[i] + Made(fs[i]),
         NEW L, L = {i \in 1 .. n : Steps(fs[i]) > 0}
  PROVE  \A i \in 0 .. n : CountsTo(L, sent, i)
<1> DEFINE Below(i) == {j \in L : j =< i}
<1> DEFINE Good(i) == CountsTo(L, sent, i)
<1> DEFINE good == {i \in Nat : i =< n => Good(i)}
<1>1. 0 \in good
  <2>1. Below(0) = {}
    OBVIOUS
  <2>2. 1 .. sent[0 + 1] = {}
    OBVIOUS
  <2>3. Good(0)
    BY <2>1, <2>2, FS_EmptySet DEF CountsTo
  <2> QED
    BY <2>3
<1>2. ASSUME NEW i \in Nat, i \in good PROVE i + 1 \in good
  <2> SUFFICES ASSUME i + 1 =< n PROVE Good(i + 1)
    OBVIOUS
  <2>1. i =< n /\ i + 1 \in 1 .. n
    OBVIOUS
  <2>2. Good(i)
    BY <1>2, <2>1
  <2>3. /\ sent[(i + 1) + 1] = sent[i + 1] + Made(fs[i + 1])
        /\ sent[i + 1] \in Nat /\ sent[(i + 1) + 1] \in Nat
    BY <2>1 DEF Numbers
  <2>4. i + 1 \notin Below(i)
    OBVIOUS
  <2>5. CASE Steps(fs[i + 1]) > 0
    <3>1. Below(i + 1) = Below(i) \cup {i + 1}
      BY <2>1, <2>5
    <3>2. sent[(i + 1) + 1] = sent[i + 1] + 1
      BY <2>3, <2>5, StepsAre
    <3>3. /\ IsFiniteSet(Below(i) \cup {i + 1})
          /\ Cardinality(Below(i) \cup {i + 1}) = Cardinality(Below(i)) + 1
      BY <2>2, <2>4, FS_AddElement DEF CountsTo
    <3>4. \A k \in 1 .. sent[(i + 1) + 1] : k \in 1 .. sent[i + 1] \/ k = sent[(i + 1) + 1]
      BY <2>3, <3>2
    <3>5. \A k \in 1 .. sent[(i + 1) + 1] : \E j \in Below(i + 1) : sent[j + 1] = k
      BY <2>2, <3>1, <3>4 DEF CountsTo
    <3> QED
      BY <2>2, <3>1, <3>2, <3>3, <3>5 DEF CountsTo
  <2>6. CASE ~(Steps(fs[i + 1]) > 0)
    <3>1. Below(i + 1) = Below(i)
      BY <2>1, <2>6
    <3>2. Made(fs[i + 1]) = 0
      BY <2>6 DEF Made
    <3>3. sent[(i + 1) + 1] = sent[i + 1]
      BY <2>3, <3>2
    <3> QED
      BY <2>2, <3>1, <3>3 DEF CountsTo
  <2> QED
    BY <2>5, <2>6
<1>3. \A i \in Nat : i \in good
  <2> HIDE DEF good
  <2> QED
    BY <1>1, <1>2, SetInduction
<1>4. \A i \in 0 .. n : i \in Nat /\ i =< n
  OBVIOUS
<1> HIDE DEF Good
<1>5. \A i \in 0 .. n : Good(i)
  BY <1>3, <1>4
<1> QED
  BY <1>5 DEF Good

LEMMA SplitIs ==
  ASSUME NEW S, NEW r \in Seq(S), NEW s \in Seq(S), Len(s) =< Len(r),
         \A k \in 1 .. Len(s) : r[k] = s[k]
  PROVE  r = s \o [k \in 1 .. (Len(r) - Len(s)) |-> r[Len(s) + k]]
<1> DEFINE t == [k \in 1 .. (Len(r) - Len(s)) |-> r[Len(s) + k]]
<1>1. Len(r) \in Nat /\ Len(s) \in Nat /\ \A k \in 1 .. Len(r) : r[k] \in S
  OBVIOUS
<1>2. Len(r) - Len(s) \in Nat /\ \A k \in 1 .. (Len(r) - Len(s)) : Len(s) + k \in 1 .. Len(r)
  BY <1>1
<1>3. t \in Seq(S) /\ Len(t) = Len(r) - Len(s)
  BY <1>1, <1>2
<1>4. \A k \in 1 .. (Len(r) - Len(s)) : t[k] = r[Len(s) + k]
  OBVIOUS
<1> HIDE DEF t
<1>5. s \o t \in Seq(S) /\ Len(s \o t) = Len(r)
  BY <1>1, <1>3
<1>6. \A k \in 1 .. Len(r) : (s \o t)[k] = r[k]
  <2> SUFFICES ASSUME NEW k \in 1 .. Len(r) PROVE (s \o t)[k] = r[k]
    OBVIOUS
  <2>1. (s \o t)[k] = IF k =< Len(s) THEN s[k] ELSE t[k - Len(s)]
    BY <1>1, <1>3
  <2>2. CASE k =< Len(s)
    BY <1>1, <2>1, <2>2
  <2>3. CASE ~(k =< Len(s))
    <3>1. k - Len(s) \in 1 .. (Len(r) - Len(s)) /\ Len(s) + (k - Len(s)) = k
      BY <1>1, <2>3
    <3> QED
      BY <1>4, <2>1, <2>3, <3>1
  <2> QED
    BY <2>2, <2>3
<1>7. s \o t = r
  <2>1. \A q \in Seq(S) : Len(q) = Len(r) /\ (\A k \in 1 .. Len(r) : q[k] = r[k]) => q = r
    BY <1>1
  <2> QED
    BY <1>5, <1>6, <2>1
<1> QED
  BY <1>7 DEF t

LEMMA StackFollows ==
  ASSUME SearchInv
  PROVE  StackFollowsTheCalls
<1> SUFFICES ASSUME InsideStack PROVE StackFollowsTheCalls
  BY DEF StackFollowsTheCalls
<1> DEFINE n == Len(frames)
<1> DEFINE h == Len(History)
<1>1. PICK at, sent : /\ Numbers(at) /\ Numbers(sent) /\ Placed(at, sent)
                      /\ \A i \in 1 .. (n + 1) : PlyOf[i] = at[i]
  BY LineOfCalls
<1>2. n \in Nat /\ DOMAIN frames = 1 .. n /\ \A i \in 1 .. n : i \in 1 .. (n + 1) /\ i + 1 \in 1 .. (n + 1)
  BY FramesAre
<1>3. /\ ply = at[n + 1] /\ PliesIn(frames, at, sent) /\ PlacesIn(frames, entries, at)
      /\ HashesIn(frames, entries, repetitions, at, sent)
  BY <1>1 DEF Placed, LineIn
<1>5. ply = PlyOf[n + 1]
  BY <1>1, <1>2, <1>3
<1>6. \A i \in 1 .. (n + 1) : PositionOf(i) = BoardAt(entries, at[i]).position
  BY <1>1 DEF PositionOf, BoardAt
<1>7. OnTheLine = {i \in 1 .. n : Steps(frames[i]) > 0}
  BY <1>2 DEF OnTheLine
<1>8. \A i \in OnTheLine : i \in 1 .. n /\ frames[i].pc \in {"full", "zero", "null"}
  BY <1>7, StepsAre
<1>9. \A i \in OnTheLine :
        /\ PositionOf(i + 1) = IF frames[i].pc = "null" THEN NullMoves[PositionOf(i)]
                                                        ELSE frames[i].move.to
        /\ frames[i].pc # "null" => frames[i].move \in Moves[PositionOf(i)]
  <2> SUFFICES ASSUME NEW i \in OnTheLine
               PROVE  /\ PositionOf(i + 1) = IF frames[i].pc = "null" THEN NullMoves[PositionOf(i)]
                                                                     ELSE frames[i].move.to
                      /\ frames[i].pc # "null" => frames[i].move \in Moves[PositionOf(i)]
    OBVIOUS
  <2>1. PlaceFits(frames[i], BoardAt(entries, at[i]), BoardAt(entries, at[i + 1]))
    BY <1>2, <1>3, <1>6, <1>8 DEF PlacesIn
  <2>2. /\ PositionOf(i) = BoardAt(entries, at[i]).position
        /\ PositionOf(i + 1) = BoardAt(entries, at[i + 1]).position
    BY <1>2, <1>6, <1>8
  <2> QED
    BY <1>8, <2>1, <2>2 DEF PlaceFits
<1> DEFINE hash(k) == PositionOf(CHOOSE i \in OnTheLine : Cardinality({j \in OnTheLine : j =< i}) = k)
<1>10. /\ sent[1] = 0 /\ \A i \in 1 .. n : sent[i + 1] = sent[i] + Made(frames[i])
       /\ sent[n + 1] \in Nat
  BY <1>1, <1>2, <1>3 DEF PliesIn, Numbers
<1>11. \A i \in 0 .. n : CountsTo(OnTheLine, sent, i)
  BY <1>1, <1>2, <1>7, <1>10, LineIsCounted
<1>12. Cardinality(OnTheLine) = sent[n + 1]
  <2>1. {j \in OnTheLine : j =< n} = OnTheLine
    BY <1>2, <1>8
  <2>2. CountsTo(OnTheLine, sent, n)
    BY <1>2, <1>11
  <2> QED
    BY <2>1, <2>2 DEF CountsTo
<1>13. ASSUME NEW k \in 1 .. sent[n + 1] PROVE repetitions[h + k] = hash(k)
  <2> DEFINE Is(i) == Cardinality({j \in OnTheLine : j =< i}) = k
  <2>1. \E i \in OnTheLine : Is(i)
    <3>1. CountsTo(OnTheLine, sent, n)
      BY <1>2, <1>11
    <3>2. PICK i \in OnTheLine : sent[i + 1] = k
      BY <1>13, <3>1 DEF CountsTo
    <3>3. CountsTo(OnTheLine, sent, i)
      BY <1>8, <1>11
    <3> QED
      BY <3>2, <3>3 DEF CountsTo
  <2>2. PICK i \in OnTheLine : i = (CHOOSE x \in OnTheLine : Is(x)) /\ Is(i)
    BY <2>1
  <2>3. i \in 1 .. n /\ i \in 0 .. n /\ Steps(frames[i]) > 0
    BY <1>7, <2>2
  <2>4. sent[i + 1] = k
    BY <1>11, <2>2, <2>3 DEF CountsTo
  <2>5. sent[i] \in Nat /\ sent[i + 1] = sent[i] + 1
    BY <1>1, <1>10, <2>3, StepsAre, SMTT(60) DEF Numbers
  <2>6. repetitions[h + sent[i] + 1] = PositionOf(i)
    BY <1>2, <1>3, <1>6, <2>3 DEF HashesIn
  <2>7. h + sent[i] + 1 = h + k
    BY <2>4, <2>5, Sizes
  <2> QED
    BY <2>2, <2>6, <2>7
<1> HIDE DEF hash
<1>14. repetitions = History \o [k \in 1 .. Cardinality(OnTheLine) |-> hash(k)]
  <2>1. /\ repetitions \in Seq(Hash) /\ Len(repetitions) = h + sent[n + 1]
        /\ \A k \in 1 .. h : repetitions[k] = History[k]
    BY <1>3 DEF HashesIn, SearchInv, CallsAreSound, Types
  <2>2. h =< Len(repetitions) /\ Len(repetitions) - h = sent[n + 1]
    BY <1>10, <2>1, Sizes
  <2>3. repetitions = History \o [k \in 1 .. sent[n + 1] |-> repetitions[h + k]]
    BY <2>1, <2>2, HistoryIsHashes, SplitIs
  <2>4. [k \in 1 .. sent[n + 1] |-> repetitions[h + k]] = [k \in 1 .. sent[n + 1] |-> hash(k)]
    BY <1>13
  <2> QED
    BY <1>12, <2>3, <2>4
<1> QED
  BY <1>5, <1>9, <1>14 DEF StackFollowsTheCalls, hash

LEMMA PickerGivesAll ==
  ASSUME SearchInv, InsideStack
  PROVE  PickerGivesEveryMoveOnce
<1> DEFINE n == Len(frames)
<1>1. PICK at, sent : /\ Numbers(at) /\ Numbers(sent) /\ Placed(at, sent)
                      /\ \A i \in 1 .. (n + 1) : PlyOf[i] = at[i]
  BY LineOfCalls
<1>2. ASSUME NEW i \in DOMAIN frames
      PROVE  /\ frames[i].tried \cap ToSet(frames[i].left) = {}
             /\ (/\ frames[i].fn = "negamax" /\ frames[i].pc = "loop"
                 /\ NextPhase(frames[i]) = "Done" /\ ~frames[i].skipQuiets) =>
                  frames[i].tried = Moves[PositionOf(i)]
  <2>1. frames[i] \in Call /\ CallFits(frames[i], searchStopped) /\ i \in 1 .. n /\ i \in 1 .. (n + 1)
    BY FramesAre
  <2>2. PickerFits(frames[i]) /\ frames[i].tried \cap ToSet(frames[i].left) = {}
    BY <2>1 DEF CallFits, PickerFits
  <2>3. /\ PlaceFits(frames[i], BoardAt(entries, at[i]), BoardAt(entries, at[i + 1]))
        /\ PositionOf(i) = BoardAt(entries, at[i]).position
    BY <1>1, <2>1 DEF Placed, LineIn, PlacesIn, PositionOf, BoardAt
  <2>4. ASSUME frames[i].fn = "negamax", frames[i].pc = "loop",
               NextPhase(frames[i]) = "Done", ~frames[i].skipQuiets
        PROVE  frames[i].tried = Moves[PositionOf(i)]
    <3>1. ToSet(frames[i].left) = {}
      BY <2>1, <2>2, <2>4, NothingLeft
    <3>2. frames[i].tried \cup ToSet(frames[i].left) = Moves[PositionOf(i)]
      BY <2>3, <2>4 DEF PlaceFits, InLoop
    <3> QED
      BY <3>1, <3>2
  <2> QED
    BY <2>2, <2>4
<1> QED
  BY <1>2 DEF PickerGivesEveryMoveOnce

LEMMA NoMoveLost ==
  ASSUME SearchInv
  PROVE  NoMoveIsLost
<1>1. PickerGivesEveryMoveOnce
  <2>1. CASE InsideStack
    BY <2>1, PickerGivesAll
  <2>2. CASE ~InsideStack
    BY <2>2 DEF PickerGivesEveryMoveOnce
  <2> QED
    BY <2>1, <2>2
<1>2. NoPick => InsideStack
  BY DEF NoPick, At, Running
<1>3. MateIsReal
  BY <1>2, MateNeedsNoMove DEF MateIsReal
<1> QED
  BY <1>1, <1>3 DEF NoMoveIsLost

\* A row of moves that is a line has not ended before it starts.
LEMMA LinesAreRows ==
  ASSUME NEW p \in 0 .. MaxSearchDepth, NEW here \in Positions, IsLine(here, pv[p])
  PROVE  pvLength[p] >= p /\ pv[p] = Line(p)
<1>1. pv[p] = IF pvLength[p] >= p THEN Line(p) ELSE <<NoMove>>
  BY DEF pv
<1>2. CASE pvLength[p] >= p
  BY <1>1, <1>2
<1>3. CASE ~(pvLength[p] >= p)
  <2>1. pv[p] = <<NoMove>> /\ 1 \in DOMAIN <<NoMove>> /\ <<NoMove>>[1] = NoMove
    BY <1>1, <1>3
  <2>2. NoMove \in LegalMoves(here)
    BY <2>1 DEF IsLine
  <2>3. ~NoMove.legal
    BY DEF NoMove
  <2> QED
    BY <2>2, <2>3 DEF LegalMoves
<1> QED
  BY <1>2, <1>3

LEMMA PvLines ==
  ASSUME SearchInv
  PROVE  PvIsALine
<1> DEFINE n == Len(frames)
<1>1. frames = <<>> => InsideStack
  BY DEF SearchInv, Overrun
<1>2. ASSUME NEW i \in DOMAIN frames, frames[i].fn = "negamax", frames[i].pc # "enter", InsideStack
      PROVE  pvLength[PlyOf[i]] >= PlyOf[i] /\ IsLine(PositionOf(i), Line(PlyOf[i]))
  <2>1. PICK at, sent : /\ Numbers(at) /\ Numbers(sent) /\ Placed(at, sent)
                        /\ \A k \in 1 .. (n + 1) : PlyOf[k] = at[k]
    BY <1>2, LineOfCalls
  <2>2. i \in 1 .. n /\ i \in 1 .. (n + 1) /\ i =< n
    BY FramesAre
  <2>3. OwnsRow(frames, returned, i)
    BY <1>2, <2>2 DEF OwnsRow
  <2>4. IsLine(BoardAt(entries, at[i]).position, pv[at[i]])
    BY <2>1, <2>2, <2>3 DEF Placed, RowsIn
  <2>5. at[i] \in 0 .. (MaxSearchDepth - 1)
    <3>1. PliesIn(frames, at, sent)
      BY <2>1 DEF Placed, LineIn
    <3> QED
      BY <2>1, <2>2, <3>1, Sizes DEF PliesIn, Numbers
  <2>6. BoardAt(entries, at[i]).position \in Positions
    <3>1. entries[at[i]] \in Entry
      BY <2>5 DEF SearchInv, CallsAreSound, Types
    <3> QED
      BY <3>1 DEF Entry, BoardAt
  <2>7. at[i] \in 0 .. MaxSearchDepth
    BY <2>5, Sizes
  <2>8. pvLength[at[i]] >= at[i] /\ pv[at[i]] = Line(at[i])
    BY <2>4, <2>6, <2>7, LinesAreRows
  <2>9. PlyOf[i] = at[i] /\ PositionOf(i) = BoardAt(entries, at[i]).position
    BY <2>1, <2>2 DEF PositionOf, BoardAt
  <2> QED
    BY <2>4, <2>8, <2>9
<1>3. ASSUME frames = <<>>, returned.score = "in"
      PROVE  IsLine(Root, Line(0)) /\ (Line(0) # <<>> \/ LegalMoves(Root) = {})
  <2>1. n = 0 /\ ~(1 =< n) /\ 1 \in 1 .. (n + 1)
    BY <1>3
  <2>2. PICK at, sent : Numbers(at) /\ Numbers(sent) /\ Placed(at, sent)
    BY <1>1, <1>3, LineOfCalls
  <2>3. returned # NoResult
    BY <1>3 DEF SearchInv, CallsAreSound, CallsIn
  <2>4. OwnsRow(frames, returned, 1)
    BY <2>1, <2>3 DEF OwnsRow
  <2>5. at[1] = 0 /\ BoardAt(entries, 0).position = Root
    BY <2>2 DEF Placed, LineIn, PliesIn, PlacesIn, Board
  <2>6. IsLine(Root, pv[0])
    BY <2>1, <2>2, <2>4, <2>5 DEF Placed, RowsIn
  <2>7. RootHasALine(frames, returned, pv)
    BY DEF SearchInv, CallsAreSound
  <2>8. Root \in Positions /\ 0 \in 0 .. MaxSearchDepth
    BY Sizes, GraphAssumption DEF Positions
  <2>9. pv[0] = Line(0)
    BY <2>6, <2>8, LinesAreRows
  <2> QED
    BY <1>3, <2>6, <2>7, <2>9 DEF RootHasALine
<1> QED
  BY <1>2, <1>3 DEF PvIsALine

LEMMA StopsCleanly ==
  ASSUME SearchInv
  PROVE  StopIsClean
<1>1. NothingOfAStoppedSearchIsKept
  BY DEF SearchInv, CallsAreSound, NothingOfAStoppedSearchIsKept
<1>2. ASSUME NEW i \in DOMAIN frames PROVE frames[i].afterStop =< 1
  <2>1. frames[i] \in Call
    BY FramesAre
  <2>2. frames[i].afterStop \in {0, 1}
    BY <2>1 DEF Call
  <2> QED
    BY <2>2
<1> QED
  BY <1>1, <1>2 DEF StopIsClean, StopUnwinds

\* Every variable of a search keeps its type; the depth of a call never exceeds
\* what one extension by check gives, m_ply is at most one past the entry behind
\* m_stack, and the repetition stack holds at most one hash per ply.
THEOREM SearchIsWellTyped == Spec => []TypeInvariant
<1>1. SearchInv => TypeInvariant
  BY TypesHold
<1> QED
  BY <1>1, SearchIsSound, PTL

\* As long as a search has not left m_stack, m_ply, m_stack and m_repetition are
\* those of the calls of negamax() and quiesence() that have not returned, through
\* moves, null moves, razoring, repeated searches and a stop.
THEOREM TheStackFollowsTheCalls == Spec => []StackFollowsTheCalls
<1>1. SearchInv => StackFollowsTheCalls
  BY StackFollows
<1> QED
  BY <1>1, SearchIsSound, PTL

\* The row of the PV table of a node that is searched is a line of legal moves
\* from it, and a root that is inside its window has one to play.
THEOREM ThePvIsALine == Spec => []PvIsALine
<1>1. SearchInv => PvIsALine
  BY PvLines
<1> QED
  BY <1>1, SearchIsSound, PTL

\* pickNextMove() gives every move of a position once, unless quiet moves are
\* skipped, and negamax() takes a position for mate or stalemate only when it
\* has no legal move.
THEOREM ThePickerLosesNoMove == Spec => []NoMoveIsLost
<1>1. SearchInv => NoMoveIsLost
  BY NoMoveLost
<1> QED
  BY <1>1, SearchIsSound, PTL

\* After a stop no node makes a second move, and no score of a search that was
\* cut short reaches the PV table, the histories or the transposition table.
THEOREM AStopIsClean == Spec => []StopIsClean
<1>1. SearchInv => StopIsClean
  BY StopsCleanly
<1> QED
  BY <1>1, SearchIsSound, PTL

------------------------------------------------------------------------------
(* Draws by repetition *)

\* Every other hash is of a position with the same side to move.
Alternate(white, reps, position, total) ==
  \A j \in 1 .. total :
    reps[j] \in white <=> (position \in white <=> (total - j) % 2 = 1)

LEMMA Parity == \A x \in Nat : (x + 1) % 2 = 1 <=> ~(x % 2 = 1)
  OBVIOUS

LEMMA AlternateOn ==
  ASSUME NEW white, NEW reps, NEW here, NEW next, next \in white <=> here \notin white,
         NEW total \in Nat, Alternate(white, reps, here, total), reps[total + 1] = here
  PROVE  Alternate(white, reps, next, total + 1)
<1> SUFFICES ASSUME NEW j \in 1 .. (total + 1)
             PROVE  reps[j] \in white <=> (next \in white <=> ((total + 1) - j) % 2 = 1)
  BY DEF Alternate
<1>1. CASE j = total + 1
  <2>1. (total + 1) - j = 0
    BY <1>1
  <2>2. ~(((total + 1) - j) % 2 = 1)
    BY <2>1
  <2> QED
    BY <1>1, <2>2
<1>2. CASE j # total + 1
  <2>1. j \in 1 .. total /\ total - j \in Nat /\ (total + 1) - j = (total - j) + 1
    BY <1>2
  <2>2. reps[j] \in white <=> (here \in white <=> (total - j) % 2 = 1)
    BY <2>1 DEF Alternate
  <2>3. ((total + 1) - j) % 2 = 1 <=> ~((total - j) % 2 = 1)
    BY <2>1, Parity
  <2> QED
    BY <2>2, <2>3
<1> QED
  BY <1>1, <1>2

LEMMA HashesAlternate ==
  ASSUME SearchInv, NEW white, Sides(white), NEW at, NEW sent, Numbers(at), Numbers(sent),
         Placed(at, sent)
  PROVE  Alternate(white, repetitions, BoardAt(entries, at[Len(frames) + 1]).position,
                   Len(History) + sent[Len(frames) + 1])
<1> DEFINE n == Len(frames)
<1> DEFINE h == Len(History)
<1> DEFINE Pos(i) == BoardAt(entries, at[i]).position
<1> DEFINE Side(i) == Alternate(white, repetitions, Pos(i), h + sent[i])
<1>1. n \in Nat /\ h \in Nat /\ DOMAIN History = 1 .. h
  BY FramesAre, Sizes, GraphAssumption
<1>2. /\ PliesIn(frames, at, sent) /\ PlacesIn(frames, entries, at)
      /\ HashesIn(frames, entries, repetitions, at, sent)
  BY DEF Placed, LineIn
<1>3. Side(1)
  <2>1. sent[1] = 0 /\ h + sent[1] = h /\ Pos(1) = Root
    BY <1>1, <1>2 DEF PliesIn, PlacesIn, Board
  <2>2. \A j \in 1 .. h : repetitions[j] = History[j]
    BY <1>2 DEF HashesIn
  <2>3. \A j \in 1 .. h : History[j] \in white <=> (Root \in white <=> (h - j) % 2 = 1)
    BY <1>1 DEF Sides
  <2> HIDE DEF Pos
  <2> QED
    BY <2>1, <2>2, <2>3 DEF Alternate
<1>4. ASSUME NEW i \in 1 .. n, Side(i) PROVE Side(i + 1)
  <2>1. /\ at[i + 1] = at[i] + Steps(frames[i]) /\ sent[i + 1] = sent[i] + Made(frames[i])
        /\ PlaceFits(frames[i], BoardAt(entries, at[i]), BoardAt(entries, at[i + 1]))
        /\ at[i] \in Nat /\ sent[i] \in Nat
    BY <1>2 DEF PliesIn, PlacesIn, Numbers
  <2>2. CASE Steps(frames[i]) = 0
    <3>1. at[i + 1] = at[i] /\ sent[i + 1] = sent[i]
      BY <2>1, <2>2, StepsAre
    <3> QED
      BY <1>4, <3>1
  <2>3. CASE Steps(frames[i]) > 0
    <3>1. frames[i].pc \in {"full", "zero", "null"} /\ sent[i + 1] = sent[i] + 1
      BY <2>1, <2>3, StepsAre
    <3>2. Pos(i + 1) \in white <=> Pos(i) \notin white
      <4>1. CASE frames[i].pc = "null"
        BY <2>1, <4>1 DEF PlaceFits, Sides
      <4>2. CASE frames[i].pc \in {"full", "zero"}
        <5>1. Pos(i) \in DOMAIN Moves
          <6>1. i \in 1 .. (n + 1) /\ at[i] \in 0 .. (MaxSearchDepth - 1)
            BY <1>1, <1>2, <2>1, Sizes DEF PliesIn
          <6>2. entries[at[i]] \in Entry
            BY <6>1 DEF SearchInv, CallsAreSound, Types
          <6> QED
            BY <6>2 DEF Entry, Positions, BoardAt
        <5>2. frames[i].move \in Moves[Pos(i)] /\ Pos(i + 1) = frames[i].move.to
          BY <2>1, <4>2 DEF PlaceFits
        <5> HIDE DEF Pos
        <5> QED
          BY <5>1, <5>2 DEF Sides
      <4> QED
        BY <3>1, <4>1, <4>2
    <3>3. repetitions[(h + sent[i]) + 1] = Pos(i)
      <4>1. repetitions[h + sent[i] + 1] = Pos(i)
        BY <1>2, <2>3 DEF HashesIn
      <4> QED
        BY <4>1
    <3>4. h + sent[i] \in Nat /\ h + sent[i + 1] = (h + sent[i]) + 1
      BY <1>1, <2>1, <3>1
    <3> HIDE DEF Pos
    <3>5. Alternate(white, repetitions, Pos(i + 1), (h + sent[i]) + 1)
      BY <1>4, <3>2, <3>3, <3>4, AlternateOn
    <3> QED
      BY <3>4, <3>5
  <2>4. Steps(frames[i]) = 0 \/ Steps(frames[i]) > 0
    BY StepsAre
  <2> QED
    BY <2>2, <2>3, <2>4
<1> DEFINE good == {k \in Nat : k =< n => Side(k + 1)}
<1>5. 0 \in good
  <2>1. 0 + 1 = 1
    OBVIOUS
  <2> HIDE DEF Side
  <2> QED
    BY <1>3, <2>1
<1>6. ASSUME NEW k \in Nat, k \in good PROVE k + 1 \in good
  <2> HIDE DEF Side
  <2> SUFFICES ASSUME k + 1 =< n PROVE Side((k + 1) + 1)
    OBVIOUS
  <2>1. k =< n /\ k + 1 \in 1 .. n
    BY <1>1
  <2> QED
    BY <1>4, <1>6, <2>1
<1>7. n \in good
  <2> HIDE DEF good
  <2> QED
    BY <1>1, <1>5, <1>6, SetInduction
<1>8. Side(n + 1)
  <2> HIDE DEF Side
  <2> QED
    BY <1>1, <1>7
<1> QED
  BY <1>8

\* What falls behind with each step is behind after them.
LEMMA RunsBehind ==
  ASSUME NEW n \in Nat, NEW a \in 1 .. (n + 1), NEW x, NEW y,
         \A i \in 1 .. (n + 1) : x[i] \in Nat /\ y[i] \in Nat,
         \A i \in a .. n : x[i + 1] + y[i] =< x[i] + y[i + 1]
  PROVE  x[n + 1] + y[a] =< x[a] + y[n + 1]
<1> DEFINE Behind(i) == x[i] + y[a] =< x[a] + y[i]
<1> DEFINE good == {k \in Nat : a + k =< n + 1 => Behind(a + k)}
<1>1. a \in Nat /\ a # 0 /\ x[a] \in Nat /\ y[a] \in Nat
  OBVIOUS
<1>2. 0 \in good
  <2>1. a + 0 = a /\ Behind(a)
    BY <1>1
  <2> HIDE DEF Behind
  <2> QED
    BY <2>1
<1>3. ASSUME NEW k \in Nat, k \in good PROVE k + 1 \in good
  <2> SUFFICES ASSUME a + (k + 1) =< n + 1 PROVE Behind(a + (k + 1))
    OBVIOUS
  <2> DEFINE i == a + k
  <2>1. i \in a .. n /\ i \in 1 .. (n + 1) /\ i + 1 \in 1 .. (n + 1) /\ a + (k + 1) = i + 1
    BY <1>1
  <2>2. Behind(i)
    BY <1>3, <2>1
  <2> HIDE DEF i
  <2>3. /\ x[i] \in Nat /\ y[i] \in Nat /\ x[i + 1] \in Nat /\ y[i + 1] \in Nat
        /\ x[i + 1] + y[i] =< x[i] + y[i + 1]
    BY <2>1
  <2>4. Behind(i + 1)
    BY <1>1, <2>2, <2>3
  <2> HIDE DEF Behind
  <2> QED
    BY <2>1, <2>4
<1>4. \A k \in Nat : k \in good
  <2> HIDE DEF good
  <2> QED
    BY <1>2, <1>3, SetInduction
<1>5. PICK k \in Nat : a + k = n + 1
  <2>1. (n + 1) - a \in Nat /\ a + ((n + 1) - a) = n + 1
    BY <1>1
  <2> QED
    BY <2>1
<1> HIDE DEF Behind
<1>6. a + k =< n + 1
  BY <1>5
<1>7. Behind(a + k)
  BY <1>4, <1>6
<1>8. Behind(n + 1)
  BY <1>5, <1>7
<1> QED
  BY <1>8 DEF Behind

\* The moves of the line that set the half-move clock to 0, the index of the
\* first position after the last of them, and whether a null move was made.
Zeroing == {i \in OnTheLine : IsZeroing(frames[i].move) /\ frames[i].pc # "null"}
First ==
  IF Zeroing = {} THEN Len(History) - RootHalfMoves
  ELSE Len(History) + Cardinality({j \in OnTheLine : \E z \in Zeroing : j =< z})
Nulls == \E i \in OnTheLine : frames[i].pc = "null"

HalfMoves(at, i) == BoardAt(entries, at[i]).halfMoves

\* Each call moves the half-move clock and the ply with the hashes, a null move
\* excepted.
LEMMA ClockSteps ==
  ASSUME SearchInv, NEW at, NEW sent, Numbers(at), Numbers(sent), Placed(at, sent),
         NEW i \in 1 .. Len(frames)
  PROVE  /\ HalfMoves(at, i) \in Nat /\ HalfMoves(at, i + 1) \in Nat
         /\ i \in Zeroing => HalfMoves(at, i + 1) = 0
         /\ i \notin Zeroing =>
              HalfMoves(at, i + 1) + sent[i] =< HalfMoves(at, i) + sent[i + 1]
         /\ i \notin Zeroing /\ frames[i].pc # "null" =>
              HalfMoves(at, i) + sent[i + 1] =< HalfMoves(at, i + 1) + sent[i]
         /\ frames[i].pc # "null" => at[i + 1] + sent[i] = at[i] + sent[i + 1]
<1> DEFINE n == Len(frames)
<1>1. n \in Nat /\ DOMAIN frames = 1 .. n /\ i \in 1 .. (n + 1) /\ i + 1 \in 1 .. (n + 1)
  BY FramesAre
<1>2. /\ PliesIn(frames, at, sent)
      /\ PlaceFits(frames[i], BoardAt(entries, at[i]), BoardAt(entries, at[i + 1]))
  BY DEF Placed, LineIn, PlacesIn
<1>3. ASSUME NEW k \in 1 .. (n + 1) PROVE HalfMoves(at, k) \in Nat
  <2>1. at[k] \in 0 .. (MaxSearchDepth - 1)
    BY <1>1, <1>2, Sizes DEF PliesIn, Numbers
  <2>2. entries[at[k]] \in Entry
    BY <2>1 DEF SearchInv, CallsAreSound, Types
  <2> QED
    BY <2>2 DEF Entry, HalfMoves, BoardAt
<1> DEFINE x == HalfMoves(at, i)
<1> DEFINE x2 == HalfMoves(at, i + 1)
<1>4. /\ at[i] \in Nat /\ sent[i] \in Nat /\ at[i + 1] \in Nat /\ sent[i + 1] \in Nat
      /\ at[i + 1] = at[i] + Steps(frames[i]) /\ sent[i + 1] = sent[i] + Made(frames[i])
      /\ x \in Nat /\ x2 \in Nat
  BY <1>1, <1>2, <1>3 DEF PliesIn, Numbers
<1>5. i \in Zeroing <=> /\ Steps(frames[i]) > 0 /\ IsZeroing(frames[i].move)
                        /\ frames[i].pc # "null"
  BY <1>1 DEF Zeroing, OnTheLine
<1>6. CASE frames[i].pc = "null"
  <2>1. x2 = x /\ Steps(frames[i]) = 2 /\ Made(frames[i]) = 1
    BY <1>2, <1>6, StepsAre, SMTT(60) DEF PlaceFits, HalfMoves
  <2> HIDE DEF x, x2
  <2>2. x2 + sent[i] =< x + sent[i + 1]
    BY <1>4, <2>1
  <2> QED
    BY <1>4, <1>5, <1>6, <2>2 DEF x, x2
<1>7. CASE frames[i].pc \in {"full", "zero"}
  <2>1. x2 = Clock(frames[i].move, x) /\ Steps(frames[i]) = 1 /\ Made(frames[i]) = 1
    BY <1>2, <1>7, StepsAre, SMTT(60) DEF PlaceFits, HalfMoves
  <2>2. x2 = IF i \in Zeroing THEN 0 ELSE x + 1
    BY <1>5, <1>7, <2>1 DEF Clock
  <2> HIDE DEF x, x2
  <2>3. i \notin Zeroing => x2 + sent[i] =< x + sent[i + 1] /\ x + sent[i + 1] =< x2 + sent[i]
    BY <1>4, <2>1, <2>2
  <2>4. at[i + 1] + sent[i] = at[i] + sent[i + 1]
    BY <1>4, <2>1
  <2> QED
    BY <1>4, <2>2, <2>3, <2>4 DEF x, x2
<1>8. CASE frames[i].pc \notin {"full", "zero", "null"}
  <2>1. Steps(frames[i]) = 0 /\ Made(frames[i]) = 0
    BY <1>8, StepsAre
  <2>2. at[i + 1] = at[i] /\ sent[i + 1] = sent[i] /\ i \notin Zeroing
    BY <1>4, <1>5, <2>1
  <2>3. x2 = x
    BY <2>2 DEF HalfMoves
  <2> HIDE DEF x, x2
  <2> QED
    BY <1>4, <2>2, <2>3 DEF x, x2
<1> QED
  BY <1>6, <1>7, <1>8

\* The clock reaches back to the first position after the last zeroing move, or
\* less far past a null move; without one the ply counts the hashes of the line.
LEMMA ClockRuns ==
  ASSUME SearchInv, NEW at, NEW sent, Numbers(at), Numbers(sent), Placed(at, sent)
  PROVE  /\ board.halfMoves \in Nat /\ First \in Int
         /\ First =< Len(repetitions) - board.halfMoves
         /\ ~Nulls => /\ Len(repetitions) - board.halfMoves = First
                      /\ Len(repetitions) - ply = Len(History)
<1> DEFINE n == Len(frames)
<1> DEFINE h == Len(History)
<1> DEFINE x == [i \in 1 .. (n + 1) |-> HalfMoves(at, i)]
<1>1. /\ n \in Nat /\ DOMAIN frames = 1 .. n /\ h \in Nat /\ RootHalfMoves \in Nat
      /\ OnTheLine = {i \in 1 .. n : Steps(frames[i]) > 0}
  BY FramesAre, Sizes, GraphAssumption DEF OnTheLine
<1>2. /\ PliesIn(frames, at, sent) /\ PlacesIn(frames, entries, at) /\ ply = at[n + 1]
      /\ Len(repetitions) = h + sent[n + 1]
  BY DEF Placed, LineIn, HashesIn
<1>3. at[1] = 0 /\ sent[1] = 0 /\ HalfMoves(at, 1) = RootHalfMoves
  BY <1>2 DEF PliesIn, PlacesIn, HalfMoves, Board
<1>4. board.halfMoves = HalfMoves(at, n + 1)
  BY <1>2 DEF board, HalfMoves, BoardAt
<1>5. \A i \in 1 .. (n + 1) : HalfMoves(at, i) \in Nat
  <2> SUFFICES ASSUME NEW i \in 1 .. (n + 1), i # 1 PROVE HalfMoves(at, i) \in Nat
    BY <1>1, <1>3
  <2>1. i - 1 \in 1 .. n /\ (i - 1) + 1 = i
    BY <1>1
  <2>2. HalfMoves(at, (i - 1) + 1) \in Nat
    BY <2>1, ClockSteps
  <2> QED
    BY <2>1, <2>2
<1>6. \A i \in 1 .. (n + 1) : x[i] = HalfMoves(at, i) /\ x[i] \in Nat /\ sent[i] \in Nat /\ at[i] \in Nat
  BY <1>1, <1>5 DEF Numbers
<1>7. \A i \in 1 .. n : i \in 1 .. (n + 1) /\ i + 1 \in 1 .. (n + 1)
  BY <1>1
<1> HIDE DEF x
<1>8. ASSUME NEW i \in 1 .. n
      PROVE  /\ i \in Zeroing => x[i + 1] = 0
             /\ i \notin Zeroing => x[i + 1] + sent[i] =< x[i] + sent[i + 1]
             /\ i \notin Zeroing /\ ~Nulls => sent[i + 1] + x[i] =< sent[i] + x[i + 1]
             /\ ~Nulls => at[i + 1] + sent[i] =< at[i] + sent[i + 1]
             /\ ~Nulls => sent[i + 1] + at[i] =< sent[i] + at[i + 1]
  <2>1. x[i] = HalfMoves(at, i) /\ x[i + 1] = HalfMoves(at, i + 1)
    BY <1>6, <1>7
  <2>2. ~Nulls => frames[i].pc # "null"
    <3>1. frames[i].pc = "null" => i \in OnTheLine
      BY <1>1, StepsAre
    <3> QED
      BY <3>1 DEF Nulls
  <2>3. /\ x[i] \in Nat /\ x[i + 1] \in Nat /\ sent[i] \in Nat /\ sent[i + 1] \in Nat
        /\ at[i] \in Nat /\ at[i + 1] \in Nat
    BY <1>6, <1>7
  <2>4. /\ i \in Zeroing => x[i + 1] = 0
        /\ i \notin Zeroing => x[i + 1] + sent[i] =< x[i] + sent[i + 1]
        /\ i \notin Zeroing /\ ~Nulls => x[i] + sent[i + 1] =< x[i + 1] + sent[i]
        /\ ~Nulls => at[i + 1] + sent[i] = at[i] + sent[i + 1]
    BY <2>1, <2>2, ClockSteps
  <2> QED
    BY <2>3, <2>4, SMTT(60)
\* The run of calls since the clock was last 0, or since the root.
<1>9. \E a \in 1 .. (n + 1) :
        /\ \A i \in a .. n : i \notin Zeroing
        /\ First = h + sent[a] - x[a] /\ First \in Int
  <2>1. CASE Zeroing = {}
    <3>1. 1 \in 1 .. (n + 1) /\ x[1] = RootHalfMoves
      BY <1>1, <1>3, <1>6
    <3>2. First = h + sent[1] - x[1] /\ First \in Int
      BY <1>1, <1>3, <2>1, <3>1 DEF First
    <3> QED
      BY <2>1, <3>1, <3>2
  <2>2. CASE Zeroing # {}
    <3>1. Zeroing \subseteq OnTheLine /\ Zeroing \in SUBSET Nat /\ \A z \in Zeroing : z \in 1 .. n /\ z =< n
      BY <1>1 DEF Zeroing
    <3>2. PICK z \in Zeroing : \A y \in Zeroing : y =< z
      BY <1>1, <2>2, <3>1, GreatestNatural
    <3>3. z \in 1 .. n /\ z \in 0 .. n /\ z + 1 \in 1 .. (n + 1)
      BY <1>1, <3>1, <3>2
    <3>4. \A i \in (z + 1) .. n : i \notin Zeroing
      BY <3>2, <3>3
    <3>5. {j \in OnTheLine : \E y \in Zeroing : j =< y} = {j \in OnTheLine : j =< z}
      <4>1. ASSUME NEW j \in OnTheLine, NEW y \in Zeroing, j =< y PROVE j =< z
        <5>1. j \in Nat /\ y \in Nat /\ z \in Nat /\ y =< z
          BY <1>1, <3>1, <3>2
        <5> QED
          BY <4>1, <5>1
      <4> QED
        BY <3>2, <4>1
    <3>6. CountsTo(OnTheLine, sent, z)
      <4>1. \A i \in 1 .. n : sent[i + 1] = sent[i] + Made(frames[i])
        BY <1>2 DEF PliesIn
      <4> QED
        BY <1>1, <1>3, <3>3, <4>1, LineIsCounted
    <3>7. Cardinality({j \in OnTheLine : j =< z}) = sent[z + 1]
      BY <3>6 DEF CountsTo
    <3>8. First = h + sent[z + 1]
      BY <2>2, <3>5, <3>7 DEF First
    <3>9. x[z + 1] = 0 /\ sent[z + 1] \in Nat
      BY <1>6, <1>8, <3>2, <3>3
    <3>10. First = h + sent[z + 1] - x[z + 1] /\ First \in Int
      BY <1>1, <3>8, <3>9
    <3> QED
      BY <3>3, <3>4, <3>10
  <2> QED
    BY <2>1, <2>2
<1>10. PICK a \in 1 .. (n + 1) : /\ \A i \in a .. n : i \notin Zeroing
                                 /\ First = h + sent[a] - x[a] /\ First \in Int
  BY <1>9
<1>11. \A i \in a .. n : i \in 1 .. n
  BY <1>1
<1>12. x[n + 1] + sent[a] =< x[a] + sent[n + 1]
  <2>1. \A i \in a .. n : x[i + 1] + sent[i] =< x[i] + sent[i + 1]
    BY <1>8, <1>10, <1>11
  <2> QED
    BY <1>1, <1>6, <2>1, RunsBehind
<1>13. ASSUME ~Nulls PROVE sent[n + 1] + x[a] =< sent[a] + x[n + 1]
  <2>1. \A i \in a .. n : sent[i + 1] + x[i] =< sent[i] + x[i + 1]
    BY <1>8, <1>10, <1>11, <1>13
  <2> QED
    BY <1>1, <1>6, <2>1, RunsBehind
<1>14. ASSUME ~Nulls PROVE at[n + 1] + sent[1] =< at[1] + sent[n + 1]
  <2>1. \A i \in 1 .. n : at[i + 1] + sent[i] =< at[i] + sent[i + 1]
    BY <1>8, <1>14
  <2> QED
    BY <1>1, <1>6, <2>1, RunsBehind
<1>15. ASSUME ~Nulls PROVE sent[n + 1] + at[1] =< sent[1] + at[n + 1]
  <2>1. \A i \in 1 .. n : sent[i + 1] + at[i] =< sent[i] + at[i + 1]
    BY <1>8, <1>15
  <2> QED
    BY <1>1, <1>6, <2>1, RunsBehind
\* The numbers compared.
<1> DEFINE xa == x[a]
<1> DEFINE xn == x[n + 1]
<1> DEFINE sa == sent[a]
<1> DEFINE sn == sent[n + 1]
<1> DEFINE len == Len(repetitions)
<1> DEFINE half == board.halfMoves
<1>16. /\ xa \in Nat /\ xn \in Nat /\ sa \in Nat /\ sn \in Nat /\ h \in Nat
       /\ half = xn /\ len = h + sn /\ First = h + sa - xa
  BY <1>1, <1>2, <1>4, <1>6, <1>10
<1>17. xn + sa =< xa + sn
  BY <1>12
<1>18. ~Nulls => sn + xa =< sa + xn
  BY <1>13
<1>19. ~Nulls => ply =< sn /\ sn =< ply /\ ply \in Nat
  <2>1. ply = at[n + 1] /\ at[n + 1] \in Nat /\ at[1] = 0 /\ sent[1] = 0 /\ sent[n + 1] \in Nat
    BY <1>1, <1>2, <1>3, <1>6
  <2>2. at[n + 1] + 0 = at[n + 1] /\ sent[n + 1] + 0 = sent[n + 1] /\ 0 + at[n + 1] = at[n + 1]
        /\ 0 + sent[n + 1] = sent[n + 1]
    BY <2>1
  <2> QED
    BY <1>14, <1>15, <2>1, <2>2, Zenon
<1> HIDE DEF xa, xn, sa, sn, len, half, h
<1>20. half \in Nat /\ First \in Int /\ First =< len - half
  BY <1>16, <1>17
<1>21. ~Nulls => len - half = First
  BY <1>16, <1>17, <1>18
<1>22. ~Nulls => len - ply = h
  BY <1>16, <1>19
<1> QED
  BY <1>20, <1>21, <1>22 DEF len, half, h

\* Where a draw by repetition is looked for: on the repetition stack, and by
\* the rule.
Looked ==
  {i \in 0..(Len(repetitions) - 2) : /\ (Len(repetitions) - i) % 2 = 0
                                     /\ i >= Len(repetitions) - board.halfMoves
                                     /\ repetitions[i + 1] = board.position}
Occurred ==
  {i \in 0..(Len(repetitions) - 1) : i >= First /\ repetitions[i + 1] = board.position}

LEMMA LookedForAre ==
  ASSUME SearchInv, InsideStack
  PROVE  /\ Looked \subseteq Occurred
         /\ ~Nulls => Looked = Occurred /\ Len(repetitions) - ply = Len(History)
<1> DEFINE n == Len(repetitions)
<1>1. PICK at, sent : Numbers(at) /\ Numbers(sent) /\ Placed(at, sent)
  BY LineOfCalls
<1>2. /\ board.halfMoves \in Nat /\ First \in Int /\ First =< n - board.halfMoves
      /\ ~Nulls => n - board.halfMoves = First /\ n - ply = Len(History)
  BY <1>1, ClockRuns
<1>3. n \in Nat
  BY DEF SearchInv, CallsAreSound, Types
<1>4. Looked \subseteq Occurred
  <2> SUFFICES ASSUME NEW i \in Looked PROVE i \in Occurred
    OBVIOUS
  <2>1. /\ i \in 0..(n - 2) /\ i >= n - board.halfMoves
        /\ repetitions[i + 1] = board.position
    BY DEF Looked
  <2>2. i \in 0..(n - 1) /\ i >= First
    BY <1>2, <1>3, <2>1
  <2> QED
    BY <2>1, <2>2 DEF Occurred
<1>5. PICK white : Sides(white)
  BY SidesAssumption
<1>6. Alternate(white, repetitions, board.position, n)
  <2>1. /\ ply = at[Len(frames) + 1] /\ n = Len(History) + sent[Len(frames) + 1]
    BY <1>1 DEF Placed, LineIn, HashesIn
  <2>2. board = BoardAt(entries, at[Len(frames) + 1])
    BY <2>1 DEF board, BoardAt
  <2> QED
    BY <1>1, <1>5, <2>1, <2>2, HashesAlternate
<1>7. ASSUME ~Nulls PROVE Occurred \subseteq Looked
  <2> SUFFICES ASSUME NEW i \in Occurred PROVE i \in Looked
    OBVIOUS
  <2>1. i \in 0..(n - 1) /\ i >= First /\ repetitions[i + 1] = board.position
    BY DEF Occurred
  <2>2. i \in Nat /\ i + 1 \in 1 .. n /\ n - (i + 1) \in Nat /\ n - i = (n - (i + 1)) + 1
    BY <1>3, <2>1
  <2>3. (n - (i + 1)) % 2 = 1
    BY <1>6, <2>1, <2>2 DEF Alternate
  <2>4. ((n - (i + 1)) + 1) % 2 = 0
    <3>1. \A y \in Nat : y % 2 = 1 => (y + 1) % 2 = 0
      OBVIOUS
    <3> QED
      BY <2>2, <2>3, <3>1
  <2>5. n - (i + 1) # 0
    BY <2>3
  <2>6. i \in 0..(n - 2)
    BY <1>3, <2>1, <2>5
  <2>7. i >= n - board.halfMoves
    BY <1>2, <1>7, <2>1
  <2> QED
    BY <2>1, <2>2, <2>4, <2>6, <2>7 DEF Looked
<1> QED
  BY <1>2, <1>4, <1>7

LEMMA DrawsFollowTheRule ==
  ASSUME SearchInv
  PROVE  RepetitionIsTheRule
<1> SUFFICES ASSUME InsideStack PROVE RepetitionIsTheRule
  BY DEF RepetitionIsTheRule, At, Running
<1>1. /\ Looked \subseteq Occurred
      /\ ~Nulls => Looked = Occurred /\ Len(repetitions) - ply = Len(History)
  BY LookedForAre
<1>2. isRepetition(board, ply) <=>
        (\E i \in Looked : i > Len(repetitions) - ply) \/ Cardinality(Looked) >= 2
  BY DEF isRepetition, Looked
<1> DEFINE rule == (\E i \in Occurred : i > Len(History)) \/ Cardinality(Occurred) >= 2
<1>3. ~Nulls => (isRepetition(board, ply) <=> rule)
  BY <1>1, <1>2
<1>4. isRepetition(board, ply) => Occurred # {}
  <2>1. Looked = {} => ~(Cardinality(Looked) >= 2)
    BY FS_EmptySet
  <2> QED
    BY <1>1, <1>2, <2>1
<1>5. IF Nulls THEN isRepetition(board, ply) => Occurred # {} ELSE isRepetition(board, ply) <=> rule
  BY <1>3, <1>4
<1> HIDE DEF rule
<1> QED
  BY <1>5 DEF RepetitionIsTheRule, Nulls, Occurred, First, Zeroing, rule

\* A draw claimed by checkForDraw() for a repetition is one by the rule its
\* comments state, wherever the root, the zeroing moves and the hashes of the
\* game lie; past a null move the position has at least occurred before.
THEOREM DrawsAreByTheRule == Spec => []RepetitionIsTheRule
<1>1. SearchInv => RepetitionIsTheRule
  BY DrawsFollowTheRule
<1> QED
  BY <1>1, SearchIsSound, PTL
=============================================================================
