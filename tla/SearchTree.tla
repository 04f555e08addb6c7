----------------------------- MODULE SearchTree -----------------------------
(***************************************************************************)
(* One search of a Searcher (search/searcher.h): negamax(), quiesence(),   *)
(* null moves and the move picker (search/move_picker.h) as a machine with *)
(* an explicit call stack, over a small graph of positions.                *)
(*                                                                         *)
(* A score is what its caller tells apart: "low" (at most alpha), "in" the *)
(* window or "high" (at least beta).  Whatever compares numbers - static   *)
(* evaluation, margins, reductions, the answer of the transposition table, *)
(* the order within a phase of the picker - is a choice; every other guard *)
(* is the code's.  No tablebases are loaded.                               *)
(*                                                                         *)
(* m_stack and the PV table have the sizes of the code.  A move into the   *)
(* deepest ply writes behind m_stack, over the iterator the next statement *)
(* follows, and a null move two plies on makes updateLength() throw: the   *)
(* program ends there, and so does the search of the model.                *)
(***************************************************************************)
EXTENDS Integers, SequencesExt, FiniteSets

CONSTANTS
  Root,            \* the position to search
  RootHalfMoves,   \* its half-move clock
  History,         \* the hashes of the game before it (updateRepetition)
  Moves,           \* [position -> pseudo-legal moves]
  NullMoves,       \* [position -> position after a null move], where one is allowed
  Checked,         \* positions with the king attacked
  DeadDrawn,       \* positions with insufficient material
  Depth,           \* depth of the search
  MaxSearchDepth   \* s_maxSearchDepth

ASSUME DepthAssumption == Depth \in Nat \ {0} /\ MaxSearchDepth \in Nat \ {0}

\* Captures by SEE, promotions without a capture, and quiet moves with and
\* without a flag of their own (castling, double push).
Kinds == {"Good", "Bad", "QueenPromotion", "BadPromotion", "Quiet", "Special"}

\* Positions have moves to positions; what a hash of the game is does not matter.
ASSUME GraphAssumption ==
  /\ Root \in DOMAIN Moves /\ RootHalfMoves \in Nat
  /\ History \in Seq({History[i] : i \in DOMAIN History})
  /\ \A position \in DOMAIN Moves : IsFiniteSet(Moves[position])
  /\ \A position \in DOMAIN Moves : \A m \in Moves[position] :
       m \in [from : DOMAIN Moves, to : DOMAIN Moves, kind : Kinds, pawn : BOOLEAN,
               legal : BOOLEAN]
  /\ \A position \in DOMAIN NullMoves : NullMoves[position] \in DOMAIN Moves

\* The positions with white to move, if moves and null moves change sides, and
\* so did the moves of the game.
Sides(white) ==
  /\ \A position \in DOMAIN Moves : \A m \in Moves[position] :
       m.to \in white <=> position \notin white
  /\ \A position \in DOMAIN NullMoves : NullMoves[position] \in white <=> position \notin white
  /\ \A i \in DOMAIN History :
       History[i] \in white <=> (Root \in white <=> (Len(History) - i) % 2 = 1)

\* A hash tells who is to move (hashPlayer).
ASSUME SidesAssumption ==
  \E white \in SUBSET (DOMAIN Moves \cup {History[i] : i \in DOMAIN History}) : Sides(white)

VARIABLES
  frames,          \* the calls of negamax() and quiesence() that have not returned
  returned,        \* what the last call returned, until its caller goes on
  entries,         \* m_stack: board and move of each ply
  ply,             \* m_ply, and the index of m_stackItr
  repetitions,     \* m_repetition: hashes of the game and of the line
  pvTable,         \* m_pvTable: rows of moves by ply
  pvLength,        \* m_pvLength: where each row ends
  searchStopped,   \* isSearchStopped()
  keptCut          \* history: a result of a stopped search reached a table

vars == <<frames, returned, entries, ply, repetitions, pvTable, pvLength, searchStopped,
          keptCut>>

Scores == {"low", "in", "high"}
Negated == [low |-> "high", in |-> "in", high |-> "low"]
\* A zero window has nothing inside.
ScoresOf(isPv) == IF isPv THEN Scores ELSE {"low", "high"}

NoMove == [from |-> Root, to |-> Root, kind |-> "None", pawn |-> FALSE, legal |-> FALSE]
NoResult == [score |-> "none", cut |-> FALSE]

IsNoisy(move) == move.kind \in {"Good", "Bad", "QueenPromotion", "BadPromotion"}
IsCapture(move) == move.kind \in {"Good", "Bad"}
IsZeroing(move) == IsCapture(move) \/ move.pawn
LegalMoves(position) == {m \in Moves[position] : m.legal}

----------------------------------------------------------------------------
(* Calls.                                                                  *)

Top == frames[Len(frames)]
board == entries[ply].board
isChecked == board.position \in Checked

\* skipQuiets, left (m_moves up to m_tail), ttMove and phase are the picker's;
\* tried is what it gave.
Frame(fn, depth, isPv, isRoot, nullSearch) ==
  [fn |-> fn, pc |-> "enter", depth |-> depth, isPv |-> isPv, isRoot |-> isRoot,
   nullSearch |-> nullSearch, phase |-> "TtMove", left |-> <<>>, tried |-> {},
   ttMove |-> NoMove, skipQuiets |-> fn = "quiesence", move |-> NoMove, reduction |-> 0,
   movesSearched |-> 0, score |-> "low", cut |-> FALSE, afterStop |-> 0]

Replace(frame) == frames' = [frames EXCEPT ![Len(frames)] = frame]
CallFrom(frame, callee) == frames' = Append([frames EXCEPT ![Len(frames)] = frame], callee)
Goto(pc) == [Top EXCEPT !.pc = pc]

Return(score, cut) ==
  /\ frames' = Front(frames)
  /\ returned' = [score |-> score, cut |-> cut]

\* Nothing goes on from a write behind m_stack: the tests of m_ply in negamax()
\* and quiesence() come after it.
InsideStack == ply \in DOMAIN entries
Running == frames # <<>> /\ returned = NoResult /\ InsideStack
At(fn, pc) == Running /\ Top.fn = fn /\ Top.pc = pc
Resumed(pc) == frames # <<>> /\ returned # NoResult /\ InsideStack /\ Top.pc = pc

treeVars == <<entries, ply, repetitions>>
pvVars == <<pvTable, pvLength>>

----------------------------------------------------------------------------
(* The stack of positions.                                                 *)

Board(position, halfMoves) == [position |-> position, halfMoves |-> halfMoves]

Init ==
  /\ frames = <<Frame("negamax", Depth, TRUE, TRUE, FALSE)>>
  /\ returned = NoResult
  /\ entries = [p \in 0..(MaxSearchDepth - 1) |->
                  [board |-> Board(Root, RootHalfMoves), move |-> NoMove]]
  /\ ply = 0
  /\ repetitions = History
  /\ pvTable = [p \in 0..MaxSearchDepth |-> [q \in 0..MaxSearchDepth |-> NoMove]]
  /\ pvLength = [p \in 0..MaxSearchDepth |-> 0]
  /\ searchStopped = FALSE
  /\ keptCut = FALSE

\* The entry of ply p, when m_stack has one.
Written(p, entry) == IF p \in DOMAIN entries THEN [entries EXCEPT ![p] = entry] ELSE entries

\* A move that leaves the own king attacked is not made.
MakeMove(move) ==
  /\ move.legal
  /\ repetitions' = Append(repetitions, board.position)
  /\ ply' = ply + 1
  /\ entries' = Written(ply + 1,
       [board |-> Board(move.to, IF IsZeroing(move) THEN 0 ELSE board.halfMoves + 1),
        move |-> move])

\* Mutant: the hash stays on the repetition stack.
UndoMoveKeepsHash ==
  /\ ply' = ply - 1
  /\ UNCHANGED <<repetitions, entries>>

UndoMove ==
  /\ ply' = ply - 1
  /\ repetitions' = Front(repetitions)
  /\ UNCHANGED entries

\* The half-move clock and the entry's move are left as they are.
MakeNullMove ==
  /\ board.position \in DOMAIN NullMoves
  /\ repetitions' = Append(repetitions, board.position)
  /\ ply' = ply + 2
  /\ entries' = Written(ply + 2,
       [board |-> Board(NullMoves[board.position], board.halfMoves),
        move |-> entries[ply + 2].move])

\* Mutant: the null move is undone like a move.
UndoNullMoveByOne ==
  /\ ply' = ply - 1
  /\ repetitions' = Front(repetitions)
  /\ UNCHANGED entries

UndoNullMove ==
  /\ ply' = ply - 2
  /\ repetitions' = Front(repetitions)
  /\ UNCHANGED entries

----------------------------------------------------------------------------
(* Draws.                                                                  *)

\* Mutant: the root counts as a position of the search.
isRepetitionOfRoot(b, p) ==
  LET count == Len(repetitions)
      same == {i \in 0..(count - 2) : /\ (count - i) % 2 = 0
                                      /\ i >= count - b.halfMoves
                                      /\ repetitions[i + 1] = b.position}
  IN \/ \E i \in same : i >= count - p
     \/ Cardinality(same) >= 2

\* Every other hash, back to the last zeroing move: one match after the root
\* or two in all.  Indices are those of m_repetitions.
isRepetition(b, p) ==
  LET count == Len(repetitions)
      same == {i \in 0..(count - 2) : /\ (count - i) % 2 = 0
                                      /\ i >= count - b.halfMoves
                                      /\ repetitions[i + 1] = b.position}
  IN \/ \E i \in same : i > count - p
     \/ Cardinality(same) >= 2

checkForDraw ==
  \/ board.halfMoves >= 100
  \/ isRepetition(board, ply)
  \/ board.position \in DeadDrawn

----------------------------------------------------------------------------
(* The move picker.                                                        *)

PhaseOrder == <<"TtMove", "NoisyGood", "QuietMove", "NoisyBad", "Done">>
PhaseIndex(phase) == CHOOSE i \in 1..5 : PhaseOrder[i] = phase

\* Whether a phase may give a move next; a ttMove that is no move of the
\* position is never found.
MayGive(f, phase, m) ==
  CASE phase = "TtMove" -> m = f.ttMove
    [] phase = "NoisyGood" -> m.kind \in {"Good", "QueenPromotion"}
    [] phase = "QuietMove" -> ~IsNoisy(m) /\ ~f.skipQuiets
    [] phase = "NoisyBad" -> IsNoisy(m) /\ ~(f.skipQuiets /\ m.kind = "BadPromotion")
    [] OTHER -> FALSE

\* The places in the list of the moves a phase may give next.
Pickable(f, phase) == {i \in DOMAIN f.left : MayGive(f, phase, f.left[i])}

\* quiesence() ends after the good captures.
PhasesOf(f) ==
  IF f.fn = "negamax" THEN {"TtMove", "NoisyGood", "QuietMove", "NoisyBad"}
                      ELSE {"TtMove", "NoisyGood"}

\* pickNextMove(): the first phase from the present one with a move to give.
NextPhase(f) ==
  LET open == {i \in PhaseIndex(f.phase)..4 : /\ PhaseOrder[i] \in PhasesOf(f)
                                             /\ Pickable(f, PhaseOrder[i]) # {}}
  IN IF open = {} THEN "Done" ELSE PhaseOrder[CHOOSE i \in open : \A j \in open : i =< j]

\* Mutant: the gap is not filled.
LeavesGap(left, i) == Front(left)

\* The last move of the list fills the gap of the one at i.
FillsGap(left, i) ==
  [k \in 1..(Len(left) - 1) |-> IF k = i THEN left[Len(left)] ELSE left[k]]

\* pickMove()
Picked(f, i) ==
  [f EXCEPT !.phase = NextPhase(f), !.left = FillsGap(@, i), !.tried = @ \cup {f.left[i]},
            !.move = f.left[i],
            !.ttMove = IF NextPhase(f) = "TtMove" THEN NoMove ELSE @]

\* The constructor and GenerateMoves; in what order the moves are generated does
\* not matter.
WithPicker(f, ttMove) ==
  IF f.fn = "negamax"
    THEN [f EXCEPT !.left = SetToSeq(Moves[board.position]), !.ttMove = ttMove]
    ELSE [f EXCEPT !.left = SetToSeq({m \in Moves[board.position] : IsNoisy(m)}),
                   !.ttMove = IF IsCapture(ttMove) THEN ttMove ELSE NoMove]

\* What the transposition table may hold: nothing, or a move of the position.
TtMoves == {NoMove} \cup Moves[board.position]

----------------------------------------------------------------------------
(* negamax()                                                               *)

\* Mutant: the row keeps the length of an earlier node.
KeepRow == UNCHANGED pvVars

\* updateLength(): the moves of the row stay.
ResetRow ==
  /\ pvLength' = [pvLength EXCEPT ![ply] = ply]
  /\ UNCHANGED pvTable

AnyScore(cut) == \E score \in ScoresOf(Top.isPv) : Return(score, cut)

\* Draw, table hit or the deepest ply.
ReturnEarly ==
  /\ At("negamax", "enter")
  /\ \/ ~Top.isRoot /\ checkForDraw
     \/ ~Top.isRoot /\ ~Top.isPv
     \/ ply >= MaxSearchDepth
  /\ ResetRow
  /\ AnyScore(FALSE)
  /\ UNCHANGED <<treeVars, searchStopped, keptCut>>

NotTooDeep ==
  /\ Top.isRoot \/ ~checkForDraw
  /\ ply < MaxSearchDepth

Extended == Top.depth + (IF isChecked THEN 1 ELSE 0)

EnterQuiescence ==
  /\ At("negamax", "enter")
  /\ NotTooDeep
  /\ Extended = 0
  /\ ResetRow
  /\ Replace(Frame("quiesence", 0, Top.isPv, FALSE, FALSE))
  /\ UNCHANGED <<returned, treeVars, searchStopped, keptCut>>

EnterNode ==
  /\ At("negamax", "enter")
  /\ NotTooDeep
  /\ Extended > 0
  /\ ResetRow
  /\ Replace([Top EXCEPT !.pc = IF Top.isPv \/ isChecked THEN "tt" ELSE "static",
                         !.depth = Extended])
  /\ UNCHANGED <<returned, treeVars, searchStopped, keptCut>>

ReverseFutility ==
  /\ At("negamax", "static")
  /\ Return("high", FALSE)
  /\ UNCHANGED <<treeVars, pvVars, searchStopped, keptCut>>

\* Never twice in a row.
NullMovePruning ==
  /\ At("negamax", "static")
  /\ ~Top.nullSearch
  /\ MakeNullMove
  /\ \E depth \in 0..(Top.depth - 1) :
       CallFrom(Goto("null"), Frame("negamax", depth, FALSE, FALSE, TRUE))
  /\ UNCHANGED <<returned, pvVars, searchStopped, keptCut>>

NullMoveReturns ==
  /\ Resumed("null")
  /\ UndoNullMove
  /\ IF Negated[returned.score] = "high"
       THEN Return("high", returned.cut)
       ELSE Replace(Goto("razor")) /\ returned' = NoResult
  /\ UNCHANGED <<pvVars, searchStopped, keptCut>>

\* A quiescence search of the same node.
Razoring ==
  /\ At("negamax", "static") \/ At("negamax", "razor")
  /\ Top.depth =< 3
  /\ CallFrom(Goto("razored"), Frame("quiesence", 0, Top.isPv, FALSE, FALSE))
  /\ UNCHANGED <<returned, treeVars, pvVars, searchStopped, keptCut>>

RazoringReturns ==
  /\ Resumed("razored")
  /\ IF Top.depth = 1 \/ returned.score = "low"
       THEN Return(returned.score, returned.cut)
       ELSE Replace([Goto("tt") EXCEPT !.cut = returned.cut]) /\ returned' = NoResult
  /\ UNCHANGED <<treeVars, pvVars, searchStopped, keptCut>>

NotPruned ==
  /\ At("negamax", "static") \/ At("negamax", "razor")
  /\ Replace(Goto("tt"))
  /\ UNCHANGED <<returned, treeVars, pvVars, searchStopped, keptCut>>

\* Internal iterative reduction: without a ttMove, in a PV node or a cut node.
StartLoop ==
  /\ At("negamax", "tt")
  /\ \E ttMove \in TtMoves, cutNode \in BOOLEAN :
       LET reduced == Top.depth >= 2 /\ (Top.isPv \/ cutNode) /\ ttMove = NoMove
       IN Replace(WithPicker([Goto("loop") EXCEPT !.depth = IF reduced THEN @ - 1 ELSE @],
                             ttMove))
  /\ UNCHANGED <<returned, treeVars, pvVars, searchStopped, keptCut>>

\* Extended futility and late move pruning, once a move has a score.
MaySkipQuiets(f) ==
  /\ ~f.isPv /\ ~isChecked /\ ~f.skipQuiets
  /\ f.movesSearched > 0

\* Mutant: the first move may be pruned too.
MayPruneFirst(f, move) ==
  /\ ~f.isRoot /\ ~isChecked
  /\ move.kind # "Special"
  /\ PhaseIndex(f.phase) > PhaseIndex("NoisyGood")

\* A loss of material by SEE.
MayPrune(f, move) ==
  /\ ~f.isRoot /\ ~isChecked
  /\ f.movesSearched > 0
  /\ move.kind # "Special"
  /\ PhaseIndex(f.phase) > PhaseIndex("NoisyGood")

\* The picked move, and whether quiet moves are skipped from now on.
Picks ==
  LET phase == NextPhase(Top)
  IN {[Picked(Top, i) EXCEPT !.skipQuiets = @ \/ skip] :
        i \in Pickable(Top, phase), skip \in {FALSE, MaySkipQuiets(Top)}}

\* Pruned, or not legal.
SkipMove ==
  /\ At("negamax", "loop")
  /\ \E f \in Picks : (MayPrune(f, f.move) \/ ~f.move.legal) /\ Replace(f)
  /\ UNCHANGED <<returned, treeVars, pvVars, searchStopped, keptCut>>

Counted(f) == [f EXCEPT !.afterStop = IF searchStopped THEN @ + 1 ELSE @]

\* The first move gets the full window, the others a zero window, quiet ones
\* after the second with a reduced depth.
SearchMove ==
  /\ At("negamax", "loop")
  /\ \E f \in Picks :
       /\ MakeMove(f.move)
       /\ IF f.movesSearched = 0
            THEN CallFrom(Counted([f EXCEPT !.pc = "full", !.reduction = 0]),
                          Frame("negamax", f.depth - 1, f.isPv, FALSE, FALSE))
            ELSE \E reduction \in IF f.movesSearched >= 2 /\ ~IsNoisy(f.move)
                                    THEN 0..(f.depth - 1) ELSE {0} :
                   CallFrom(Counted([f EXCEPT !.pc = "zero", !.reduction = reduction]),
                            Frame("negamax", f.depth - 1 - reduction, FALSE, FALSE, FALSE))
  /\ UNCHANGED <<returned, pvVars, searchStopped, keptCut>>

\* Mutant: the search that is repeated is reduced again.
SearchAgainReduced ==
  /\ Resumed("zero")
  /\ returned.score = "low"
  /\ \/ /\ Top.reduction > 0
        /\ CallFrom(Top, Frame("negamax", Top.depth - 1 - Top.reduction, FALSE, FALSE, FALSE))
     \/ /\ Top.reduction = 0 /\ Top.isPv
        /\ CallFrom(Goto("full"), Frame("negamax", Top.depth - 1, TRUE, FALSE, FALSE))
  /\ returned' = NoResult
  /\ UNCHANGED <<treeVars, pvVars, searchStopped, keptCut>>

\* A reduced search above alpha is repeated without the reduction, one inside
\* the window with the whole window.
SearchAgain ==
  /\ Resumed("zero")
  /\ returned.score = "low"
  /\ \/ /\ Top.reduction > 0
        /\ CallFrom([Top EXCEPT !.reduction = 0],
                    Frame("negamax", Top.depth - 1, FALSE, FALSE, FALSE))
     \/ /\ Top.reduction = 0 /\ Top.isPv
        /\ CallFrom(Goto("full"), Frame("negamax", Top.depth - 1, TRUE, FALSE, FALSE))
  /\ returned' = NoResult
  /\ UNCHANGED <<treeVars, pvVars, searchStopped, keptCut>>

\* The score of the move, when no further search of it is due.
Settled ==
  \/ Resumed("full")
  \/ /\ Resumed("zero")
     /\ returned.score = "low" => Top.reduction = 0

MoveScore == Negated[returned.score]

Searched(score) ==
  [Goto("loop") EXCEPT !.movesSearched = @ + 1, !.score = score, !.cut = @ \/ returned.cut,
                       !.move = NoMove]

\* updateTable(): the whole rest of the next row is copied.
UpdatePv ==
  /\ pvTable' = [pvTable EXCEPT ![ply'] = [q \in DOMAIN @ |->
       IF q < ply' THEN @[q] ELSE IF q = ply' THEN Top.move ELSE pvTable[ply' + 1][q]]]
  /\ pvLength' = [pvLength EXCEPT ![ply'] = pvLength[ply' + 1]]

StopReturns ==
  /\ Settled /\ searchStopped
  /\ UndoMove
  /\ Return("low", TRUE)
  /\ UNCHANGED <<pvVars, searchStopped, keptCut>>

\* Mutant: a search that was stopped is judged like any other.
GoesOnStopped == TRUE
GoesOn == ~searchStopped

MoveFailsLow ==
  /\ Settled /\ Top.fn = "negamax" /\ GoesOn /\ MoveScore = "low"
  /\ UndoMove
  /\ Replace(Searched(Top.score))
  /\ returned' = NoResult
  /\ UNCHANGED <<pvVars, searchStopped, keptCut>>

MoveIsBetter ==
  /\ Settled /\ Top.fn = "negamax" /\ GoesOn /\ MoveScore = "in"
  /\ UndoMove
  /\ UpdatePv
  /\ Replace(Searched("in"))
  /\ returned' = NoResult
  /\ keptCut' = (keptCut \/ returned.cut)
  /\ UNCHANGED searchStopped

\* PV, killers, counter moves, histories and the transposition table learn.
MoveFailsHigh ==
  /\ Settled /\ Top.fn = "negamax" /\ GoesOn /\ MoveScore = "high"
  /\ UndoMove
  /\ UpdatePv
  /\ Return("high", Top.cut \/ returned.cut)
  /\ keptCut' = (keptCut \/ Top.cut \/ returned.cut)
  /\ UNCHANGED searchStopped

NoPick == At("negamax", "loop") /\ NextPhase(Top) = "Done"

\* Checkmate or stalemate.
ReturnWithoutMoves ==
  /\ NoPick
  /\ Top.movesSearched = 0
  /\ AnyScore(Top.cut)
  /\ UNCHANGED <<treeVars, pvVars, searchStopped, keptCut>>

ReturnBest ==
  /\ NoPick
  /\ Top.movesSearched > 0
  /\ Return(Top.score, Top.cut)
  /\ keptCut' = (keptCut \/ Top.cut)
  /\ UNCHANGED <<treeVars, pvVars, searchStopped>>

----------------------------------------------------------------------------
(* quiesence()                                                             *)

\* Draw, deepest ply, stand pat or table hit.
QuiescenceReturnsEarly ==
  /\ At("quiesence", "enter")
  /\ AnyScore(FALSE)
  /\ UNCHANGED <<treeVars, pvVars, searchStopped, keptCut>>

\* The static evaluation may be inside the window already.
QuiescenceStarts ==
  /\ At("quiesence", "enter")
  /\ ~checkForDraw /\ ply < MaxSearchDepth
  /\ \E ttMove \in TtMoves, score \in ScoresOf(Top.isPv) \ {"high"} :
       Replace(WithPicker([Goto("loop") EXCEPT !.score = score], ttMove))
  /\ UNCHANGED <<returned, treeVars, pvVars, searchStopped, keptCut>>

QuiescenceSkips ==
  /\ At("quiesence", "loop")
  /\ \E f \in Picks : ~f.move.legal /\ Replace(f)
  /\ UNCHANGED <<returned, treeVars, pvVars, searchStopped, keptCut>>

QuiescenceSearches ==
  /\ At("quiesence", "loop")
  /\ \E f \in Picks :
       /\ MakeMove(f.move)
       /\ CallFrom(Counted([f EXCEPT !.pc = "full"]),
                   Frame("quiesence", 0, f.isPv, FALSE, FALSE))
  /\ UNCHANGED <<returned, pvVars, searchStopped, keptCut>>

QuiescenceJudges ==
  /\ Settled /\ Top.fn = "quiesence" /\ GoesOn
  /\ UndoMove
  /\ IF MoveScore = "high"
       THEN /\ Return("high", Top.cut \/ returned.cut)
            /\ keptCut' = (keptCut \/ Top.cut \/ returned.cut)
       ELSE /\ Replace(Searched(IF MoveScore = "in" THEN "in" ELSE Top.score))
            /\ returned' = NoResult
            /\ UNCHANGED keptCut
  /\ UNCHANGED <<pvVars, searchStopped>>

QuiescenceReturns ==
  /\ At("quiesence", "loop") /\ NextPhase(Top) = "Done"
  /\ Return(Top.score, Top.cut)
  /\ keptCut' = (keptCut \/ Top.cut)
  /\ UNCHANGED <<treeVars, pvVars, searchStopped>>

\* Another searcher has ended, the time is up or the GUI said stop.
Stop ==
  /\ frames # <<>> /\ ~searchStopped
  /\ searchStopped' = TRUE
  /\ UNCHANGED <<frames, returned, treeVars, pvVars, keptCut>>

Next ==
  \/ ReturnEarly \/ EnterQuiescence \/ EnterNode
  \/ ReverseFutility \/ NullMovePruning \/ NullMoveReturns
  \/ Razoring \/ RazoringReturns \/ NotPruned \/ StartLoop
  \/ SkipMove \/ SearchMove \/ SearchAgain
  \/ StopReturns \/ MoveFailsLow \/ MoveIsBetter \/ MoveFailsHigh
  \/ ReturnWithoutMoves \/ ReturnBest
  \/ QuiescenceReturnsEarly \/ QuiescenceStarts \/ QuiescenceSkips
  \/ QuiescenceSearches \/ QuiescenceJudges \/ QuiescenceReturns
  \/ Stop

\* The thread of a search that has not ended runs on.
Spec == Init /\ [][Next]_vars /\ WF_vars(Next /\ ~Stop)

----------------------------------------------------------------------------
(* Properties.                                                             *)

\* Every variable keeps its type; the repetition stack never holds more than
\* the game and one hash per move of the line.
TypeInvariant ==
  /\ returned.score \in Scores \cup {"none"} /\ returned.cut \in BOOLEAN
  /\ \A i \in DOMAIN frames : /\ frames[i].fn \in {"negamax", "quiesence"}
                             /\ frames[i].score \in Scores
                             /\ frames[i].depth \in 0..(Depth + MaxSearchDepth)
  /\ ply \in 0..(MaxSearchDepth + 1)
  /\ \A p \in 0..MaxSearchDepth : pvLength[p] \in 0..MaxSearchDepth
  /\ searchStopped \in BOOLEAN /\ keptCut \in BOOLEAN
  /\ Len(repetitions) \in Len(History)..(Len(History) + MaxSearchDepth)

\* The comment at the test of m_ply: a search stops before it goes deeper than
\* the engine is designed for.
StackStaysInside == InsideStack

\* How far each call has moved the stack on, and the ply of each call.
Steps(f) == CASE f.pc \in {"full", "zero"} -> 1 [] f.pc = "null" -> 2 [] OTHER -> 0
PlyOf ==
  LET at[i \in 1..(Len(frames) + 1)] == IF i = 1 THEN 0 ELSE at[i - 1] + Steps(frames[i - 1])
  IN at
PositionOf(i) == entries[PlyOf[i]].board.position
OnTheLine == {i \in DOMAIN frames : Steps(frames[i]) > 0}

\* As long as the search stays inside m_stack, ply, stack and repetitions are
\* those of the calls that have not returned: each call finds its own position
\* in its entry, whatever was searched below it, and each move or null move of
\* the line has left one hash.
StackFollowsTheCalls ==
  InsideStack =>
    /\ ply = PlyOf[Len(frames) + 1]
    /\ \A i \in OnTheLine :
         PositionOf(i + 1) = IF frames[i].pc = "null" THEN NullMoves[PositionOf(i)]
                                                      ELSE frames[i].move.to
    /\ \A i \in OnTheLine : frames[i].pc # "null" => frames[i].move \in Moves[PositionOf(i)]
    /\ repetitions = History \o [k \in 1..Cardinality(OnTheLine) |->
         PositionOf(CHOOSE i \in OnTheLine : Cardinality({j \in OnTheLine : j =< i}) = k)]

\* A draw by repetition is one by the rule the code states: the position came
\* up before on the line below the root, or twice in all, with no capture
\* and no move of a pawn since.  A null move shifts what counts as below the
\* root; then there is at least one earlier occurrence.
RepetitionIsTheRule ==
  At("negamax", "enter") /\ ~Top.isRoot =>
    LET n == Len(repetitions)
        zeroing == {i \in OnTheLine : IsZeroing(frames[i].move) /\ frames[i].pc # "null"}
        first == IF zeroing = {} THEN Len(History) - RootHalfMoves
                 ELSE Len(History) + Cardinality({j \in OnTheLine : \E z \in zeroing : j =< z})
        same == {i \in 0..(n - 1) : i >= first /\ repetitions[i + 1] = board.position}
        rule == (\E i \in same : i > Len(History)) \/ Cardinality(same) >= 2
        nulls == \E i \in OnTheLine : frames[i].pc = "null"
    IN IF nulls THEN isRepetition(board, ply) => same # {}
                ELSE isRepetition(board, ply) <=> rule

\* Legal moves one after the other.
IsLine(position, line) ==
  \A k \in DOMAIN line :
    line[k] \in LegalMoves(IF k = 1 THEN position ELSE line[k - 1].to)

\* The moves of the row of a ply up to its length, from that ply on.
Line(p) == [k \in 1..(pvLength[p] - p) |-> pvTable[p][p + k - 1]]

\* The row of the PV table that belongs to a node is a line of legal moves from
\* it, whatever was searched at deeper plies before, and a search that ends
\* inside its window has a move to play.
PvIsALine ==
  /\ InsideStack => \A i \in DOMAIN frames :
       frames[i].fn = "negamax" /\ frames[i].pc # "enter" =>
         pvLength[PlyOf[i]] >= PlyOf[i] /\ IsLine(PositionOf(i), Line(PlyOf[i]))
  /\ frames = <<>> /\ returned.score = "in" =>
       /\ IsLine(Root, Line(0))
       /\ Line(0) # <<>> \/ LegalMoves(Root) = {}

\* The picker gives no move twice; when it ends it has given every move of the
\* position, unless quiet moves are skipped.
PickerGivesEveryMoveOnce ==
  InsideStack => \A i \in DOMAIN frames :
    LET f == frames[i]
    IN /\ f.tried \cap ToSet(f.left) = {}
       /\ (f.fn = "negamax" /\ f.pc = "loop" /\ NextPhase(f) = "Done" /\ ~f.skipQuiets) =>
            f.tried = Moves[PositionOf(i)]

\* Mate and stalemate are claimed only where no legal move exists: nothing is
\* pruned before a first move was searched.
MateIsReal == NoPick /\ Top.movesSearched = 0 => LegalMoves(board.position) = {}

\* Both of the above: no move is lost, neither by the picker nor by pruning
\* where one had to be searched.
NoMoveIsLost == PickerGivesEveryMoveOnce /\ MateIsReal

\* The scores a stopped search returns are made up: none reaches the PV table,
\* the histories or the transposition table.
NothingOfAStoppedSearchIsKept == ~keptCut

\* A node makes at most one move after the stop.
StopUnwinds == \A i \in DOMAIN frames : frames[i].afterStop =< 1

\* Both of the above: a stop ends the search and leaves nothing behind.
StopIsClean == NothingOfAStoppedSearchIsKept /\ StopUnwinds

\* Every search ends, if it stays inside m_stack: extensions by check cannot go
\* on for ever.
SearchEnds == <>(frames = <<>> \/ ~InsideStack)
============================================================================
