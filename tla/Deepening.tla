------------------------------ MODULE Deepening ------------------------------
(***************************************************************************)
(* From a line of input to the numbers of a search: the commands of        *)
(* interface/uci_handler.h, the time manager, and both loops of iterative  *)
(* deepening (evaluation/evaluator.h) with the aspiration window and the   *)
(* vote of the searchers (evaluation/move_vote_map.h).                     *)
(*                                                                         *)
(* A search is a step that returns any of a few scores; whenever the clock *)
(* is looked at it may show anything.  Commands come one at a time, when   *)
(* no search runs: SearchSession has those that come during one.           *)
(***************************************************************************)
EXTENDS Commands, Scores

CONSTANTS
  Lines,            \* the lines the GUI may send, as sequences of words
  MaxLines,         \* bound: lines of a session
  MaxSearchDepth,   \* s_maxSearchDepth, 128 in the code
  AspirationMinDepth,
  ScoreChoices,     \* the scores a search may return
  MoveChoices,      \* the moves of the root
  PvSizes,          \* lengths of the line a searcher may have
  NodePercents,     \* shares of the nodes its first move may have
  Clock             \* what the clock may show

ASSUME DeepeningAssumption ==
  /\ DepthRange \in Nat
  /\ MaxSearchDepth \in 1..(DepthRange - 2)
  /\ AspirationMinDepth \in Nat
  /\ ScoreChoices \subseteq (MinScore + 1)..(MaxScore - 1)
  /\ PvSizes \subseteq Nat

Word == [text : STRING, number : Int]

\* The words of a "go", in any order: numbers, none of them negative, and others.
GoWords(args) ==
  /\ args \in Seq(Word)
  /\ \A i \in DOMAIN args : IF args[i].text = "number" THEN args[i].number >= 0
                                                       ELSE args[i].number = Unset

\* "position" is left with the side to move of the board it sets up.
ASSUME LinesAssumption ==
  \A line \in Lines :
    /\ line \in Seq(Word) /\ line # <<>>
    /\ Head(line).text = "go" => GoWords(Tail(line))
    /\ Head(line).text = "position" =>
         Len(line) >= 2 /\ line[2].text \in {"white", "black"}

AspirationWindow == 81
AspirationMaxWindow == 500

VARIABLES
  option,     \* s_uciOptions: the value shown for each option
  engine,     \* what is in effect: searchers, entries of the table, ponder
  player,     \* the side to move of s_board
  tm,         \* TimeManager
  go,         \* the words of the last "go"
  lines,      \* bound: lines so far
  pc,         \* what the deepening job does
  depth,      \* how deep it goes
  d,          \* the iteration
  window,     \* alpha, beta, delta and depthReduction
  fails,      \* history: searches of this iteration outside the window
  bestScore,  \* bestScore, or the score of bestWinningResult
  best,       \* bestMove
  winner,     \* bestWinningResult of the last attempt with several searchers
  counted,    \* history: the results that attempt counted
  benched     \* history: a bench has run since the size of the table was set

commandVars == <<option, engine, player, go, lines, benched>>
jobVars == <<pc, depth, d, window, fails, bestScore, best, winner, counted>>
vars == <<option, engine, player, tm, go, lines, pc, depth, d, window, fails, bestScore,
          best, winner, counted, benched>>

NullMove == 0
NoResult == [score |-> 0, move |-> NullMove, size |-> 0]

----------------------------------------------------------------------------
(* The transposition table's size, in its own units: 16 bytes an entry.    *)

EntriesPerMb == 65536
tableSizeFromMb(mb) == mb * EntriesPerMb

\* A size of 0 is refused.
setSizeMb(entries, mb) == IF mb = 0 THEN entries ELSE tableSizeFromMb(mb)

\* Divided before it is multiplied.
getSizeMb(entries) == (entries \div (1024 * 1024)) * 16

----------------------------------------------------------------------------
(* The aspiration window.                                                  *)

Greater(a, b) == IF a > b THEN a ELSE b

\* C++ division drops the fraction.
Halved(n) == IF n < 0 THEN -((-n) \div 2) ELSE n \div 2

WindowOf(alpha, beta, delta, reduction) ==
  [alpha |-> alpha, beta |-> beta, delta |-> delta, depthReduction |-> reduction]

NewWindow(iteration, score) ==
  IF iteration >= AspirationMinDepth
    THEN WindowOf(Greater(MinScore, score - AspirationWindow),
                  LesserOf(MaxScore, score + AspirationWindow), AspirationWindow, 0)
    ELSE WindowOf(MinScore, MaxScore, AspirationWindow, 0)

widenOnFailLow(w) ==
  LET alpha == Greater(MinScore, w.alpha - w.delta)
  IN WindowOf(alpha, Halved(alpha + w.beta), w.delta, 0)

widenOnFailHigh(w) ==
  WindowOf(w.alpha, LesserOf(MaxScore, w.beta + w.delta), w.delta, w.depthReduction + 1)

\* Mutant: the window doubles and never opens.
growOnly(w) == [w EXCEPT !.delta = 2 * @]

grow(w) ==
  LET delta == 2 * w.delta
  IN IF delta > AspirationMaxWindow THEN WindowOf(MinScore, MaxScore, delta, 0)
     ELSE [w EXCEPT !.delta = delta]

searchDepth(w, iteration) ==
  IF w.depthReduction < iteration THEN iteration - w.depthReduction ELSE 1

----------------------------------------------------------------------------
(* The vote.                                                               *)

\* A vote is kept in 8 bits.
insertOrIncrement(map, move, vote) ==
  IF \E i \in DOMAIN map : map[i].move = move
    THEN [i \in DOMAIN map |->
            IF map[i].move = move THEN [map[i] EXCEPT !.vote = (@ + vote) % 256] ELSE map[i]]
    ELSE Append(map, [move |-> move, vote |-> vote % 256])

\* The results inside the window, with a line of moves.
Inside(results) ==
  {i \in DOMAIN results : /\ results[i].score > window.alpha
                          /\ results[i].score < window.beta /\ results[i].size > 0}

\* m_movesVotes, cleared for every attempt.
Votes(results) ==
  LET map[i \in 0..Len(results)] ==
        IF i = 0 THEN <<>>
        ELSE IF i \in Inside(results)
               THEN insertOrIncrement(map[i - 1], results[i].move,
                                      (results[i].score - MinScore) * results[i].size)
               ELSE map[i - 1]
  IN map[Len(results)]

\* Mutant: a move needs a vote above 0.
VotedMoveAbove0(map) ==
  IF \A i \in DOMAIN map : map[i].vote = 0 THEN best
  ELSE map[CHOOSE i \in DOMAIN map : \A j \in DOMAIN map : map[j].vote =< map[i].vote].move

\* The first of the moves with the most votes.
VotedMove(map) ==
  LET first == CHOOSE i \in DOMAIN map :
                 /\ \A j \in DOMAIN map : map[j].vote =< map[i].vote
                 /\ \A j \in 1..(i - 1) : map[j].vote < map[i].vote
  IN map[first].move

\* The loop compares the depth asked for, not that of the result: the first
\* result of the move wins.
WinningResult(results, move) ==
  LET fit == {i \in Inside(results) : results[i].move = move}
  IN IF fit = {} \/ depth = 0 THEN NoResult ELSE results[Min(fit)]

----------------------------------------------------------------------------

Init ==
  /\ option = Defaults
  /\ engine = [searchers |-> 1, entries |-> tableSizeFromMb(16), ponder |-> FALSE]
  /\ player = "white"
  /\ tm = InitialTime(50)
  /\ go = <<>> /\ lines = 0 /\ benched = FALSE
  /\ pc = "idle" /\ depth = 0 /\ d = 1
  /\ window = WindowOf(MinScore, MaxScore, AspirationWindow, 0) /\ fails = 0
  /\ bestScore = 0 /\ best = NullMove
  /\ winner = NoResult /\ counted = {}

----------------------------------------------------------------------------
(* Commands.                                                               *)

Read(command, args) ==
  /\ pc = "idle" /\ lines < MaxLines
  /\ \E line \in Lines : Head(line).text = command /\ args = Tail(line)
  /\ lines' = lines + 1

Arguments(command) == {Tail(line) : line \in {l \in Lines : Head(l).text = command}}

\* What a job starts with; also what is left of it afterwards, as its variables
\* are locals of the loop.
FreshLoop ==
  /\ d' = 1 /\ bestScore' = 0 /\ best' = NullMove
  /\ window' = WindowOf(MinScore, MaxScore, AspirationWindow, 0) /\ fails' = 0
  /\ winner' = NoResult /\ counted' = {}

\* "ponder" without the option starts nothing; a ponder search or one with a
\* depth has no limits.
Go(args) ==
  /\ Read("go", args)
  /\ go' = args
  /\ LET timed == GoTime(tm, args)
         given == IF GoPonders(args) THEN Unset ELSE GoDepth(args)
     IN IF GoPonders(args) /\ ~engine.ponder
          THEN tm' = timed /\ UNCHANGED jobVars
          ELSE /\ tm' = IF GoPonders(args) \/ given # Unset THEN startInfinite(timed)
                                                             ELSE start(timed, player)
               /\ depth' = IF given = Unset THEN MaxSearchDepth ELSE given
               /\ pc' = "iterate" /\ FreshLoop
  /\ UNCHANGED <<option, engine, player, benched>>

\* Mutant: the value is stored and the callback forgotten.
InEffectLater(name, value) == UNCHANGED <<engine, tm>>

\* The callbacks of the options.
InEffect(name, value) ==
  /\ engine' = CASE name = "Threads" -> [engine EXCEPT !.searchers = value]
                 [] name = "Hash" -> [engine EXCEPT !.entries = setSizeMb(@, value)]
                 [] name = "Ponder" -> [engine EXCEPT !.ponder = value]
                 [] OTHER -> engine
  /\ tm' = IF name = "MoveOverhead" THEN [tm EXCEPT !.overhead = value] ELSE tm

SetOption(args) ==
  /\ Read("setoption", args)
  /\ IF IsSetOption(args) /\ Accepts(OptionName(args), args[4])
       THEN LET name == OptionName(args)
                value == OptionValue(name, args[4])
            IN /\ option' = [option EXCEPT ![name] = value]
               /\ InEffect(name, value)
               /\ benched' = (benched /\ name # "Hash")
       ELSE UNCHANGED <<option, engine, tm, benched>>
  /\ UNCHANGED <<player, go, jobVars>>

\* "position": reset(), and the side to move.
Position(args) ==
  /\ Read("position", args)
  /\ player' = args[1].text
  /\ tm' = reset(tm)
  /\ UNCHANGED <<option, engine, go, benched, jobVars>>

\* "bench": searches to a depth with a table of its own size.
Bench(args) ==
  /\ Read("bench", args)
  /\ LET before == getSizeMb(engine.entries)
     IN engine' = [engine EXCEPT !.entries = setSizeMb(setSizeMb(@, 128), before)]
  /\ tm' = stop(startInfinite(reset(tm)))
  /\ benched' = TRUE
  /\ UNCHANGED <<option, player, go, jobVars>>

Command ==
  \/ \E args \in Arguments("go") : Go(args)
  \/ \E args \in Arguments("setoption") : SetOption(args)
  \/ \E args \in Arguments("position") : Position(args)
  \/ \E args \in Arguments("bench") : Bench(args)

----------------------------------------------------------------------------
(* Iterative deepening.                                                    *)

\* Mutant: a counter of one bit less.
NextDepthNarrow(iteration) == (iteration + 1) % (DepthRange \div 2)

NextDepth(iteration) == (iteration + 1) % DepthRange

MayIterate(e) == d =< depth /\ timeForAnotherSearch(tm, d, e)

StartIteration ==
  /\ pc = "iterate"
  /\ \E e \in Clock : MayIterate(e)
  /\ IF engine.searchers = 1
       THEN pc' = "single" /\ window' = NewWindow(d, bestScore)
       ELSE pc' = "multi" /\ UNCHANGED window
  /\ fails' = 0 /\ winner' = NoResult /\ counted' = {}
  /\ UNCHANGED <<commandVars, tm, depth, d, bestScore, best>>

\* stop() and the bestmove.
Answer ==
  /\ tm' = stop(tm)
  /\ pc' = "idle" /\ depth' = 0 /\ FreshLoop
  /\ UNCHANGED commandVars

LeaveLoop ==
  /\ pc = "iterate"
  /\ \E e \in Clock : ~MayIterate(e)
  /\ Answer

\* iterativeDeepeningSingle(): the time is up.
TimeIsUp ==
  /\ pc = "single"
  /\ \E e \in Clock : e >= tm.hard
  /\ tm' = stop(tm)
  /\ pc' = "iterate" /\ d' = NextDepth(d)
  /\ UNCHANGED <<commandVars, depth, window, fails, bestScore, best, winner, counted>>

FailsLow ==
  /\ pc = "single"
  /\ \E s \in ScoreChoices : s =< window.alpha
  /\ window' = grow(widenOnFailLow(window))
  /\ fails' = fails + 1
  /\ UNCHANGED <<commandVars, tm, pc, depth, d, bestScore, best, winner, counted>>

FailsHigh ==
  /\ pc = "single"
  /\ \E s \in ScoreChoices : s >= window.beta
  /\ window' = grow(widenOnFailHigh(window))
  /\ fails' = fails + 1
  /\ UNCHANGED <<commandVars, tm, pc, depth, d, bestScore, best, winner, counted>>

Succeeds ==
  /\ pc = "single"
  /\ \E s \in ScoreChoices, move \in MoveChoices, percent \in NodePercents :
       /\ s > window.alpha /\ s < window.beta
       /\ bestScore' = s /\ best' = move
       /\ tm' = updateMoveStability(tm, move, s, percent)
  /\ pc' = "iterate" /\ d' = NextDepth(d)
  /\ UNCHANGED <<commandVars, depth, window, fails, winner, counted>>

SearcherResults ==
  [1..engine.searchers -> [score : ScoreChoices, move : MoveChoices, size : PvSizes]]

\* iterativeDeepeningMulti(): results inside the window with a line count.
Attempt ==
  /\ pc = "multi"
  /\ \E results \in SearcherResults :
       LET move == VotedMove(Votes(results))
           won == WinningResult(results, move)
       IN IF Inside(results) = {}
            THEN /\ window' = WindowOf(MinScore, MaxScore, window.delta, 0)
                 /\ pc' = "iterate"
                 /\ UNCHANGED <<tm, d, bestScore, best, winner, counted>>
            ELSE /\ best' = move /\ winner' = won
                 /\ counted' = {results[i] : i \in Inside(results)}
                 /\ bestScore' = won.score
                 /\ window' = WindowOf(won.score - AspirationWindow, won.score + AspirationWindow,
                                       window.delta, 0)
                 /\ \E percent \in NodePercents :
                      tm' = updateMoveStability(tm, move, won.score, percent)
                 /\ pc' = "iterate" /\ d' = NextDepth(d)
  /\ UNCHANGED <<commandVars, depth, fails>>

AttemptTimesOut ==
  /\ pc = "multi"
  /\ \E e \in Clock : e >= tm.hard
  /\ Answer

Job ==
  \/ StartIteration \/ LeaveLoop \/ TimeIsUp \/ FailsLow \/ FailsHigh \/ Succeeds
  \/ Attempt \/ AttemptTimesOut

Next == Command \/ Job

Spec == Init /\ [][Next]_vars /\ WF_vars(Job)
----------------------------------------------------------------------------
(* Properties.                                                             *)

Searching == pc \in {"iterate", "single", "multi"}

\* Scores fit 16 bits, depths their bytes, options their limits.
TypeInvariant ==
  /\ depth \in 0..(DepthRange - 1) /\ d \in 0..(DepthRange - 1)
  /\ {window.alpha, window.beta, window.delta, bestScore} \subseteq Score
  /\ window.depthReduction \in 0..(DepthRange - 1)
  /\ \A name \in Spins : option[name] >= Limits[name].min /\ option[name] =< Limits[name].max
  /\ tm.soft >= 0 /\ tm.hard >= 0

\* The aspiration window is never empty and is open after three searches
\* outside of it; a reduced search keeps a depth of at least 1 and never goes
\* deeper than the iteration.
WindowOpens ==
  pc = "single" =>
    /\ window.alpha < window.beta /\ window.alpha >= MinScore /\ window.beta =< MaxScore
    /\ d < AspirationMinDepth \/ fails >= 3 =>
         window.alpha = MinScore /\ window.beta = MaxScore
    /\ searchDepth(window, d) \in 1..Greater(1, d)

\* The number a line gives for a setting, whatever comes before it.
Said(name) ==
  LET at == {i \in 1..(Len(go) - 1) : go[i].text = name}
  IN IF at = {} THEN 0 ELSE go[1 + CHOOSE i \in at : \A j \in at : j =< i].number
Says(name) == \E i \in DOMAIN go : go[i].text = name

\* The line is one the loop of handleGo() reads name by name: each name with its
\* number and "ponder" with none, but for a last "infinite".
InPairs ==
  /\ \A i \in 1..(Len(go) - 1) :
       go[i + 1].text = "number" <=> go[i].text \notin {"number", "ponder"}
  /\ go # <<>> => go[1].text # "number" /\ go[Len(go)].text \in {"number", "infinite"}

\* The numbers that follow a name in the line; 0 for one that is not given.
Numbers(name) ==
  {0} \cup {go[i + 1].number : i \in {j \in 1..(Len(go) - 1) :
                                        go[j].text = name /\ go[j + 1].text = "number"}}

\* The time for the move; none when the side to move has no clock; else at most
\* 80% of the clock after the overhead shown, and the soft limit below the hard
\* one.
LimitsAreSaid ==
  LET white == player = "white"
      time == Said(IF white THEN "wtime" ELSE "btime")
      inc == Said(IF white THEN "winc" ELSE "binc")
      left == Greater(0, time - option.MoveOverhead)
  IN IF Says("ponder") \/ Says("depth") THEN tm.hard = Infinite /\ tm.soft = Infinite
     ELSE IF Says("movetime")
            THEN tm.hard = Said("movetime") + inc /\ tm.soft = tm.hard
     ELSE IF time = 0 /\ inc = 0 THEN tm.hard = Infinite /\ tm.soft = Infinite
     ELSE tm.soft =< tm.hard /\ 100 * tm.hard =< 80 * left

\* No limits, or some the line has the numbers for.
LimitsAreOfTheWords ==
  LET white == player = "white"
      times == Numbers(IF white THEN "wtime" ELSE "btime")
      incs == Numbers(IF white THEN "winc" ELSE "binc")
  IN \/ tm.hard = Infinite /\ tm.soft = Infinite
     \/ /\ Says("movetime")
        /\ \E time \in Numbers("movetime"), inc \in incs :
             tm.hard = time + inc /\ tm.soft = tm.hard
     \/ /\ tm.soft =< tm.hard
        /\ \E time \in times : 100 * tm.hard =< 80 * Greater(0, time - option.MoveOverhead)

\* The limits of a search are those of its own "go" and of the side to move,
\* nothing of an earlier one: what a line of pairs says, and no more than the
\* numbers of any other line allow - one with "infinite" between two pairs or
\* "ponder" at its end, which handleGo() reads as names and numbers all the same.
LimitsAreOfThisGo ==
  Searching => IF InPairs THEN LimitsAreSaid ELSE LimitsAreOfTheWords

\* What an option shows is in effect, whatever commands came since it was set,
\* but for the table after a bench: its size is then a multiple of 16 MB, and
\* one of less than 16 MB has become 128.
OptionsAreInEffect ==
  /\ engine.searchers = option.Threads
  /\ engine.ponder = option.Ponder
  /\ tm.overhead = option.MoveOverhead
  /\ engine.entries = tableSizeFromMb(
       IF ~benched THEN option.Hash
       ELSE IF option.Hash < 16 THEN 128 ELSE option.Hash - (option.Hash % 16))

\* The vote of an attempt gives a move that one of its own results has, and the
\* result the next window is put around is one of that move - whatever the
\* 8 bits make of the votes, which need not give the move with the highest
\* weight.
WinnerIsCounted ==
  counted # {} =>
    /\ winner \in counted
    /\ best = winner.move
    /\ window.alpha < winner.score /\ winner.score < window.beta

\* With one searcher every search to a depth is over some time: its iterations
\* reach that depth, unless it is the last one the counter can hold.
DeepeningEnds ==
  Searching /\ engine.searchers = 1 /\ depth # DepthRange - 1 ~> pc = "idle"
==============================================================================
