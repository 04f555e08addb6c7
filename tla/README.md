# A TLA+ verification of the Meltdown chess engine

This directory models the engine of the repository in TLA+, checks the models
with TLC on small instances and proves the most important invariants with
TLAPS for every size. Paths such as `evaluator.h:79` name files under
`src/src/` of the repository; `uci_protocol.txt` is `src/docs/uci_protocol.txt`.

## 1. The system

Meltdown is a UCI chess engine: one process, one input thread that reads
commands, and a pool of worker threads that search. Nothing is persisted;
nothing is sent over a network. The hard parts are the threads and the flags
they share, the fixed-size tables a search indexes with its ply, and the
incremental data (hash, repetition stack, PV) that must stay in step with the
board.

| Component | State | Operations | Talks to |
|---|---|---|---|
| Thread pool (`core/thread_pool.h`) | stack of jobs, workers, stop source | constructor, `submit`, `worker`, `resize`, destructor | evaluator, searchers |
| UCI handler (`interface/uci_handler.h`) | board, running flag | one handler per command | evaluator, time manager, options |
| Evaluator (`evaluation/evaluator.h`) | `m_isPondering`, `m_ponderingEnabled`, `m_killed`, `m_ponderMove`, searchers, pool | `getBestMoveAsync`, `startPondering`, `onPonderHit`, `stop`, `kill`, `resizeSearchers`, the two iterative deepening loops | pool, searchers, time manager |
| Searcher (`search/searcher.h`) | `s_searchStopped`, search stack, ply, tables, promise/future | `startSearch`, `startSearchAsync`, `getSearchResult`, `negamax`, `quiesence`, null move pruning | pool, time manager, transposition table |
| Time manager (`core/time_manager.h`) | `s_timedOut`, limits, stability counters | `start`, `startInfinite`, `stop`, `updateTimeout`, `timeForAnotherSearch`, `updateMoveStability` | UCI thread and search threads, through static members |
| Transposition table (`core/transposition.h`) | array of (key, data) | `probe`, `writeEntry`, `setSizeMb`, `clear` | every searcher, without locks |
| Repetition, PV, killer, counter, history and correction tables (`search/*.h`) | arrays indexed by ply, move or hash | add/remove, update, lookup | their searcher |
| Move picker (`search/move_picker.h`) | phase, indices, scores | `pickNextMove` | tables, move generation |
| Board (`core/bit_board.h`, `move_handling.h`, `zobrist_hashing.h`) | bitboards, hash, castling, en passant | `performMove`, hash from scratch | everything |
| Move generation (`movegen/`, `core/attack_generation.h`) | constant tables | generate moves, attacks | picker, board |
| Evaluation (`evaluation/`) | pawn cache, tuned numbers | `getStaticEval`, SEE, scores | searcher |
| Parsing and options (`parsing/`, `interface/uci_options.h`) | none | FEN, moves, options | UCI handler |
| Tablebases, bench, perft, tuner, magics | | drivers and generated data | |

What makes each one correct, in a sentence: the pool runs every accepted job at
most once and never sleeps on work; a `go` is answered once, with the best move
of the deepest complete iteration, soon after `stop` or when time is up; a
search is only stopped by what was meant for it; with several searchers the
attempts of the deepening loop do not overlap; an entry of the transposition
table is used only for the position it was written for; every index stays in
its array; what `makeMove` changes `undoMove` restores; the incremental hash is
the hash.

`PROJECT.json` lists under `hazards` where each of these is hard to test.

## 2. The modules

| Module | Models | Role |
|---|---|---|
| `JobPool` | what the pool promises | abstract specification |
| `ThreadPool` | `core/thread_pool.h` | implements `JobPool` |
| `ThreadPoolShutdown` | `~ThreadPool()` and the order of its members | extends `ThreadPool` |
| `Analysis` | what the GUI sees of a session | abstract specification |
| `SearchSession` | UCI thread, evaluator flags, single-searcher deepening | implements `Analysis` |
| `LazySmp` | `iterativeDeepeningMulti()` and the search jobs | composes deepening, search jobs and pool |
| `TimeManager` | `core/time_manager.h` | operators on a record |
| `Commands` | arguments of `go` and `setoption`, options | operators on words |
| `Deepening` | commands to limits to iterations: both loops, window, vote | composes `Commands`, `TimeManager`, `Scores` |
| `Scores` | `evaluation/score.h` | operators |
| `TranspositionTable` | `core/transposition.h` under several threads | state machine |
| `SearchTree` | `search/searcher.h` with picker, repetition and PV tables | state machine |
| `Attacks` | squares, masks, attacks of each piece | operators |
| `Board` | generators, `performMove()`, null move, hashes | operators on a record |
| `Parsing` | FEN, numbers, words, moves | operators |
| `SeeSwap` | `evaluation/see_swap.h`, and the exchange by minimax | operators |
| `Evaluation` | terms of a position, king-pawn cache, endgame scale | operators |
| `ChessRules` | the legal moves of chess | reference definition |
| `Game` | positions a game and the search below it go through | composes `Attacks`, `Board`, `Parsing`, `Evaluation`, compares with `ChessRules` |
| `GameExchanges` | what the search asks of `see_swap.h` in them | composes `Game` and `SeeSwap` |
| `ThreadPoolProof`, `LazySmpProof`, `SearchSessionProof`, `TranspositionTableProof`, `DeepeningProof`, `SearchTreeProof`, `GameProof`, `EvaluationProof` | | theorems about the module they are named after |
| `MC...` | | instances for TLC |

`SearchSession` and `LazySmp` have the threads and no numbers; `Deepening` has
the numbers of the same loops and no threads; `SearchTree` is what both take for
one step, a search; `TranspositionTable` is what several such searches share;
`Game` has the positions that are only names in `SearchTree`.

### ThreadPool

A critical section of `queueMutex` is one action; everything the code does
outside the lock is a step of its own: `NotifyOne` (line 69) after
`SubmitPush`, `CheckStop` (102), `FinishJob`, `RequestStop` and `Rebuild`.
Workers are `loop` (at the while test), `enter` (about to evaluate the wait
predicate under the lock), `wait` (asleep), `run`, `exit` (returned) and
`absent` (joined). `queue` is `m_jobs[0 .. m_jobIndex - 1]`, so the worker takes
`Last(queue)`. Taking a job ignores the stop request, as `cv.wait` with a
predicate does. `RequestStop` is `request_stop()` with `notify_all()`: both only
wake sleepers. Spurious wake-ups are allowed and not counted on. `resize()` has
one caller at a time (the UCI thread); the model keeps submitters going during
it, which the engine does when a deepening job submits searches. History
variables `accepted`, `rejected`, `runs` record what happened to jobs; each job
is a different closure.

`ThreadPoolShutdown` adds the destructor body, the end of life of the members
declared after `m_workers`, and the join in `~m_workers`.

### SearchSession

One searcher. The UCI thread reads a command (`ReadGo`, `ReadStop`, ...) and
then makes the stores of its handler one by one, because none of the flags has
a lock: `Evaluator::stop()` is three actions, `onPonderHit()` three. The job of
each `go` walks through `getBestMove()` (`ChooseMode`, `SetLimits`, `Arm`), the
loop (`StartIteration` .. `WidenWindow`), its own `stop()` (`JobStop1..3`) and
the report. A search of one iteration is one interval that ends inside or
outside the window, or cut short. The clock is `finite` or `infinite`; the soft
limit may say stop whenever the clock is finite. `ponderMove` is the go whose
search wrote the move in `m_ponderMove`. `ponderMove()` of the PV table reads its
second place whatever the length of the line, so an iteration may take over
anything searched since the table was last cleared (`inPvTable`); nothing clears
`m_ponderMove` itself. The GUI keeps to the protocol (no second `go` before the
answer). The root is assumed to have a legal move.

### LazySmp

The deepening job submits one search per searcher, awaits all of them in order,
judges, and repeats. A search job is queued, searching, computed, flagged (it
has set `s_searchStopped`), and lingers for a moment after it set its promise:
it still occupies its worker. `command` is the two stores of a `stop`. Time and
`stop` arrive through `timedOut`. The vote is abstracted to "some result counts".

### Deepening, Commands and TimeManager

A line of input is a sequence of words, a word a text or a number. `SettingsAt`
is the loop of `handleGo()` with `sv_next_split()`, which gives a word only when
another follows: the last word is never a setting, and "infinite" takes the word
after it for its value. The words of a `go` come in any order. `Go`, `SetOption`, `Position` and `Bench` are whole
handlers. The record `tm` holds the static members of `TimeManager`; durations
are whole milliseconds, the tuned factors percent, quotients rounded down, and
whenever the code asks the clock it may show any of `Clock`.

The job is `StartIteration`, then with one searcher `Succeeds`, `FailsLow`,
`FailsHigh` or `TimeIsUp`, with several `Attempt` or `AttemptTimesOut`; a search
returns any of `ScoreChoices`. `Attempt` collects the results inside the window
and votes with the code's arithmetic, modulo 256. Depths and the counter of
iterations are counted modulo `DepthRange` (2^8 in the code, 2^3 in the run):
the model wraps after 7 as the code does after 255.

### TranspositionTable

An entry is a key word and a data word. A visit of a node, by `negamax()` or by
`quiesence()`, is `Visit`, `ProbeKey`, `ProbeData`, then `Answered`, or the write
of a bare evaluation (`fetchOrStoreEval()`, not in check), `Search` or `Abandon`,
and the write of its result; a write is `WriteReadsKey`, `WriteReadsData`,
`StoreKey`, `StoreData`. `negamax()` is answered off the PV and before the
evaluation, `quiesence()` on the PV as well and after it, with alpha raised to the
corrected evaluation (`Test`). A result is the score, a bound of it, or what a
tablebase says of the position (`TablebaseResults`). The loads and stores
of the code are relaxed and atomic, one per word; the model interleaves them in
program order, the one x86 keeps. Every position
has one true score (`Truth`), searches store it or a bound of it: what the table
adds or loses is then visible. The ghosts `by`, `raced` and `overlap` say for
which key data was written and whether a visit met another writer. `Clear` runs
when no thread is inside.

### SearchTree

A machine with the calls of `negamax()` and `quiesence()` as a stack of frames.
`entries`, `ply` and `repetitions` are `m_stack`, `m_ply` and `m_repetition`;
`pvTable` and `pvLength` the PV table, whose rows keep what was there behind
their length. Both have the sizes of the code. A write behind `m_stack`, over the
iterator that follows it, is where the program goes on to nothing a model could
say: the search of the model ends there (`InsideStack`), and `updateLength()` two
plies on, which would throw, is not reached. `search_stack` shows that it comes
to that; the other properties speak of the searches up to there. `frame.pc` is the
place a call waits at: `full`, `zero` (the zero window before a re-search),
`null`, `razored`. `frame.left` is the list of the picker, whose gaps the last
move fills. Scores
are `low`, `in` or `high` in their caller's window: a fail-soft number is only
compared, never kept, except in the transposition table. Static evaluation,
margins, reductions, the answer of the transposition table and the order inside
a phase of the picker are choices, so whatever the tuned numbers are the
properties hold. Guards that are not about numbers are the code's: check, PV,
root, null move twice in a row, the ply, the draws, the phases, `skipQuiets`.
`Stop` may come at any moment; `keptCut` notes whether a score made up by a
stopped search reached a table. Tablebases are not loaded.

### Game, Board and the modules under them

A bitboard is a set of squares; a position is the record of `BitBoard` with
pieces, occupation, attacks, castling rights, en passant, both clocks and the
hashes. A hash is the set of its Zobrist keys and XOR the symmetric difference:
two hashes are equal exactly when the keys are, collisions of 64-bit numbers are
left out. `performMove()` is the composition the code has: piece, promotion,
castling or en passant, victim, rights, en passant key, side, attacks, clocks.
Sliding attacks are the blocked rays the magic tables are filled with. `Parsing`
reads a FEN string part by part, a word being a sequence of characters and
numbers, and keeps the code's way to tell parts apart, by their text.
`Evaluation` gives, for each colour, the set of (term, index) that
`ADD_SCORE` adds; the tuned value of a term and the phase are left out. `Game`
starts from any of `Fens`, plays legal moves and null moves, and keeps the
king-pawn cache from one to the next. `ChessRules` is written from the rules of
the game, without any operator of `Board`. `SeeSwap` has recursive operators,
which the provers cannot take; `GameExchanges` keeps it apart from `Game`.

## 3. The runs

| Run | Shows | Bounds |
|---|---|---|
| `pool` | jobs run at most once, no lost wake-up, nothing is dropped, jobs leave the stack and resizes end, `ThreadPool` implements `JobPool` | 3 jobs, 2 submitters, 1 or 3 threads, stack of 2 per thread |
| `pool_destroy` (violation) | members destroyed before the join | same model, destructor at any moment |
| `session` | what flags may do to a search; a `go ponder` is never refused; bounded goes are answered; implements `Analysis` | 2 goes, 2 iterations, 1 widening |
| `session_commands` (violation) | an early `stop` or `ponderhit` is forgotten | 1 go |
| `session_answer` (violation) | the null move, or the ponder move of an earlier go, is printed | 2 goes |
| `smp` | no stale stop, no overlap of attempts, ends in time and at its depth | 3 searchers, 3 iterations |
| `smp_nomoves` (violation) | no legal move: searched for ever | 2 searchers |
| `game` | generated moves are the legal ones; hashes, occupation, attacks and king-pawn cache are never stale; boards stay positions of chess; FEN strings, move texts and evaluation agree with their definitions; `getCaptureScore()` is the value of the exchange, and the margin tests of every depth the search asks at agree with it but at a tie | 5 FEN strings, 2 plies, margins of depths 1 to 10 (4360 states) |
| `search` | stack, repetitions, PV and picker agree with the calls; a stop leaves nothing behind; every search ends | depth 3, `m_stack` of 5, 8 positions (218064 states) |
| `search_stack` (violation) | checks lead beyond `m_stack` | depth 3, `m_stack` of 4 |
| `table` | only a race mixes an entry; answers are true at every ply; what is lost is lost by a race | 2 threads, 3 visits, 3 keys (one in check), 2 entries (1390256 states, symmetric threads) |
| `deepening` | limits are of this go; windows open; options in effect; the vote's winner has counted; depths are reached | 2 of 18 lines, depths modulo 8, 4 iterations (300482 states) |

Why the bounds are enough. Two submitters and three workers give every pairwise
race and the third party that steals a wake-up; one thread with a stack of two
fills up with three jobs, so `submit()` refuses; growing and shrinking happen in
both directions. Two goes are what stale flags need: a leftover of the first
that meets the second. Two iterations give the exceptional first one and a later
one with a narrow window; one widening gives the retry. Three searchers give a
first, a last and a middle one in the collection order, three iterations a
retry with the full window between two narrow ones.

The five positions of `game` have castling of both sides through and out of
check with a pawn that may promote on the rook, promotions of every kind with
and without capture, en passant that is pinned along the row and along the
diagonal, and a square with three attackers and two defenders: after a move
there an exchange takes up to five captures, and the balance of the code meets 0
at depth 9. The second ply is where a stale key of the first shows. `search` has
a game that comes back after four moves, a position of the game history, a check, a mate, a drawn ending, an illegal move and a null
move; the five entries of `m_stack` are reached by the extension of the check,
by the null move and by captures below the last depth, and left by one ply more. In `table` two keys share an entry and one is alone; a mix needs two
threads, and a third visit to see it. `deepening` needs one line that leaves
something behind and one that searches; a depth of 7 modulo 8 stands for 255
modulo 256.

Deadlock is checked for the pool. The session ends with `quit`, the deepening
job and the search with their last depth and call, `game`, `table` and
`deepening` with their bounds, so their runs do not check it.

Fairness. Weak fairness of each thread's next step: the operating system
schedules runnable threads and no lock is held across a wait. `FinishJob` is
part of it: the jobs are searches that the flags cut short. A running search is
*not* promised to end by itself in `SearchSession` and `LazySmp`, except one
with a depth asked for (`SearchSession`) or under the explicit premise
`TreesEnd` (`LazySmp`); what is promised is that the primary searcher keeps
polling its clock (`searcher.h:714`) and that every search looks at the flags.
`SearchTree` has weak fairness of the searcher's own steps and none of `Stop`:
`SearchEnds` says that the tree is finite without help. `Deepening` has weak
fairness of the job and none of the GUI. `Game` and `TranspositionTable` check
no liveness.

### What the code does not do

1. `pool_destroy`: `cv`, `queueMutex`, `m_stop` and `m_jobs` are declared after
   `m_workers`, so they are destroyed before the `std::jthread`s are joined.
2. `session_commands`: `TimeManager::start()`/`startInfinite()` and
   `setSearchStopped(false)`, run by the search job, erase a `stop` that was
   read after the job was submitted. In the same way, as the test of
   `m_isPondering` and `startInfinite()` are not atomic, a `ponderhit` in between
   leaves the search without a limit. Each half of the property is violated on
   its own as well.
3. `session_answer`: the first iteration always runs, but its result is dropped
   when it is cut, so `bestmove` can be the null move; nothing resets
   `m_ponderMove`, so the ponder move next to it may be that of an earlier go.
   Each half is violated on its own as well.
4. `smp_nomoves`: with two or more searchers a root without a legal move never
   yields a result that counts, and depth 1 is repeated for ever.
5. `search_stack`: the ply is compared with `s_maxSearchDepth` only after the
   entry of the next ply was written, so the last one lies behind `m_stack`.

Also met while modelling, kept as a hazard, as a premise of a property or only
here rather than as a run of its own:

- A ponder or infinite search that has run through all `s_maxSearchDepth`
  iterations prints its move without being told to, which `uci_protocol.txt:142`
  and `:171` forbid.
- `go depth 255` never ends by its depth (the counter wraps) and `go depth 256`
  is a depth of 0, which searches nothing; `DeepeningEnds` leaves 255 out.
- The last word of a `go` is not read, and every word but `ponder` takes the next
  for its value: a `ponder` at the end is lost, and `infinite` means nothing next
  to a clock. The search then ends by that clock, which `uci_protocol.txt:142` and
  `:171` forbid; `LimitsAreOfThisGo` says of such lines only that the limits are
  made of their own numbers.
- `isGreaterThanMargin()` ends when the opponent finds the balance at 0, and says
  yes although the opponent may capture once more with profit
  (`MarginTestErrsAtTies`; in the position `Outnumbered` Rh4-d4 at depth 9 loses
  511 with a margin of -450). It never says no to a move worth its margin.
- `ponderMove()` ignores the length of the PV: what lies behind it is left of
  another line and need not be a reply to the best move.
- A null move advances the ply by two and pushes one hash, so below it
  `isRepetition()` takes other positions for those of the game
  (`RepetitionIsTheRule` claims less there).
- The vote of a move is kept in 8 bits: the move with the highest weight need
  not win (`WinnerIsCounted`).
- After `bench` a table of less than 16 MB has become one of 128 MB, others are
  rounded down to a multiple of 16 (`OptionsAreInEffect`).
- Two clocks with the same text in a FEN string: the second is lost
  (`ReadBackIsTheSame`).
- `scoreMateDistance()` counts one move too many for the side that is mated; a
  reduction of -1 becomes the largest one; the correction history stores the
  error times 256 in 16 bits before it is clamped; searchers made by a `Threads`
  option after `position` know nothing of the game; the clock is polled when a
  check meets a multiple of 2048 nodes.

## 4. What is proved

The theorems hold for every value of the constants that satisfies the named
assumptions; TLC evaluates those for the constants of each run. A theorem has the
form `Spec => []P`: an invariant is shown to hold at first and to be kept by
every action, one step of the proof per action, and to imply `P`. Each
inductive invariant holds in TLC on the instance of the module's run as well
(that of `SearchTree` with its two numberings computed from the calls).

`ThreadPoolProof`, from `PoolAssumption` (at least one thread and one slot,
finitely many submitters):

- `TypeCorrect`, `StartedAtMostOnce`, `NobodySleepsOnWork`, and
  `NobodyIsDropped`, which combines `ReplacedWhenJoined` and `LeavesStarted`.
- The invariant needed besides the properties: pending jobs are accepted,
  distinct and not started yet (`PendingIsFresh`, without it a job could be on
  the stack twice); a worker carries a job only while it runs
  (`CarriesWhileRunning`); stop is requested exactly during a resize and nobody
  sleeps then (`StopWakes`). `NoSleepOnWork` is inductive by itself: every
  action moves one worker or one submitter in or out of the two sets it counts.

In the same module, from the same assumption: `PoolImplementsJobPool`, every step of
a submitter, a worker or a resize is a step of one job's life, a resize of the
pool, or no step of `JobPool`. The mapping counts jobs and the abstract pool has
room for them, so `PoolInv` adds who has them: a carried job is accepted and was
started once, no two workers carry one job, a worker that runs carries one
(`CarriedIsStarted`, `OneCarrier`), live workers and the stack fit the number of
threads (`FitsThePool`), and `submit()` never both took and refused a job
(`OneAnswer`).

`LazySmpProof`, from `SmpAssumption` (the pool has two threads more than there
are searchers):

- `TypeCorrect`, `StopIsNeverStale`, `SearchesEndWithTheirAttempt`,
  `FullWindowIsEnough`, `SubmissionIsAlwaysTaken`, and `AttemptsNeverOverlap`,
  which combines two of them.
- The invariant: `Phases` ties the state of each search and its future to the
  place of the deepening job (not yet submitted, not yet collected); `Causes`
  says why a result was cut, why the flag is set and why a first result is
  there; `Results` that in a full window no finished result gets lost.

`SearchSessionProof`, from `SessionAssumption` (bounds are numbers, the depth
asked for is one of the iterations):

- `SessionIsWellTyped`, `StopsReachTheirOwnSearch`, `PonderGoIsTaken`, and
  `SessionImplementsAnalysis`: every step of the session is a step of `Analysis`
  or none of it.
- `SessionInv`. A go is read only when the earlier ones are answered
  (`OneAtATime`), so there is one job to talk about; a handler in the middle of
  its stores knows what its first one relied on (`HandlersFit`); in the loop
  `s_timedOut` or `s_searchStopped` is set by the clock or for a stop that came
  for this job (`FlagsAreForTheJob`), which `CutOnlyWhenTold` needs and does not
  say; `m_isPondering` is set for the last job only, until its own `stop()`
  (`PonderingIsForTheJob`); the best move is of an earlier iteration than the
  present (`Deepens`). Nothing is proved of the ponder move: it may be of an
  earlier go (`session_answer`).

`TranspositionTableProof`, from `TableAssumption` (a table and keys that are not
empty), `ScoreAssumption` (no search is deeper than the room the mate scores
leave, and no true score lies in it: `score.h` has 1000 for `s_maxSearchDepth`
plies) and `VisitsAssumption` (a visit has a key, a
ply and a window, one by `quiesence()` no depth and not the last ply):

- `EntriesStayInRange`, `OnlyARaceMixes`, `TheTableIsSound`,
  `OnlyAStaleReadLoses` (an action property).
- `TableInv`. `EntriesAreSound` says for each place a score passes through from
  which position it counts: a mate is counted from the position in an entry, from
  the root in a search. `WritesItsKey` and `OneWriter` say that off the raced
  slots a thread between its two words is alone there and has written its key;
  `Undisturbed` that a visit that met no other writer finds the entry as it saw
  it.

`DeepeningProof`, from `DeepeningAssumption` (depths are counted modulo
`DepthRange`, which leaves room for the deepest search and one more, as 2^8 does
for `s_maxSearchDepth`; scores lie strictly between the bounds) and
`LinesAssumption` (a line is not empty, the numbers of a `go` are not negative;
its words may be any, in any order):

- `DeepeningIsWellTyped`, `TheWindowOpens` (widening is arithmetic: the
  window grows with each failure and the fourth search has all of it),
  `LimitsAreItsOwn` (the exact limits where the words come in the pairs
  `handleGo()` reads, else none but numbers of this line), `OptionsTakeEffect`, `TheWinnerCounted` (for any number of
  searchers, weights modulo 256).
- `DeepeningInv` has the parts of the commands (`CommandParts`: options and
  what is in effect, the limits of this go) and of the loop (`LoopParts`: the
  iteration is one for a depth not yet reached, the window is one of the at most
  four that failures lead to, the winner has counted).

`SearchTreeProof`, from `DepthAssumption`, `GraphAssumption` (the moves of a
position lead to positions) and `SidesAssumption` (a hash includes the side to
move, which moves and null moves change; `handlePosition()` adds a hash before
each move and both forms of the command reset the stack first). Nothing is
assumed of the number of positions or of the shape of the graph:

- `SearchIsWellTyped`, `TheStackFollowsTheCalls`, `ThePvIsALine`,
  `ThePickerLosesNoMove`, `AStopIsClean`, `DrawsAreByTheRule`. What they say of
  plies and positions they say of a search inside `m_stack`, which the code
  leaves (`search_stack`).
- `SearchInv` says of every call of the stack what it leaves to the ones above
  it. `CallsAreSound` has the calls one by one (the picker's phase and what it
  has left, the depth, the made-up scores) and that each but the last waits for
  the next. For the positions there must be two numberings of the calls, `at` the
  ply and `sent` the number of hashes on the repetition stack (`Placed`): the
  properties define the ply of a call recursively and count hashes by a
  cardinality, which no step could be compared with. `PliesIn`, `PlacesIn` and
  `HashesIn` say that a call's entry has its position, the next call's is what
  the move of this one leads to, half-move clock included, and the hashes are
  theirs; `RowsIn` which rows of the PV table belong to whom.
- An action is of one of six kinds (`GoesOnAs`, `TurnsBackAs`, `AnswersHere`,
  `AnswersAbove`, `CallsHere`, `CallsAfter`), for each of which one lemma shows
  that it keeps `SearchInv`; the proof for an action shows its kind and its
  effect on one call. A ply written to by a call lies above all of those that
  wait, so that none of them loses its position.
- `DrawsAreByTheRule` needs two sums over the line: the half-move clock falls
  behind the hashes by what there was at the last zeroing move (`ClockRuns`), and
  the hashes alternate between the sides (`HashesAlternate`), so that
  `isRepetition()`, which looks at every other one, misses none.

`GameProof`, from `FensAssumption` (the FEN strings are those of positions of
chess, with one king and at most eight pawns a side: `parse()` checks nothing, a
GUI sends what a game can reach) and `MaxPlyAssumption` (the bound is a number).
Nothing is assumed of the number of positions or moves:

- `BoardStaysSound`, `KeptStateStaysFresh`, `MovesAlwaysFollowTheRules`,
  `TextsArePlayedOnce`.
- `GameInvariant` is `BoardIsSound`, the freshness of the board, and
  `CacheIsOfABoard`: the entry of the king-pawn cache is that of some board. None
  is inductive alone. A move changes the pieces as `IsMoveOf` says only on a
  position (castling moves a rook it does not look for, en passant takes a pawn
  unseen); it updates the hashes by what it believes to move, and the generators
  read occupation and attacks, so both rest on freshness; and a hit of the cache is
  right because its key tells kings and pawns apart whatever board it came from.
- `Transfer` is the form in which a move is used: the pairs of type and square
  that are gone and that have come, and the squares taken. Each of the five kinds
  of move is shown to be one, once, and every part of `IsPosition` to be kept by
  any such transfer.
- `MovesAlwaysFollowTheRules` compares two descriptions with nothing in common:
  sets of squares, shifts and ray tables on one side, a board looked at square by
  square and directions on the other. `Shows` ties the boards, `SeesALine` a ray
  with blockers to a line of empty squares, and so the attack of each piece to
  that of the rules (`StrikesIs`). Steps, double steps, captures, promotions and
  en passant are matched one by one (`PawnsLeadTo`), then the other pieces, then
  castling. Two things need an argument of their own. The generator leaves out the
  king's steps to squares attacked before the move, and none of them would be legal
  after it (`KingIntoCheck`). And castling asks for attacks on the squares the king
  crosses as they are before the rook moves; the rules ask no more, the search looks
  once again after the move, and finds nothing, because the rook now blocks every
  line the two left open (`RookBlocks`).
- `TextsArePlayedOnce`: two pseudo-legal moves with the same squares and the same
  promotion are one (`MovesTellApart`), and after the move nothing of the side to
  move stands where it began (`TextIsSpent`).

`EvaluationProof`, which goes on from `GameProof` and has its assumptions, shows
`EvaluationStaysFair` in two halves: both colours are judged alike, and no term is
read outside its table.

- For the first half, `Mirrors` ties a board to its mirror image and `Flips` a set
  of squares to its image: every shift, mask, ray, distance and attack of one
  board is shown to flip to that of the other, each term function to return the
  terms of the other `Flipped`, and the scale of the endgame, which counts pieces
  and pawns, to be the same. The king-pawn terms may come from the cache; a hit
  returns what would be computed (`EntryServes`, from `GameInvariant`), so both
  boards have theirs from nothing.
- For the second half, each index is bounded by what the position allows: a bishop
  reaches at most 13 squares, a rook 14, a queen 27 (`MovesCount`, from the
  distances of a square to the edges), and the mobility tables have room for
  these; rows, files and squares are those of the board; clamped indices stay
  below their clamp; and a table indexed by a number of pawns is long enough
  because a side has at most eight. That no move makes a ninth pawn is a part of
  `IsPosition` (`PawnsFewAfter`): a pawn that comes leaves its square, so the
  pawns after a move are counted by those before.

Inductions over the natural numbers (in `DeepeningProof`, `SearchTreeProof` and,
to count sets, in `EvaluationProof`) are over the numbers in a *set*: the
library's take an operator, which the provers cannot instantiate, but it has that
every set with a well-founded relation has a minimal element (`WFMin`). From it
follow least and greatest numbers, functions given by a first value and a step,
and that an image of a finite set is no larger than the set.

The proofs corrected the model once: the proof of `OptionsTakeEffect` met a step
the model never took, a `setoption name Hash`; it takes it now.

Only model-checked:

- All liveness (`PROPERTY` lines with `~>` or `<>`) and the fairness in the two
  refinements: the provers do neither fairness nor ENABLED. What is proved
  of a refinement is its safety: first states and steps.
- `ExchangesAreExact`: `SeeSwap` is recursive, as the exchange it models is, and
  what a recursive operator computes is out of the provers' reach.
- `ReadBackIsTheSame`: a FEN string is read and written by folds over its words,
  so what it says of every string is an induction over data. What the proofs need
  of `parse()`, that it computes occupation, attacks and hashes of the pieces it
  read, is proved without that (`ParsedIsFresh`).
- The five violations.

## 5. Not modelled, and what is next

- Tuned values (`evaluation/generated/`), the phase and the sum of the static
  evaluation: numbers without a specification. Which terms count is modelled.
- Magic numbers and their generator: constants; the attacks they look up are.
- Killer, counter-move, history and correction tables: they order moves and
  shift the static evaluation, which `SearchTree` leaves open; what they return
  cannot break any of its properties.
- The tablebase library Fathom is not in the repository; `syzygy/syzygy.h` only
  converts to and from it.
- Output formatting (`outputs.h`, PV printing, `scoreMateDistance()`), the
  commands that only print, perft and the tuner: no state.
- The searchers' own tables across a change of `Threads`, and the contents of
  the transposition table across a change of its size.

Next: the tables of `search/` that order moves, and the exchange of `see_swap.h`
in a form without recursion, so that it can be proved about.
