------------------------------- MODULE LazySmp -------------------------------
(***************************************************************************)
(* Iterative deepening with several searchers: iterativeDeepeningMulti()   *)
(* (src/src/evaluation/evaluator.h) against the search jobs it starts with *)
(* startSearchAsync() and awaits with getSearchResult()                    *)
(* (src/src/search/searcher.h).                                            *)
(*                                                                         *)
(* The search that ends first sets the static flag s_searchStopped, which  *)
(* cuts the others short; the deepening job clears it for the next         *)
(* attempt.  Nothing but the order of the stores and the promises keeps a  *)
(* stop of one attempt out of the next.  The job itself runs on a worker   *)
(* of the pool its searches need.  "stop" and the time limit come in       *)
(* through TimeManager's s_timedOut.                                       *)
(***************************************************************************)
EXTENDS Naturals, FiniteSets

CONSTANTS
  NumSearchers,  \* m_searchers.size()
  PoolThreads,   \* threads of m_threadPool
  JobScalar,     \* ThreadPool::s_jobScalar
  Depth,         \* the depth asked for, or s_maxSearchDepth
  HasClock,      \* is the hard time limit finite?
  HasMoves       \* has the root position a legal move?

\* resizeSearchers() gives the pool two threads more than there are searchers.
ASSUME SmpAssumption ==
  /\ NumSearchers \in Nat \ {0}
  /\ PoolThreads = NumSearchers + 2
  /\ JobScalar \in Nat \ {0}
  /\ Depth \in Nat
  /\ HasClock \in BOOLEAN /\ HasMoves \in BOOLEAN

Searchers == 1 .. NumSearchers
Primary == 1     \* m_isPrimary: only the first searcher polls the clock

VARIABLES
  id,             \* what the deepening job does
  k,              \* the searcher its loop is at
  d,              \* the iteration
  window,         \* "full", or "narrow" around the last score
  usable,         \* searchResults: the searchers whose result counts
  best,           \* bestMove: the iteration it is from, 0 for a null move
  searchStopped,  \* s_searchStopped
  timedOut,       \* s_timedOut
  command,        \* "none", then the two last stores of a "stop" command
  spc,            \* what the present search job of each searcher does
  result,         \* what its negamax() returned
  future,         \* m_futureResult
  lingering,      \* workers whose search job has set its promise, not returned
  finished        \* history: searches of this attempt that were not cut short

idVars == <<id, k, d, window, usable, best>>
searchVars == <<spc, result, future, lingering, finished>>
vars == <<id, k, d, window, usable, best, searchStopped, timedOut, command,
          spc, result, future, lingering, finished>>

Init ==
  /\ id = "iterate" /\ k = 1 /\ d = 1 /\ window = "full"
  /\ usable = {} /\ best = 0
  /\ searchStopped = TRUE /\ timedOut = FALSE /\ command = "none"
  /\ spc = [s \in Searchers |-> "idle"]
  /\ result = [s \in Searchers |-> "none"]
  /\ future = [s \in Searchers |-> "none"]
  /\ lingering = 0
  /\ finished = {}

------------------------------------------------------------------------------
(* The deepening job *)

\* Mutant: the loop runs one iteration too many.
WithinDepthOffByOne == d <= Depth + 1

WithinDepth == d <= Depth

\* timeForAnotherSearch(d): always at depth 1; later not once timed out, and
\* with a clock the soft limit may say no.
StartAttempt ==
  /\ id = "iterate"
  /\ WithinDepth
  /\ d <= 1 \/ ~timedOut
  /\ id' = "clear"
  /\ UNCHANGED <<k, d, window, usable, best, searchStopped, timedOut, command,
                 searchVars>>

LeaveLoop ==
  /\ id = "iterate"
  /\ ~WithinDepth \/ (d > 1 /\ (timedOut \/ HasClock))
  /\ id' = "done"
  /\ UNCHANGED <<k, d, window, usable, best, searchStopped, timedOut, command,
                 searchVars>>

\* Mutant: the flag of the last attempt is left set.
KeepStop ==
  /\ id = "clear"
  /\ usable' = {} /\ finished' = {}
  /\ id' = "submit" /\ k' = 1
  /\ UNCHANGED <<d, window, best, searchStopped, timedOut, command, spc, result,
                 future, lingering>>

\* Searcher::setSearchStopped(false); searchResults starts empty.
ClearStop ==
  /\ id = "clear"
  /\ searchStopped' = FALSE
  /\ usable' = {} /\ finished' = {}
  /\ id' = "submit" /\ k' = 1
  /\ UNCHANGED <<d, window, best, timedOut, command, spc, result, future,
                 lingering>>

Queued == {s \in Searchers : spc[s] = "queued"}
PoolHasRoom == Cardinality(Queued) < JobScalar * PoolThreads

\* startSearchAsync: a new promise, and a job for the pool.  A job the pool
\* refuses is lost, its promise never set.
SubmitSearch ==
  /\ id = "submit"
  /\ future' = [future EXCEPT ![k] = "pending"]
  /\ spc' = IF PoolHasRoom THEN [spc EXCEPT ![k] = "queued"] ELSE spc
  /\ IF k < NumSearchers
     THEN k' = k + 1 /\ UNCHANGED id
     ELSE k' = 1 /\ id' = "collect"
  /\ UNCHANGED <<d, window, usable, best, searchStopped, timedOut, command,
                 result, lingering, finished>>

\* Mutant: results are collected until one counts.
CollectUntilUsable ==
  /\ id = "collect"
  /\ future[k] \notin {"none", "pending"}
  /\ usable' = IF future[k] = "inside" THEN usable \cup {k} ELSE usable
  /\ future' = [future EXCEPT ![k] = "none"]
  /\ IF k < NumSearchers /\ future[k] # "inside"
     THEN k' = k + 1 /\ UNCHANGED id
     ELSE k' = 1 /\ id' = "judge"
  /\ UNCHANGED <<d, window, best, searchStopped, timedOut, command, spc, result,
                 lingering, finished>>

\* getSearchResult: blocks until the promise is set.  A result counts if its
\* score is inside the window and it has a PV.
Collect ==
  /\ id = "collect"
  /\ future[k] \notin {"none", "pending"}
  /\ usable' = IF future[k] = "inside" THEN usable \cup {k} ELSE usable
  /\ future' = [future EXCEPT ![k] = "none"]
  /\ IF k < NumSearchers
     THEN k' = k + 1 /\ UNCHANGED id
     ELSE k' = 1 /\ id' = "judge"
  /\ UNCHANGED <<d, window, best, searchStopped, timedOut, command, spc, result,
                 lingering, finished>>

\* hasTimedOut(): the present iteration is incomplete, use the previous one.
JudgeTimedOut ==
  /\ id = "judge"
  /\ timedOut
  /\ id' = "done"
  /\ UNCHANGED <<k, d, window, usable, best, searchStopped, timedOut, command,
                 searchVars>>

\* No result counts: the same depth again, with the full window.
JudgeRetry ==
  /\ id = "judge"
  /\ ~timedOut
  /\ usable = {}
  /\ window' = "full"
  /\ id' = "iterate"
  /\ UNCHANGED <<k, d, usable, best, searchStopped, timedOut, command, searchVars>>

\* The results that count vote; the next window is narrow.
JudgeAccept ==
  /\ id = "judge"
  /\ ~timedOut
  /\ usable # {}
  /\ best' = d
  /\ d' = d + 1
  /\ window' = "narrow"
  /\ id' = "iterate"
  /\ UNCHANGED <<k, usable, searchStopped, timedOut, command, searchVars>>

DeepeningJob ==
  \/ StartAttempt \/ LeaveLoop \/ ClearStop \/ SubmitSearch \/ Collect
  \/ JudgeTimedOut \/ JudgeRetry \/ JudgeAccept

------------------------------------------------------------------------------
(* A search job *)

Busy == {s \in Searchers : spc[s] \in {"searching", "computed", "flagged"}}

\* A worker is free: one runs the deepening job, some run searches, and some
\* have not returned from an earlier one.
WorkerFree == 1 + Cardinality(Busy) + lingering < PoolThreads

StartSearch(s) ==
  /\ spc[s] = "queued"
  /\ WorkerFree
  /\ spc' = [spc EXCEPT ![s] = "searching"]
  /\ UNCHANGED <<idVars, searchStopped, timedOut, command, result, future,
                 lingering, finished>>

\* negamax() searched its tree to the end: inside the window, outside a narrow
\* one, or with an empty PV because the root has no legal move.
FinishSearch(s) ==
  /\ spc[s] = "searching"
  /\ spc' = [spc EXCEPT ![s] = "computed"]
  /\ \E r \in {"inside", "outside", "empty"} :
       /\ r = "empty" <=> ~HasMoves
       /\ r = "outside" => window = "narrow"
       /\ result' = [result EXCEPT ![s] = r]
  /\ finished' = finished \cup {s}
  /\ UNCHANGED <<idVars, searchStopped, timedOut, command, future, lingering>>

\* Mutant: isSearchStopped() only reads s_searchStopped.
CutSearchByOneFlag(s) ==
  /\ spc[s] = "searching"
  /\ searchStopped
  /\ spc' = [spc EXCEPT ![s] = "computed"]
  /\ result' = [result EXCEPT ![s] = "cut"]
  /\ UNCHANGED <<idVars, searchStopped, timedOut, command, future, lingering,
                 finished>>

\* isSearchStopped(): the search returns s_minScore, below every window.
CutSearch(s) ==
  /\ spc[s] = "searching"
  /\ searchStopped \/ timedOut
  /\ spc' = [spc EXCEPT ![s] = "computed"]
  /\ result' = [result EXCEPT ![s] = "cut"]
  /\ UNCHANGED <<idVars, searchStopped, timedOut, command, future, lingering,
                 finished>>

\* updateTimeout() is polled by the primary searcher only.
HardTimeout ==
  /\ HasClock /\ ~timedOut
  /\ spc[Primary] = "searching"
  /\ timedOut' = TRUE
  /\ UNCHANGED <<idVars, searchStopped, command, searchVars>>

\* setSearchStopped(true), and only then the promise is set.
StopOthers(s) ==
  /\ spc[s] = "computed"
  /\ searchStopped' = TRUE
  /\ spc' = [spc EXCEPT ![s] = "flagged"]
  /\ UNCHANGED <<idVars, timedOut, command, result, future, lingering, finished>>

SetPromise(s) ==
  /\ spc[s] = "flagged"
  /\ future' = [future EXCEPT ![s] = result[s]]
  /\ result' = [result EXCEPT ![s] = "none"]
  /\ spc' = [spc EXCEPT ![s] = "idle"]
  /\ lingering' = lingering + 1
  /\ UNCHANGED <<idVars, searchStopped, timedOut, command, finished>>

\* Mutant: the flag is set when the job returns, after the promise.
ReturnAndStop ==
  /\ lingering > 0
  /\ lingering' = lingering - 1
  /\ searchStopped' = TRUE
  /\ UNCHANGED <<idVars, timedOut, command, spc, result, future, finished>>

\* The job returns to the worker loop: the worker is free again.
Return ==
  /\ lingering > 0
  /\ lingering' = lingering - 1
  /\ UNCHANGED <<idVars, searchStopped, timedOut, command, spc, result, future,
                 finished>>

SearchJob(s) == StartSearch(s) \/ CutSearch(s) \/ StopOthers(s) \/ SetPromise(s)

------------------------------------------------------------------------------
(* The UCI thread: Evaluator::stop() while the job is in its loop *)

StopTimer ==
  /\ command = "none"
  /\ timedOut' = TRUE
  /\ command' = "flag"
  /\ UNCHANGED <<idVars, searchStopped, searchVars>>

StopFlag ==
  /\ command = "flag"
  /\ searchStopped' = TRUE
  /\ command' = "given"
  /\ UNCHANGED <<idVars, timedOut, searchVars>>

------------------------------------------------------------------------------

Next ==
  \/ DeepeningJob
  \/ \E s \in Searchers : SearchJob(s) \/ FinishSearch(s)
  \/ HardTimeout
  \/ Return
  \/ StopTimer
  \/ StopFlag

Spec == Init /\ [][Next]_vars

\* Threads are scheduled, a handler that began ends, a running clock is polled
\* while the primary searches.  FairSpec promises nothing about how long the
\* search of one tree takes; TreesEnd says that it ends.
FairSpec ==
  /\ Spec
  /\ WF_vars(DeepeningJob)
  /\ \A s \in Searchers : WF_vars(SearchJob(s))
  /\ WF_vars(HardTimeout) /\ WF_vars(Return) /\ WF_vars(StopFlag)

TreesEnd == \A s \in Searchers : WF_vars(FinishSearch(s))

------------------------------------------------------------------------------
(* What makes it correct *)

TypeInvariant ==
  /\ id \in {"iterate", "clear", "submit", "collect", "judge", "done"}
  /\ k \in Searchers
  /\ d \in 1 .. Depth + 1
  /\ window \in {"full", "narrow"}
  /\ usable \in SUBSET Searchers
  /\ best \in 0 .. Depth
  /\ searchStopped \in BOOLEAN /\ timedOut \in BOOLEAN
  /\ command \in {"none", "flag", "given"}
  /\ spc \in [Searchers -> {"idle", "queued", "searching", "computed", "flagged"}]
  /\ result \in [Searchers -> {"none", "inside", "outside", "empty", "cut"}]
  /\ future \in [Searchers -> {"none", "pending", "inside", "outside", "empty", "cut"}]
  /\ lingering \in Nat
  /\ finished \in SUBSET Searchers

\* A search is cut short only because another search of the same attempt came
\* to its end, or time is up: no stop of an earlier attempt is still on its
\* way (evaluator.h:313-332, searcher.h:106-109).
NoStaleStop ==
  \A s \in Searchers : result[s] = "cut" => finished # {} \/ timedOut

\* Between two attempts no search runs: the searchers, their tables and their
\* promises belong to the deepening job alone (searcher.h:89-97).
NoSearchOutlivesItsAttempt ==
  id \notin {"submit", "collect"} => \A s \in Searchers : spc[s] = "idle"

\* An attempt with the full window that was not stopped has a result, so the
\* loop that retries a depth (evaluator.h:339-344) retries it at most once.
FullWindowSucceeds ==
  id = "judge" /\ window = "full" /\ HasMoves /\ ~timedOut => usable # {}

\* The pool never refuses a search (searcher.h:98-112: only an assertion looks
\* at the answer), and the searcher it is for is not at work.
SubmissionIsTaken == id = "submit" => PoolHasRoom /\ spc[k] = "idle"

\* An attempt takes over searchers, promises and pool slots (searcher.h:89-112)
\* when nothing of the one before uses them any more.
AttemptsStandApart == NoSearchOutlivesItsAttempt /\ SubmissionIsTaken

\* Once time is up, or "stop" was read, the deepening job ends.
TimeIsUpEndsIt == timedOut ~> id = "done"

\* Where every search ends and time is never up, the deepening job ends: no
\* future is awaited for ever, no worker is missing, no depth is retried for
\* ever (evaluator.h:308-401).
DepthIsReached == TreesEnd /\ [](~timedOut) => <>(id = "done")

\* The deepening job ends one way or the other: both of the above.
DeepeningMovesOn == TimeIsUpEndsIt /\ DepthIsReached

\* uci_protocol.txt:210-211, bestmove: "for every "go" command a "bestmove"
\* command is needed!", also for a position without a legal move.
GoIsAnswered == TreesEnd => <>(id = "done")
==============================================================================
