---------------------------- MODULE SearchSession ----------------------------
(***************************************************************************)
(* A UCI session with one searcher thread (Threads = 1): the UCI input     *)
(* thread (src/src/interface/uci_handler.h) against the search job that    *)
(* each "go" puts on the thread pool (src/src/evaluation/evaluator.h), and *)
(* the flags they share: Evaluator::m_isPondering and m_killed,            *)
(* Searcher::s_searchStopped, and TimeManager's time limits and s_timedOut *)
(* (src/src/core/time_manager.h).                                          *)
(*                                                                         *)
(* None of these flags is guarded by a lock, so each store is a step.  The *)
(* GUI keeps to the protocol: it sends "go" and "setoption" only when      *)
(* every earlier "go" was answered, and "ponderhit" only for a ponder      *)
(* search it has neither stopped nor hit yet.  "stop" and "quit" may come  *)
(* at any time.  The search of one iteration is a step that ends inside or *)
(* outside its window, or cut short when it sees one of the stop flags.    *)
(***************************************************************************)
EXTENDS Naturals, FiniteSets, SequencesExt

CONSTANTS
  MaxGos,         \* bound: "go" commands in a session
  MaxDepth,       \* s_maxSearchDepth, made small
  RequestedDepth, \* the N of "go depth N"
  NarrowFrom,     \* spsa::aspirationMinDepth, made small
  MaxFails        \* widenings after which the aspiration window is full

ASSUME SessionAssumption ==
  /\ MaxGos \in Nat /\ MaxFails \in Nat
  /\ MaxDepth \in Nat \ {0}
  /\ RequestedDepth \in 1 .. MaxDepth
  /\ NarrowFrom \in Nat

Gos == 1 .. MaxGos
Kinds == {"timed", "infinite", "depth", "ponder"}
HasClock(k) == k \in {"timed", "ponder"}

VARIABLES
  (* the UCI thread *)
  uci,           \* what it does: "read" a line, or a step of a handler
  stopsLeft,     \* calls of Evaluator::stop() the handler still makes
  sent,          \* number of "go" commands read
  kind,          \* the arguments of each
  told,          \* history: "stop" and "ponderhit" commands, per go
  (* shared by all threads *)
  pondering,     \* m_isPondering
  ponderEnabled, \* m_ponderingEnabled
  killed,        \* m_killed
  searchStopped, \* s_searchStopped
  timedOut,      \* s_timedOut
  clock,         \* was a time control given (s_whiteTime, s_moveTime, ...)?
  limit,         \* s_hardTimeLimit: "finite", or "infinite" (Duration::max)
  ponderMove,    \* m_ponderMove: the go that searched it, 0 for none
  inPvTable,     \* the gos that have searched since m_pvTable was last cleared
  (* the search job of each go *)
  pc,            \* what the job does
  mode,          \* the branch getBestMove() took: "timed" or "infinite"
  d,             \* the iteration
  fails,         \* how often the window of this iteration was widened
  found,         \* what startSearch() returned
  best,          \* bestMove: the iteration it is from, 0 for a null move
  printed        \* was "bestmove" printed?

uciVars == <<uci, stopsLeft, sent, kind, told>>
flags == <<pondering, killed, searchStopped, timedOut>>
options == <<ponderEnabled, clock>>
ponderVars == <<ponderMove, inPvTable>>
jobVars == <<pc, mode, d, fails, found, best, printed>>
vars == <<uci, stopsLeft, sent, kind, told, pondering, ponderEnabled, killed,
          searchStopped, timedOut, clock, limit, ponderMove, inPvTable, pc, mode,
          d, fails, found, best, printed>>

Init ==
  /\ uci = "read" /\ stopsLeft = 0 /\ sent = 0
  /\ kind = [g \in Gos |-> "timed"]
  /\ told = [g \in Gos |-> {}]
  /\ pondering = FALSE /\ ponderEnabled = FALSE /\ killed = FALSE
  /\ searchStopped = TRUE /\ timedOut = FALSE
  /\ clock = FALSE /\ limit = "finite"
  /\ ponderMove = 0 /\ inPvTable = {}
  /\ pc = [g \in Gos |-> "none"]
  /\ mode = [g \in Gos |-> "timed"]
  /\ d = [g \in Gos |-> 1]
  /\ fails = [g \in Gos |-> 0]
  /\ found = [g \in Gos |-> "none"]
  /\ best = [g \in Gos |-> 0]
  /\ printed = [g \in Gos |-> FALSE]

\* The go whose answer the GUI still waits for, if any.
Outstanding == {g \in 1 .. sent : ~printed[g]}

------------------------------------------------------------------------------
(* The UCI thread *)

SetPonderOption(b) ==
  /\ uci = "read" /\ Outstanding = {}
  /\ ponderEnabled' = b
  /\ UNCHANGED <<uciVars, flags, clock, limit, ponderVars, jobVars>>

\* handleGo: resetTiming() first, then the clock of the command.
ReadGo(k) ==
  /\ uci = "read" /\ Outstanding = {}
  /\ sent < MaxGos
  /\ k = "ponder" => ponderEnabled
  /\ sent' = sent + 1
  /\ kind' = [kind EXCEPT ![sent + 1] = k]
  /\ timedOut' = FALSE
  /\ clock' = HasClock(k)
  /\ uci' = IF k = "ponder" THEN "startPondering" ELSE "submit"
  /\ UNCHANGED <<stopsLeft, told, pondering, killed, searchStopped,
                 ponderEnabled, limit, ponderVars, jobVars>>

\* handlePosition and handleUcinewgame: Evaluator::reset() clears the PV table,
\* but not m_ponderMove.
ReadPosition ==
  /\ uci = "read" /\ Outstanding = {}
  /\ timedOut' = FALSE
  /\ clock' = FALSE
  /\ inPvTable' = {}
  /\ UNCHANGED <<uciVars, pondering, killed, searchStopped, ponderEnabled,
                 limit, ponderMove, jobVars>>

\* startPondering: refused while m_isPondering, and then no job is submitted.
StartPondering ==
  /\ uci = "startPondering"
  /\ IF pondering \/ ~ponderEnabled
     THEN uci' = "read" /\ UNCHANGED pondering
     ELSE uci' = "submit" /\ pondering' = TRUE
  /\ UNCHANGED <<stopsLeft, sent, kind, told, killed, searchStopped, timedOut,
                 options, limit, ponderVars, jobVars>>

\* getBestMoveAsync: the pool has a free worker for it (three threads).
Submit ==
  /\ uci = "submit"
  /\ pc' = [pc EXCEPT ![sent] = "queued"]
  /\ uci' = "read"
  /\ UNCHANGED <<stopsLeft, sent, kind, told, flags, options, limit,
                 ponderVars, mode, d, fails, found, best, printed>>

TellOutstanding(word) ==
  told' = [g \in Gos |-> IF g \in Outstanding THEN told[g] \cup {word} ELSE told[g]]

\* handlePonderhit: onPonderHit() clears m_isPondering and calls
\* TimeManager::start(), which sets the limits and then s_timedOut.
ReadPonderhit ==
  /\ uci = "read"
  /\ \E g \in Outstanding : kind[g] = "ponder" /\ told[g] = {}
  /\ TellOutstanding("ponderhit")
  /\ uci' = IF ponderEnabled THEN "hitLimits" ELSE "read"
  /\ pondering' = (pondering /\ ~ponderEnabled)
  /\ UNCHANGED <<stopsLeft, sent, kind, killed, searchStopped, timedOut,
                 options, limit, ponderVars, jobVars>>

TimeControl == IF clock THEN "finite" ELSE "infinite"

PonderhitLimits ==
  /\ uci = "hitLimits"
  /\ limit' = TimeControl
  /\ uci' = "hitArm"
  /\ UNCHANGED <<stopsLeft, sent, kind, told, flags, options, ponderVars, jobVars>>

PonderhitArm ==
  /\ uci = "hitArm"
  /\ timedOut' = FALSE
  /\ uci' = "read"
  /\ UNCHANGED <<stopsLeft, sent, kind, told, pondering, killed, searchStopped,
                 options, limit, ponderVars, jobVars>>

ReadStop ==
  /\ uci = "read"
  /\ TellOutstanding("stop")
  /\ uci' = "stop1" /\ stopsLeft' = 1
  /\ UNCHANGED <<sent, kind, flags, options, limit, ponderVars, jobVars>>

\* handleQuit: kill() sets m_killed and calls stop(); the input loop ends and
\* run() calls stop() once more.
ReadQuit ==
  /\ uci = "read"
  /\ TellOutstanding("stop")
  /\ killed' = TRUE
  /\ uci' = "stop1" /\ stopsLeft' = 2
  /\ UNCHANGED <<sent, kind, pondering, searchStopped, timedOut, options,
                 limit, ponderVars, jobVars>>

UciStep ==
  \/ StartPondering
  \/ Submit
  \/ PonderhitLimits
  \/ PonderhitArm

------------------------------------------------------------------------------
(* Evaluator::stop(), three stores, by the UCI thread and by the job *)

\* Mutant: stop() leaves m_isPondering alone.
KeepPondering == UNCHANGED pondering

ClearPondering == pondering' = FALSE

UciStop1 ==
  /\ uci = "stop1"
  /\ ClearPondering
  /\ uci' = "stop2"
  /\ UNCHANGED <<stopsLeft, sent, kind, told, killed, searchStopped, timedOut,
                 options, limit, ponderVars, jobVars>>

UciStop2 ==
  /\ uci = "stop2"
  /\ timedOut' = TRUE
  /\ uci' = "stop3"
  /\ UNCHANGED <<stopsLeft, sent, kind, told, pondering, killed, searchStopped,
                 options, limit, ponderVars, jobVars>>

UciStop3 ==
  /\ uci = "stop3"
  /\ searchStopped' = TRUE
  /\ stopsLeft' = stopsLeft - 1
  /\ uci' = IF stopsLeft > 1 THEN "stop1" ELSE IF killed THEN "closed" ELSE "read"
  /\ UNCHANGED <<sent, kind, told, pondering, killed, timedOut, options, limit,
                 ponderVars, jobVars>>

UciStop == UciStop1 \/ UciStop2 \/ UciStop3

------------------------------------------------------------------------------
(* The job of a go: getBestMove(), iterativeDeepeningSingle(), stop() and   *)
(* the report                                                               *)

\* Mutant: the loop runs one iteration too many.
DepthOffByOne(g) == IF kind[g] = "depth" THEN RequestedDepth ELSE MaxDepth + 1

Depth(g) == IF kind[g] = "depth" THEN RequestedDepth ELSE MaxDepth

Goto(g, from, to) ==
  /\ pc[g] = from
  /\ pc' = [pc EXCEPT ![g] = to]

\* The steps from the end of the loop to the end of the job, in this order.
\* Mutant: bestmove is printed before the flags are set.
EpilogueReportsFirst == <<"report", "print", "stop1", "stop2", "stop3", "done">>

Epilogue == <<"stop1", "stop2", "stop3", "report", "print", "done">>

After(step) == Epilogue[1 + CHOOSE i \in 1 .. 5 : Epilogue[i] = step]

ChooseMode(g) ==
  /\ Goto(g, "queued", "limits")
  /\ mode' = [mode EXCEPT ![g] =
                IF pondering \/ kind[g] = "depth" THEN "infinite" ELSE "timed"]
  /\ UNCHANGED <<uciVars, flags, options, limit, ponderVars, d, fails, found,
                 best, printed>>

\* Mutant: getBestMove() always calls startInfinite().
SetLimitsInfinite(g) ==
  /\ Goto(g, "limits", "arm")
  /\ limit' = "infinite"
  /\ UNCHANGED <<uciVars, flags, options, ponderVars, mode, d, fails, found,
                 best, printed>>

\* TimeManager::start() or startInfinite(): the limits, then s_timedOut.
SetLimits(g) ==
  /\ Goto(g, "limits", "arm")
  /\ limit' = IF mode[g] = "timed" THEN TimeControl ELSE "infinite"
  /\ UNCHANGED <<uciVars, flags, options, ponderVars, mode, d, fails, found,
                 best, printed>>

Arm(g) ==
  /\ Goto(g, "arm", "iterate")
  /\ timedOut' = FALSE
  /\ UNCHANGED <<uciVars, pondering, killed, searchStopped, options, limit,
                 ponderVars, mode, d, fails, found, best, printed>>

\* timeForAnotherSearch(d): yes at depth 1, no once timed out; in between the
\* soft limit decides, which is infinite when the hard limit is.
MayEnd(g) == d[g] > 1 /\ (timedOut \/ limit = "finite")
MayGoOn(g) == d[g] <= 1 \/ ~timedOut

\* Mutant: bestMove is declared inside the loop.
StartIterationForgets(g) ==
  /\ Goto(g, "iterate", "begin")
  /\ d[g] <= Depth(g)
  /\ MayGoOn(g)
  /\ fails' = [fails EXCEPT ![g] = 0]
  /\ best' = [best EXCEPT ![g] = 0]
  /\ UNCHANGED <<uciVars, flags, options, limit, ponderVars, mode, d, found,
                 printed>>

StartIteration(g) ==
  /\ Goto(g, "iterate", "begin")
  /\ d[g] <= Depth(g)
  /\ MayGoOn(g)
  /\ fails' = [fails EXCEPT ![g] = 0]
  /\ UNCHANGED <<uciVars, flags, options, limit, ponderVars, mode, d, found,
                 best, printed>>

LeaveLoop(g) ==
  /\ Goto(g, "iterate", Epilogue[1])
  /\ d[g] > Depth(g) \/ MayEnd(g)
  /\ UNCHANGED <<uciVars, flags, options, limit, ponderVars, mode, d, fails,
                 found, best, printed>>

\* Searcher::setSearchStopped(false), then startSearch().
BeginSearch(g) ==
  /\ Goto(g, "begin", "search")
  /\ searchStopped' = FALSE
  /\ inPvTable' = inPvTable \cup {g}
  /\ UNCHANGED <<uciVars, pondering, killed, timedOut, options, limit,
                 ponderMove, mode, d, fails, found, best, printed>>

\* The tree is searched to its end.  A full window cannot be missed.
FinishSearch(g) ==
  /\ Goto(g, "search", "judge")
  /\ \E result \in {"inside", "outside"} :
       /\ result = "outside" => d[g] >= NarrowFrom /\ fails[g] < MaxFails
       /\ found' = [found EXCEPT ![g] = result]
  /\ UNCHANGED <<uciVars, flags, options, limit, ponderVars, mode, d, fails,
                 best, printed>>

\* isSearchStopped(): negamax returns s_minScore all the way up.
CutSearch(g) ==
  /\ Goto(g, "search", "judge")
  /\ searchStopped \/ timedOut
  /\ found' = [found EXCEPT ![g] = "cut"]
  /\ UNCHANGED <<uciVars, flags, options, limit, ponderVars, mode, d, fails,
                 best, printed>>

\* isSearchStopped() polls TimeManager::updateTimeout() every 2048 nodes.
HardTimeout(g) ==
  /\ pc[g] = "search"
  /\ limit = "finite" /\ ~timedOut
  /\ timedOut' = TRUE
  /\ UNCHANGED <<uciVars, pondering, killed, searchStopped, options, limit,
                 ponderVars, jobVars>>

\* After startSearch(): hasTimedOut() ends the iteration.
GiveUpIteration(g) ==
  /\ Goto(g, "judge", "iterate")
  /\ timedOut
  /\ d' = [d EXCEPT ![g] = @ + 1]
  /\ UNCHANGED <<uciVars, flags, options, limit, ponderVars, mode, fails,
                 found, best, printed>>

\* s_minScore is below every window: a search cut short fails low.
Usable(g) == found[g] = "inside"

\* getPonderMove() reads the second place of the first row of the PV table,
\* whether or not the PV is that long: what any search has left there since the
\* table was cleared.
NewPonderMove == {0} \cup inPvTable

AcceptIteration(g) ==
  /\ Goto(g, "judge", "iterate")
  /\ ~timedOut /\ Usable(g)
  /\ best' = [best EXCEPT ![g] = d[g]]
  /\ ponderMove' \in NewPonderMove
  /\ d' = [d EXCEPT ![g] = @ + 1]
  /\ UNCHANGED <<uciVars, flags, options, limit, inPvTable, mode, fails, found,
                 printed>>

WidenWindow(g) ==
  /\ Goto(g, "judge", "begin")
  /\ ~timedOut /\ ~Usable(g)
  /\ fails' = [fails EXCEPT ![g] = IF @ < MaxFails THEN @ + 1 ELSE @]
  /\ UNCHANGED <<uciVars, flags, options, limit, ponderVars, mode, d, found,
                 best, printed>>

JobStop1(g) ==
  /\ Goto(g, "stop1", After("stop1"))
  /\ ClearPondering
  /\ UNCHANGED <<uciVars, killed, searchStopped, timedOut, options, limit,
                 ponderVars, mode, d, fails, found, best, printed>>

JobStop2(g) ==
  /\ Goto(g, "stop2", After("stop2"))
  /\ timedOut' = TRUE
  /\ UNCHANGED <<uciVars, pondering, killed, searchStopped, options, limit,
                 ponderVars, mode, d, fails, found, best, printed>>

JobStop3(g) ==
  /\ Goto(g, "stop3", After("stop3"))
  /\ searchStopped' = TRUE
  /\ UNCHANGED <<uciVars, pondering, killed, timedOut, options, limit,
                 ponderVars, mode, d, fails, found, best, printed>>

\* The job returns: its locals are gone, and nobody asks for its go any more.
Return(g) ==
  /\ kind' = [kind EXCEPT ![g] = "timed"]
  /\ told' = [told EXCEPT ![g] = {}]
  /\ mode' = [mode EXCEPT ![g] = "timed"]
  /\ d' = [d EXCEPT ![g] = 1]
  /\ fails' = [fails EXCEPT ![g] = 0]
  /\ found' = [found EXCEPT ![g] = "none"]

\* if (m_killed) return;
ReturnIfKilled(g) ==
  /\ Goto(g, "report", "done")
  /\ killed
  /\ Return(g)
  /\ UNCHANGED <<uci, stopsLeft, sent, flags, options, limit, ponderVars, best,
                 printed>>

ReportUnlessKilled(g) ==
  /\ Goto(g, "report", After("report"))
  /\ ~killed
  /\ UNCHANGED <<uciVars, flags, options, limit, ponderVars, mode, d, fails,
                 found, best, printed>>

PrintBestMove(g) ==
  /\ Goto(g, "print", After("print"))
  /\ printed' = [printed EXCEPT ![g] = TRUE]
  /\ Return(g)
  /\ UNCHANGED <<uci, stopsLeft, sent, flags, options, limit, ponderVars, best>>

\* Every step of the job but the end of a search.
JobStep(g) ==
  \/ ChooseMode(g) \/ SetLimits(g) \/ Arm(g)
  \/ StartIteration(g) \/ LeaveLoop(g) \/ BeginSearch(g) \/ CutSearch(g)
  \/ GiveUpIteration(g) \/ AcceptIteration(g) \/ WidenWindow(g)
  \/ JobStop1(g) \/ JobStop2(g) \/ JobStop3(g)
  \/ ReturnIfKilled(g) \/ ReportUnlessKilled(g) \/ PrintBestMove(g)

------------------------------------------------------------------------------

Next ==
  \/ \E b \in BOOLEAN : SetPonderOption(b)
  \/ \E k \in Kinds : ReadGo(k)
  \/ ReadPosition
  \/ ReadPonderhit
  \/ ReadStop
  \/ ReadQuit
  \/ UciStep
  \/ UciStop
  \/ \E g \in Gos : JobStep(g) \/ FinishSearch(g) \/ HardTimeout(g)

Spec == Init /\ [][Next]_vars

\* Threads are scheduled and handlers return.  The clock of a search with a
\* time limit is polled for as long as the search runs.  A search is promised
\* to end by itself only for a depth somebody asked for: the tree of an
\* unlimited one outgrows every patience.
Fairness ==
  /\ WF_vars(UciStep) /\ WF_vars(UciStop)
  /\ \A g \in Gos : /\ WF_vars(JobStep(g))
                    /\ WF_vars(HardTimeout(g))
                    /\ WF_vars(kind[g] = "depth" /\ FinishSearch(g))

FairSpec == Spec /\ Fairness

------------------------------------------------------------------------------
(* What makes a session correct *)

TypeInvariant ==
  /\ uci \in {"read", "startPondering", "submit", "hitLimits", "hitArm",
              "stop1", "stop2", "stop3", "closed"}
  /\ stopsLeft \in 0 .. 2
  /\ sent \in 0 .. MaxGos
  /\ kind \in [Gos -> Kinds]
  /\ told \in [Gos -> SUBSET {"stop", "ponderhit"}]
  /\ {pondering, ponderEnabled, killed, searchStopped, timedOut, clock} \subseteq BOOLEAN
  /\ limit \in {"finite", "infinite"}
  /\ ponderMove \in Gos \cup {0}
  /\ inPvTable \subseteq Gos
  /\ pc \in [Gos -> {"none", "queued", "limits", "arm", "iterate", "begin", "search",
                     "judge", "stop1", "stop2", "stop3", "report", "print", "done"}]
  /\ mode \in [Gos -> {"timed", "infinite"}]
  /\ d \in [Gos -> 1 .. MaxDepth + 1]
  /\ fails \in [Gos -> 0 .. MaxFails]
  /\ found \in [Gos -> {"none", "inside", "outside", "cut"}]
  /\ best \in [Gos -> 0 .. MaxDepth]
  /\ printed \in [Gos -> BOOLEAN]

\* A search without a time limit is cut short only by a "stop" or "quit" that
\* came for it: the stop() a search job calls for itself (evaluator.h:198) and
\* a "stop" read while idle are over before the next search reads the flags.
CutOnlyWhenTold ==
  \A g \in Gos :
    pc[g] = "judge" /\ found[g] = "cut" /\ limit = "infinite" => "stop" \in told[g]

\* startPondering never finds m_isPondering still set (evaluator.h:90): whatever
\* ended the ponder searches before it - a stop, a ponderhit, the deepest
\* iteration - every "go ponder" of a GUI that enabled pondering becomes a job.
PonderGoIsAccepted == uci = "startPondering" => ~pondering /\ ponderEnabled

\* Once s_timedOut is set for a search in its loop, the job ends: a ponderhit
\* that clears the flag again leaves a clock running (evaluator.h:262-276).
TimedOutSearchEnds ==
  \A g \in Gos :
    timedOut /\ pc[g] \in {"iterate", "begin", "search", "judge"} ~> pc[g] = "done"

\* A go with a clock or a depth is answered without any further command,
\* unless the program is told to quit (evaluator.h:97-115).
BoundedGoIsAnswered ==
  \A g \in Gos :
    pc[g] = "queued" /\ kind[g] \in {"timed", "depth"} ~> printed[g] \/ killed

\* No go is left hanging: both of the above.
GoesAreAnswered == TimedOutSearchEnds /\ BoundedGoIsAnswered

Thinking(g) == pc[g] \notin {"none", "queued", "done"} /\ ~printed[g]

Service == INSTANCE Analysis WITH
  phase <- [g \in Gos |-> IF printed[g] THEN "answered"
                          ELSE IF Thinking(g) THEN "thinking"
                          ELSE IF pc[g] = "done" THEN "silenced" ELSE "idle"],
  depth <- best

\* Seen from the GUI the session is one analysis at a time, each only ever
\* deepened and answered once.
ImplementsAnalysis == Service!Spec

------------------------------------------------------------------------------
(* What the protocol text and the comments say, and the code does not do *)

\* uci_protocol.txt:173-175, stop: "stop calculating as soon as possible".
StopIsObeyed ==
  \A g \in Gos : pc[g] # "none" /\ "stop" \in told[g] ~> pc[g] = "done"

\* uci_protocol.txt:177-179, ponderhit: "The engine should continue searching
\* but switch from pondering to normal search".
PonderhitSwitchesToNormal ==
  \A g \in Gos :
    told[g] = {"ponderhit"} ~> pc[g] = "done" \/ "stop" \in told[g]

\* No command is forgotten: both of the above.  A job that arms its time manager
\* late overwrites what the command has set, s_timedOut of a stop
\* (time_manager.h:53) or the limits of a ponderhit (evaluator.h:79).
CommandsAreObeyed == StopIsObeyed /\ PonderhitSwitchesToNormal

\* time_manager.h:17: "always search at least one depth to ensure we have a
\* PV move".
BestMoveIsAMove == \A g \in Gos : pc[g] = "print" => best[g] # 0

\* uci_protocol.txt:209, bestmove: "the engine can send the move it likes to
\* ponder on", so one the search of this go has come across, at least when its
\* position cleared the PV table.  m_ponderMove is never reset (evaluator.h:286):
\* a go that is cut short in its first iteration prints that of an earlier one.
PonderMoveIsOfThisGo ==
  \A g \in Gos :
    pc[g] = "print" /\ ponderEnabled /\ inPvTable \subseteq {g} => ponderMove \in {0, g}

\* What is printed was found by the search of this go: both of the above.
AnswerIsOfThisGo == BestMoveIsAMove /\ PonderMoveIsOfThisGo
==============================================================================
