----------------------------- MODULE LazySmpProof ----------------------------
(***************************************************************************)
(* Proofs about LazySmp, for any number of searchers and any depth.        *)
(***************************************************************************)
EXTENDS LazySmp, FiniteSetTheorems, TLAPS

(* The parts of the inductive invariant that are no properties themselves *)

States == {"idle", "queued", "searching", "computed", "flagged"}
Ends == {"inside", "outside", "empty"}

\* Which searches may be under way, given where the deepening job is.
Phases ==
  /\ id \notin {"submit", "collect"} =>
       \A s \in Searchers : spc[s] = "idle" /\ future[s] = "none"
  /\ id = "submit" =>
       \A s \in Searchers : s >= k => spc[s] = "idle" /\ future[s] = "none"
  /\ id = "collect" =>
       \A s \in Searchers : s < k => spc[s] = "idle" /\ future[s] = "none"
  /\ \A s \in Searchers : spc[s] # "idle" => future[s] = "pending"
  /\ \A s \in Searchers : result[s] # "none" => spc[s] \in {"computed", "flagged"}
  /\ \A s \in Searchers : spc[s] \in {"computed", "flagged"} => result[s] # "none"
  /\ id \notin {"iterate", "done"} => d <= Depth

\* Why a search was cut, why the flag is set, why a first result is there.
Causes ==
  /\ command # "none" => timedOut
  /\ \A s \in Searchers :
       result[s] = "cut" \/ future[s] = "cut" => finished # {} \/ timedOut
  /\ \A s \in Searchers : result[s] \in Ends \/ future[s] \in Ends => s \in finished
  /\ id \in {"submit", "collect"} /\ searchStopped => finished # {} \/ timedOut
  /\ id = "judge" \/ (id = "collect" /\ k > 1) => finished # {} \/ timedOut

\* In a full window no result of a search that came to its end gets lost.
Results ==
  window = "full" /\ HasMoves /\ id \in {"submit", "collect", "judge"} =>
    \A s \in finished : result[s] = "inside" \/ future[s] = "inside" \/ s \in usable

IInv == TypeInvariant /\ Phases /\ Causes /\ Results

------------------------------------------------------------------------------

LEMMA InvInit == Init => IInv
<1> SUFFICES ASSUME Init PROVE IInv
  OBVIOUS
<1> USE SmpAssumption DEF Init, Searchers
<1>1. TypeInvariant
  <2>1. k \in Searchers /\ d \in 1 .. Depth + 1 /\ best \in 0 .. Depth /\ lingering \in Nat
    OBVIOUS
  <2> QED
    BY <2>1 DEF TypeInvariant
<1>2. Phases /\ Causes /\ Results
  BY DEF Phases, Causes, Results, Ends
<1> QED
  BY <1>1, <1>2 DEF IInv

LEMMA TypeStep == TypeInvariant /\ Phases /\ [Next]_vars => TypeInvariant'
<1> SUFFICES ASSUME TypeInvariant, Phases, [Next]_vars PROVE TypeInvariant'
  OBVIOUS
<1> USE SmpAssumption DEF TypeInvariant, idVars, searchVars, Searchers
<1>1. CASE DeepeningJob
  <2>1. CASE StartAttempt \/ LeaveLoop \/ JudgeTimedOut \/ JudgeRetry
    <3>1. /\ id' \in {"clear", "done", "iterate"} /\ window' \in {"full", "narrow"}
          /\ UNCHANGED <<k, d, usable, best, searchStopped, timedOut, command, searchVars>>
      BY <2>1 DEF StartAttempt, LeaveLoop, JudgeTimedOut, JudgeRetry
    <3> QED
      BY <3>1
  <2>2. CASE ClearStop
    <3>1. /\ id' = "submit" /\ k' = 1 /\ usable' = {} /\ finished' = {} /\ searchStopped' = FALSE
          /\ UNCHANGED <<d, window, best, timedOut, command, spc, result, future, lingering>>
      BY <2>2 DEF ClearStop
    <3>2. k' \in Searchers
      BY <3>1
    <3> QED
      BY <3>1, <3>2
  <2>3. CASE SubmitSearch
    <3>1. spc' \in [Searchers -> {"idle", "queued", "searching", "computed", "flagged"}]
      BY <2>3 DEF SubmitSearch
    <3>2. id' \in {"submit", "collect"} /\ k' \in Searchers
      BY <2>3 DEF SubmitSearch
    <3>3. /\ future' = [future EXCEPT ![k] = "pending"]
          /\ UNCHANGED <<d, window, usable, best, searchStopped, timedOut, command,
                         result, lingering, finished>>
      BY <2>3 DEF SubmitSearch
    <3> QED
      BY <3>1, <3>2, <3>3
  <2>4. CASE Collect
    BY <2>4 DEF Collect
  <2>5. CASE JudgeAccept
    BY <2>5 DEF JudgeAccept, Phases
  <2> QED
    BY <1>1, <2>1, <2>2, <2>3, <2>4, <2>5 DEF DeepeningJob
<1>2. ASSUME NEW s \in Searchers, SearchJob(s) \/ FinishSearch(s) PROVE TypeInvariant'
  <2>1. CASE StartSearch(s)
    BY <2>1 DEF StartSearch
  <2>2. CASE CutSearch(s) \/ FinishSearch(s)
    BY <2>2, ZenonT(90) DEF CutSearch, FinishSearch
  <2>3. CASE StopOthers(s)
    BY <2>3 DEF StopOthers
  <2>4. CASE SetPromise(s)
    BY <2>4 DEF SetPromise
  <2> QED
    BY <1>2, <2>1, <2>2, <2>3, <2>4 DEF SearchJob
<1>3. CASE HardTimeout
  BY <1>3 DEF HardTimeout
<1>4. CASE Return
  BY <1>4 DEF Return
<1>5. CASE StopTimer
  BY <1>5 DEF StopTimer
<1>6. CASE StopFlag
  BY <1>6 DEF StopFlag
<1>7. CASE UNCHANGED vars
  BY <1>7 DEF vars
<1> QED
  BY <1>1, <1>2, <1>3, <1>4, <1>5, <1>6, <1>7 DEF Next

LEMMA PhasesStep == TypeInvariant /\ Phases /\ [Next]_vars => Phases'
<1> SUFFICES ASSUME TypeInvariant, Phases, [Next]_vars PROVE Phases'
  OBVIOUS
<1> USE SmpAssumption DEF TypeInvariant, Phases, idVars, searchVars, Searchers
<1>1. CASE DeepeningJob
  <2>1. CASE StartAttempt
    BY <2>1 DEF StartAttempt, WithinDepth
  <2>2. CASE LeaveLoop \/ ClearStop \/ JudgeTimedOut \/ JudgeRetry \/ JudgeAccept
    BY <2>2 DEF LeaveLoop, ClearStop, JudgeTimedOut, JudgeRetry, JudgeAccept
  <2>3. CASE SubmitSearch
    BY <2>3 DEF SubmitSearch
  <2>4. CASE Collect
    BY <2>4 DEF Collect
  <2> QED
    BY <1>1, <2>1, <2>2, <2>3, <2>4 DEF DeepeningJob
<1>2. ASSUME NEW s \in Searchers, SearchJob(s) \/ FinishSearch(s) PROVE Phases'
  <2>1. CASE StartSearch(s)
    BY <2>1 DEF StartSearch
  <2>2. CASE CutSearch(s) \/ FinishSearch(s)
    <3>1. PICK r \in {"inside", "outside", "empty", "cut"} :
            /\ spc[s] = "searching"
            /\ spc' = [spc EXCEPT ![s] = "computed"]
            /\ result' = [result EXCEPT ![s] = r]
            /\ UNCHANGED <<idVars, future>>
      BY <2>2 DEF CutSearch, FinishSearch
    <3> QED
      BY <3>1
  <2>3. CASE StopOthers(s)
    BY <2>3 DEF StopOthers
  <2>4. CASE SetPromise(s)
    BY <2>4 DEF SetPromise
  <2> QED
    BY <1>2, <2>1, <2>2, <2>3, <2>4 DEF SearchJob
<1>3. CASE HardTimeout \/ Return \/ StopTimer \/ StopFlag
  BY <1>3 DEF HardTimeout, Return, StopTimer, StopFlag
<1>4. CASE UNCHANGED vars
  BY <1>4 DEF vars
<1> QED
  BY <1>1, <1>2, <1>3, <1>4 DEF Next

LEMMA CausesStep == TypeInvariant /\ Phases /\ Causes /\ [Next]_vars => Causes'
<1> SUFFICES ASSUME TypeInvariant, Phases, Causes, [Next]_vars PROVE Causes'
  OBVIOUS
<1> USE SmpAssumption DEF Causes, Ends, idVars, searchVars, Searchers
<1>0. /\ future \in [Searchers -> {"none", "pending", "inside", "outside", "empty", "cut"}]
      /\ result \in [Searchers -> {"none", "inside", "outside", "empty", "cut"}]
      /\ k \in Searchers /\ finished \in SUBSET Searchers
  BY DEF TypeInvariant
<1>1. CASE DeepeningJob
  <2>1. CASE StartAttempt \/ LeaveLoop \/ JudgeTimedOut \/ JudgeRetry \/ JudgeAccept
    BY <2>1 DEF StartAttempt, LeaveLoop, JudgeTimedOut, JudgeRetry, JudgeAccept
  <2>2. CASE ClearStop
    <3>1. \A s \in Searchers : result[s] = "none" /\ future[s] = "none"
      BY <2>2 DEF ClearStop, Phases
    <3> QED
      BY <2>2, <3>1 DEF ClearStop
  <2>3. CASE SubmitSearch
    BY <1>0, <2>3 DEF SubmitSearch, Phases
  <2>4. CASE Collect
    <3>1. finished # {} \/ timedOut
      BY <1>0, <2>4 DEF Collect
    <3>2. /\ future' = [future EXCEPT ![k] = "none"]
          /\ UNCHANGED <<searchStopped, timedOut, command, result, finished>>
      BY <2>4 DEF Collect
    <3> QED
      BY <1>0, <3>1, <3>2
  <2> QED
    BY <1>1, <2>1, <2>2, <2>3, <2>4 DEF DeepeningJob
<1>2. ASSUME NEW s \in Searchers, SearchJob(s) \/ FinishSearch(s) PROVE Causes'
  <2>0. spc[s] # "idle" => id \in {"submit", "collect"}
    BY DEF Phases
  <2>1. CASE StartSearch(s)
    BY <2>1 DEF StartSearch
  <2>2. CASE CutSearch(s)
    <3>1. id \in {"submit", "collect"} /\ (searchStopped \/ timedOut)
      BY <2>0, <2>2 DEF CutSearch
    <3> QED
      BY <1>0, <2>2, <3>1 DEF CutSearch
  <2>3. CASE FinishSearch(s)
    <3>1. PICK r \in Ends : result' = [result EXCEPT ![s] = r]
      BY <2>3 DEF FinishSearch
    <3>2. /\ finished' = finished \cup {s}
          /\ UNCHANGED <<idVars, searchStopped, timedOut, command, future>>
      BY <2>3 DEF FinishSearch
    <3> QED
      BY <1>0, <3>1, <3>2
  <2>4. CASE StopOthers(s)
    <3>1. finished # {} \/ timedOut
      BY <1>0, <2>4 DEF StopOthers, Phases
    <3> QED
      BY <2>4, <3>1 DEF StopOthers
  <2>5. CASE SetPromise(s)
    BY <1>0, <2>5 DEF SetPromise
  <2> QED
    BY <1>2, <2>1, <2>2, <2>3, <2>4, <2>5 DEF SearchJob
<1>3. CASE HardTimeout \/ Return \/ StopTimer \/ StopFlag
  BY <1>3 DEF HardTimeout, Return, StopTimer, StopFlag
<1>4. CASE UNCHANGED vars
  BY <1>4 DEF vars
<1> QED
  BY <1>1, <1>2, <1>3, <1>4 DEF Next

LEMMA ResultsStep == TypeInvariant /\ Phases /\ Results /\ [Next]_vars => Results'
<1> SUFFICES ASSUME TypeInvariant, Phases, Results, [Next]_vars PROVE Results'
  OBVIOUS
<1> USE SmpAssumption DEF Results, idVars, searchVars, Searchers
<1>0. /\ future \in [Searchers -> {"none", "pending", "inside", "outside", "empty", "cut"}]
      /\ result \in [Searchers -> {"none", "inside", "outside", "empty", "cut"}]
      /\ k \in Searchers /\ finished \in SUBSET Searchers
  BY DEF TypeInvariant
<1>1. CASE DeepeningJob
  <2>1. CASE StartAttempt \/ LeaveLoop \/ ClearStop \/ JudgeTimedOut \/ JudgeRetry
             \/ JudgeAccept
    BY <2>1 DEF StartAttempt, LeaveLoop, ClearStop, JudgeTimedOut, JudgeRetry, JudgeAccept
  <2>2. CASE SubmitSearch
    <3>1. future[k] = "none" /\ id = "submit"
      BY <1>0, <2>2 DEF SubmitSearch, Phases
    <3>2. /\ future' = [future EXCEPT ![k] = "pending"]
          /\ UNCHANGED <<window, usable, result, finished>>
      BY <2>2 DEF SubmitSearch
    <3> QED
      BY <1>0, <3>1, <3>2
  <2>3. CASE Collect
    <3>1. /\ future' = [future EXCEPT ![k] = "none"] /\ id = "collect"
          /\ usable' = IF future[k] = "inside" THEN usable \cup {k} ELSE usable
          /\ UNCHANGED <<window, result, finished>>
      BY <2>3 DEF Collect
    <3> QED
      BY <1>0, <3>1
  <2> QED
    BY <1>1, <2>1, <2>2, <2>3 DEF DeepeningJob
<1>2. ASSUME NEW s \in Searchers, SearchJob(s) \/ FinishSearch(s) PROVE Results'
  <2>1. CASE StartSearch(s) \/ StopOthers(s)
    BY <2>1 DEF StartSearch, StopOthers
  <2>2. CASE CutSearch(s)
    <3>1. result[s] = "none" /\ result' = [result EXCEPT ![s] = "cut"]
          /\ UNCHANGED <<idVars, future, finished>>
      BY <2>2 DEF CutSearch, Phases
    <3> QED
      BY <1>0, <3>1
  <2>3. CASE FinishSearch(s)
    <3>1. PICK r \in {"inside", "outside", "empty"} :
            /\ r = "empty" <=> ~HasMoves
            /\ r = "outside" => window = "narrow"
            /\ result' = [result EXCEPT ![s] = r]
      BY <2>3 DEF FinishSearch
    <3>2. finished' = finished \cup {s} /\ UNCHANGED <<idVars, future>>
      BY <2>3 DEF FinishSearch
    <3>3. window = "full" /\ HasMoves => r = "inside"
      BY <3>1
    <3> QED
      BY <1>0, <3>1, <3>2, <3>3
  <2>4. CASE SetPromise(s)
    <3>1. /\ future[s] = "pending"
          /\ future' = [future EXCEPT ![s] = result[s]]
          /\ result' = [result EXCEPT ![s] = "none"]
          /\ UNCHANGED <<idVars, finished>>
      BY <2>4 DEF SetPromise, Phases
    <3> QED
      BY <1>0, <3>1
  <2> QED
    BY <1>2, <2>1, <2>2, <2>3, <2>4 DEF SearchJob
<1>3. CASE HardTimeout \/ Return \/ StopTimer \/ StopFlag
  BY <1>3 DEF HardTimeout, Return, StopTimer, StopFlag
<1>4. CASE UNCHANGED vars
  BY <1>4 DEF vars
<1> QED
  BY <1>1, <1>2, <1>3, <1>4 DEF Next

LEMMA InvStep == IInv /\ [Next]_vars => IInv'
  BY TypeStep, PhasesStep, CausesStep, ResultsStep DEF IInv

LEMMA Invariance == Spec => []IInv
<1> QED
  BY InvInit, InvStep, PTL DEF Spec

------------------------------------------------------------------------------

\* Every variable keeps its type; the deepening job never passes the iteration
\* after the depth asked for (evaluator.h:308).
THEOREM TypeCorrect == Spec => []TypeInvariant
<1>1. IInv => TypeInvariant
  BY DEF IInv
<1> QED
  BY <1>1, Invariance, PTL

\* With any number of searchers, a search is cut short only because one of its
\* own attempt came to its end or time is up (evaluator.h:313-332,
\* searcher.h:106-109).
THEOREM StopIsNeverStale == Spec => []NoStaleStop
<1>1. IInv => NoStaleStop
  BY DEF IInv, Causes, NoStaleStop
<1> QED
  BY <1>1, Invariance, PTL

\* Between two attempts no search is queued or runs (searcher.h:89-97).
THEOREM SearchesEndWithTheirAttempt == Spec => []NoSearchOutlivesItsAttempt
<1>1. IInv => NoSearchOutlivesItsAttempt
  BY DEF IInv, Phases, NoSearchOutlivesItsAttempt
<1> QED
  BY <1>1, Invariance, PTL

\* An attempt with the full window that was not stopped has a result
\* (evaluator.h:339-344): the loop that retries a depth does not retry it twice.
THEOREM FullWindowIsEnough == Spec => []FullWindowSucceeds
<1>1. IInv => FullWindowSucceeds
  <2> SUFFICES ASSUME IInv, id = "judge", window = "full", HasMoves, ~timedOut
               PROVE  usable # {}
    BY DEF FullWindowSucceeds
  <2>1. finished # {} /\ finished \subseteq Searchers
    BY DEF IInv, Causes, TypeInvariant
  <2>2. PICK s \in Searchers : s \in finished
    BY <2>1
  <2>3. result[s] = "inside" \/ future[s] = "inside" \/ s \in usable
    BY <2>2 DEF IInv, Results
  <2>4. spc[s] = "idle" /\ future[s] = "none" /\ result[s] = "none"
    BY DEF IInv, Phases
  <2> QED
    BY <2>3, <2>4
<1> QED
  BY <1>1, Invariance, PTL

\* The pool never refuses a search, and the searcher it is for is not at work
\* (searcher.h:98-112): the slots of the stack are always enough.
THEOREM SubmissionIsAlwaysTaken == Spec => []SubmissionIsTaken
<1>1. IInv => SubmissionIsTaken
  <2> SUFFICES ASSUME IInv, id = "submit" PROVE PoolHasRoom /\ spc[k] = "idle"
    BY DEF SubmissionIsTaken
  <2>1. k \in Searchers /\ Searchers \subseteq Nat
    BY DEF IInv, TypeInvariant, Searchers
  <2>2. spc[k] = "idle"
    BY <2>1 DEF IInv, Phases
  <2>3. IsFiniteSet(Searchers) /\ Cardinality(Searchers) = NumSearchers
    BY FS_Interval, SmpAssumption DEF Searchers
  <2>4. Queued \in SUBSET Searchers
    BY DEF Queued
  <2>5. Cardinality(Queued) <= NumSearchers /\ Cardinality(Queued) \in Nat
    BY <2>3, <2>4, FS_Subset, FS_CardinalityType
  <2>6. \A a \in Nat \ {0}, b \in Nat : b <= a * b
    OBVIOUS
  <2>7. PoolThreads <= JobScalar * PoolThreads /\ NumSearchers < PoolThreads
        /\ JobScalar * PoolThreads \in Nat /\ PoolThreads \in Nat /\ NumSearchers \in Nat
    BY <2>6, SmpAssumption
  <2> QED
    BY <2>2, <2>5, <2>7 DEF PoolHasRoom
<1> QED
  BY <1>1, Invariance, PTL

\* An attempt finds its searchers, promises and pool slots unused by the one
\* before (searcher.h:89-112), for any number of searchers and threads.
THEOREM AttemptsNeverOverlap == Spec => []AttemptsStandApart
  BY SearchesEndWithTheirAttempt, SubmissionIsAlwaysTaken, PTL DEF AttemptsStandApart
==============================================================================
