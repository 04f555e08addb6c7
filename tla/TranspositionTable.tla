------------------------- MODULE TranspositionTable -------------------------
(***************************************************************************)
(* core/transposition.h and its use by the searchers (search/searcher.h):  *)
(* an entry is two words, key and data, which threads load and store one   *)
(* by one and without a lock.  Each visit of a node, by negamax() or by    *)
(* quiesence(), probes its entry, may be answered by it, stores the static *)
(* evaluation if the entry has none and, in the end, the result of the     *)
(* search.                                                                 *)
(*                                                                         *)
(* Results are sound: every position has one true score, and what a search *)
(* stores is that score or a bound of it, counted from the root.  Ghosts:  *)
(* data.by is the key the data was written for, raced the slots where two  *)
(* writes were between their words at once, overlap a visit that saw an    *)
(* entry another thread was writing.                                       *)
(***************************************************************************)
EXTENDS Scores, FiniteSets

CONSTANTS
  Threads,
  KeyRange,     \* values of a key, 2^64 in the code
  TableSize,    \* entries of the table
  MaxPly,       \* s_maxSearchDepth
  Truth,        \* [key -> true score of the position, counted from it]
  EvalOf,       \* [key -> static evaluation of the position]
  Checked,      \* keys of the positions where the side to move is in check
  Corrections,  \* what the correction history may add to an evaluation
  Visits,       \* what threads may visit: [key, ply, depth, pv, alpha, beta, quiescence]
  MaxVisits     \* bound: visits in all

Keys == DOMAIN Truth

\* A hash is never 0, the key of a cleared entry.
ASSUME TableAssumption ==
  /\ TableSize \in Nat \ {0} /\ KeyRange \in Nat \ {0}
  /\ Keys \subseteq 1..(KeyRange - 1)

\* A mate is MateValue less its distance.  No search is deeper than MaxPly, so
\* that a mate stays beyond MateScore at whatever ply it is counted from.
ASSUME ScoreAssumption ==
  /\ MaxPly \in 0..(MateValue - MateScore)
  /\ \A key \in Keys :
       /\ Truth[key] \in -MateValue..MateValue
       /\ Truth[key] > MateScore => Truth[key] > MateScore + MaxPly
       /\ Truth[key] < -MateScore => Truth[key] < -(MateScore + MaxPly)
       /\ EvalOf[key] \in Score \ {NoScore}

ASSUME VisitsAssumption ==
  /\ Visits \subseteq [key : Keys, ply : 0..MaxPly, depth : Int, pv : BOOLEAN,
                      alpha : Score, beta : Score, quiescence : BOOLEAN]
  /\ \A v \in Visits : v.quiescence => v.depth = 0 /\ v.ply < MaxPly
  /\ Corrections \subseteq Int

VARIABLES
  keyWord,      \* TtEntry::key by slot
  dataWord,     \* TtEntry::data by slot
  job,          \* what each thread does
  raced,        \* history: slots whose words may be of two writes
  visits        \* bound: visits so far

vars == <<keyWord, dataWord, job, raced, visits>>

NoMove == 0
MoveOf(key) == key
RelativeTruth(key, ply) == scoreRelative(Truth[key], ply)

\* The upper half of the product.
computeHashIndex(key) == (key * TableSize) \div KeyRange
Slots == 0..(TableSize - 1)

\* TtEntryData(): all bits zero, which reads as an exact score of 0.
Cleared == [depth |-> 0, flag |-> "exact", pv |-> FALSE, score |-> 0, eval |-> 0,
            move |-> NoMove, by |-> 0]

\* The probe found none: neither a score nor an evaluation to use.
NoEntry == [Cleared EXCEPT !.score = NoScore, !.eval = NoScore]

Idle == [pc |-> "idle"]

Init ==
  /\ keyWord = [s \in Slots |-> 0]
  /\ dataWord = [s \in Slots |-> Cleared]
  /\ job = [t \in Threads |-> Idle]
  /\ raced = {}
  /\ visits = 0

SlotOf(t) == computeHashIndex(job[t].key)
Pending(s) == {t \in Threads : job[t].pc = "storeData" /\ SlotOf(t) = s}

Do(t, j) == job' = [job EXCEPT ![t] = j]

----------------------------------------------------------------------------
(* Probe.                                                                  *)

Visit(t) ==
  /\ job[t].pc = "idle" /\ visits < MaxVisits
  /\ visits' = visits + 1
  /\ \E v \in Visits :
       LET s == computeHashIndex(v.key)
       IN Do(t, [pc |-> "probeKey", key |-> v.key, ply |-> v.ply, depth |-> v.depth,
                 pv |-> v.pv, alpha |-> v.alpha, beta |-> v.beta, quiescence |-> v.quiescence,
                 eval |-> EvalOf[v.key], seenKey |-> 0, seenData |-> NoEntry, new |-> Cleared,
                 stage |-> "eval", answer |-> NoScore, overlap |-> s \in raced \/ Pending(s) # {}])
  /\ UNCHANGED <<keyWord, dataWord, raced>>

ReadKey(t, from, to) ==
  /\ job[t].pc = from
  /\ Do(t, [job[t] EXCEPT !.pc = to, !.seenKey = keyWord[SlotOf(t)]])
  /\ UNCHANGED <<keyWord, dataWord, raced, visits>>

ProbeKey(t) == ReadKey(t, "probeKey", "probeData")

testEntry(data, ply, depth, alpha, beta) ==
  LET score == scoreRelative(data.score, ply)
      usable == /\ data.depth >= depth /\ data.score # NoScore
                /\ \/ data.flag = "exact"
                   \/ data.flag = "alpha" /\ score =< alpha
                   \/ data.flag = "beta" /\ score >= beta
  IN IF usable THEN score ELSE NoScore

\* Mutant: whatever the slot holds is taken.
isHitOfSlot(j) == TRUE

isHit(j) == j.seenKey = j.key

\* fetchOrStoreEval() writes an evaluation without a score.
EvaluationOf(j) ==
  [Cleared EXCEPT !.score = NoScore, !.eval = j.eval, !.flag = "alpha", !.by = j.key]

\* negamax() ends at the last ply, and without a depth leaves the node to
\* quiesence(), a visit of its own.
EndsHere(j) ==
  ~j.quiescence /\ (j.ply = MaxPly \/ (j.depth = 0 /\ j.key \notin Checked))

\* With the evaluation, quiesence() tests what it has probed; negamax() is past that.
Evaluated(j) == IF j.quiescence THEN "test" ELSE "search"

\* The evaluation of a position in check is that of a mate, and negamax() goes
\* one deeper.
InCheck(j) ==
  [j EXCEPT !.pc = Evaluated(j), !.eval = -MateValue + j.ply,
            !.depth = IF j.quiescence THEN @ ELSE @ + 1]

\* negamax() is answered off the PV, before the evaluation; the evaluation is
\* that of the entry or stored without a score.
ProbeData(t) ==
  /\ job[t].pc = "probeData"
  /\ LET j == job[t]
         entry == IF isHit(j) THEN dataWord[SlotOf(t)] ELSE NoEntry
         answer == IF j.quiescence \/ j.pv THEN NoScore
                   ELSE testEntry(entry, j.ply, j.depth, j.alpha, j.beta)
         goesOn == answer = NoScore /\ ~EndsHere(j)
         known == [j EXCEPT !.pv = @ \/ entry.pv, !.seenKey = 0,
                            !.seenData = IF j.quiescence THEN entry ELSE NoEntry]
     IN \/ /\ answer # NoScore
           /\ Do(t, [j EXCEPT !.pc = "answered", !.seenKey = 0, !.seenData = entry,
                              !.answer = answer])
        \/ answer = NoScore /\ EndsHere(j) /\ Do(t, Idle)
        \/ goesOn /\ j.key \in Checked /\ Do(t, InCheck(known))
        \/ /\ goesOn /\ j.key \notin Checked /\ entry.eval # NoScore
           /\ Do(t, [known EXCEPT !.pc = Evaluated(j), !.eval = entry.eval])
        \/ /\ goesOn /\ j.key \notin Checked /\ entry.eval = NoScore
           /\ Do(t, [known EXCEPT !.pc = "readKey", !.new = EvaluationOf(j)])
  /\ UNCHANGED <<keyWord, dataWord, raced, visits>>

\* quiesence() stands pat on the corrected evaluation, is answered by the entry
\* it probed before - on the PV as well - or searches the captures.
Test(t) ==
  /\ job[t].pc = "test"
  /\ \E correction \in Corrections :
       LET j == job[t]
           stand == j.eval + (IF j.key \in Checked THEN 0 ELSE correction)
           alpha == IF stand > j.alpha THEN stand ELSE j.alpha
           answer == testEntry(j.seenData, j.ply, 0, alpha, j.beta)
       IN \/ stand >= j.beta /\ Do(t, Idle)
          \/ /\ stand < j.beta /\ answer # NoScore
             /\ Do(t, [j EXCEPT !.pc = "answered", !.alpha = alpha, !.answer = answer])
          \/ /\ stand < j.beta /\ answer = NoScore
             /\ Do(t, [j EXCEPT !.pc = "search", !.alpha = alpha, !.seenData = NoEntry])
  /\ UNCHANGED <<keyWord, dataWord, raced, visits>>

Answered(t) ==
  /\ job[t].pc = "answered"
  /\ Do(t, Idle)
  /\ UNCHANGED <<keyWord, dataWord, raced, visits>>

----------------------------------------------------------------------------
(* writeEntry()                                                            *)

Result(flag, score, eval, move) ==
  [flag |-> flag, score |-> score, eval |-> eval, move |-> move]

\* A tablebase knows who wins and not in how many moves (wdlToScore,
\* wdlToTtFlag): a draw is exact, a win the most there can be and a loss the
\* least, stored when negamax() is cut off by it.
TablebaseResults(j) ==
  LET best == MateValue - j.ply
      result(flag, score) == Result(flag, score, NoScore, NoMove)
  IN IF j.quiescence THEN {}
     ELSE {r \in {result("exact", 0)} : Truth[j.key] = 0}
          \cup {r \in {result("alpha", best)} : Truth[j.key] > MateScore /\ best =< j.alpha}
          \cup {r \in {result("beta", -best)} : Truth[j.key] < -MateScore /\ -best >= j.beta}

\* What a search may find: the score, or a bound of it with or without a move.
Results(j) ==
  LET truth == RelativeTruth(j.key, j.ply)
  IN {Result("exact", truth, j.eval, MoveOf(j.key))}
     \cup {Result("alpha", s, j.eval, NoMove) : s \in {s \in {truth, 0} : s >= truth}}
     \cup {Result("beta", s, j.eval, MoveOf(j.key)) : s \in {s \in {truth, 0} : s =< truth}}
     \cup TablebaseResults(j)

\* A node that is pruned by its evaluation, or whose search is stopped, has no
\* result to store.
Abandon(t) ==
  /\ job[t].pc = "search"
  /\ Do(t, Idle)
  /\ UNCHANGED <<keyWord, dataWord, raced, visits>>

Search(t) ==
  /\ job[t].pc = "search"
  /\ \E r \in Results(job[t]) :
       Do(t, [job[t] EXCEPT !.pc = "readKey", !.stage = "result",
                !.new = [depth |-> job[t].depth, flag |-> r.flag, pv |-> FALSE, score |-> r.score,
                         eval |-> r.eval, move |-> r.move, by |-> job[t].key]])
  /\ UNCHANGED <<keyWord, dataWord, raced, visits>>

WriteReadsKey(t) == ReadKey(t, "readKey", "readData")

Replaces(j, data) ==
  \/ j.seenKey # j.key
  \/ data.move = NoMove
  \/ j.new.depth + (IF j.pv THEN 2 ELSE 0) >= data.depth
  \/ j.new.flag = "exact" /\ data.flag # "exact"

\* Mutant: a move that is stored is overwritten by none.
NewDataForgetsMove(j, data) ==
  [j.new EXCEPT !.pv = j.pv, !.score = scoreAbsolute(@, j.ply)]

\* A stored move stays when there is no new one.
NewData(j, data) ==
  [j.new EXCEPT !.pv = j.pv, !.score = scoreAbsolute(@, j.ply),
                !.move = IF j.seenKey = j.key /\ @ = NoMove THEN data.move ELSE @]

AfterWrite(j) ==
  IF j.stage = "eval" THEN [j EXCEPT !.pc = Evaluated(j), !.seenKey = 0, !.new = Cleared]
                      ELSE Idle

WriteReadsData(t) ==
  /\ job[t].pc = "readData"
  /\ LET j == job[t]
         data == dataWord[SlotOf(t)]
     IN Do(t, IF Replaces(j, data)
                THEN [j EXCEPT !.pc = "storeKey", !.seenKey = 0, !.new = NewData(j, data)]
                ELSE AfterWrite(j))
  /\ UNCHANGED <<keyWord, dataWord, raced, visits>>

\* The other visits of the slot see an entry that is being written.
Overlapping(t) ==
  [u \in Threads |-> IF u # t /\ job[u].pc # "idle" /\ SlotOf(u) = SlotOf(t)
                       THEN [job[u] EXCEPT !.overlap = TRUE] ELSE job[u]]

StoreKey(t) ==
  /\ job[t].pc = "storeKey"
  /\ keyWord' = [keyWord EXCEPT ![SlotOf(t)] = job[t].key]
  /\ job' = [Overlapping(t) EXCEPT ![t].pc = "storeData"]
  /\ raced' = IF Pending(SlotOf(t)) = {} THEN raced \ {SlotOf(t)} ELSE raced \cup {SlotOf(t)}
  /\ UNCHANGED <<dataWord, visits>>

StoreData(t) ==
  /\ job[t].pc = "storeData"
  /\ dataWord' = [dataWord EXCEPT ![SlotOf(t)] = job[t].new]
  /\ job' = [Overlapping(t) EXCEPT ![t] = AfterWrite(job[t])]
  /\ UNCHANGED <<keyWord, raced, visits>>

\* clear(), by "ucinewgame" or a new size: no search runs.
Clear ==
  /\ \A t \in Threads : job[t].pc = "idle"
  /\ visits < MaxVisits
  /\ keyWord' = [s \in Slots |-> 0]
  /\ dataWord' = [s \in Slots |-> Cleared]
  /\ raced' = {}
  /\ UNCHANGED <<job, visits>>

Next ==
  \/ \E t \in Threads :
       \/ Visit(t) \/ ProbeKey(t) \/ ProbeData(t) \/ Test(t) \/ Answered(t)
       \/ Search(t) \/ Abandon(t)
       \/ WriteReadsKey(t) \/ WriteReadsData(t) \/ StoreKey(t) \/ StoreData(t)
  \/ Clear

Spec == Init /\ [][Next]_vars

----------------------------------------------------------------------------
(* Properties.                                                             *)

\* Scores stay in 16 bits, keys are those of positions or 0, and only a raced
\* entry or one being written has the data of another key.
DataOk(data) ==
  /\ data.score \in Score /\ data.eval \in Score
  /\ data.flag \in {"exact", "alpha", "beta"} /\ data.by \in Keys \cup {0}

TypeInvariant ==
  /\ \A s \in Slots : keyWord[s] \in Keys \cup {0} /\ DataOk(dataWord[s])
  /\ \A t \in Threads : job[t].pc # "idle" =>
       /\ SlotOf(t) \in Slots
       /\ DataOk(job[t].new) /\ DataOk(job[t].seenData) /\ job[t].answer \in Score

\* Key and data of an entry belong together, unless a thread is between the two
\* words or two threads were at once; the next write that is alone heals it.
AMixNeedsARace ==
  \A s \in Slots : s \notin raced /\ Pending(s) = {} => dataWord[s].by = keyWord[s]

\* A node has the data of another position, or is answered with it, only when it
\* was visited while the entry was being written, or after such a race.
ProbeIsOfItsKey ==
  \A t \in Threads :
    job[t].pc # "idle" /\ ~job[t].overlap /\ job[t].seenData # NoEntry =>
      job[t].seenData.by = job[t].key

\* Both of the above: a probe answers for its own key unless there was a race,
\* and only a race leaves an entry that could do otherwise.
ProbeAnswersItsKey == AMixNeedsARace /\ ProbeIsOfItsKey

\* What data of the right position answers is true at the node that asks, at
\* whatever ply it was stored: a score is the score, mates counted from the
\* root, and a bound is a bound beyond the window.
AnswersAreSound ==
  \A t \in Threads :
    LET j == job[t]
        truth == RelativeTruth(j.key, j.ply)
    IN j.pc = "answered" /\ j.seenData.by = j.key =>
         /\ j.seenData.flag = "exact" => j.answer = truth
         /\ j.seenData.flag = "alpha" => truth =< j.answer /\ j.answer =< j.alpha
         /\ j.seenData.flag = "beta" => truth >= j.answer /\ j.answer >= j.beta

\* A write takes neither the move from an entry of its position nor, with an
\* evaluation alone, the score of an evaluated one, unless another thread wrote
\* the entry during the visit.
Loses(old, new) ==
  \/ old.move # NoMove /\ new.move = NoMove
  \/ old.score # NoScore /\ old.eval # NoScore /\ new.score = NoScore

LostOnlyByAStaleRead ==
  [][\A t \in Threads :
       /\ job[t].pc = "storeData" /\ job'[t].pc # "storeData"
       /\ dataWord[SlotOf(t)].by = job[t].key
       /\ Loses(dataWord[SlotOf(t)], job[t].new)
       => job[t].overlap]_vars
=============================================================================
