----------------------- MODULE TranspositionTableProof -----------------------
(***************************************************************************)
(* Proofs about TranspositionTable, for any number of threads, slots, keys *)
(* and visits.                                                             *)
(***************************************************************************)
EXTENDS TranspositionTable, TLAPS

(* The inductive invariant *)

Data == [depth : Int, flag : {"exact", "alpha", "beta"}, pv : BOOLEAN, score : Score,
         eval : Score, move : Keys \cup {NoMove}, by : Keys \cup {0}]

Writing == {"readKey", "readData", "storeKey", "storeData"}

Job == [pc : {"probeKey", "probeData", "test", "answered", "search"} \cup Writing,
        key : Keys, ply : 0..MaxPly, depth : Int, pv : BOOLEAN, alpha : Score, beta : Score,
        quiescence : BOOLEAN, eval : Score, seenKey : Keys \cup {0}, seenData : Data, new : Data,
        stage : {"eval", "result"}, answer : Score, overlap : BOOLEAN]

Types ==
  /\ keyWord \in [Slots -> Keys \cup {0}]
  /\ dataWord \in [Slots -> Data]
  /\ job \in [Threads -> Job \cup {Idle}]
  /\ raced \subseteq Slots

\* A score of a position, counted from it: a mate is in so few plies that it
\* stays one at whatever ply it is counted from.  The numbers are MateValue and
\* MateScore.
Placed(score) ==
  /\ score \in Int /\ -20000 =< score /\ score =< 20000
  /\ score > 19000 => score > 19000 + MaxPly
  /\ score < -19000 => score < -19000 - MaxPly

Bounds(flag, score, truth) ==
  /\ flag = "exact" => score = truth
  /\ flag = "alpha" => score >= truth
  /\ flag = "beta" => score =< truth

\* Data with a score says what is true of a position at this ply...
Says(data, key, ply) ==
  data.score # NoScore =>
    \E score : /\ Placed(score) /\ data.score = scoreRelative(score, ply)
               /\ Bounds(data.flag, score, Truth[key])

\* ... and in an entry, where it is counted from the position, of that.
IsSound(data) ==
  data.score # NoScore =>
    /\ Placed(data.score)
    /\ Bounds(data.flag, data.score, IF data.by \in Keys THEN Truth[data.by] ELSE 0)

\* An answer is what the probed entry says.
SeesSound(j) ==
  /\ IsSound(j.seenData)
  /\ j.pc = "answered" =>
       /\ j.answer # NoScore
       /\ \E depth \in Int : j.answer = testEntry(j.seenData, j.ply, depth, j.alpha, j.beta)

\* Scores are counted from the position in the entries and in what is about to
\* be stored, and from the root in what the search hands over.
EntriesAreSound ==
  /\ \A s \in Slots : IsSound(dataWord[s])
  /\ \A t \in Threads :
       LET j == job[t]
       IN /\ j.pc # "idle" => SeesSound(j)
          /\ j.pc \in {"readKey", "readData"} => Says(j.new, j.key, j.ply)
          /\ j.pc \in {"storeKey", "storeData"} => IsSound(j.new)

\* What a thread writes is of its key, and only an evaluation has no score.
WritesItsKey ==
  \A t \in Threads :
    /\ job[t].pc \in {"probeKey", "probeData"} => job[t].stage = "eval"
    /\ job[t].pc \in Writing =>
         /\ job[t].new.by = job[t].key
         /\ job[t].stage = "result" => job[t].new.score # NoScore

\* Off the raced slots a thread between its two words is alone there.
OneWriter ==
  \A t \in Threads :
    job[t].pc = "storeData" /\ SlotOf(t) \notin raced =>
      /\ keyWord[SlotOf(t)] = job[t].key
      /\ Pending(SlotOf(t)) = {t}

\* The entry of a visit that nobody overlapped is as the visit has seen it: its
\* words are of one write, and it holds neither an evaluation that the visit
\* would replace nor a move that it would forget.
Undisturbed ==
  \A t \in Threads :
    LET j == job[t]
        data == dataWord[SlotOf(t)]
    IN j.pc # "idle" /\ ~j.overlap =>
         /\ SlotOf(t) \notin raced
         /\ Pending(SlotOf(t)) \subseteq {t}
         /\ j.pc \in {"probeData", "readData"} => j.seenKey = keyWord[SlotOf(t)]
         /\ j.seenData # NoEntry => j.seenData.by = j.key
         /\ j.pc \in Writing /\ j.stage = "eval" /\ data.by = j.key => data.eval = NoScore
         /\ j.pc \in {"storeKey", "storeData"} /\ j.new.move = NoMove /\ data.by = j.key
              => data.move = NoMove

TableInv ==
  Types /\ EntriesAreSound /\ WritesItsKey /\ AMixNeedsARace /\ OneWriter /\ Undisturbed

----------------------------------------------------------------------------
(* Lemmas about the operators *)

LEMMA SlotOfKey == \A key \in Keys : computeHashIndex(key) \in Slots
<1> SUFFICES ASSUME NEW key \in Keys PROVE computeHashIndex(key) \in Slots
  OBVIOUS
<1> DEFINE n == KeyRange
           b == TableSize
           p == key * b
           q == p \div n
<1>1. key \in Nat /\ n \in Nat \ {0} /\ b \in Nat \ {0} /\ key < n
  BY TableAssumption
<1>2. p \in Nat /\ n * b \in Nat /\ p < n * b
  BY <1>1
<1> HIDE DEF n, b, p
<1>3. q \in Int /\ n * q =< p /\ p < n * (q + 1)
  BY <1>1, <1>2
<1>4. q = computeHashIndex(key)
  BY DEF n, b, p, computeHashIndex
<1> HIDE DEF q
<1>5. q \in 0..(b - 1)
  BY <1>1, <1>2, <1>3
<1> QED
  BY <1>4, <1>5 DEF Slots, b

\* The limits of a score are numbers by one lemma and opaque in the next: an
\* interval of numbers written out is enumerated by the provers' front end.
LEMMA Numbers == NoScore = -32768 /\ MateValue = 20000 /\ MateScore = 19000
  BY DEF NoScore, MateValue, MateScore

LEMMA Scores == \A score : score \in Score <=> score \in Int /\ -32768 =< score /\ score =< 32767
<1>1. NoScore \in Int
  BY DEF NoScore
<1>2. \A score : score \in Score <=> score \in Int /\ NoScore =< score /\ score =< 32767
  BY <1>1 DEF Score
<1> QED
  BY <1>2 DEF NoScore

LEMMA Plies ==
  /\ MaxPly \in Int /\ MaxPly =< 1000
  /\ \A ply \in 0..MaxPly : ply \in Int /\ 0 =< ply /\ ply =< MaxPly
<1>1. MaxPly \in Int /\ MateValue \in Int /\ MateScore \in Int /\ MaxPly =< MateValue - MateScore
  <2>1. MateValue \in Int /\ MateScore \in Int
    BY Numbers
  <2> QED
    BY <2>1, ScoreAssumption
<1>2. MaxPly =< 1000
  BY <1>1, Numbers
<1> QED
  BY <1>1, <1>2

LEMMA Truths ==
  ASSUME NEW key \in Keys
  PROVE  Placed(Truth[key])
<1>1. MateValue \in Int /\ MateScore \in Int
  BY Numbers
<1>2. MaxPly \in Int
  BY <1>1, ScoreAssumption
<1>3. /\ Truth[key] \in Int /\ -MateValue =< Truth[key] /\ Truth[key] =< MateValue
      /\ Truth[key] > MateScore => Truth[key] > MateScore + MaxPly
      /\ Truth[key] < -MateScore => Truth[key] < -(MateScore + MaxPly)
  BY <1>1, ScoreAssumption
<1> QED
  BY <1>2, <1>3, Numbers DEF Placed

LEMMA Counted ==
  \A score, ply \in Int :
    /\ score = NoScore => scoreRelative(score, ply) = NoScore
    /\ score > 19000 => scoreRelative(score, ply) = score - ply
    /\ score < -19000 /\ score # NoScore => scoreRelative(score, ply) = score + ply
    /\ -19000 =< score /\ score =< 19000 => scoreRelative(score, ply) = score
<1> SUFFICES ASSUME NEW score \in Int, NEW ply \in Int
             PROVE  /\ score = NoScore => scoreRelative(score, ply) = NoScore
                    /\ score > 19000 => scoreRelative(score, ply) = score - ply
                    /\ score < -19000 /\ score # NoScore => scoreRelative(score, ply) = score + ply
                    /\ -19000 =< score /\ score =< 19000 => scoreRelative(score, ply) = score
  OBVIOUS
<1>1. ASSUME score = NoScore PROVE scoreRelative(score, ply) = NoScore
  BY <1>1 DEF scoreRelative
<1>2. ASSUME score > 19000 PROVE scoreRelative(score, ply) = score - ply
  BY <1>2, Numbers DEF scoreRelative
<1>3. ASSUME score < -19000, score # NoScore PROVE scoreRelative(score, ply) = score + ply
  BY <1>3, Numbers DEF scoreRelative
<1>4. ASSUME -19000 =< score, score =< 19000 PROVE scoreRelative(score, ply) = score
  BY <1>4, Numbers DEF scoreRelative
<1> QED
  BY <1>1, <1>2, <1>3, <1>4

LEMMA CountedBack ==
  \A score, ply \in Int :
    /\ score = NoScore => scoreAbsolute(score, ply) = NoScore
    /\ score > 19000 => scoreAbsolute(score, ply) = score + ply
    /\ score < -19000 /\ score # NoScore => scoreAbsolute(score, ply) = score - ply
    /\ -19000 =< score /\ score =< 19000 => scoreAbsolute(score, ply) = score
<1> SUFFICES ASSUME NEW score \in Int, NEW ply \in Int
             PROVE  /\ score = NoScore => scoreAbsolute(score, ply) = NoScore
                    /\ score > 19000 => scoreAbsolute(score, ply) = score + ply
                    /\ score < -19000 /\ score # NoScore => scoreAbsolute(score, ply) = score - ply
                    /\ -19000 =< score /\ score =< 19000 => scoreAbsolute(score, ply) = score
  OBVIOUS
<1>1. ASSUME score = NoScore PROVE scoreAbsolute(score, ply) = NoScore
  BY <1>1 DEF scoreAbsolute
<1>2. ASSUME score > 19000 PROVE scoreAbsolute(score, ply) = score + ply
  BY <1>2, Numbers DEF scoreAbsolute
<1>3. ASSUME score < -19000, score # NoScore PROVE scoreAbsolute(score, ply) = score - ply
  BY <1>3, Numbers DEF scoreAbsolute
<1>4. ASSUME -19000 =< score, score =< 19000 PROVE scoreAbsolute(score, ply) = score
  BY <1>4, Numbers DEF scoreAbsolute
<1> QED
  BY <1>1, <1>2, <1>3, <1>4

LEMMA PlacedCounted ==
  ASSUME NEW score, Placed(score), NEW ply \in 0..MaxPly
  PROVE  LET counted == scoreRelative(score, ply)
         IN /\ counted \in Score \ {NoScore} /\ score \in Score \ {NoScore}
            /\ scoreAbsolute(counted, ply) = score
            /\ counted = IF score > 19000 THEN score - ply
                         ELSE IF score < -19000 THEN score + ply ELSE score
<1> DEFINE counted == scoreRelative(score, ply)
<1>1. ply \in Int /\ 0 =< ply /\ ply =< MaxPly /\ MaxPly =< 1000 /\ MaxPly \in Int
  BY Plies
<1>2. /\ score \in Int /\ -20000 =< score /\ score =< 20000
      /\ score > 19000 => score > 19000 + ply
      /\ score < -19000 => score < -19000 - ply
  BY <1>1 DEF Placed
<1>3. /\ score > 19000 => counted = score - ply
      /\ score < -19000 => counted = score + ply
      /\ -19000 =< score /\ score =< 19000 => counted = score
  <2>1. score # NoScore
    BY <1>2, Numbers
  <2> QED
    BY <1>1, <1>2, <2>1, Counted
<1> HIDE DEF counted
<1>4. counted \in Int /\ -20000 =< counted /\ counted =< 20000
  BY <1>1, <1>2, <1>3
<1>5. scoreAbsolute(counted, ply) = score
  <2>1. counted # NoScore
    BY <1>4, Numbers
  <2>2. /\ counted > 19000 => scoreAbsolute(counted, ply) = counted + ply
        /\ counted < -19000 => scoreAbsolute(counted, ply) = counted - ply
        /\ -19000 =< counted /\ counted =< 19000 => scoreAbsolute(counted, ply) = counted
    BY <1>1, <1>4, <2>1, CountedBack
  <2> QED
    BY <1>1, <1>2, <1>3, <1>4, <2>2
<1>6. counted \in Score \ {NoScore} /\ score \in Score \ {NoScore}
  BY <1>2, <1>4, Numbers, Scores
<1>7. counted = IF score > 19000 THEN score - ply
                ELSE IF score < -19000 THEN score + ply ELSE score
  BY <1>2, <1>3
<1> QED
  BY <1>5, <1>6, <1>7 DEF counted

\* Counting from another ply keeps the order.
LEMMA OrderIsCounted ==
  ASSUME NEW a, Placed(a), NEW b, Placed(b), a =< b, NEW ply \in 0..MaxPly
  PROVE  scoreRelative(a, ply) =< scoreRelative(b, ply)
<1> DEFINE x == scoreRelative(a, ply)
           y == scoreRelative(b, ply)
<1>1. ply \in Int /\ 0 =< ply /\ ply =< MaxPly /\ MaxPly \in Int
  BY Plies
<1>2. x = IF a > 19000 THEN a - ply ELSE IF a < -19000 THEN a + ply ELSE a
  BY PlacedCounted
<1>3. y = IF b > 19000 THEN b - ply ELSE IF b < -19000 THEN b + ply ELSE b
  BY PlacedCounted
<1>4. /\ a \in Int /\ b \in Int
      /\ a > 19000 => a > 19000 + ply
      /\ a < -19000 => a < -19000 - ply
      /\ b > 19000 => b > 19000 + ply
      /\ b < -19000 => b < -19000 - ply
  BY <1>1 DEF Placed
<1> HIDE DEF x, y
<1>5. x =< y
  BY <1>1, <1>2, <1>3, <1>4
<1> QED
  BY <1>5 DEF x, y

LEMMA NothingCounted ==
  ASSUME NEW ply \in 0..MaxPly
  PROVE  /\ scoreAbsolute(0, ply) = 0 /\ scoreRelative(0, ply) = 0
         /\ scoreAbsolute(NoScore, ply) = NoScore /\ scoreRelative(NoScore, ply) = NoScore
         /\ NoScore \in Score /\ 0 \in Score \ {NoScore} /\ Placed(0)
<1>1. ply \in Int
  BY Plies
<1>2. NoScore \in Score /\ NoScore \in Int /\ 0 \in Score \ {NoScore}
  BY Numbers, Scores
<1>3. 0 \in Int /\ -19000 =< 0 /\ 0 =< 19000
  OBVIOUS
<1>4. Placed(0)
  BY DEF Placed
<1> QED
  BY <1>1, <1>2, <1>3, <1>4, Counted, CountedBack

\* What a search says of a position is, stored, what the table says of it.
LEMMA StoredSays ==
  ASSUME NEW key \in Keys, NEW ply \in 0..MaxPly, NEW data \in Data, Says(data, key, ply),
         NEW stored, stored.flag = data.flag, stored.by = key,
         stored.score = scoreAbsolute(data.score, ply)
  PROVE  /\ stored.score \in Score /\ IsSound(stored)
         /\ data.score # NoScore => stored.score # NoScore
<1>1. CASE data.score = NoScore
  <2>1. stored.score = NoScore /\ NoScore \in Score
    BY <1>1, NothingCounted
  <2> QED
    BY <1>1, <2>1 DEF IsSound
<1>2. CASE data.score # NoScore
  <2>1. PICK score : /\ Placed(score) /\ data.score = scoreRelative(score, ply)
                     /\ Bounds(data.flag, score, Truth[key])
    BY <1>2 DEF Says
  <2>2. stored.score = score /\ score \in Score \ {NoScore}
    BY <2>1, PlacedCounted
  <2> QED
    BY <2>1, <2>2 DEF IsSound
<1> QED
  BY <1>1, <1>2

\* Sound data of the position answers what is true at the node.
LEMMA AnswerSays ==
  ASSUME NEW key \in Keys, NEW ply \in 0..MaxPly, NEW data \in Data, IsSound(data),
         data.by = key, NEW depth \in Int, NEW alpha \in Score, NEW beta \in Score,
         NEW answer, answer = testEntry(data, ply, depth, alpha, beta), answer # NoScore
  PROVE  LET truth == RelativeTruth(key, ply)
         IN /\ data.flag = "exact" => answer = truth
            /\ data.flag = "alpha" => truth =< answer /\ answer =< alpha
            /\ data.flag = "beta" => truth >= answer /\ answer >= beta
<1> DEFINE truth == RelativeTruth(key, ply)
           score == scoreRelative(data.score, ply)
<1>1. /\ answer = score /\ data.score # NoScore
      /\ \/ data.flag = "exact"
         \/ data.flag = "alpha" /\ score =< alpha
         \/ data.flag = "beta" /\ score >= beta
  BY DEF testEntry
<1>2. Placed(data.score) /\ Bounds(data.flag, data.score, Truth[key]) /\ Placed(Truth[key])
  BY <1>1, Truths DEF IsSound
<1>3. truth = scoreRelative(Truth[key], ply)
  BY DEF RelativeTruth
<1>4. truth \in Int /\ score \in Int
  BY <1>2, <1>3, PlacedCounted, Scores
<1>5. data.flag = "exact" => score = truth
  BY <1>2, <1>3 DEF Bounds
<1>6. data.flag = "alpha" => truth =< score
  <2> SUFFICES ASSUME data.flag = "alpha" PROVE truth =< score
    OBVIOUS
  <2>1. Truth[key] =< data.score
    BY <1>2 DEF Bounds, Placed
  <2> QED
    BY <1>2, <1>3, <2>1, OrderIsCounted
<1>7. data.flag = "beta" => truth >= score
  <2> SUFFICES ASSUME data.flag = "beta" PROVE truth >= score
    OBVIOUS
  <2>1. data.score =< Truth[key]
    BY <1>2 DEF Bounds
  <2>2. score =< truth
    BY <1>2, <1>3, <2>1, OrderIsCounted
  <2> HIDE DEF score, truth
  <2> QED
    BY <1>4, <2>2
<1> HIDE DEF truth, score
<1>8. /\ data.flag = "exact" => answer = truth
      /\ data.flag = "alpha" => truth =< answer /\ answer =< alpha
      /\ data.flag = "beta" => truth >= answer /\ answer >= beta
  BY <1>1, <1>5, <1>6, <1>7
<1> QED
  BY <1>8 DEF truth

\* An answer is a score.
LEMMA AnswerIsAScore ==
  ASSUME NEW data \in Data, IsSound(data), NEW ply \in 0..MaxPly,
         NEW depth, NEW alpha, NEW beta
  PROVE  testEntry(data, ply, depth, alpha, beta) \in Score
<1> DEFINE score == scoreRelative(data.score, ply)
<1>1. data.score # NoScore => score \in Score
  BY PlacedCounted DEF IsSound
<1> HIDE DEF score
<1>2. \/ testEntry(data, ply, depth, alpha, beta) = NoScore
      \/ data.score # NoScore /\ testEntry(data, ply, depth, alpha, beta) = score
  BY DEF testEntry, score
<1> QED
  BY <1>1, <1>2, NothingCounted
----------------------------------------------------------------------------
(* Type correctness *)

LEMMA IdleIsNoJob == \A j \in Job : j.pc # "idle" /\ j # Idle
  BY DEF Job, Writing, Idle

\* A thread that is not idle has a job, of a slot of the table.
LEMMA AtWork ==
  ASSUME Types, NEW t \in Threads, job[t].pc # "idle"
  PROVE  job[t] \in Job /\ SlotOf(t) \in Slots
<1>1. job[t] \in Job
  BY DEF Types, Idle
<1>2. job[t].key \in Keys
  BY <1>1 DEF Job
<1> QED
  BY <1>1, <1>2, SlotOfKey DEF SlotOf

LEMMA ClearedIsData ==
  /\ Cleared \in Data /\ IsSound(Cleared)
  /\ NoEntry \in Data /\ IsSound(NoEntry) /\ NoEntry.score = NoScore
<1>1. 0 \in Score /\ 0 \notin Keys
  <2>1. 0 \in Score
    BY Scores
  <2>2. 0 \notin Keys
    BY TableAssumption
  <2> QED
    BY <2>1, <2>2
<1>2. Cleared \in Data /\ Cleared.score = 0 /\ Cleared.flag = "exact" /\ Cleared.by = 0
  BY <1>1 DEF Cleared, Data, NoMove
<1>3. IsSound(Cleared)
  <2>1. Placed(0)
    BY Plies DEF Placed
  <2> QED
    BY <1>1, <1>2, <2>1 DEF IsSound, Bounds
<1>4. NoEntry \in Data /\ NoEntry.score = NoScore
  <2>1. NoScore \in Score
    BY Numbers, Scores
  <2>2. Cleared = [depth |-> Cleared.depth, flag |-> Cleared.flag, pv |-> Cleared.pv,
                   score |-> Cleared.score, eval |-> Cleared.eval, move |-> Cleared.move,
                   by |-> Cleared.by]
    BY DEF Cleared
  <2> QED
    BY <1>2, <2>1, <2>2 DEF NoEntry, Data
<1>5. IsSound(NoEntry)
  BY <1>4 DEF IsSound
<1> QED
  BY <1>2, <1>3, <1>4, <1>5

LEMMA EvaluationIsData ==
  ASSUME NEW j \in Job
  PROVE  /\ EvaluationOf(j) \in Data
         /\ EvaluationOf(j).by = j.key /\ EvaluationOf(j).score = NoScore
<1>1. NoScore \in Score
  BY Numbers, Scores
<1>2. j.eval \in Score /\ j.key \in Keys
  BY DEF Job
<1> QED
  BY <1>1, <1>2, ClearedIsData DEF EvaluationOf, Data, Cleared

LEMMA TableInit == Init => TableInv
<1> SUFFICES ASSUME Init PROVE TableInv
  OBVIOUS
<1>1. \A t \in Threads : job[t].pc = "idle" /\ job[t] = Idle
  BY DEF Init, Idle
<1>2. Types
  BY ClearedIsData DEF Init, Types
<1>3. EntriesAreSound
  BY <1>1, ClearedIsData DEF Init, EntriesAreSound
<1>4. WritesItsKey /\ OneWriter /\ Undisturbed
  BY <1>1 DEF WritesItsKey, OneWriter, Undisturbed, Writing
<1>5. AMixNeedsARace
  BY DEF Init, AMixNeedsARace, Cleared
<1> QED
  BY <1>2, <1>3, <1>4, <1>5 DEF TableInv

\* What a thread's step makes of its job, and that it leaves the others to theirs.
LEMMA VisitJob ==
  ASSUME TableInv, NEW t \in Threads, Visit(t)
  PROVE  \E j \in Job :
           /\ job' = [job EXCEPT ![t] = j]
           /\ j.pc = "probeKey" /\ j.stage = "eval" /\ j.seenData = NoEntry
           /\ j.overlap <=> computeHashIndex(j.key) \in raced \/ Pending(computeHashIndex(j.key)) # {}
<1>1. PICK v \in Visits :
        LET s == computeHashIndex(v.key)
        IN Do(t, [pc |-> "probeKey", key |-> v.key, ply |-> v.ply, depth |-> v.depth,
                  pv |-> v.pv, alpha |-> v.alpha, beta |-> v.beta, quiescence |-> v.quiescence,
                  eval |-> EvalOf[v.key], seenKey |-> 0, seenData |-> NoEntry, new |-> Cleared,
                  stage |-> "eval", answer |-> NoScore, overlap |-> s \in raced \/ Pending(s) # {}])
  BY DEF Visit
<1> DEFINE s == computeHashIndex(v.key)
           o == s \in raced \/ Pending(s) # {}
           j == [pc |-> "probeKey", key |-> v.key, ply |-> v.ply, depth |-> v.depth,
                 pv |-> v.pv, alpha |-> v.alpha, beta |-> v.beta, quiescence |-> v.quiescence,
                 eval |-> EvalOf[v.key], seenKey |-> 0, seenData |-> NoEntry, new |-> Cleared,
                 stage |-> "eval", answer |-> NoScore, overlap |-> o]
<1>2. /\ v.key \in Keys /\ v.ply \in 0..MaxPly /\ v.depth \in Int /\ v.pv \in BOOLEAN
      /\ v.alpha \in Score /\ v.beta \in Score /\ v.quiescence \in BOOLEAN
      /\ EvalOf[v.key] \in Score
  BY VisitsAssumption, ScoreAssumption
<1>3. NoScore \in Score
  BY Numbers, Scores
<1>4. o \in BOOLEAN
  OBVIOUS
<1>5. j \in Job
  <2> HIDE DEF o
  <2> QED
    BY <1>2, <1>3, <1>4, ClearedIsData DEF Job
<1>6. job' = [job EXCEPT ![t] = j]
  BY <1>1 DEF Do
<1> QED
  BY <1>5, <1>6
----------------------------------------------------------------------------
(* The invariant is kept by each action *)

\* A step that leaves the table alone and one thread's key as it is, and brings
\* no thread between its two words, leaves the table's parts of the invariant.
LEMMA TableLeftAlone ==
  ASSUME TableInv, NEW t \in Threads, NEW j \in Job \cup {Idle},
         job' = [job EXCEPT ![t] = j], j.pc # "storeData", job[t].pc # "storeData",
         UNCHANGED <<keyWord, dataWord, raced>>
  PROVE  /\ Types' /\ AMixNeedsARace' /\ OneWriter'
         /\ \A s \in Slots : Pending(s)' = Pending(s)
         /\ \A u \in Threads \ {t} : job'[u] = job[u]
         /\ job'[t] = j
<1>1. Types'
  BY DEF TableInv, Types
<1>2. job'[t] = j /\ \A u \in Threads \ {t} : job'[u] = job[u]
  BY DEF TableInv, Types
<1>3. \A s : Pending(s)' = Pending(s)
  BY <1>2 DEF Pending, SlotOf
<1>4. AMixNeedsARace'
  BY <1>3 DEF TableInv, AMixNeedsARace
<1>5. OneWriter'
  <2> SUFFICES ASSUME NEW u \in Threads, job'[u].pc = "storeData", SlotOf(u)' \notin raced'
               PROVE  keyWord'[SlotOf(u)'] = job'[u].key /\ Pending(SlotOf(u))' = {u}
    BY DEF OneWriter
  <2>1. u # t /\ job'[u] = job[u] /\ SlotOf(u)' = SlotOf(u)
    BY <1>2 DEF SlotOf
  <2> QED
    BY <1>3, <2>1 DEF TableInv, OneWriter
<1> QED
  BY <1>1, <1>2, <1>3, <1>4, <1>5

\* The parts about one thread, then, need a proof for the thread that steps.
LEMMA JobsLeftAlone ==
  ASSUME TableInv, NEW t \in Threads, NEW j \in Job \cup {Idle},
         job' = [job EXCEPT ![t] = j], j.pc # "storeData", job[t].pc # "storeData",
         UNCHANGED <<keyWord, dataWord, raced>>,
         j.pc # "idle" => SeesSound(j),
         j.pc \in {"readKey", "readData"} => Says(j.new, j.key, j.ply),
         j.pc = "storeKey" => IsSound(j.new),
         j.pc \in {"probeKey", "probeData"} => j.stage = "eval",
         j.pc \in Writing =>
           /\ j.new.by = j.key
           /\ j.stage = "result" => j.new.score # NoScore,
         LET s == computeHashIndex(j.key)
             data == dataWord[s]
         IN j.pc # "idle" /\ ~j.overlap =>
              /\ s \notin raced
              /\ Pending(s) \subseteq {t}
              /\ j.pc \in {"probeData", "readData"} => j.seenKey = keyWord[s]
              /\ j.seenData # NoEntry => j.seenData.by = j.key
              /\ j.pc \in Writing /\ j.stage = "eval" /\ data.by = j.key => data.eval = NoScore
              /\ j.pc = "storeKey" /\ j.new.move = NoMove /\ data.by = j.key
                   => data.move = NoMove
  PROVE  TableInv'
<1>1. /\ Types' /\ AMixNeedsARace' /\ OneWriter'
      /\ \A s \in Slots : Pending(s)' = Pending(s)
      /\ \A u \in Threads \ {t} : job'[u] = job[u]
      /\ job'[t] = j
  BY TableLeftAlone
<1>2. EntriesAreSound'
  BY <1>1 DEF TableInv, EntriesAreSound
<1>3. WritesItsKey'
  BY <1>1 DEF TableInv, WritesItsKey
<1>4. Undisturbed'
  <2> SUFFICES ASSUME NEW u \in Threads, job'[u].pc # "idle", ~job'[u].overlap
               PROVE  LET k == job'[u]
                          s == SlotOf(u)'
                          data == dataWord'[s]
                      IN /\ s \notin raced'
                         /\ Pending(SlotOf(u))' \subseteq {u}
                         /\ k.pc \in {"probeData", "readData"} => k.seenKey = keyWord'[s]
                         /\ k.seenData # NoEntry => k.seenData.by = k.key
                         /\ k.pc \in Writing /\ k.stage = "eval" /\ data.by = k.key
                              => data.eval = NoScore
                         /\ k.pc \in {"storeKey", "storeData"} /\ k.new.move = NoMove
                              /\ data.by = k.key => data.move = NoMove
    BY DEF Undisturbed
  <2>1. \A s : Pending(s)' = Pending(s)
    BY <1>1 DEF Pending, SlotOf
  <2>2. CASE u = t
    BY <1>1, <2>1, <2>2 DEF SlotOf
  <2>3. CASE u # t
    BY <1>1, <2>1, <2>3 DEF TableInv, Undisturbed, SlotOf
  <2> QED
    BY <2>2, <2>3
<1> QED
  BY <1>1, <1>2, <1>3, <1>4 DEF TableInv
LEMMA VisitStep == ASSUME TableInv, NEW t \in Threads, Visit(t) PROVE TableInv'
<1>1. PICK j \in Job :
        /\ job' = [job EXCEPT ![t] = j]
        /\ j.pc = "probeKey" /\ j.stage = "eval" /\ j.seenData = NoEntry
        /\ j.overlap <=> computeHashIndex(j.key) \in raced \/ Pending(computeHashIndex(j.key)) # {}
  BY VisitJob
<1>2. job[t].pc = "idle" /\ UNCHANGED <<keyWord, dataWord, raced>>
  BY DEF Visit
<1>3. SeesSound(j)
  BY <1>1, ClearedIsData DEF SeesSound
<1> QED
  BY <1>1, <1>2, <1>3, JobsLeftAlone DEF Writing

\* Reading a key.
LEMMA ReadKeyStep ==
  ASSUME TableInv, NEW t \in Threads, NEW from, NEW to, ReadKey(t, from, to),
         \/ from = "probeKey" /\ to = "probeData"
         \/ from = "readKey" /\ to = "readData"
  PROVE  TableInv'
<1> DEFINE j == [job[t] EXCEPT !.pc = to, !.seenKey = keyWord[SlotOf(t)]]
<1>1. job[t] \in Job /\ SlotOf(t) \in Slots
  BY AtWork DEF ReadKey, TableInv
<1>2. /\ job' = [job EXCEPT ![t] = j] /\ job[t].pc = from
      /\ UNCHANGED <<keyWord, dataWord, raced>>
  BY DEF ReadKey, Do
<1>3. /\ j.pc = to /\ j.seenKey = keyWord[SlotOf(t)]
      /\ j.key = job[t].key /\ j.ply = job[t].ply /\ j.new = job[t].new
      /\ j.stage = job[t].stage /\ j.overlap = job[t].overlap
      /\ j.seenData = job[t].seenData
  BY <1>1 DEF Job
<1>4. j \in Job
  <2>1. keyWord[SlotOf(t)] \in Keys \cup {0}
    BY <1>1 DEF TableInv, Types
  <2> QED
    BY <1>1, <2>1 DEF Job, Writing
<1>5. computeHashIndex(j.key) = SlotOf(t)
  BY <1>3 DEF SlotOf
<1> HIDE DEF j
<1>8. j.pc = "probeData" => j.stage = "eval"
  BY <1>2, <1>3 DEF TableInv, WritesItsKey
<1>6. j.pc \in {"readKey", "readData"} =>
        /\ Says(j.new, j.key, j.ply)
        /\ j.new.by = j.key
        /\ j.stage = "result" => j.new.score # NoScore
  BY <1>2, <1>3 DEF TableInv, EntriesAreSound, WritesItsKey, Writing
<1>7. ~j.overlap =>
        /\ SlotOf(t) \notin raced /\ Pending(SlotOf(t)) \subseteq {t}
        /\ j.seenData # NoEntry => j.seenData.by = j.key
        /\ j.pc \in Writing /\ j.stage = "eval" /\ dataWord[SlotOf(t)].by = j.key
             => dataWord[SlotOf(t)].eval = NoScore
  BY <1>2, <1>3 DEF TableInv, Undisturbed, Writing
<1>9. SeesSound(j)
  BY <1>2, <1>3 DEF TableInv, EntriesAreSound, SeesSound
<1> QED
  BY <1>2, <1>3, <1>4, <1>5, <1>6, <1>7, <1>8, <1>9, JobsLeftAlone DEF Writing

\* A visit that ends leaves its entry to the others.
LEMMA IdleStep ==
  ASSUME TableInv, NEW t \in Threads, job[t].pc # "storeData", Do(t, Idle),
         UNCHANGED <<keyWord, dataWord, raced>>
  PROVE  TableInv'
<1>1. Idle \in Job \cup {Idle} /\ Idle.pc = "idle" /\ job' = [job EXCEPT ![t] = Idle]
  BY DEF Idle, Do
<1> QED
  BY <1>1, JobsLeftAlone DEF Writing

LEMMA AnsweredStep == ASSUME TableInv, NEW t \in Threads, Answered(t) PROVE TableInv'
  BY IdleStep DEF Answered

LEMMA AbandonStep == ASSUME TableInv, NEW t \in Threads, Abandon(t) PROVE TableInv'
  BY IdleStep DEF Abandon

\* What is known of the entry, and the evaluation or what is to be stored.
Known(j, entry, seen, to, eval, depth, new) ==
  [j EXCEPT !.pv = @ \/ entry.pv, !.seenKey = 0, !.seenData = seen, !.pc = to,
            !.eval = eval, !.depth = depth, !.new = new]

LEMMA KnownIsAJob ==
  ASSUME NEW j \in Job, NEW entry \in Data, NEW to \in {"test", "search", "readKey"},
         NEW eval \in Score, NEW depth \in Int, NEW new \in Data,
         NEW seen \in {entry, NoEntry},
         NEW k, k = Known(j, entry, seen, to, eval, depth, new)
  PROVE  /\ k \in Job /\ k.pc = to /\ k.seenData = seen /\ k.new = new
         /\ k.key = j.key /\ k.ply = j.ply /\ k.stage = j.stage /\ k.overlap = j.overlap
<1> DEFINE pv == j.pv \/ entry.pv
<1>1. pv \in BOOLEAN
  BY DEF Data
<1>2. k = [j EXCEPT !.pv = pv, !.seenKey = 0, !.seenData = seen, !.pc = to,
                    !.eval = eval, !.depth = depth, !.new = new]
  BY DEF Job, Known
<1>3. seen \in Data /\ to \in {"probeKey", "probeData", "test", "answered", "search"} \cup Writing
  BY ClearedIsData DEF Writing
<1> HIDE DEF pv
<1> DEFINE a == [j EXCEPT !.pv = pv, !.seenKey = 0]
           b == [a EXCEPT !.seenData = seen, !.new = new]
           c == [b EXCEPT !.pc = to, !.eval = eval]
           d == [c EXCEPT !.depth = depth]
<1>4. a \in Job
  BY <1>1 DEF Job
<1>5. /\ a.key = j.key /\ a.ply = j.ply /\ a.stage = j.stage /\ a.overlap = j.overlap
  BY DEF Job
<1> HIDE DEF a
<1>6. b \in Job
  BY <1>3, <1>4 DEF Job
<1>7. /\ b.key = a.key /\ b.ply = a.ply /\ b.stage = a.stage /\ b.overlap = a.overlap
      /\ b.seenData = seen /\ b.new = new
  BY <1>4 DEF Job
<1> HIDE DEF b
<1>8. c \in Job
  BY <1>3, <1>6 DEF Job
<1>9. /\ c.key = b.key /\ c.ply = b.ply /\ c.stage = b.stage /\ c.overlap = b.overlap
      /\ c.seenData = b.seenData /\ c.new = b.new /\ c.pc = to
  BY <1>6 DEF Job
<1> HIDE DEF c
<1>10. d \in Job
  BY <1>8 DEF Job
<1>11. /\ d.key = c.key /\ d.ply = c.ply /\ d.stage = c.stage /\ d.overlap = c.overlap
       /\ d.seenData = c.seenData /\ d.new = c.new /\ d.pc = c.pc
  BY <1>8 DEF Job
<1>12. d = k
  BY <1>2 DEF a, b, c, Job
<1> QED
  BY <1>5, <1>7, <1>9, <1>10, <1>11, <1>12

LEMMA ProbeDataStep == ASSUME TableInv, NEW t \in Threads, ProbeData(t) PROVE TableInv'
<1> DEFINE j == job[t]
           s == SlotOf(t)
           entry == IF isHit(j) THEN dataWord[s] ELSE NoEntry
           answer == IF j.quiescence \/ j.pv THEN NoScore
                     ELSE testEntry(entry, j.ply, j.depth, j.alpha, j.beta)
           seen == IF j.quiescence THEN entry ELSE NoEntry
           known == [j EXCEPT !.pv = @ \/ entry.pv, !.seenKey = 0, !.seenData = seen]
           answered == [j EXCEPT !.pc = "answered", !.seenKey = 0, !.seenData = entry,
                                 !.answer = answer]
           fetched == [known EXCEPT !.pc = Evaluated(j), !.eval = entry.eval]
           write == [known EXCEPT !.pc = "readKey", !.new = EvaluationOf(j)]
<1>1. /\ j.pc = "probeData" /\ UNCHANGED <<keyWord, dataWord, raced>>
      /\ \/ answer # NoScore /\ Do(t, answered)
         \/ Do(t, Idle)
         \/ Do(t, InCheck(known))
         \/ Do(t, fetched)
         \/ entry.eval = NoScore /\ Do(t, write)
  BY DEF ProbeData
<1>2. j \in Job /\ s \in Slots
  BY <1>1, AtWork DEF TableInv
<1>3. entry \in Data /\ IsSound(entry)
  BY <1>2, ClearedIsData DEF TableInv, Types, EntriesAreSound
<1>4. computeHashIndex(j.key) = s
  BY DEF SlotOf
<1>5. ~j.overlap =>
        /\ s \notin raced /\ Pending(s) \subseteq {t}
        /\ entry # NoEntry => entry.by = j.key
        /\ dataWord[s].by = j.key => entry = dataWord[s]
  <2>1. t \notin Pending(s)
    BY <1>1 DEF Pending
  <2>2. ~j.overlap =>
          /\ s \notin raced /\ Pending(s) \subseteq {t} /\ j.seenKey = keyWord[s]
          /\ dataWord[s].by = keyWord[s]
    BY <1>1, <1>2, <2>1 DEF TableInv, Undisturbed, AMixNeedsARace
  <2> QED
    BY <2>2 DEF isHit
<1>6. j.stage = "eval"
  BY <1>1 DEF TableInv, WritesItsKey
<1>7. /\ j.key \in Keys /\ j.ply \in 0..MaxPly /\ j.depth \in Int /\ j.new \in Data
      /\ j.eval \in Score /\ entry.eval \in Score
  BY <1>2, <1>3 DEF Job, Data
<1>8. seen \in {entry, NoEntry} /\ IsSound(seen)
  BY <1>3, ClearedIsData
<1>9. Evaluated(j) \in {"test", "search"}
  BY DEF Evaluated
<1> HIDE DEF seen
<1>10. ASSUME answer # NoScore, Do(t, answered) PROVE TableInv'
  <2>1. answer = testEntry(entry, j.ply, j.depth, j.alpha, j.beta)
    BY <1>10
  <2>2. answer \in Score
    BY <1>3, <1>7, <2>1, AnswerIsAScore
  <2> HIDE DEF answer, entry
  <2>3. answered \in Job
    BY <1>2, <1>3, <2>2 DEF Job
  <2>4. /\ answered.pc = "answered" /\ answered.seenData = entry /\ answered.answer = answer
        /\ answered.key = j.key /\ answered.ply = j.ply /\ answered.depth = j.depth
        /\ answered.alpha = j.alpha /\ answered.beta = j.beta /\ answered.overlap = j.overlap
    BY <1>2 DEF Job
  <2>5. job' = [job EXCEPT ![t] = answered]
    BY <1>10 DEF Do
  <2> HIDE DEF answered
  <2>6. SeesSound(answered)
    BY <1>3, <1>7, <1>10, <2>1, <2>4 DEF SeesSound
  <2> QED
    BY <1>1, <1>4, <1>5, <2>3, <2>4, <2>5, <2>6, JobsLeftAlone DEF Writing
<1>11. ASSUME Do(t, Idle) PROVE TableInv'
  BY <1>1, <1>11, IdleStep
<1>12. ASSUME NEW k \in Job, Do(t, k), k.pc \in {"test", "search"}, k.seenData = seen,
              k.key = j.key, k.overlap = j.overlap
       PROVE  TableInv'
  <2>1. SeesSound(k)
    BY <1>8, <1>12 DEF SeesSound
  <2>2. job' = [job EXCEPT ![t] = k]
    BY <1>12 DEF Do
  <2> HIDE DEF entry
  <2>3. ~j.overlap => (seen # NoEntry => seen.by = j.key)
    BY <1>5, <1>8
  <2> QED
    BY <1>1, <1>4, <1>5, <1>12, <2>1, <2>2, <2>3, JobsLeftAlone DEF Writing
<1>13. ASSUME Do(t, InCheck(known)) PROVE TableInv'
  <2> DEFINE k == InCheck(known)
             eval == -MateValue + j.ply
             depth == IF j.quiescence THEN j.depth ELSE j.depth + 1
  <2>1. eval \in Score /\ depth \in Int
    <3>1. eval \in Int /\ -32768 =< eval /\ eval =< 32767
      BY <1>7, Numbers, Plies
    <3> QED
      BY <1>7, <3>1, Scores
  <2> HIDE DEF entry, eval, depth
  <2>2. k = Known(j, entry, seen, Evaluated(j), eval, depth, j.new)
    BY <1>2 DEF InCheck, Evaluated, Job, Known, eval, depth
  <2> HIDE DEF k
  <2>3. /\ k \in Job /\ k.pc = Evaluated(j) /\ k.seenData = seen
        /\ k.key = j.key /\ k.overlap = j.overlap
    BY <1>2, <1>3, <1>7, <1>8, <1>9, <2>1, <2>2, KnownIsAJob
  <2>4. Do(t, k)
    BY <1>13 DEF k
  <2> QED
    BY <1>9, <1>12, <2>3, <2>4
<1>14. ASSUME Do(t, fetched) PROVE TableInv'
  <2> HIDE DEF entry
  <2>1. fetched = Known(j, entry, seen, Evaluated(j), entry.eval, j.depth, j.new)
    BY <1>2 DEF Job, Known
  <2> HIDE DEF fetched
  <2>2. /\ fetched \in Job /\ fetched.pc = Evaluated(j) /\ fetched.seenData = seen
        /\ fetched.key = j.key /\ fetched.overlap = j.overlap
    BY <1>2, <1>3, <1>7, <1>8, <1>9, <2>1, KnownIsAJob
  <2> QED
    BY <1>9, <1>12, <1>14, <2>2
<1>15. ASSUME entry.eval = NoScore, Do(t, write) PROVE TableInv'
  <2>1. /\ EvaluationOf(j) \in Data
        /\ EvaluationOf(j).by = j.key /\ EvaluationOf(j).score = NoScore
    BY <1>2, EvaluationIsData
  <2>2. ~j.overlap /\ dataWord[s].by = j.key => dataWord[s].eval = NoScore
    BY <1>5, <1>15
  <2> HIDE DEF entry
  <2>3. write = Known(j, entry, seen, "readKey", j.eval, j.depth, EvaluationOf(j))
    BY <1>2 DEF Job, Known
  <2>4. job' = [job EXCEPT ![t] = write]
    BY <1>15 DEF Do
  <2> HIDE DEF write
  <2>5. /\ write \in Job /\ write.pc = "readKey" /\ write.seenData = seen
        /\ write.new = EvaluationOf(j) /\ write.key = j.key /\ write.ply = j.ply
        /\ write.stage = "eval" /\ write.overlap = j.overlap
    BY <1>2, <1>3, <1>6, <1>7, <1>8, <2>1, <2>3, KnownIsAJob
  <2>6. SeesSound(write) /\ Says(write.new, write.key, write.ply)
    BY <1>8, <2>1, <2>5 DEF SeesSound, Says
  <2>7. ~j.overlap => (seen # NoEntry => seen.by = j.key)
    BY <1>5, <1>8
  <2> QED
    BY <1>1, <1>4, <1>5, <2>1, <2>2, <2>4, <2>5, <2>6, <2>7, JobsLeftAlone DEF Writing
<1> QED
  BY <1>1, <1>10, <1>11, <1>13, <1>14, <1>15

LEMMA TestStep == ASSUME TableInv, NEW t \in Threads, Test(t) PROVE TableInv'
<1> DEFINE j == job[t]
<1>1. PICK correction \in Corrections :
        LET stand == j.eval + (IF j.key \in Checked THEN 0 ELSE correction)
            alpha == IF stand > j.alpha THEN stand ELSE j.alpha
            answer == testEntry(j.seenData, j.ply, 0, alpha, j.beta)
        IN \/ stand >= j.beta /\ Do(t, Idle)
           \/ /\ stand < j.beta /\ answer # NoScore
              /\ Do(t, [j EXCEPT !.pc = "answered", !.alpha = alpha, !.answer = answer])
           \/ /\ stand < j.beta /\ answer = NoScore
              /\ Do(t, [j EXCEPT !.pc = "search", !.alpha = alpha, !.seenData = NoEntry])
  BY DEF Test
<1> DEFINE stand == j.eval + (IF j.key \in Checked THEN 0 ELSE correction)
           alpha == IF stand > j.alpha THEN stand ELSE j.alpha
           answer == testEntry(j.seenData, j.ply, 0, alpha, j.beta)
           answered == [j EXCEPT !.pc = "answered", !.alpha = alpha, !.answer = answer]
           search == [j EXCEPT !.pc = "search", !.alpha = alpha, !.seenData = NoEntry]
<1>2. j.pc = "test" /\ UNCHANGED <<keyWord, dataWord, raced>>
  BY DEF Test
<1>3. j \in Job /\ SlotOf(t) \in Slots /\ computeHashIndex(j.key) = SlotOf(t)
  BY <1>2, AtWork DEF TableInv, SlotOf
<1>4. /\ j.key \in Keys /\ j.ply \in 0..MaxPly /\ j.seenData \in Data
      /\ j.eval \in Score /\ j.alpha \in Score /\ j.beta \in Score
  BY <1>3 DEF Job
<1>5. IsSound(j.seenData)
  BY <1>2 DEF TableInv, EntriesAreSound, SeesSound
<1>6. ~j.overlap => /\ SlotOf(t) \notin raced /\ Pending(SlotOf(t)) \subseteq {t}
                    /\ j.seenData # NoEntry => j.seenData.by = j.key
  BY <1>2 DEF TableInv, Undisturbed
<1>7. stand < j.beta => alpha \in Score
  <2>1. correction \in Int /\ j.eval \in Int
    BY <1>4, VisitsAssumption, Scores
  <2>2. stand \in Int
    BY <2>1
  <2> HIDE DEF stand
  <2> QED
    BY <1>4, <2>2, Scores
<1>8. answer \in Score
  BY <1>4, <1>5, AnswerIsAScore
<1> HIDE DEF stand, alpha
<1>9. ASSUME stand < j.beta, answer # NoScore, Do(t, answered) PROVE TableInv'
  <2>1. \E depth \in Int : answer = testEntry(j.seenData, j.ply, depth, alpha, j.beta)
    <3>1. 0 \in Int
      OBVIOUS
    <3> QED
      BY <3>1, Zenon
  <2> HIDE DEF answer
  <2>2. answered \in Job
    BY <1>3, <1>7, <1>8, <1>9 DEF Job
  <2>3. /\ answered.pc = "answered" /\ answered.seenData = j.seenData
        /\ answered.answer = answer /\ answered.alpha = alpha /\ answered.beta = j.beta
        /\ answered.key = j.key /\ answered.ply = j.ply /\ answered.overlap = j.overlap
    BY <1>3 DEF Job
  <2>4. job' = [job EXCEPT ![t] = answered]
    BY <1>9 DEF Do
  <2> HIDE DEF answered
  <2>5. SeesSound(answered)
    BY <1>5, <1>9, <2>1, <2>3 DEF SeesSound
  <2> QED
    BY <1>2, <1>3, <1>6, <2>2, <2>3, <2>4, <2>5, JobsLeftAlone DEF Writing
<1>10. ASSUME stand < j.beta, Do(t, search) PROVE TableInv'
  <2> HIDE DEF answer
  <2>1. search \in Job
    BY <1>3, <1>7, <1>10, ClearedIsData DEF Job
  <2>2. /\ search.pc = "search" /\ search.seenData = NoEntry
        /\ search.key = j.key /\ search.overlap = j.overlap
    BY <1>3 DEF Job
  <2>3. job' = [job EXCEPT ![t] = search]
    BY <1>10 DEF Do
  <2> HIDE DEF search
  <2>4. SeesSound(search)
    BY <2>2, ClearedIsData DEF SeesSound
  <2> QED
    BY <1>2, <1>3, <1>6, <2>1, <2>2, <2>3, <2>4, JobsLeftAlone DEF Writing
<1>11. ASSUME Do(t, Idle) PROVE TableInv'
  BY <1>2, <1>11, IdleStep
<1>12. \/ Do(t, Idle)
       \/ stand < j.beta /\ answer # NoScore /\ Do(t, answered)
       \/ stand < j.beta /\ Do(t, search)
  BY <1>1 DEF stand, alpha
<1> QED
  BY <1>9, <1>10, <1>11, <1>12

\* A score of the position as it is counted at the node.
LEMMA CountedSays ==
  ASSUME NEW key \in Keys, NEW ply \in 0..MaxPly, NEW score, Placed(score),
         NEW r, r.score = scoreRelative(score, ply), Bounds(r.flag, score, Truth[key])
  PROVE  r.score \in Score \ {NoScore} /\ Says(r, key, ply)
<1>1. r.score \in Score \ {NoScore}
  BY PlacedCounted
<1> QED
  BY <1>1 DEF Says

LEMMA ResultIsData ==
  ASSUME NEW j \in Job, NEW r \in Results(j)
  PROVE  /\ r.flag \in {"exact", "alpha", "beta"} /\ r.score \in Score \ {NoScore}
         /\ r.eval \in Score /\ r.move \in Keys \cup {NoMove}
         /\ Says(r, j.key, j.ply)
<1> DEFINE truth == RelativeTruth(j.key, j.ply)
           best == MateValue - j.ply
<1>1. j.key \in Keys /\ j.ply \in 0..MaxPly /\ j.eval \in Score
  BY DEF Job
<1>2. /\ truth = scoreRelative(Truth[j.key], j.ply) /\ Placed(Truth[j.key])
      /\ truth = IF Truth[j.key] > 19000 THEN Truth[j.key] - j.ply
                 ELSE IF Truth[j.key] < -19000 THEN Truth[j.key] + j.ply ELSE Truth[j.key]
  BY <1>1, Truths, PlacedCounted DEF RelativeTruth
<1>3. j.ply \in Int /\ 0 =< j.ply /\ j.ply =< MaxPly /\ MaxPly \in Int /\ MaxPly =< 1000
  BY <1>1, Plies
<1>4. (truth >= 0 <=> Truth[j.key] >= 0) /\ (truth =< 0 <=> Truth[j.key] =< 0)
  <2> HIDE DEF truth
  <2> QED
    BY <1>2, <1>3 DEF Placed
<1>5. Placed(0) /\ 0 = scoreRelative(0, j.ply) /\ NoScore \in Score
  BY <1>1, NothingCounted
<1>6. /\ r.flag \in {"exact", "alpha", "beta"} /\ r.eval \in {j.eval, NoScore}
      /\ r.move \in {MoveOf(j.key), NoMove}
      /\ \/ r.flag = "exact" /\ r.score = truth
         \/ r.flag = "alpha" /\ r.score \in {truth, 0} /\ r.score >= truth
         \/ r.flag = "beta" /\ r.score \in {truth, 0} /\ r.score =< truth
         \/ r.flag = "exact" /\ r.score = 0 /\ Truth[j.key] = 0
         \/ r.flag = "alpha" /\ r.score = best /\ Truth[j.key] > MateScore
         \/ r.flag = "beta" /\ r.score = -best /\ Truth[j.key] < -MateScore
  <2> HIDE DEF truth, best
  <2> QED
    BY DEF Results, TablebaseResults, Result, truth, best
<1> HIDE DEF truth
<1>7. CASE r.score = truth /\ Bounds(r.flag, Truth[j.key], Truth[j.key])
  <2>1. r.score = scoreRelative(Truth[j.key], j.ply) /\ Placed(Truth[j.key])
    BY <1>2, <1>7
  <2>2. Bounds(r.flag, Truth[j.key], Truth[j.key])
    BY <1>7
  <2>3. r.score \in Score \ {NoScore} /\ Says(r, j.key, j.ply)
    BY <1>1, <2>1, <2>2, CountedSays
  <2> QED
    BY <1>1, <1>5, <1>6, <2>3 DEF MoveOf
<1>8. CASE r.score = 0 /\ Bounds(r.flag, 0, Truth[j.key])
  BY <1>1, <1>5, <1>6, <1>8, CountedSays DEF MoveOf
<1>9. CASE r.flag = "alpha" /\ r.score = best /\ Truth[j.key] > MateScore
  <2>1. Placed(20000) /\ Truth[j.key] =< 20000
    BY <1>2, <1>3, <1>9, Numbers DEF Placed
  <2>2. best = scoreRelative(20000, j.ply)
    BY <1>1, <1>3, <2>1, Numbers, PlacedCounted
  <2>3. Bounds(r.flag, 20000, Truth[j.key])
    BY <1>2, <1>9, <2>1 DEF Bounds, Placed
  <2> HIDE DEF best
  <2> QED
    BY <1>1, <1>5, <1>6, <1>9, <2>1, <2>2, <2>3, CountedSays DEF MoveOf
<1>10. CASE r.flag = "beta" /\ r.score = -best /\ Truth[j.key] < -MateScore
  <2>1. Placed(-20000) /\ -20000 =< Truth[j.key]
    BY <1>2, <1>3, <1>10, Numbers DEF Placed
  <2>2. -best = scoreRelative(-20000, j.ply)
    <3>1. scoreRelative(-20000, j.ply) = -20000 + j.ply
      BY <1>1, <2>1, PlacedCounted
    <3>2. -best = -20000 + j.ply
      BY <1>3, Numbers
    <3> QED
      BY <3>1, <3>2
  <2>3. Bounds(r.flag, -20000, Truth[j.key])
    BY <1>2, <1>10, <2>1 DEF Bounds, Placed
  <2> HIDE DEF best
  <2> QED
    BY <1>1, <1>5, <1>6, <1>10, <2>1, <2>2, <2>3, CountedSays DEF MoveOf
<1>11. \/ r.score = truth /\ Bounds(r.flag, Truth[j.key], Truth[j.key])
       \/ r.score = 0 /\ Bounds(r.flag, 0, Truth[j.key])
       \/ r.flag = "alpha" /\ r.score = best /\ Truth[j.key] > MateScore
       \/ r.flag = "beta" /\ r.score = -best /\ Truth[j.key] < -MateScore
  <2> HIDE DEF best
  <2>1. Truth[j.key] \in Int
    BY <1>2 DEF Placed
  <2> QED
    BY <1>4, <1>6, <2>1 DEF Bounds
<1> QED
  BY <1>7, <1>8, <1>9, <1>10, <1>11

LEMMA SearchStep == ASSUME TableInv, NEW t \in Threads, Search(t) PROVE TableInv'
<1> DEFINE j == job[t]
<1>1. j.pc = "search" /\ UNCHANGED <<keyWord, dataWord, raced>>
  BY DEF Search
<1>2. j \in Job /\ SlotOf(t) \in Slots
  BY <1>1, AtWork DEF TableInv
<1>3. PICK r \in Results(j) :
        Do(t, [j EXCEPT !.pc = "readKey", !.stage = "result",
                 !.new = [depth |-> j.depth, flag |-> r.flag, pv |-> FALSE, score |-> r.score,
                          eval |-> r.eval, move |-> r.move, by |-> j.key]])
  BY DEF Search
<1> DEFINE new == [depth |-> j.depth, flag |-> r.flag, pv |-> FALSE, score |-> r.score,
                   eval |-> r.eval, move |-> r.move, by |-> j.key]
           k == [j EXCEPT !.pc = "readKey", !.stage = "result", !.new = new]
<1>4. /\ r.flag \in {"exact", "alpha", "beta"} /\ r.score \in Score \ {NoScore}
      /\ r.eval \in Score /\ r.move \in Keys \cup {NoMove}
      /\ Says(r, j.key, j.ply)
  BY <1>2, ResultIsData
<1>5. /\ new \in Data /\ new.by = j.key /\ new.score # NoScore
      /\ Says(new, j.key, j.ply)
  BY <1>2, <1>4 DEF Data, Job, Says
<1> HIDE DEF new
<1>6. k \in Job
  BY <1>2, <1>5 DEF Job, Writing
<1>7. /\ k.pc = "readKey" /\ k.stage = "result" /\ k.new = new /\ k.key = j.key
      /\ k.ply = j.ply /\ k.overlap = j.overlap /\ k.seenData = j.seenData
  BY <1>2 DEF Job
<1>8. job' = [job EXCEPT ![t] = k]
  BY <1>3 DEF Do, new
<1>9. ~j.overlap => /\ SlotOf(t) \notin raced /\ Pending(SlotOf(t)) \subseteq {t}
                    /\ j.seenData # NoEntry => j.seenData.by = j.key
  BY <1>1 DEF TableInv, Undisturbed
<1>10. computeHashIndex(j.key) = SlotOf(t)
  BY DEF SlotOf
<1> HIDE DEF k
<1>11. SeesSound(k)
  BY <1>1, <1>7 DEF TableInv, EntriesAreSound, SeesSound
<1> QED
  BY <1>1, <1>5, <1>6, <1>7, <1>8, <1>9, <1>10, <1>11, JobsLeftAlone DEF Writing

LEMMA NewDataIsData ==
  ASSUME NEW j \in Job, NEW data \in Data, j.new.by = j.key,
         Says(j.new, j.key, j.ply)
  PROVE  LET new == NewData(j, data)
         IN /\ new \in Data /\ IsSound(new) /\ new.by = j.key
            /\ j.new.score # NoScore => new.score # NoScore
            /\ j.seenKey = j.key /\ new.move = NoMove => data.move = NoMove
<1> DEFINE new == NewData(j, data)
<1>1. j.new \in Data /\ j.key \in Keys /\ j.ply \in 0..MaxPly /\ j.pv \in BOOLEAN
  BY DEF Job
<1>2. /\ new.flag = j.new.flag /\ new.score = scoreAbsolute(j.new.score, j.ply)
      /\ new.by = j.key
      /\ j.seenKey = j.key /\ new.move = NoMove => data.move = NoMove
  BY <1>1 DEF NewData, Data
<1>3. /\ new.score \in Score /\ IsSound(new)
      /\ j.new.score # NoScore => new.score # NoScore
  <2> HIDE DEF new
  <2> QED
    BY <1>1, <1>2, StoredSays
<1>4. new \in Data
  <2>1. scoreAbsolute(j.new.score, j.ply) \in Score /\ data.move \in Keys \cup {NoMove}
    BY <1>2, <1>3 DEF Data
  <2> QED
    BY <1>1, <2>1 DEF NewData, Data
<1> QED
  BY <1>1, <1>2, <1>3, <1>4

\* After a write the visit goes on with its evaluation, or ends.
LEMMA AfterWriteIs ==
  ASSUME NEW j \in Job
  PROVE  \/ AfterWrite(j) = Idle
         \/ /\ AfterWrite(j) \in Job /\ AfterWrite(j).pc \in {"test", "search"}
            /\ AfterWrite(j).key = j.key /\ AfterWrite(j).overlap = j.overlap
            /\ AfterWrite(j).seenData = j.seenData
  BY ClearedIsData DEF AfterWrite, Evaluated, Job

LEMMA WriteReadsDataStep ==
  ASSUME TableInv, NEW t \in Threads, WriteReadsData(t) PROVE TableInv'
<1> DEFINE j == job[t]
           s == SlotOf(t)
           data == dataWord[s]
           new == NewData(j, data)
           k == [j EXCEPT !.pc = "storeKey", !.seenKey = 0, !.new = new]
           after == AfterWrite(j)
<1>1. /\ j.pc = "readData" /\ UNCHANGED <<keyWord, dataWord, raced>>
      /\ Do(t, k) \/ Do(t, after)
  BY DEF WriteReadsData
<1>2. j \in Job /\ s \in Slots
  BY <1>1, AtWork DEF TableInv
<1>3. data \in Data
  BY <1>2 DEF TableInv, Types
<1>4. computeHashIndex(j.key) = s
  BY DEF SlotOf
<1>5. ~j.overlap =>
        /\ s \notin raced /\ Pending(s) \subseteq {t} /\ j.seenKey = keyWord[s]
        /\ data.by = keyWord[s]
        /\ j.stage = "eval" /\ data.by = j.key => data.eval = NoScore
        /\ j.seenData # NoEntry => j.seenData.by = j.key
  <2>1. t \notin Pending(s)
    BY <1>1 DEF Pending
  <2> QED
    BY <1>1, <1>2, <2>1 DEF TableInv, Undisturbed, AMixNeedsARace, Writing
<1>6. /\ j.new.by = j.key /\ Says(j.new, j.key, j.ply) /\ SeesSound(j)
      /\ j.stage = "result" => j.new.score # NoScore
  BY <1>1 DEF TableInv, EntriesAreSound, WritesItsKey, Writing
<1>7. /\ new \in Data /\ IsSound(new) /\ new.by = j.key
      /\ j.new.score # NoScore => new.score # NoScore
      /\ j.seenKey = j.key /\ new.move = NoMove => data.move = NoMove
  BY <1>2, <1>3, <1>6, NewDataIsData
<1>8. \/ after = Idle
      \/ /\ after \in Job /\ after.pc \in {"test", "search"}
         /\ after.key = j.key /\ after.overlap = j.overlap /\ after.seenData = j.seenData
  BY <1>2, AfterWriteIs
<1> HIDE DEF new, after
<1>9. ASSUME Do(t, k) PROVE TableInv'
  <2>1. k \in Job
    BY <1>2, <1>7 DEF Job, Writing
  <2>2. /\ k.pc = "storeKey" /\ k.new = new /\ k.stage = j.stage /\ k.key = j.key
        /\ k.ply = j.ply /\ k.overlap = j.overlap /\ k.seenData = j.seenData
    BY <1>2 DEF Job
  <2>3. computeHashIndex(k.key) = s
    BY <1>4, <2>2
  <2> HIDE DEF k, j, data
  <2>4. /\ IsSound(k.new) /\ k.new.by = k.key
        /\ k.stage = "result" => k.new.score # NoScore
    BY <1>6, <1>7, <2>2
  <2>5. ~k.overlap =>
          /\ s \notin raced /\ Pending(s) \subseteq {t}
          /\ k.stage = "eval" /\ data.by = k.key => data.eval = NoScore
          /\ k.new.move = NoMove /\ data.by = k.key => data.move = NoMove
          /\ k.seenData # NoEntry => k.seenData.by = k.key
    BY <1>5, <1>7, <2>2
  <2>6. job' = [job EXCEPT ![t] = k] /\ job[t].pc # "storeData"
    BY <1>1, <1>9 DEF Do, j
  <2>7. SeesSound(k)
    BY <1>6, <2>2 DEF SeesSound
  <2> QED
    BY <1>1, <2>1, <2>2, <2>3, <2>4, <2>5, <2>6, <2>7, JobsLeftAlone DEF Writing, data
<1>10. ASSUME Do(t, after) PROVE TableInv'
  <2>1. CASE after = Idle
    BY <1>1, <1>10, <2>1, IdleStep
  <2>2. CASE /\ after \in Job /\ after.pc \in {"test", "search"}
             /\ after.key = j.key /\ after.overlap = j.overlap /\ after.seenData = j.seenData
    <3>1. SeesSound(after)
      BY <1>6, <2>2 DEF SeesSound
    <3> QED
      BY <1>1, <1>4, <1>5, <1>10, <2>2, <3>1, JobsLeftAlone DEF Do, Writing
  <2> QED
    BY <1>8, <2>1, <2>2
<1> QED
  BY <1>1, <1>9, <1>10
\* While another thread stores a word, a visit only learns that it does.
LEMMA OthersOverlap ==
  ASSUME Types, NEW t \in Threads, NEW u \in Threads
  PROVE  LET j == job[u]
             k == Overlapping(t)[u]
         IN /\ k \in Job \cup {Idle}
            /\ k.pc = j.pc /\ (j.pc = "idle" \/ u = t => k = j)
            /\ j.pc # "idle" =>
                 /\ k.key = j.key /\ k.ply = j.ply /\ k.depth = j.depth /\ k.alpha = j.alpha
                 /\ k.beta = j.beta /\ k.seenKey = j.seenKey /\ k.seenData = j.seenData
                 /\ k.new = j.new /\ k.stage = j.stage /\ k.answer = j.answer
                 /\ ~k.overlap => ~j.overlap /\ (u # t => SlotOf(u) # SlotOf(t))
<1> DEFINE j == job[u]
           k == Overlapping(t)[u]
<1>1. j \in Job \cup {Idle} /\ (j.pc # "idle" => j \in Job)
  BY AtWork DEF Types
<1>2. k = IF u # t /\ j.pc # "idle" /\ SlotOf(u) = SlotOf(t) THEN [j EXCEPT !.overlap = TRUE] ELSE j
  BY DEF Overlapping
<1>3. CASE u # t /\ j.pc # "idle" /\ SlotOf(u) = SlotOf(t)
  <2>1. k = [j EXCEPT !.overlap = TRUE] /\ j \in Job
    BY <1>1, <1>2, <1>3
  <2> HIDE DEF j, k
  <2>2. k \in Job
    BY <2>1 DEF Job
  <2>3. /\ k.pc = j.pc /\ k.overlap = TRUE
        /\ k.key = j.key /\ k.ply = j.ply /\ k.depth = j.depth /\ k.alpha = j.alpha
        /\ k.beta = j.beta /\ k.seenKey = j.seenKey /\ k.seenData = j.seenData
        /\ k.new = j.new /\ k.stage = j.stage /\ k.answer = j.answer
    BY <2>1 DEF Job
  <2>4. j.pc # "idle" /\ u # t
    BY <1>3 DEF j
  <2> USE DEF j, k
  <2> QED
    BY <2>2, <2>3, <2>4
<1>4. CASE ~(u # t /\ j.pc # "idle" /\ SlotOf(u) = SlotOf(t))
  <2>1. k = j
    BY <1>2, <1>4
  <2> QED
    BY <1>1, <1>4, <2>1
<1> QED
  BY <1>3, <1>4
\* The thread is now between its words, alone in the slot or in a race; every
\* other visit of the slot knows.
LEMMA StoreKeyStep ==
  ASSUME TableInv, NEW t \in Threads, StoreKey(t) PROVE TableInv'
<1> DEFINE s == SlotOf(t)
<1>1. /\ job[t].pc = "storeKey" /\ dataWord' = dataWord
      /\ keyWord' = [keyWord EXCEPT ![s] = job[t].key]
      /\ job' = [Overlapping(t) EXCEPT ![t].pc = "storeData"]
      /\ raced' = IF Pending(s) = {} THEN raced \ {s} ELSE raced \cup {s}
  BY DEF StoreKey
<1>2. job[t] \in Job /\ s \in Slots /\ job[t].key \in Keys
  BY <1>1, AtWork DEF TableInv, Job
<1>3. Overlapping(t)[t] = job[t] /\ DOMAIN Overlapping(t) = Threads
  BY DEF Overlapping
<1>4. /\ job'[t] = [job[t] EXCEPT !.pc = "storeData"] /\ DOMAIN job' = Threads
      /\ \A u \in Threads \ {t} : job'[u] = Overlapping(t)[u]
  BY <1>1, <1>3
<1>5. /\ job'[t] \in Job /\ job'[t].pc = "storeData" /\ job'[t].key = job[t].key
      /\ job'[t].new = job[t].new /\ job'[t].stage = job[t].stage
      /\ job'[t].overlap = job[t].overlap /\ job'[t].seenData = job[t].seenData
  BY <1>2, <1>4 DEF Job, Writing
<1>6. \A u \in Threads \ {t} :
        LET j == job[u]
            k == job'[u]
        IN /\ k \in Job \cup {Idle}
           /\ k.pc = j.pc
           /\ j.pc # "idle" =>
                /\ k.key = j.key /\ k.ply = j.ply /\ k.depth = j.depth /\ k.alpha = j.alpha
                /\ k.beta = j.beta /\ k.seenKey = j.seenKey /\ k.seenData = j.seenData
                /\ k.new = j.new /\ k.stage = j.stage /\ k.answer = j.answer
                /\ ~k.overlap => ~j.overlap /\ SlotOf(u) # s
  BY <1>4, OthersOverlap DEF TableInv
<1>7. \A u \in Threads : job[u].pc # "idle" => SlotOf(u)' = SlotOf(u)
  BY <1>5, <1>6 DEF SlotOf
<1>8. \A r : Pending(r)' = IF r = s THEN Pending(r) \cup {t} ELSE Pending(r)
  <2>1. \A r : \A u \in Threads \ {t} : u \in Pending(r)' <=> u \in Pending(r)
    BY <1>6, <1>7 DEF Pending
  <2>2. \A r : t \in Pending(r)' <=> r = s
    BY <1>1, <1>5, <1>7 DEF Pending
  <2>3. \A r : Pending(r)' \subseteq Threads /\ Pending(r) \subseteq Threads /\ t \notin Pending(r)
    BY <1>1 DEF Pending
  <2> QED
    BY <2>1, <2>2, <2>3
<1>9. Types'
  <2>1. job' \in [Threads -> Job \cup {Idle}]
    <3>1. job' = [u \in Threads |-> job'[u]]
      BY <1>1, <1>3 DEF Overlapping
    <3>2. \A u \in Threads : job'[u] \in Job \cup {Idle}
      BY <1>5, <1>6
    <3> QED
      BY <3>1, <3>2
  <2> QED
    BY <1>1, <1>2, <2>1 DEF TableInv, Types
<1>10. EntriesAreSound'
  <2>1. ASSUME NEW u \in Threads
        PROVE  LET j == job'[u]
               IN /\ j.pc # "idle" => SeesSound(j)
                  /\ j.pc \in {"readKey", "readData"} => Says(j.new, j.key, j.ply)
                  /\ j.pc \in {"storeKey", "storeData"} => IsSound(j.new)
    <3>1. CASE u = t
      BY <1>1, <1>5, <3>1 DEF TableInv, EntriesAreSound, SeesSound
    <3>2. CASE u # t
      BY <1>6, <3>2 DEF TableInv, EntriesAreSound, SeesSound
    <3> QED
      BY <3>1, <3>2
  <2> QED
    BY <1>1, <2>1 DEF TableInv, EntriesAreSound
<1>11. WritesItsKey'
  BY <1>1, <1>5, <1>6 DEF TableInv, WritesItsKey, Writing
<1>12. AMixNeedsARace'
  BY <1>1, <1>2, <1>8 DEF TableInv, Types, AMixNeedsARace
<1>13. OneWriter'
  <2> SUFFICES ASSUME NEW u \in Threads, job'[u].pc = "storeData", SlotOf(u)' \notin raced'
               PROVE  keyWord'[SlotOf(u)'] = job'[u].key /\ Pending(SlotOf(u))' = {u}
    BY DEF OneWriter
  <2>1. SlotOf(u)' = SlotOf(u) /\ job'[u].key = job[u].key /\ u \in Pending(SlotOf(u))'
    BY <1>1, <1>5, <1>6, <1>7 DEF Pending
  <2>2. CASE SlotOf(u) = s
    <3>1. Pending(s) = {}
      BY <1>1, <1>2, <2>1, <2>2
    <3>2. u = t /\ Pending(SlotOf(u))' = {t}
      BY <1>8, <2>1, <2>2, <3>1
    <3> QED
      BY <1>1, <1>2, <2>1, <3>2 DEF TableInv, Types
  <2>3. CASE SlotOf(u) # s
    <3>1. u # t /\ job[u].pc = "storeData" /\ SlotOf(u) \notin raced
      BY <1>1, <1>6, <2>1, <2>3
    <3> QED
      BY <1>1, <1>8, <2>1, <2>3, <3>1 DEF TableInv, OneWriter
  <2> QED
    BY <2>2, <2>3
<1>14. Undisturbed'
  <2> SUFFICES ASSUME NEW u \in Threads, job'[u].pc # "idle", ~job'[u].overlap
               PROVE  LET k == job'[u]
                          r == SlotOf(u)'
                          data == dataWord'[r]
                      IN /\ r \notin raced'
                         /\ Pending(SlotOf(u))' \subseteq {u}
                         /\ k.pc \in {"probeData", "readData"} => k.seenKey = keyWord'[r]
                         /\ k.seenData # NoEntry => k.seenData.by = k.key
                         /\ k.pc \in Writing /\ k.stage = "eval" /\ data.by = k.key
                              => data.eval = NoScore
                         /\ k.pc \in {"storeKey", "storeData"} /\ k.new.move = NoMove
                              /\ data.by = k.key => data.move = NoMove
    BY DEF Undisturbed
  <2>1. CASE u = t
    <3>1. t \notin Pending(s)
      BY <1>1 DEF Pending
    <3>2. /\ s \notin raced /\ Pending(s) = {}
          /\ job[t].seenData # NoEntry => job[t].seenData.by = job[t].key
          /\ job[t].stage = "eval" /\ dataWord[s].by = job[t].key => dataWord[s].eval = NoScore
          /\ job[t].new.move = NoMove /\ dataWord[s].by = job[t].key
               => dataWord[s].move = NoMove
      BY <1>1, <1>5, <2>1, <3>1 DEF TableInv, Undisturbed, Writing
    <3> QED
      BY <1>1, <1>5, <1>7, <1>8, <2>1, <3>2
  <2>2. CASE u # t
    <3>1. ~job[u].overlap /\ SlotOf(u) # s /\ SlotOf(u)' = SlotOf(u) /\ job[u].pc # "idle"
      BY <1>6, <1>7, <2>2
    <3> QED
      BY <1>1, <1>6, <1>8, <2>2, <3>1 DEF TableInv, Undisturbed
  <2> QED
    BY <2>1, <2>2
<1> QED
  BY <1>9, <1>10, <1>11, <1>12, <1>13, <1>14 DEF TableInv
\* The data follows its key, and the thread is no longer between its words.
LEMMA StoreDataStep ==
  ASSUME TableInv, NEW t \in Threads, StoreData(t) PROVE TableInv'
<1> DEFINE s == SlotOf(t)
           after == AfterWrite(job[t])
<1>1. /\ job[t].pc = "storeData" /\ keyWord' = keyWord /\ raced' = raced
      /\ dataWord' = [dataWord EXCEPT ![s] = job[t].new]
      /\ job' = [Overlapping(t) EXCEPT ![t] = after]
  BY DEF StoreData
<1>2. job[t] \in Job /\ s \in Slots /\ job[t].new \in Data /\ job[t].key \in Keys
  BY <1>1, AtWork DEF TableInv, Job
<1>3. \/ after = Idle
      \/ /\ after \in Job /\ after.pc \in {"test", "search"}
         /\ after.key = job[t].key /\ after.overlap = job[t].overlap
         /\ after.seenData = job[t].seenData
  BY <1>2, AfterWriteIs
<1> HIDE DEF after
<1>4. /\ job'[t] = after /\ DOMAIN job' = Threads /\ job' = [u \in Threads |-> job'[u]]
      /\ \A u \in Threads \ {t} : job'[u] = Overlapping(t)[u]
  BY <1>1 DEF Overlapping
<1>5. job'[t] \in Job \cup {Idle} /\ job'[t].pc \in {"idle", "test", "search"}
  BY <1>3, <1>4 DEF Idle
<1>6. \A u \in Threads \ {t} :
        LET j == job[u]
            k == job'[u]
        IN /\ k \in Job \cup {Idle}
           /\ k.pc = j.pc
           /\ j.pc # "idle" =>
                /\ k.key = j.key /\ k.ply = j.ply /\ k.depth = j.depth /\ k.alpha = j.alpha
                /\ k.beta = j.beta /\ k.seenKey = j.seenKey /\ k.seenData = j.seenData
                /\ k.new = j.new /\ k.stage = j.stage /\ k.answer = j.answer
                /\ ~k.overlap => ~j.overlap /\ SlotOf(u) # s
  BY <1>4, OthersOverlap DEF TableInv
<1>7. \A u \in Threads \ {t} : job[u].pc # "idle" => SlotOf(u)' = SlotOf(u)
  BY <1>6 DEF SlotOf
<1>8. \A r : Pending(r)' = Pending(r) \ {t}
  <2>1. \A r : \A u \in Threads \ {t} : u \in Pending(r)' <=> u \in Pending(r)
    BY <1>6, <1>7 DEF Pending
  <2>2. \A r : Pending(r)' \subseteq Threads /\ Pending(r) \subseteq Threads /\ t \notin Pending(r)'
    BY <1>5 DEF Pending
  <2> QED
    BY <2>1, <2>2
<1>9. Types'
  BY <1>1, <1>2, <1>4, <1>5, <1>6 DEF TableInv, Types
<1>10. EntriesAreSound'
  <2>1. ASSUME NEW u \in Threads
        PROVE  LET j == job'[u]
               IN /\ j.pc # "idle" => SeesSound(j)
                  /\ j.pc \in {"readKey", "readData"} => Says(j.new, j.key, j.ply)
                  /\ j.pc \in {"storeKey", "storeData"} => IsSound(j.new)
    <3>1. CASE u = t
      BY <1>1, <1>3, <1>4, <1>5, <3>1 DEF TableInv, EntriesAreSound, SeesSound, Idle
    <3>2. CASE u # t
      BY <1>6, <3>2 DEF TableInv, EntriesAreSound, SeesSound
    <3> QED
      BY <3>1, <3>2
  <2>2. \A r \in Slots : IsSound(dataWord'[r])
    BY <1>1, <1>2 DEF TableInv, Types, EntriesAreSound
  <2> QED
    BY <2>1, <2>2 DEF EntriesAreSound
<1>11. WritesItsKey'
  BY <1>5, <1>6 DEF TableInv, WritesItsKey, Writing
<1>12. AMixNeedsARace'
  <2> SUFFICES ASSUME NEW r \in Slots, r \notin raced, Pending(r) \subseteq {t}
               PROVE  dataWord'[r].by = keyWord[r]
    BY <1>1, <1>8 DEF AMixNeedsARace
  <2>1. CASE r = s
    BY <1>1, <1>2, <2>1 DEF TableInv, Types, OneWriter, WritesItsKey, Writing
  <2>2. CASE r # s
    <3>1. t \notin Pending(r)
      BY <2>2 DEF Pending
    <3> QED
      BY <1>1, <2>2, <3>1 DEF TableInv, Types, AMixNeedsARace
  <2> QED
    BY <2>1, <2>2
<1>13. OneWriter'
  <2> SUFFICES ASSUME NEW u \in Threads, job'[u].pc = "storeData", SlotOf(u)' \notin raced'
               PROVE  keyWord'[SlotOf(u)'] = job'[u].key /\ Pending(SlotOf(u))' = {u}
    BY DEF OneWriter
  <2>1. u # t
    BY <1>5
  <2>2. /\ SlotOf(u)' = SlotOf(u) /\ job'[u].key = job[u].key
        /\ job[u].pc = "storeData" /\ SlotOf(u) \notin raced
    BY <1>1, <1>6, <1>7, <2>1
  <2>3. keyWord[SlotOf(u)] = job[u].key /\ Pending(SlotOf(u)) = {u}
    BY <2>2 DEF TableInv, OneWriter
  <2> QED
    BY <1>1, <1>8, <2>1, <2>2, <2>3
<1>14. Undisturbed'
  <2> SUFFICES ASSUME NEW u \in Threads, job'[u].pc # "idle", ~job'[u].overlap
               PROVE  LET k == job'[u]
                          r == SlotOf(u)'
                          data == dataWord'[r]
                      IN /\ r \notin raced'
                         /\ Pending(SlotOf(u))' \subseteq {u}
                         /\ k.pc \in {"probeData", "readData"} => k.seenKey = keyWord'[r]
                         /\ k.seenData # NoEntry => k.seenData.by = k.key
                         /\ k.pc \in Writing /\ k.stage = "eval" /\ data.by = k.key
                              => data.eval = NoScore
                         /\ k.pc \in {"storeKey", "storeData"} /\ k.new.move = NoMove
                              /\ data.by = k.key => data.move = NoMove
    BY DEF Undisturbed
  <2>1. CASE u = t
    <3>1. /\ SlotOf(t)' = s /\ ~job[t].overlap /\ job'[t].pc \in {"test", "search"}
          /\ job'[t].seenData = job[t].seenData /\ job'[t].key = job[t].key
      BY <1>3, <1>4, <1>5, <2>1 DEF SlotOf, Idle
    <3>2. /\ s \notin raced /\ Pending(s) \subseteq {t}
          /\ job[t].seenData # NoEntry => job[t].seenData.by = job[t].key
      BY <1>1, <3>1 DEF TableInv, Undisturbed
    <3> QED
      BY <1>1, <1>8, <2>1, <3>1, <3>2 DEF Writing
  <2>2. CASE u # t
    <3>1. ~job[u].overlap /\ SlotOf(u) # s /\ SlotOf(u)' = SlotOf(u) /\ job[u].pc # "idle"
      BY <1>6, <1>7, <2>2
    <3> QED
      BY <1>1, <1>6, <1>8, <2>2, <3>1 DEF TableInv, Undisturbed
  <2> QED
    BY <2>1, <2>2
<1> QED
  BY <1>9, <1>10, <1>11, <1>12, <1>13, <1>14 DEF TableInv

LEMMA ClearStep == TableInv /\ Clear => TableInv'
<1> SUFFICES ASSUME TableInv, Clear PROVE TableInv'
  OBVIOUS
<1>1. /\ \A t \in Threads : job[t].pc = "idle"
      /\ job' = job /\ raced' = {}
      /\ keyWord' = [s \in Slots |-> 0] /\ dataWord' = [s \in Slots |-> Cleared]
  BY DEF Clear
<1>2. Types'
  BY <1>1, ClearedIsData DEF TableInv, Types
<1>3. EntriesAreSound'
  BY <1>1, ClearedIsData DEF EntriesAreSound
<1>4. WritesItsKey' /\ OneWriter' /\ Undisturbed'
  BY <1>1 DEF WritesItsKey, OneWriter, Undisturbed, Writing
<1>5. AMixNeedsARace'
  BY <1>1 DEF AMixNeedsARace, Cleared
<1> QED
  BY <1>2, <1>3, <1>4, <1>5 DEF TableInv

LEMMA TableStep == TableInv /\ [Next]_vars => TableInv'
<1> SUFFICES ASSUME TableInv, [Next]_vars PROVE TableInv'
  OBVIOUS
<1>1. ASSUME NEW t \in Threads, ProbeKey(t) PROVE TableInv'
  BY <1>1, ReadKeyStep DEF ProbeKey
<1>2. ASSUME NEW t \in Threads, WriteReadsKey(t) PROVE TableInv'
  BY <1>2, ReadKeyStep DEF WriteReadsKey
<1>3. CASE UNCHANGED vars
  BY <1>3 DEF vars, TableInv, Types, EntriesAreSound, WritesItsKey, AMixNeedsARace, OneWriter,
              Undisturbed, SlotOf, Pending
<1> QED
  BY <1>1, <1>2, <1>3, VisitStep, ProbeDataStep, TestStep, AnsweredStep, SearchStep, AbandonStep,
     WriteReadsDataStep, StoreKeyStep, StoreDataStep, ClearStep DEF Next
----------------------------------------------------------------------------
(* The theorems *)

LEMMA TableIsInv == Spec => []TableInv
  BY TableInit, TableStep, PTL DEF Spec

\* Every index is a slot of the table, and what the entries and the visits hold
\* are 16-bit scores and keys of positions, however often a mate is counted from
\* the root and back (computeHashIndex, scoreAbsolute, scoreRelative).
THEOREM EntriesStayInRange == Spec => []TypeInvariant
<1>1. TableInv => TypeInvariant
  <2> SUFFICES ASSUME TableInv PROVE TypeInvariant
    OBVIOUS
  <2>1. \A data \in Data : DataOk(data)
    BY DEF Data, DataOk
  <2>2. ASSUME NEW s \in Slots PROVE keyWord[s] \in Keys \cup {0} /\ DataOk(dataWord[s])
    BY <2>1 DEF TableInv, Types
  <2>3. ASSUME NEW t \in Threads, job[t].pc # "idle"
        PROVE  /\ SlotOf(t) \in Slots
               /\ DataOk(job[t].new) /\ DataOk(job[t].seenData) /\ job[t].answer \in Score
    <3>1. job[t] \in Job /\ SlotOf(t) \in Slots
      BY <2>3, AtWork DEF TableInv
    <3>2. job[t].new \in Data /\ job[t].seenData \in Data /\ job[t].answer \in Score
      BY <3>1 DEF Job
    <3> QED
      BY <2>1, <3>1, <3>2
  <2> QED
    BY <2>2, <2>3 DEF TypeInvariant
<1> QED
  BY <1>1, TableIsInv, PTL

\* However many threads load and store the two words of the entries without a
\* lock, an entry mixes two writes only after they raced, and only a visit that
\* was overlapped by a write takes the data of another position for its own
\* (probe, writeEntry).
THEOREM OnlyARaceMixes == Spec => []ProbeAnswersItsKey
<1>1. TableInv => ProbeAnswersItsKey
  BY DEF TableInv, Undisturbed, ProbeAnswersItsKey, ProbeIsOfItsKey
<1> QED
  BY <1>1, TableIsInv, PTL

\* The table turns what a search found at one ply into what is true at any other
\* (testEntry, writeEntry).
THEOREM TheTableIsSound == Spec => []AnswersAreSound
<1>1. TableInv => AnswersAreSound
  <2> SUFFICES ASSUME TableInv, NEW t \in Threads,
                      job[t].pc = "answered", job[t].seenData.by = job[t].key
               PROVE  LET j == job[t]
                          truth == RelativeTruth(j.key, j.ply)
                      IN /\ j.seenData.flag = "exact" => j.answer = truth
                         /\ j.seenData.flag = "alpha" => truth =< j.answer /\ j.answer =< j.alpha
                         /\ j.seenData.flag = "beta" => truth >= j.answer /\ j.answer >= j.beta
    BY DEF AnswersAreSound
  <2> DEFINE j == job[t]
  <2>1. j \in Job
    BY AtWork DEF TableInv
  <2>2. /\ j.key \in Keys /\ j.ply \in 0..MaxPly /\ j.seenData \in Data
        /\ j.depth \in Int /\ j.alpha \in Score /\ j.beta \in Score
    BY <2>1 DEF Job
  <2>3. /\ IsSound(j.seenData) /\ j.answer # NoScore
        /\ \E depth \in Int : j.answer = testEntry(j.seenData, j.ply, depth, j.alpha, j.beta)
    BY <2>2 DEF TableInv, EntriesAreSound, SeesSound
  <2> QED
    BY <2>2, <2>3, AnswerSays
<1> QED
  BY <1>1, TableIsInv, PTL

\* A write gives up a move or a score of its position only if another thread
\* wrote the entry while it was on its way (writeEntry, fetchOrStoreEval).
THEOREM OnlyAStaleReadLoses == Spec => LostOnlyByAStaleRead
<1>1. TableInv =>
        \A t \in Threads :
          /\ job[t].pc = "storeData"
          /\ dataWord[SlotOf(t)].by = job[t].key
          /\ Loses(dataWord[SlotOf(t)], job[t].new)
          => job[t].overlap
  <2> SUFFICES ASSUME TableInv, NEW t \in Threads, job[t].pc = "storeData",
                      dataWord[SlotOf(t)].by = job[t].key, ~job[t].overlap
               PROVE  ~Loses(dataWord[SlotOf(t)], job[t].new)
    OBVIOUS
  <2>1. job[t].stage \in {"eval", "result"}
    BY AtWork DEF TableInv, Job
  <2>2. /\ job[t].stage = "eval" => dataWord[SlotOf(t)].eval = NoScore
        /\ job[t].new.move = NoMove => dataWord[SlotOf(t)].move = NoMove
    BY DEF TableInv, Undisturbed, Writing
  <2>3. job[t].stage = "result" => job[t].new.score # NoScore
    BY DEF TableInv, WritesItsKey, Writing
  <2> QED
    BY <2>1, <2>2, <2>3 DEF Loses
<1>2. TableInv =>
        [\A t \in Threads :
           /\ job[t].pc = "storeData" /\ job'[t].pc # "storeData"
           /\ dataWord[SlotOf(t)].by = job[t].key
           /\ Loses(dataWord[SlotOf(t)], job[t].new)
           => job[t].overlap]_vars
  BY <1>1
<1> QED
  BY <1>2, TableIsInv, PTL DEF LostOnlyByAStaleRead

=============================================================================
