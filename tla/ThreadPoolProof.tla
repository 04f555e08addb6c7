--------------------------- MODULE ThreadPoolProof ---------------------------
(***************************************************************************)
(* Proofs about ThreadPool, for any number of jobs, clients and threads.   *)
(***************************************************************************)
EXTENDS ThreadPool, FiniteSetTheorems, SequenceTheorems, TLAPS

(* The parts of the inductive invariant that are no properties themselves *)

\* Pending jobs are accepted, distinct, and none of them was started.
PendingIsFresh ==
  /\ \A i \in 1 .. Len(queue) : queue[i] \in accepted /\ runs[queue[i]] = 0
  /\ \A i, k \in 1 .. Len(queue) : queue[i] = queue[k] => i = k

\* A worker carries a job exactly while it runs it.
CarriesWhileRunning == \A w \in Workers : job[w] # NoJob => pc[w] = "run"

\* Stop is requested exactly while a resize is under way; nobody sleeps then.
StopWakes ==
  /\ stop <=> owner # 0
  /\ stop => Waiting = {}
  /\ owner # threads

------------------------------------------------------------------------------
(* Lemmas about the stack and about finite sets *)

LEMMA PushStack ==
  ASSUME NEW S, NEW q \in Seq(S), NEW e \in S
  PROVE  /\ Append(q, e) \in Seq(S)
         /\ Len(Append(q, e)) = Len(q) + 1
         /\ \A i \in 1 .. Len(q) : Append(q, e)[i] = q[i]
         /\ Append(q, e)[Len(q) + 1] = e
  OBVIOUS

LEMMA Prefix ==
  ASSUME NEW S, NEW q, NEW n \in Nat, \A i \in 1 .. n : q[i] \in S
  PROVE  /\ SubSeq(q, 1, n) \in Seq(S)
         /\ Len(SubSeq(q, 1, n)) = n
         /\ \A i \in 1 .. n : SubSeq(q, 1, n)[i] = q[i]
<1>1. /\ SubSeq(q, 1, n) \in Seq(S)
      /\ Len(SubSeq(q, 1, n)) = IF 1 <= n THEN n - 1 + 1 ELSE 0
      /\ \A i \in 1 .. n - 1 + 1 : SubSeq(q, 1, n)[i] = q[1 + i - 1]
  BY SubSeqProperties
<1> QED
  BY <1>1

LEMMA PopStack ==
  ASSUME NEW S, NEW q \in Seq(S), q # <<>>
  PROVE  /\ Len(q) \in Nat \ {0}
         /\ Last(q) \in S
         /\ Last(q) = q[Len(q)]
         /\ Front(q) \in Seq(S)
         /\ Len(Front(q)) = Len(q) - 1
         /\ \A i \in 1 .. Len(q) - 1 : Front(q)[i] = q[i]
<1>1. Len(q) \in Nat \ {0}
  BY EmptySeq, LenProperties
<1>2. Last(q) = q[Len(q)] /\ Last(q) \in S
  BY <1>1, ElementOfSeq DEF Last
<1>3. /\ Front(q) \in Seq(S)
      /\ Len(Front(q)) = Len(q) - 1
      /\ \A i \in 1 .. Len(q) - 1 : Front(q)[i] = q[i]
  <2>1. \A i \in 1 .. Len(q) - 1 : q[i] \in S
    BY <1>1, ElementOfSeq
  <2>2. Len(q) - 1 \in Nat
    BY <1>1
  <2>3. \A n \in Nat : (\A i \in 1 .. n : q[i] \in S) =>
          /\ SubSeq(q, 1, n) \in Seq(S)
          /\ Len(SubSeq(q, 1, n)) = n
          /\ \A i \in 1 .. n : SubSeq(q, 1, n)[i] = q[i]
    BY Prefix, ZenonT(60)
  <2>4. Front(q) = SubSeq(q, 1, Len(q) - 1)
    BY Zenon DEF Front
  <2> QED
    BY <2>1, <2>2, <2>3, <2>4, Zenon
<1> QED
  BY <1>1, <1>2, <1>3

LEMMA FiniteParties ==
  /\ IsFiniteSet(OnTheirWay) /\ Cardinality(OnTheirWay) \in Nat
  /\ IsFiniteSet(AboutToNotify) /\ Cardinality(AboutToNotify) \in Nat
<1>1. IsFiniteSet(Workers)
  BY FS_Interval, PoolAssumption DEF Workers
<1>2. OnTheirWay \in SUBSET Workers /\ AboutToNotify \in SUBSET Clients
  BY DEF OnTheirWay, AboutToNotify
<1>3. IsFiniteSet(OnTheirWay) /\ IsFiniteSet(AboutToNotify)
  BY <1>1, <1>2, FS_Subset, PoolAssumption
<1> QED
  BY <1>3, FS_CardinalityType

------------------------------------------------------------------------------
(* Type correctness *)

LEMMA TypeInit == Init => TypeInvariant
<1> SUFFICES ASSUME Init PROVE TypeInvariant
  OBVIOUS
<1>1. threads \in Nat /\ JobScalar \in Nat
  BY PoolAssumption DEF Init
<1>2. capacity \in Nat /\ queue \in Seq(Jobs) /\ Len(queue) = 0
  <2>1. \A a, b \in Nat : a * b \in Nat
    OBVIOUS
  <2> QED
    BY <1>1, <2>1, EmptySeq DEF Init
<1>3. pc \in [Workers -> {"absent", "loop", "enter", "wait", "run", "exit"}]
  BY DEF Init
<1>4. runs \in [Jobs -> Nat] /\ job \in [Workers -> Jobs \cup {NoJob}]
  BY DEF Init
<1>5. clientPc \in [Clients -> {"idle", "notify"}] /\ owner = 0 /\ threads \in Sizes
  BY DEF Init
<1>6. stop = FALSE /\ accepted = {} /\ rejected = {}
  BY DEF Init
<1>7. Len(queue) <= capacity
  BY <1>2
<1> QED
  BY <1>2, <1>3, <1>4, <1>5, <1>6, <1>7 DEF TypeInvariant

LEMMA TypeStep == TypeInvariant /\ [Next]_vars => TypeInvariant'
<1> SUFFICES ASSUME TypeInvariant, [Next]_vars PROVE TypeInvariant'
  OBVIOUS
<1> USE DEF TypeInvariant, poolState, history
<1>1. ASSUME NEW c \in Clients, NEW j \in Jobs, SubmitPush(c, j) PROVE TypeInvariant'
  <2>1. Append(queue, j) \in Seq(Jobs) /\ Len(Append(queue, j)) = Len(queue) + 1
    BY PushStack
  <2>2. queue' \in Seq(Jobs) /\ Len(queue') <= capacity'
    BY <1>1, <2>1, LenProperties DEF SubmitPush, Full
  <2> QED
    BY <1>1, <2>2 DEF SubmitPush
<1>2. ASSUME NEW c \in Clients, NEW j \in Jobs, SubmitReject(c, j) PROVE TypeInvariant'
  BY <1>2 DEF SubmitReject
<1>3. ASSUME NEW c \in Clients, NotifyOne(c) PROVE TypeInvariant'
  BY <1>3 DEF NotifyOne
<1>4. ASSUME NEW w \in Workers, CheckStop(w) PROVE TypeInvariant'
  BY <1>4 DEF CheckStop
<1>5. ASSUME NEW w \in Workers, TakeJob(w) PROVE TypeInvariant'
  <2>1. /\ Last(queue) \in Jobs
        /\ queue' \in Seq(Jobs)
        /\ Len(queue') = Len(queue) - 1
        /\ Len(queue) \in Nat
    BY <1>5, PopStack DEF TakeJob
  <2>2. runs' \in [Jobs -> Nat]
    BY <1>5, <2>1 DEF TakeJob
  <2>3. Len(queue') <= capacity'
    BY <1>5, <2>1 DEF TakeJob
  <2> QED
    BY <1>5, <2>1, <2>2, <2>3 DEF TakeJob
<1>6. ASSUME NEW w \in Workers, ReturnEmpty(w) PROVE TypeInvariant'
  BY <1>6 DEF ReturnEmpty
<1>7. ASSUME NEW w \in Workers, Sleep(w) PROVE TypeInvariant'
  BY <1>7 DEF Sleep
<1>8. ASSUME NEW w \in Workers, FinishJob(w) PROVE TypeInvariant'
  BY <1>8 DEF FinishJob
<1>9. ASSUME NEW w \in Workers, SpuriousWakeup(w) PROVE TypeInvariant'
  BY <1>9 DEF SpuriousWakeup
<1>10. ASSUME NEW n \in Sizes, RequestStop(n) PROVE TypeInvariant'
  BY <1>10 DEF RequestStop, WakeAll
<1>11. ASSUME Rebuild PROVE TypeInvariant'
  <2>1. owner \in Sizes /\ owner \in Nat /\ JobScalar \in Nat
    BY <1>11, PoolAssumption DEF Rebuild
  <2>2. capacity' \in Nat /\ Len(queue') <= capacity' /\ queue' \in Seq(Jobs)
    BY <1>11, <2>1, EmptySeq DEF Rebuild
  <2>3. pc' \in [Workers -> {"absent", "loop", "enter", "wait", "run", "exit"}]
    BY <1>11 DEF Rebuild
  <2> QED
    BY <1>11, <2>1, <2>2, <2>3 DEF Rebuild
<1>12. CASE UNCHANGED vars
  BY <1>12 DEF vars
<1> QED
  BY <1>1, <1>2, <1>3, <1>4, <1>5, <1>6, <1>7, <1>8, <1>9, <1>10, <1>11, <1>12
     DEF Next, Worker

\* Every variable keeps its type, and m_jobIndex stays within m_jobs (lines
\* 62-66), for any number of threads and callers.
THEOREM TypeCorrect == Spec => []TypeInvariant
<1> QED
  BY TypeInit, TypeStep, PTL DEF Spec

------------------------------------------------------------------------------
(* A job is started at most once *)

LEMMA FreshStep ==
  TypeInvariant /\ PendingIsFresh /\ RunsAtMostOnce /\ [Next]_vars
    => PendingIsFresh' /\ RunsAtMostOnce'
<1> SUFFICES ASSUME TypeInvariant, PendingIsFresh, RunsAtMostOnce, [Next]_vars
             PROVE  PendingIsFresh' /\ RunsAtMostOnce'
  OBVIOUS
<1> USE DEF PendingIsFresh, RunsAtMostOnce
<1>0. queue \in Seq(Jobs) /\ Len(queue) \in Nat /\ runs \in [Jobs -> Nat]
  BY LenProperties DEF TypeInvariant
<1>1. ASSUME NEW c \in Clients, NEW j \in Jobs, SubmitPush(c, j)
      PROVE  PendingIsFresh' /\ RunsAtMostOnce'
  <2>1. runs[j] = 0 /\ j \notin accepted /\ accepted' = accepted \cup {j} /\ runs' = runs
    BY <1>0, <1>1 DEF SubmitPush
  <2>2. /\ Len(queue') = Len(queue) + 1
        /\ \A i \in 1 .. Len(queue) : queue'[i] = queue[i]
        /\ queue'[Len(queue) + 1] = j
    BY <1>0, <1>1, PushStack DEF SubmitPush
  <2>3. \A i \in 1 .. Len(queue') : i \in 1 .. Len(queue) \/ i = Len(queue) + 1
    BY <1>0, <2>2
  <2>4. \A i \in 1 .. Len(queue') : queue'[i] \in accepted' /\ runs'[queue'[i]] = 0
    BY <2>1, <2>2, <2>3
  <2>5. \A i, k \in 1 .. Len(queue') : queue'[i] = queue'[k] => i = k
    BY <2>1, <2>2, <2>3
  <2> QED
    BY <2>1, <2>4, <2>5
<1>2. ASSUME NEW w \in Workers, TakeJob(w) PROVE PendingIsFresh' /\ RunsAtMostOnce'
  <2> DEFINE top == queue[Len(queue)]
  <2>1. /\ Len(queue) \in Nat \ {0} /\ top \in Jobs
        /\ Len(queue') = Len(queue) - 1
        /\ \A i \in 1 .. Len(queue) - 1 : queue'[i] = queue[i]
        /\ runs' = [runs EXCEPT ![top] = @ + 1] /\ accepted' = accepted
    <3>1. queue # <<>> /\ queue' = Front(queue) /\ accepted' = accepted
      BY <1>2 DEF TakeJob
    <3>2. /\ Len(queue) \in Nat \ {0} /\ Last(queue) = top /\ Last(queue) \in Jobs
          /\ Len(queue') = Len(queue) - 1
          /\ \A i \in 1 .. Len(queue) - 1 : queue'[i] = queue[i]
      BY <1>0, <3>1, PopStack
    <3>3. runs' = [runs EXCEPT ![top] = @ + 1]
      BY <1>2, <3>2, Zenon DEF TakeJob
    <3> QED
      BY <3>1, <3>2, <3>3
  <2>2. top \in accepted /\ runs[top] = 0
    BY <2>1
  <2>3. \A i \in 1 .. Len(queue') : queue'[i] = queue[i] /\ queue[i] # top
    BY <2>1
  <2>4. \A j \in Jobs : runs'[j] = IF j = top THEN 1 ELSE runs[j]
    BY <1>0, <2>1, <2>2
  <2>5. \A i \in 1 .. Len(queue') : i \in 1 .. Len(queue) /\ queue[i] \in Jobs
    BY <1>0, <2>1, ElementOfSeq
  <2>6. RunsAtMostOnce'
    BY <2>1, <2>2, <2>4
  <2> HIDE DEF top
  <2>7. \A i \in 1 .. Len(queue') : queue'[i] \in accepted' /\ runs'[queue'[i]] = 0
    BY <2>1, <2>3, <2>4, <2>5
  <2>8. \A i, k \in 1 .. Len(queue') : queue'[i] = queue'[k] => i = k
    BY <2>3, <2>5
  <2> QED
    BY <2>6, <2>7, <2>8
<1>3. CASE Rebuild
  BY <1>3 DEF Rebuild, history
<1>4. ASSUME UNCHANGED <<queue, accepted, runs>> PROVE PendingIsFresh' /\ RunsAtMostOnce'
  BY <1>4
<1>5. ASSUME NEW c \in Clients, NEW j \in Jobs, SubmitReject(c, j)
      PROVE  UNCHANGED <<queue, accepted, runs>>
  BY <1>5 DEF SubmitReject, poolState
<1>6. ASSUME NEW w \in Workers, Worker(w) \/ SpuriousWakeup(w), ~TakeJob(w)
      PROVE  UNCHANGED <<queue, accepted, runs>>
  BY <1>6 DEF Worker, CheckStop, ReturnEmpty, Sleep, FinishJob, SpuriousWakeup,
              poolState, history
<1>7. ASSUME NEW n \in Sizes, RequestStop(n) PROVE UNCHANGED <<queue, accepted, runs>>
  BY <1>7 DEF RequestStop, history
<1>8. ASSUME NEW c \in Clients, NotifyOne(c) PROVE UNCHANGED <<queue, accepted, runs>>
  BY <1>8 DEF NotifyOne, poolState, history
<1>9. CASE UNCHANGED vars
  BY <1>9, <1>4 DEF vars
<1> QED
  BY <1>1, <1>2, <1>3, <1>4, <1>5, <1>6, <1>7, <1>8, <1>9 DEF Next

\* No interleaving starts a job twice, or one that submit() refused (lines
\* 57-71 and 104-115).
THEOREM StartedAtMostOnce == Spec => []RunsAtMostOnce
<1>1. Init => PendingIsFresh /\ RunsAtMostOnce
  <2> SUFFICES ASSUME Init PROVE PendingIsFresh /\ RunsAtMostOnce
    OBVIOUS
  <2>1. Len(queue) = 0
    BY EmptySeq DEF Init
  <2>2. \A j \in Jobs : runs[j] = 0
    BY DEF Init
  <2> QED
    BY <2>1, <2>2 DEF PendingIsFresh, RunsAtMostOnce
<1> QED
  BY <1>1, TypeInit, TypeStep, FreshStep, PTL DEF Spec

------------------------------------------------------------------------------
(* Stopping and joining *)

LEMMA StopStep ==
  TypeInvariant /\ CarriesWhileRunning /\ StopWakes /\ [Next]_vars
    => CarriesWhileRunning' /\ StopWakes'
<1> DEFINE I == CarriesWhileRunning /\ StopWakes
<1> SUFFICES ASSUME TypeInvariant, CarriesWhileRunning, StopWakes, [Next]_vars PROVE I'
  OBVIOUS
<1> USE DEF CarriesWhileRunning, StopWakes, Waiting, poolState, history
<1>0. pc \in [Workers -> {"absent", "loop", "enter", "wait", "run", "exit"}]
  BY DEF TypeInvariant
<1>1. ASSUME NEW c \in Clients, NEW j \in Jobs, SubmitPush(c, j) \/ SubmitReject(c, j)
      PROVE  I'
  BY <1>1 DEF SubmitPush, SubmitReject
<1>2. ASSUME NEW c \in Clients, NotifyOne(c) PROVE I'
  BY <1>0, <1>2 DEF NotifyOne
<1>3. ASSUME NEW w \in Workers, CheckStop(w) PROVE I'
  BY <1>0, <1>3 DEF CheckStop
<1>4. ASSUME NEW w \in Workers, TakeJob(w) PROVE I'
  <2>1. /\ job' = [job EXCEPT ![w] = Last(queue)]
        /\ pc' = [pc EXCEPT ![w] = "run"]
        /\ UNCHANGED <<stop, owner, threads>>
    BY <1>4 DEF TakeJob
  <2>2. job \in [Workers -> Jobs \cup {NoJob}]
    BY DEF TypeInvariant
  <2> QED
    BY <1>0, <2>1, <2>2
<1>5. ASSUME NEW w \in Workers, ReturnEmpty(w) PROVE I'
  BY <1>0, <1>5 DEF ReturnEmpty
<1>6. ASSUME NEW w \in Workers, Sleep(w) PROVE I'
  BY <1>0, <1>6 DEF Sleep
<1>7. ASSUME NEW w \in Workers, FinishJob(w) PROVE I'
  <2>1. job \in [Workers -> Jobs \cup {NoJob}]
    BY DEF TypeInvariant
  <2> QED
    BY <1>0, <1>7, <2>1 DEF FinishJob
<1>8. ASSUME NEW w \in Workers, SpuriousWakeup(w) PROVE I'
  BY <1>0, <1>8 DEF SpuriousWakeup
<1>9. ASSUME NEW n \in Sizes, RequestStop(n) PROVE I'
  <2>1. n # 0
    BY PoolAssumption
  <2> QED
    BY <1>0, <1>9, <2>1 DEF RequestStop, WakeAll
<1>10. CASE Rebuild
  <2>1. owner # 0 /\ Joined /\ threads' = owner /\ owner' = 0 /\ stop' = FALSE /\ job' = job
    BY <1>10 DEF Rebuild
  <2>2. \A w \in Workers : job[w] = NoJob
    BY <2>1 DEF Joined
  <2> QED
    BY <2>1, <2>2
<1>11. CASE UNCHANGED vars
  BY <1>11 DEF vars
<1> QED
  BY <1>1, <1>2, <1>3, <1>4, <1>5, <1>6, <1>7, <1>8, <1>9, <1>10, <1>11
     DEF Next, Worker

LEMMA StopInit == Init => CarriesWhileRunning /\ StopWakes
<1> SUFFICES ASSUME Init PROVE CarriesWhileRunning /\ StopWakes
  OBVIOUS
<1>1. threads # 0
  BY PoolAssumption DEF Init
<1> QED
  BY <1>1 DEF Init, CarriesWhileRunning, StopWakes

\* A resize replaces the stop source and the stack only when every worker has
\* returned, and none of them carries a job over (lines 78-97).
THEOREM ReplacedWhenJoined == Spec => ReplacedOnlyWhenJoined
<1>1. ASSUME CarriesWhileRunning, [Next]_vars
      PROVE  [threads' # threads =>
                \A w \in Workers : /\ pc[w] \in {"exit", "absent"}
                                   /\ job[w] = NoJob]_vars
  <2> SUFFICES ASSUME threads' # threads, ~(UNCHANGED vars)
               PROVE  \A w \in Workers : pc[w] \in {"exit", "absent"} /\ job[w] = NoJob
    OBVIOUS
  <2>1. Rebuild
    BY <1>1 DEF Next, Worker, SubmitPush, SubmitReject, NotifyOne, CheckStop, TakeJob,
       ReturnEmpty, Sleep, FinishJob, SpuriousWakeup, RequestStop, poolState
  <2> QED
    BY <1>1, <2>1 DEF Rebuild, Joined, CarriesWhileRunning
<1> QED
  BY <1>1, TypeInit, TypeStep, StopInit, StopStep, PTL DEF Spec, ReplacedOnlyWhenJoined

------------------------------------------------------------------------------
(* No worker sleeps on work *)

\* The two counts of NoSleepOnWork, taken after a step.
LEMMA FinitePartiesNext ==
  /\ IsFiniteSet(OnTheirWay') /\ Cardinality(OnTheirWay') \in Nat
  /\ IsFiniteSet(AboutToNotify') /\ Cardinality(AboutToNotify') \in Nat
<1>1. IsFiniteSet(Workers)
  BY FS_Interval, PoolAssumption DEF Workers
<1>2. OnTheirWay' \in SUBSET Workers /\ AboutToNotify' \in SUBSET Clients
  BY DEF OnTheirWay, AboutToNotify
<1>3. IsFiniteSet(OnTheirWay') /\ IsFiniteSet(AboutToNotify')
  BY <1>1, <1>2, FS_Subset, PoolAssumption
<1> QED
  BY <1>3, FS_CardinalityType

\* A worker that starts or stops to be on its way changes the count by one.
LEMMA OneMoreOnTheWay ==
  ASSUME NEW w \in Workers, NEW state,
         pc \in [Workers -> {"absent", "loop", "enter", "wait", "run", "exit"}],
         pc[w] \notin {"loop", "enter"}, state \in {"loop", "enter"},
         pc' = [pc EXCEPT ![w] = state]
  PROVE  Cardinality(OnTheirWay') = Cardinality(OnTheirWay) + 1
<1>1. OnTheirWay' = OnTheirWay \cup {w} /\ w \notin OnTheirWay
  BY DEF OnTheirWay
<1> QED
  BY <1>1, FS_AddElement, FiniteParties

LEMMA OneLessOnTheWay ==
  ASSUME NEW w \in Workers, NEW state,
         pc \in [Workers -> {"absent", "loop", "enter", "wait", "run", "exit"}],
         pc[w] \in {"loop", "enter"}, state \notin {"loop", "enter"},
         pc' = [pc EXCEPT ![w] = state]
  PROVE  Cardinality(OnTheirWay') = Cardinality(OnTheirWay) - 1
<1>1. OnTheirWay' = OnTheirWay \ {w} /\ w \in OnTheirWay
  BY DEF OnTheirWay
<1> QED
  BY <1>1, FS_RemoveElement, FiniteParties

LEMMA NoSleepStep ==
  TypeInvariant /\ NoSleepOnWork /\ [Next]_vars => NoSleepOnWork'
<1> SUFFICES ASSUME TypeInvariant, NoSleepOnWork, [Next]_vars,
                    ~stop', Waiting' # {}
             PROVE  Len(queue') <= Cardinality(OnTheirWay') + Cardinality(AboutToNotify')
  BY DEF NoSleepOnWork
<1> DEFINE Enough == Len(queue') <= Cardinality(OnTheirWay') + Cardinality(AboutToNotify')
<1> USE DEF poolState, history
<1>0. /\ pc \in [Workers -> {"absent", "loop", "enter", "wait", "run", "exit"}]
      /\ clientPc \in [Clients -> {"idle", "notify"}]
      /\ queue \in Seq(Jobs) /\ Len(queue) \in Nat
  BY LenProperties DEF TypeInvariant
<1>a. ASSUME ~stop, Waiting # {}
      PROVE  Len(queue) <= Cardinality(OnTheirWay) + Cardinality(AboutToNotify)
  BY <1>a DEF NoSleepOnWork
<1>b. ASSUME UNCHANGED <<queue, stop, pc, clientPc>> PROVE Enough
  <2>1. Waiting' = Waiting /\ OnTheirWay' = OnTheirWay /\ AboutToNotify' = AboutToNotify
    BY <1>b DEF Waiting, OnTheirWay, AboutToNotify
  <2> QED
    BY <1>a, <1>b, <2>1
<1>1. ASSUME NEW c \in Clients, NEW j \in Jobs, SubmitPush(c, j) PROVE Enough
  <2>1. Len(queue') = Len(queue) + 1
    BY <1>0, <1>1, PushStack DEF SubmitPush
  <2>2. /\ Waiting' = Waiting /\ OnTheirWay' = OnTheirWay /\ stop' = stop
        /\ AboutToNotify' = AboutToNotify \cup {c} /\ c \notin AboutToNotify
    BY <1>0, <1>1 DEF SubmitPush, Waiting, OnTheirWay, AboutToNotify
  <2>3. Cardinality(AboutToNotify') = Cardinality(AboutToNotify) + 1
    BY <2>2, FS_AddElement, FiniteParties
  <2> QED
    BY <1>0, <1>a, <2>1, <2>2, <2>3, FiniteParties
<1>2. ASSUME NEW c \in Clients, NEW j \in Jobs, SubmitReject(c, j) PROVE Enough
  BY <1>2, <1>b DEF SubmitReject
<1>3. ASSUME NEW c \in Clients, NotifyOne(c) PROVE Enough
  <2>1. /\ AboutToNotify' = AboutToNotify \ {c} /\ c \in AboutToNotify
        /\ stop' = stop /\ queue' = queue
    BY <1>0, <1>3 DEF NotifyOne, AboutToNotify
  <2>2. Cardinality(AboutToNotify') = Cardinality(AboutToNotify) - 1
    BY <2>1, FS_RemoveElement, FiniteParties
  <2>3. Waiting # {}
    BY <1>3 DEF NotifyOne, Waiting
  <2>4. PICK w \in Workers : pc[w] = "wait" /\ pc' = [pc EXCEPT ![w] = "enter"]
    BY <1>3, <2>3 DEF NotifyOne, Waiting
  <2>5. Cardinality(OnTheirWay') = Cardinality(OnTheirWay) + 1
    BY <1>0, <2>4, OneMoreOnTheWay
  <2> QED
    BY <1>0, <1>a, <2>1, <2>2, <2>3, <2>5, FiniteParties
<1>4. ASSUME NEW w \in Workers, CheckStop(w) PROVE Enough
  <2>1. queue' = queue /\ stop' = stop /\ clientPc' = clientPc
    BY <1>4 DEF CheckStop
  <2>2. pc[w] = "loop" /\ pc' = [pc EXCEPT ![w] = "enter"]
    BY <1>4, <2>1 DEF CheckStop
  <2>3. OnTheirWay' = OnTheirWay /\ Waiting' = Waiting
    BY <1>0, <2>2 DEF OnTheirWay, Waiting
  <2>4. AboutToNotify' = AboutToNotify
    BY <2>1 DEF AboutToNotify
  <2> QED
    BY <1>a, <2>1, <2>3, <2>4
<1>5. ASSUME NEW w \in Workers, TakeJob(w) PROVE Enough
  <2>1. /\ queue # <<>> /\ queue' = Front(queue) /\ stop' = stop /\ clientPc' = clientPc
        /\ pc[w] = "enter" /\ pc' = [pc EXCEPT ![w] = "run"]
    BY <1>5 DEF TakeJob
  <2>2. Len(queue') = Len(queue) - 1
    BY <1>0, <2>1, PopStack
  <2>3. Cardinality(OnTheirWay') = Cardinality(OnTheirWay) - 1
    BY <1>0, <2>1, OneLessOnTheWay
  <2>4. AboutToNotify' = AboutToNotify /\ Waiting' = Waiting
    BY <1>0, <2>1 DEF AboutToNotify, Waiting
  <2> QED
    BY <1>0, <1>a, <2>1, <2>2, <2>3, <2>4, FiniteParties
<1>6. ASSUME NEW w \in Workers, ReturnEmpty(w) PROVE Enough
  BY <1>6 DEF ReturnEmpty
<1>7. ASSUME NEW w \in Workers, Sleep(w) PROVE Enough
  <2>1. Len(queue') = 0
    BY <1>7, EmptySeq DEF Sleep
  <2> QED
    BY <2>1, FinitePartiesNext
<1>8. ASSUME NEW w \in Workers, FinishJob(w) PROVE Enough
  <2>1. /\ pc[w] = "run" /\ pc' = [pc EXCEPT ![w] = "loop"]
        /\ queue' = queue /\ stop' = stop /\ clientPc' = clientPc
    BY <1>8 DEF FinishJob
  <2>2. Waiting' = Waiting /\ AboutToNotify' = AboutToNotify
    BY <1>0, <2>1 DEF Waiting, AboutToNotify
  <2>3. Cardinality(OnTheirWay') = Cardinality(OnTheirWay) + 1
    BY <1>0, <2>1, OneMoreOnTheWay
  <2> QED
    BY <1>0, <1>a, <2>1, <2>2, <2>3, FiniteParties
<1>9. ASSUME NEW w \in Workers, SpuriousWakeup(w) PROVE Enough
  <2>1. /\ pc[w] = "wait" /\ pc' = [pc EXCEPT ![w] = "enter"]
        /\ queue' = queue /\ stop' = stop /\ clientPc' = clientPc
    BY <1>9 DEF SpuriousWakeup
  <2>2. Waiting # {} /\ AboutToNotify' = AboutToNotify
    BY <1>0, <2>1 DEF Waiting, AboutToNotify
  <2>3. Cardinality(OnTheirWay') = Cardinality(OnTheirWay) + 1
    BY <1>0, <2>1, OneMoreOnTheWay
  <2> QED
    BY <1>0, <1>a, <2>1, <2>2, <2>3, FiniteParties
<1>10. ASSUME NEW n \in Sizes, RequestStop(n) PROVE Enough
  BY <1>10 DEF RequestStop
<1>11. CASE Rebuild
  BY <1>11 DEF Rebuild, Waiting
<1>12. CASE UNCHANGED vars
  BY <1>12, <1>b DEF vars
<1> QED
  BY <1>1, <1>2, <1>3, <1>4, <1>5, <1>6, <1>7, <1>8, <1>9, <1>10, <1>11, <1>12
     DEF Next, Worker

\* While a worker sleeps, every queued job has a worker on its way to it or a
\* submitter about to notify (lines 69 and 106): no wake-up is lost.
THEOREM NobodySleepsOnWork == Spec => []NoSleepOnWork
<1>1. Init => NoSleepOnWork
  BY DEF Init, NoSleepOnWork, Waiting
<1> QED
  BY <1>1, TypeInit, TypeStep, NoSleepStep, PTL DEF Spec

------------------------------------------------------------------------------
(* No pending job is lost *)

\* An accepted job leaves the stack only by being started, or in the resize
\* that resets m_jobIndex (line 90).
THEOREM LeavesStarted == Spec => LeavesOnlyStartedOrResized
<1>1. ASSUME TypeInvariant, StopWakes, [Next]_vars
      PROVE  [\A j \in Queued \ Queued' :
                 runs'[j] = runs[j] + 1 \/ threads' # threads]_vars
  <2> SUFFICES ASSUME NEW j \in Queued, j \notin Queued', threads' = threads
               PROVE  runs'[j] = runs[j] + 1
    OBVIOUS
  <2>0. queue \in Seq(Jobs) /\ Len(queue) \in Nat /\ DOMAIN queue = 1 .. Len(queue)
    BY <1>1, LenProperties DEF TypeInvariant
  <2>1. queue' # queue
    BY DEF Queued
  <2>2. PICK i \in 1 .. Len(queue) : queue[i] = j
    BY <2>0 DEF Queued, ToSet
  <2>3. ASSUME NEW w \in Workers, TakeJob(w) PROVE runs'[j] = runs[j] + 1
    <3>1. queue # <<>> /\ queue' = Front(queue)
      BY <2>3, SMTT(60) DEF TakeJob
    <3>2. /\ Len(queue) \in Nat \ {0} /\ Last(queue) = queue[Len(queue)]
          /\ queue' \in Seq(Jobs) /\ Len(queue') = Len(queue) - 1
          /\ \A k \in 1 .. Len(queue) - 1 : queue'[k] = queue[k]
      BY <2>0, <3>1, PopStack
    <3>3. DOMAIN queue' = 1 .. Len(queue) - 1
      BY <3>2, LenProperties
    <3>4. i = Len(queue)
      <4> SUFFICES ASSUME i # Len(queue) PROVE FALSE
        BY Zenon
      <4>0. Len(queue) \in Nat
        BY <2>0
      <4>1. i \in 1 .. Len(queue) - 1
        BY <4>0
      <4>2. i \in DOMAIN queue' /\ queue'[i] = j
        BY <2>2, <3>2, <3>3, <4>1, Zenon
      <4> QED
        BY <4>2 DEF Queued, ToSet
    <3>5. j = Last(queue) /\ j \in Jobs
      BY <2>0, <2>2, <3>2, <3>4, ElementOfSeq
    <3>6. runs' = [runs EXCEPT ![j] = @ + 1] /\ runs \in [Jobs -> Nat]
      BY <1>1, <2>3, <3>5, Zenon DEF TakeJob, TypeInvariant
    <3> QED
      BY <3>5, <3>6
  <2>4. ASSUME NEW c \in Clients, NEW k \in Jobs, SubmitPush(c, k) PROVE FALSE
    <3>1. queue' = Append(queue, k) /\ k \in Jobs
      BY <2>4 DEF SubmitPush
    <3>2. /\ queue' \in Seq(Jobs) /\ Len(queue') = Len(queue) + 1
          /\ queue'[i] = queue[i]
      BY <2>0, <3>1, PushStack
    <3>3. i \in DOMAIN queue'
      BY <2>0, <3>2, LenProperties
    <3> QED
      BY <2>2, <3>2, <3>3 DEF Queued, ToSet
  <2>5. ~Rebuild
    BY <1>1 DEF Rebuild, StopWakes
  <2> QED
    BY <1>1, <2>1, <2>3, <2>4, <2>5
       DEF Next, Worker, SubmitReject, NotifyOne, CheckStop, ReturnEmpty, Sleep,
           FinishJob, SpuriousWakeup, RequestStop, vars, poolState
<1> QED
  BY <1>1, TypeInit, TypeStep, StopInit, StopStep, PTL
     DEF Spec, LeavesOnlyStartedOrResized

\* Neither a thread at work nor a job that waits is dropped: resize() joins
\* before it replaces (lines 80-97), and the stack gives its jobs to workers
\* (line 111) or to a resize (line 90).
THEOREM NobodyIsDropped == Spec => NothingIsDropped
  BY ReplacedWhenJoined, LeavesStarted DEF NothingIsDropped

----------------------------------------------------------------------------
(* ThreadPool implements JobPool: every step of a submitter, a worker or a *)
(* resize is a step of one job's life, a resize of the pool, or no step at *)
(* all.                                                                    *)

(* What ThreadPoolProof's invariants leave open *)

\* A job in the hands of a worker is accepted and was started once.
CarriedIsStarted ==
  \A w \in Workers : job[w] # NoJob => job[w] \in accepted /\ runs[job[w]] = 1

\* No two workers carry the same job, and one that runs carries one.
OneCarrier ==
  /\ \A v, w \in Workers : job[v] # NoJob /\ job[v] = job[w] => v = w
  /\ \A w \in Workers : pc[w] = "run" => job[w] # NoJob

\* A worker is one of the threads of the present pool, whose stack has
\* s_jobScalar slots for each of them.
FitsThePool ==
  /\ \A w \in Workers : pc[w] # "absent" => w \in Live(threads)
  /\ capacity = JobScalar * threads

\* submit() answers once for each job.
OneAnswer == accepted \cap rejected = {}

PoolInv ==
  /\ TypeInvariant
  /\ PendingIsFresh
  /\ RunsAtMostOnce
  /\ CarriesWhileRunning
  /\ StopWakes
  /\ CarriedIsStarted
  /\ OneCarrier
  /\ FitsThePool
  /\ OneAnswer

------------------------------------------------------------------------------
(* The stack as a set of jobs *)

LEMMA PushedSet ==
  ASSUME NEW S, NEW q \in Seq(S), NEW e \in S
  PROVE  ToSet(Append(q, e)) = ToSet(q) \cup {e}
<1>1. DOMAIN q = 1 .. Len(q) /\ Len(q) \in Nat
  BY LenProperties
<1>2. /\ Append(q, e) \in Seq(S)
      /\ Len(Append(q, e)) = Len(q) + 1
      /\ \A i \in 1 .. Len(q) : Append(q, e)[i] = q[i]
      /\ Append(q, e)[Len(q) + 1] = e
  BY PushStack
<1>3. DOMAIN Append(q, e) = 1 .. Len(q) + 1
  BY <1>2, LenProperties
<1>4. \A i : i \in 1 .. Len(q) + 1 <=> i \in 1 .. Len(q) \/ i = Len(q) + 1
  BY <1>1
<1> QED
  BY <1>1, <1>2, <1>3, <1>4 DEF ToSet

LEMMA PoppedSet ==
  ASSUME NEW S, NEW q \in Seq(S), q # <<>>,
         \A i, k \in 1 .. Len(q) : q[i] = q[k] => i = k
  PROVE  ToSet(Front(q)) = ToSet(q) \ {Last(q)} /\ Last(q) \in ToSet(q)
<1>1. /\ Len(q) \in Nat \ {0} /\ Last(q) = q[Len(q)]
      /\ Front(q) \in Seq(S) /\ Len(Front(q)) = Len(q) - 1
      /\ \A i \in 1 .. Len(q) - 1 : Front(q)[i] = q[i]
  BY PopStack
<1>2. DOMAIN q = 1 .. Len(q) /\ DOMAIN Front(q) = 1 .. Len(q) - 1
  BY <1>1, LenProperties
<1>3. \A i : i \in 1 .. Len(q) <=> i \in 1 .. Len(q) - 1 \/ i = Len(q)
  BY <1>1
<1>4. Len(q) \in 1 .. Len(q) /\ Len(q) \notin 1 .. Len(q) - 1
  BY <1>1
<1>5. \A i \in 1 .. Len(q) - 1 : q[i] # q[Len(q)]
  BY <1>3, <1>4
<1> QED
  BY <1>1, <1>2, <1>3, <1>4, <1>5 DEF ToSet

\* Distinct jobs on the stack take as many slots as there are jobs.
LEMMA DistinctCount ==
  ASSUME NEW S, NEW q \in Seq(S),
         \A i, k \in 1 .. Len(q) : q[i] = q[k] => i = k
  PROVE  Cardinality(ToSet(q)) = Len(q)
<1>1. DOMAIN q = 1 .. Len(q) /\ Len(q) \in Nat
  BY LenProperties
<1>2. q \in [1 .. Len(q) -> ToSet(q)]
  <2>1. q = [i \in 1 .. Len(q) |-> q[i]]
    BY LenProperties, SeqDef
  <2>2. \A i \in 1 .. Len(q) : q[i] \in ToSet(q)
    BY <1>1 DEF ToSet
  <2> QED
    BY <2>1, <2>2
<1>3. q \in Injection(1 .. Len(q), ToSet(q))
  BY <1>2 DEF Injection, IsInjective
<1>4. \A e \in ToSet(q) : \E i \in 1 .. Len(q) : q[i] = e
  BY <1>1 DEF ToSet
<1>5. q \in Bijection(1 .. Len(q), ToSet(q))
  BY <1>2, <1>3, <1>4 DEF Bijection, Surjection
<1>6. ExistsBijection(1 .. Len(q), ToSet(q))
  BY <1>5 DEF ExistsBijection
<1> QED
  BY <1>1, <1>6, FS_CountingElements

------------------------------------------------------------------------------
(* The invariant *)

LEMMA PoolInit == Init => PoolInv
<1> SUFFICES ASSUME Init PROVE PoolInv
  OBVIOUS
<1>1. TypeInvariant /\ CarriesWhileRunning /\ StopWakes
  BY TypeInit, StopInit
<1>2. PendingIsFresh /\ RunsAtMostOnce
  <2>1. Len(queue) = 0 /\ \A j \in Jobs : runs[j] = 0
    BY EmptySeq DEF Init
  <2> QED
    BY <2>1 DEF PendingIsFresh, RunsAtMostOnce
<1>3. CarriedIsStarted /\ OneCarrier /\ FitsThePool /\ OneAnswer
  BY DEF Init, CarriedIsStarted, OneCarrier, FitsThePool, OneAnswer
<1> QED
  BY <1>1, <1>2, <1>3 DEF PoolInv

\* What a worker takes is the top of the stack: accepted, never started, and in
\* nobody's hands.
LEMMA TopIsFresh ==
  ASSUME PoolInv, queue # <<>>
  PROVE  /\ Last(queue) \in Jobs /\ Last(queue) \in accepted /\ runs[Last(queue)] = 0
         /\ \A w \in Workers : job[w] # Last(queue)
<1>1. /\ Len(queue) \in Nat \ {0} /\ Last(queue) = queue[Len(queue)] /\ Last(queue) \in Jobs
  BY PopStack DEF PoolInv, TypeInvariant
<1>2. Len(queue) \in 1 .. Len(queue)
  BY <1>1
<1>3. Last(queue) \in accepted /\ runs[Last(queue)] = 0
  BY <1>1, <1>2 DEF PoolInv, PendingIsFresh
<1>4. \A w \in Workers : job[w] # NoJob => runs[job[w]] = 1
  BY DEF PoolInv, CarriedIsStarted
<1> QED
  BY <1>1, <1>3, <1>4, PoolAssumption

LEMMA CarryStep ==
  PoolInv /\ [Next]_vars => CarriedIsStarted' /\ OneCarrier' /\ FitsThePool' /\ OneAnswer'
<1> DEFINE I == CarriedIsStarted /\ OneCarrier /\ FitsThePool /\ OneAnswer
<1> SUFFICES ASSUME PoolInv, [Next]_vars PROVE I'
  OBVIOUS
<1>0. /\ TypeInvariant /\ CarriesWhileRunning /\ CarriedIsStarted /\ OneCarrier
      /\ FitsThePool /\ OneAnswer
  BY DEF PoolInv
<1>t. /\ pc \in [Workers -> {"absent", "loop", "enter", "wait", "run", "exit"}]
      /\ job \in [Workers -> Jobs \cup {NoJob}]
      /\ runs \in [Jobs -> Nat]
      /\ NoJob \notin Jobs
  BY <1>0, PoolAssumption DEF TypeInvariant
<1> USE DEF CarriedIsStarted, OneCarrier, FitsThePool, OneAnswer, poolState, history
<1>1. ASSUME NEW c \in Clients, NEW j \in Jobs, SubmitPush(c, j) \/ SubmitReject(c, j)
      PROVE  I'
  BY <1>0, <1>1 DEF SubmitPush, SubmitReject
<1>2. ASSUME NEW w \in Workers, NEW st, st # "run", st # "absent", pc[w] # "absent",
             pc' = [pc EXCEPT ![w] = st],
             UNCHANGED <<capacity, threads, job, accepted, rejected, runs>>
      PROVE  I'
  BY <1>0, <1>t, <1>2
<1>3. ASSUME NEW c \in Clients, NotifyOne(c) PROVE I'
  <2>1. CASE UNCHANGED pc
    BY <1>0, <1>3, <2>1 DEF NotifyOne
  <2>2. CASE \E w \in Waiting : pc' = [pc EXCEPT ![w] = "enter"]
    BY <1>2, <1>3, <2>2 DEF NotifyOne, Waiting
  <2> QED
    BY <1>3, <2>1, <2>2 DEF NotifyOne
<1>4. ASSUME NEW w \in Workers,
             CheckStop(w) \/ ReturnEmpty(w) \/ Sleep(w) \/ SpuriousWakeup(w)
      PROVE  I'
  <2>1. /\ pc[w] # "absent" /\ \E st \in {"exit", "enter", "loop", "wait"} : pc' = [pc EXCEPT ![w] = st]
        /\ UNCHANGED <<capacity, threads, job, accepted, rejected, runs>>
    BY <1>4 DEF CheckStop, ReturnEmpty, Sleep, SpuriousWakeup
  <2> QED
    BY <1>2, <2>1
<1>5. ASSUME NEW w \in Workers, TakeJob(w) PROVE I'
  <2> DEFINE top == Last(queue)
  <2>1. /\ pc[w] = "enter" /\ job' = [job EXCEPT ![w] = top]
        /\ runs' = [runs EXCEPT ![top] = @ + 1] /\ pc' = [pc EXCEPT ![w] = "run"]
        /\ UNCHANGED <<capacity, threads, accepted, rejected>>
    BY <1>5 DEF TakeJob
  <2>2. top \in Jobs /\ top \in accepted /\ runs[top] = 0 /\ \A v \in Workers : job[v] # top
    BY <1>5, TopIsFresh DEF TakeJob
  <2> HIDE DEF top
  <2>3. runs'[top] = 1 /\ \A j \in Jobs : j # top => runs'[j] = runs[j]
    BY <1>t, <2>1, <2>2
  <2>4. job'[w] = top /\ \A v \in Workers : v # w => job'[v] = job[v]
    BY <1>t, <2>1
  <2>5. CarriedIsStarted'
    BY <1>0, <1>t, <2>1, <2>2, <2>3, <2>4
  <2>6. OneCarrier'
    BY <1>0, <1>t, <2>1, <2>2, <2>4
  <2> QED
    BY <1>0, <1>t, <2>1, <2>5, <2>6
<1>6. ASSUME NEW w \in Workers, FinishJob(w) PROVE I'
  BY <1>0, <1>t, <1>6 DEF FinishJob
<1>7. ASSUME NEW n \in Sizes, RequestStop(n) PROVE I'
  BY <1>0, <1>t, <1>7 DEF RequestStop, WakeAll
<1>8. CASE Rebuild
  <2>1. \A w \in Workers : job[w] = NoJob
    BY <1>0, <1>8 DEF Rebuild, Joined, CarriesWhileRunning
  <2> QED
    BY <1>0, <1>t, <1>8, <2>1 DEF Rebuild
<1>9. CASE UNCHANGED vars
  BY <1>0, <1>9 DEF vars
<1> QED
  BY <1>1, <1>3, <1>4, <1>5, <1>6, <1>7, <1>8, <1>9 DEF Next, Worker

LEMMA PoolIsInv == Spec => []PoolInv
<1>1. PoolInv /\ [Next]_vars => PoolInv'
  BY TypeStep, FreshStep, StopStep, CarryStep DEF PoolInv
<1> QED
  BY <1>1, PoolInit, PTL DEF Spec

------------------------------------------------------------------------------
(* What JobPool sees *)

\* The places where a job can be exclude each other.
Places ==
  /\ Queued \subseteq accepted /\ Running \subseteq accepted
  /\ Queued \cap Running = {} /\ accepted \cap rejected = {}
  /\ \A j \in Running : runs[j] = 1
  /\ \A j \in Queued : runs[j] = 0
  /\ Queued \subseteq Jobs
  /\ Cardinality(Queued) = Len(queue)

LEMMA PlacesHold == PoolInv => Places
<1> SUFFICES ASSUME PoolInv PROVE Places
  OBVIOUS
<1>1. queue \in Seq(Jobs) /\ DOMAIN queue = 1 .. Len(queue)
  BY LenProperties DEF PoolInv, TypeInvariant
<1>2. \A j \in Queued : j \in Jobs /\ j \in accepted /\ runs[j] = 0
  BY <1>1, ElementOfSeq DEF Queued, ToSet, PoolInv, PendingIsFresh
<1>3. \A j \in Running : j \in accepted /\ runs[j] = 1
  BY PoolAssumption DEF Running, PoolInv, CarriedIsStarted
<1>4. Cardinality(Queued) = Len(queue)
  BY <1>1, DistinctCount DEF Queued, PoolInv, PendingIsFresh
<1> QED
  BY <1>2, <1>3, <1>4 DEF Places, PoolInv, OneAnswer

LEMMA StatusIs ==
  ASSUME Places, NEW j \in Jobs
  PROVE  /\ Status(j) = "rejected" <=> j \in rejected
         /\ Status(j) = "pending" <=> j \in Queued
         /\ Status(j) = "running" <=> j \in Running
         /\ Status(j) = "new" <=> j \notin accepted \cup rejected
         /\ Status(j) = "done" <=> j \in accepted \ (Queued \cup Running) /\ runs[j] > 0
  BY DEF Places, Status

\* The same after a step.
LEMMA StatusIsNext ==
  ASSUME Places', NEW j \in Jobs
  PROVE  /\ Status(j)' = "rejected" <=> j \in rejected'
         /\ Status(j)' = "pending" <=> j \in Queued'
         /\ Status(j)' = "running" <=> j \in Running'
         /\ Status(j)' = "done" <=> j \in accepted' \ (Queued' \cup Running') /\ runs'[j] > 0
         /\ Status(j)' = "dropped" <=> j \in accepted' \ (Queued' \cup Running') /\ ~(runs'[j] > 0)
  BY DEF Places, Status

\* A job that stays where it is keeps its status.
LEMMA StatusStays ==
  ASSUME NEW j \in Jobs,
         j \in rejected' <=> j \in rejected, j \in Queued' <=> j \in Queued,
         j \in Running' <=> j \in Running, j \in accepted' <=> j \in accepted,
         runs'[j] = runs[j]
  PROVE  Status(j)' = Status(j)
  BY DEF Status

StatusMap == [j \in Jobs |-> Status(j)]

\* JobPool's actions, read with the pool's variables.
LEMMA AbstractActions ==
  /\ UNCHANGED Abstract!poolVars <=> UNCHANGED <<StatusMap, threads>>
  /\ Places =>
       /\ Abstract!With("pending") = Queued
       /\ Abstract!With("running") = Running
  /\ \A j \in Jobs, from, to \in {"new", "rejected", "pending", "running", "done"} :
       Abstract!Move(j, from, to) <=>
         Status(j) = from /\ StatusMap' = [StatusMap EXCEPT ![j] = to] /\ threads' = threads
<1>1. UNCHANGED Abstract!poolVars <=> UNCHANGED <<StatusMap, threads>>
  BY DEF Abstract!poolVars, StatusMap
<1>2. ASSUME Places PROVE Abstract!With("pending") = Queued /\ Abstract!With("running") = Running
  <2>1. /\ Abstract!With("pending") = {j \in Jobs : Status(j) = "pending"}
        /\ Abstract!With("running") = {j \in Jobs : Status(j) = "running"}
    BY DEF Abstract!With
  <2>2. Queued \subseteq Jobs /\ Running \subseteq Jobs
    BY <1>2 DEF Places, Running
  <2> QED
    BY <1>2, <2>1, <2>2, StatusIs
<1>3. \A j \in Jobs, from, to \in {"new", "rejected", "pending", "running", "done"} :
       Abstract!Move(j, from, to) <=>
         Status(j) = from /\ StatusMap' = [StatusMap EXCEPT ![j] = to] /\ threads' = threads
  BY DEF Abstract!Move, StatusMap
<1> QED
  BY <1>1, <1>2, <1>3

\* A step that moves one job, or none.
LEMMA OneMoves ==
  ASSUME NEW j \in Jobs, NEW st, Status(j)' = st,
         \A k \in Jobs : k # j => Status(k)' = Status(k)
  PROVE  StatusMap' = [StatusMap EXCEPT ![j] = st]
  BY DEF StatusMap

------------------------------------------------------------------------------
(* Every step is one of JobPool *)

\* While a worker looks at the stack, fewer jobs run than there are threads.
LEMMA AThreadIsFree ==
  ASSUME PoolInv, NEW w \in Workers, pc[w] = "enter"
  PROVE  Cardinality(Running) < threads
<1> DEFINE Carriers == {v \in Workers : job[v] # NoJob}
<1> DEFINE carried == [v \in Carriers |-> job[v]]
<1>1. threads \in Nat
  BY PoolAssumption DEF PoolInv, TypeInvariant
<1>2. Carriers \subseteq (1 .. threads) \ {w} /\ w \in 1 .. threads
  BY DEF PoolInv, CarriesWhileRunning, FitsThePool, Live
<1>3. /\ IsFiniteSet((1 .. threads) \ {w})
      /\ Cardinality((1 .. threads) \ {w}) = threads - 1
  <2>1. IsFiniteSet(1 .. threads) /\ Cardinality(1 .. threads) = threads
    BY <1>1, FS_Interval
  <2> QED
    BY <1>2, <2>1, FS_RemoveElement
<1>4. IsFiniteSet(Carriers) /\ Cardinality(Carriers) <= threads - 1
  BY <1>2, <1>3, FS_Subset
<1>5. carried \in Surjection(Carriers, Running)
  <2>1. \A v \in Carriers : job[v] \in Running
    BY DEF PoolInv, TypeInvariant, Running
  <2>2. \A j \in Running : \E v \in Carriers : job[v] = j
    BY PoolAssumption DEF Running
  <2> QED
    BY <2>1, <2>2 DEF Surjection
<1>6. Cardinality(Running) <= Cardinality(Carriers) /\ IsFiniteSet(Running)
  BY <1>4, <1>5, FS_Surjection
<1>7. Cardinality(Running) \in Nat /\ Cardinality(Carriers) \in Nat
  BY <1>4, <1>6, FS_CardinalityType
<1> QED
  BY <1>1, <1>4, <1>6, <1>7

\* Both modules count with the same operator.
LEMMA SameCount == \A S : Abstract!Cardinality(S) = Cardinality(S)
  BY DEF Abstract!Cardinality, Cardinality

Seen == Abstract!Next \/ UNCHANGED <<StatusMap, threads>>

LEMMA Unseen ==
  ASSUME UNCHANGED <<queue, job, accepted, rejected, runs, threads>>
  PROVE  Seen
<1>1. \A j \in Jobs : Status(j)' = Status(j)
  BY StatusStays DEF Queued, Running
<1> QED
  BY <1>1 DEF Seen, StatusMap

LEMMA SubmitIsSeen ==
  ASSUME PoolInv, PoolInv', NEW c \in Clients, NEW j \in Jobs,
         SubmitPush(c, j) \/ SubmitReject(c, j)
  PROVE  Seen
<1>0. /\ Places /\ Len(queue) \in Nat /\ capacity \in Nat /\ Len(queue) <= capacity
      /\ capacity = JobScalar * threads /\ Cardinality(Queued) = Len(queue)
  BY PlacesHold, LenProperties DEF PoolInv, TypeInvariant, FitsThePool, Places
<1>1. Places'
  BY PlacesHold, PTL
<1>2. /\ j \notin accepted \cup rejected /\ j \notin Queued /\ j \notin Running
      /\ Status(j) = "new"
      /\ UNCHANGED <<job, runs, threads>> /\ Running' = Running
  BY <1>0, StatusIs DEF SubmitPush, SubmitReject, Places, poolState, Running
<1>3. CASE SubmitPush(c, j)
  <2>1. queue' = Append(queue, j) /\ accepted' = accepted \cup {j} /\ rejected' = rejected
    BY <1>3 DEF SubmitPush
  <2>2. Queued' = Queued \cup {j}
    BY <2>1, PushedSet DEF Queued, PoolInv, TypeInvariant
  <2>3. Status(j)' = "pending"
    BY <1>1, <2>2, StatusIsNext
  <2>4. \A k \in Jobs : k # j => Status(k)' = Status(k)
    BY <1>2, <2>1, <2>2, StatusStays
  <2>5. Abstract!Move(j, "new", "pending")
    BY <1>2, <2>3, <2>4, OneMoves, AbstractActions
  <2>6. Cardinality(Abstract!With("pending")) < JobScalar * threads
    BY <1>0, <1>3, AbstractActions DEF SubmitPush, Full
  <2> QED
    BY <2>5, <2>6, SameCount DEF Seen, Abstract!Next, Abstract!Accept
<1>4. CASE SubmitReject(c, j)
  <2>1. queue' = queue /\ accepted' = accepted /\ rejected' = rejected \cup {j}
    BY <1>4 DEF SubmitReject, poolState
  <2>2. Queued' = Queued
    BY <2>1 DEF Queued
  <2>3. Status(j)' = "rejected"
    BY <1>1, <2>1, StatusIsNext
  <2>4. \A k \in Jobs : k # j => Status(k)' = Status(k)
    BY <1>2, <2>1, <2>2, StatusStays
  <2>5. Abstract!Move(j, "new", "rejected")
    BY <1>2, <2>3, <2>4, OneMoves, AbstractActions
  <2>6. Cardinality(Abstract!With("pending")) = JobScalar * threads
    BY <1>0, <1>4, AbstractActions DEF SubmitReject, Full
  <2> QED
    BY <2>5, <2>6, SameCount DEF Seen, Abstract!Next, Abstract!Reject
<1> QED
  BY <1>3, <1>4

LEMMA TakeIsSeen ==
  ASSUME PoolInv, PoolInv', NEW w \in Workers, TakeJob(w)
  PROVE  Seen
<1>p. PICK top \in Jobs : top = Last(queue)
  BY TopIsFresh DEF TakeJob
<1>0. Places /\ Places'
  BY PlacesHold, PTL
<1>1. /\ queue # <<>> /\ queue' = Front(queue) /\ pc[w] = "enter"
      /\ job' = [job EXCEPT ![w] = top] /\ runs' = [runs EXCEPT ![top] = @ + 1]
      /\ UNCHANGED <<threads, accepted, rejected>>
  BY <1>p DEF TakeJob
<1>2. Queued' = Queued \ {top} /\ top \in Queued
  BY <1>1, <1>p, PoppedSet DEF Queued, PoolInv, TypeInvariant, PendingIsFresh
<1>4. Running' = Running \cup {top}
  <2>1. job \in [Workers -> Jobs \cup {NoJob}] /\ job[w] = NoJob
    BY <1>1 DEF PoolInv, TypeInvariant, CarriesWhileRunning
  <2> QED
    BY <1>1, <2>1, PoolAssumption DEF Running
<1>5. \A k \in Jobs : k # top => runs'[k] = runs[k]
  BY <1>1 DEF PoolInv, TypeInvariant
<1>6. Status(top) = "pending" /\ Status(top)' = "running"
  BY <1>0, <1>2, <1>4, StatusIs, StatusIsNext
<1>7. \A k \in Jobs : k # top => Status(k)' = Status(k)
  BY <1>1, <1>2, <1>4, <1>5, StatusStays
<1>8. Abstract!Move(top, "pending", "running")
  BY <1>1, <1>6, <1>7, OneMoves, AbstractActions
<1>9. Cardinality(Abstract!With("running")) < threads
  BY <1>0, <1>1, AThreadIsFree, AbstractActions
<1> QED
  BY <1>8, <1>9, SameCount DEF Seen, Abstract!Next, Abstract!Start

LEMMA FinishIsSeen ==
  ASSUME PoolInv, PoolInv', NEW w \in Workers, FinishJob(w)
  PROVE  Seen
<1>p. PICK j \in Jobs : j = job[w]
  BY PoolAssumption DEF FinishJob, PoolInv, TypeInvariant, OneCarrier
<1>0. Places /\ Places'
  BY PlacesHold, PTL
<1>1. /\ pc[w] = "run" /\ job' = [job EXCEPT ![w] = NoJob]
      /\ UNCHANGED <<queue, threads, accepted, rejected, runs>> /\ Queued' = Queued
  BY DEF FinishJob, poolState, history, Queued
<1>2. j \in Running /\ \A v \in Workers : v # w => job[v] # j
  BY <1>1, <1>p DEF PoolInv, TypeInvariant, OneCarrier, Running
<1>3. Running' = Running \ {j}
  BY <1>1, <1>2, <1>p, PoolAssumption DEF PoolInv, TypeInvariant, Running
<1>4. j \in accepted /\ j \notin Queued /\ runs[j] = 1
  BY <1>0, <1>2 DEF Places
<1>5. Status(j) = "running"
  BY <1>0, <1>2, StatusIs
<1>6. Status(j)' = "done"
  BY <1>0, <1>1, <1>2, <1>3, <1>4, StatusIsNext
<1>7. \A k \in Jobs : k # j => Status(k)' = Status(k)
  BY <1>1, <1>3, StatusStays
<1>8. Abstract!Move(j, "running", "done")
  BY <1>1, <1>2, <1>5, <1>6, <1>7, OneMoves, AbstractActions
<1> QED
  BY <1>2, <1>8 DEF Seen, Abstract!Next, Abstract!Complete

LEMMA RebuildIsSeen ==
  ASSUME PoolInv, PoolInv', Rebuild
  PROVE  Seen
<1>0. Places /\ Places'
  BY PlacesHold, PTL
<1>1. /\ owner \in Sizes /\ owner # threads /\ threads' = owner /\ queue' = <<>>
      /\ UNCHANGED <<job, accepted, rejected, runs>>
  BY DEF Rebuild, PoolInv, TypeInvariant, StopWakes, history
<1>2. Running = {} /\ Running' = {}
  BY <1>1, PoolAssumption DEF Rebuild, Joined, PoolInv, CarriesWhileRunning, Running
<1>3. Queued' = {}
  BY <1>1 DEF Queued, ToSet
<1>4. \A j \in Jobs : Status(j)' = IF Status(j) = "pending" THEN "dropped" ELSE Status(j)
  <2> TAKE j \in Jobs
  <2>1. CASE j \in Queued
    <3>1. j \in accepted /\ runs[j] = 0 /\ Status(j) = "pending"
      BY <1>0, <2>1, StatusIs DEF Places
    <3> QED
      BY <1>0, <1>1, <1>2, <1>3, <3>1, StatusIsNext
  <2>2. CASE j \notin Queued
    BY <1>0, <1>1, <1>2, <1>3, <2>2, StatusStays, StatusIs
  <2> QED
    BY <2>1, <2>2
<1>5. Abstract!Resize(owner)
  BY <1>0, <1>1, <1>2, <1>4, AbstractActions DEF Abstract!Resize
<1> QED
  BY <1>1, <1>5 DEF Seen, Abstract!Next

\* Seen through the jobs, every behaviour of the threads, the lock and the stop
\* source is one of JobPool: a submitted job is rejected exactly when the stack
\* is full, is started once, by one of as many threads as the pool has, and is
\* discarded only by a resize, which happens while nothing runs (lines 57-115).
THEOREM PoolImplementsJobPool == Spec => ImplementsJobPool
<1>1. Init => Abstract!Init
  <2> SUFFICES ASSUME Init PROVE Abstract!Init
    OBVIOUS
  <2>1. PoolInv /\ Queued = {} /\ Running = {} /\ accepted = {} /\ rejected = {}
    BY PoolInit, PoolAssumption DEF Init, Queued, Running, ToSet
  <2>2. \A j \in Jobs : Status(j) = "new"
    BY <2>1, PlacesHold, StatusIs
  <2> QED
    BY <2>2 DEF Init, Abstract!Init
<1>2. PoolInv /\ PoolInv' /\ [Next]_vars => [Abstract!Next]_(Abstract!poolVars)
  <2> SUFFICES ASSUME PoolInv, PoolInv', [Next]_vars PROVE Seen
    BY AbstractActions DEF Seen
  <2>1. ASSUME NEW w \in Workers,
               CheckStop(w) \/ ReturnEmpty(w) \/ Sleep(w) \/ SpuriousWakeup(w)
        PROVE  Seen
    BY <2>1, Unseen DEF CheckStop, ReturnEmpty, Sleep, SpuriousWakeup, poolState, history
  <2>2. ASSUME NEW c \in Clients, NotifyOne(c) PROVE Seen
    BY <2>2, Unseen DEF NotifyOne, poolState, history
  <2>3. ASSUME NEW n \in Sizes, RequestStop(n) PROVE Seen
    BY <2>3, Unseen DEF RequestStop, history
  <2>4. CASE UNCHANGED vars
    BY <2>4, Unseen DEF vars
  <2> QED
    BY <2>1, <2>2, <2>3, <2>4, SubmitIsSeen, TakeIsSeen, FinishIsSeen, RebuildIsSeen
       DEF Next, Worker
<1> QED
  BY <1>1, <1>2, PoolIsInv, PTL DEF Spec, ImplementsJobPool, Abstract!Spec
==============================================================================
