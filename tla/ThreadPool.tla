----------------------------- MODULE ThreadPool ------------------------------
(***************************************************************************)
(* The worker pool of src/src/core/thread_pool.h: a fixed-size LIFO stack  *)
(* of jobs guarded by queueMutex, workers that sleep on a                  *)
(* condition_variable_any with a stop token, and resize(), which stops and *)
(* joins every worker before it builds the new pool.                       *)
(*                                                                         *)
(* A critical section of queueMutex is one action.  What the code does     *)
(* outside the lock is a step of its own: the notify_one() of submit(),    *)
(* the stop_requested() test of the worker loop, the job itself, and the   *)
(* join of resize().  resize() has one caller at a time (the UCI thread);  *)
(* submit() is called by any thread, running jobs included.                *)
(***************************************************************************)
EXTENDS Naturals, FiniteSets, SequencesExt

CONSTANTS
  Jobs,         \* the closures given to submit(), each a different one
  Clients,      \* threads that call submit()
  MaxThreads,   \* s_maxThreads + 2, the largest pool
  Sizes,        \* thread counts given to the constructor and to resize()
  JobScalar,    \* s_jobScalar
  NoJob         \* the empty std::function

Workers == 1 .. MaxThreads

\* The constructor asserts that a pool is never built with no thread.
ASSUME PoolAssumption ==
  /\ MaxThreads \in Nat
  /\ Sizes \subseteq 1 .. MaxThreads
  /\ JobScalar \in Nat \ {0}
  /\ IsFiniteSet(Clients)
  /\ NoJob \notin Jobs

VARIABLES
  queue,      \* m_jobs[0 .. m_jobIndex - 1]
  capacity,   \* m_jobs.size()
  threads,    \* m_workers.size()
  stop,       \* has stop been requested of the present m_stop?
  pc,         \* what each worker thread does; "absent" is no thread (joined)
  job,        \* the job a worker has taken
  clientPc,   \* "notify": between submit()'s unlock and its notify_one()
  owner,      \* 0, or the thread count resize() is about to build
  accepted,   \* history: jobs submit() returned true for
  rejected,   \* history: jobs submit() returned false for
  runs        \* history: how often each job was started

poolState == <<queue, capacity, threads, stop>>
history == <<accepted, rejected, runs>>
vars == <<queue, capacity, threads, stop, pc, job, clientPc, owner,
          accepted, rejected, runs>>

Live(n) == 1 .. n
Waiting == {w \in Workers : pc[w] = "wait"}

Init ==
  /\ threads \in Sizes
  /\ queue = <<>>
  /\ capacity = JobScalar * threads
  /\ stop = FALSE
  /\ pc = [w \in Workers |-> IF w \in Live(threads) THEN "loop" ELSE "absent"]
  /\ job = [w \in Workers |-> NoJob]
  /\ clientPc = [c \in Clients |-> "idle"]
  /\ owner = 0
  /\ accepted = {}
  /\ rejected = {}
  /\ runs = [j \in Jobs |-> 0]

------------------------------------------------------------------------------
(* submit() *)

\* Mutant: the bound test of submit() is off by one.
FullOffByOne == Len(queue) > capacity

Full == Len(queue) >= capacity

SubmitReject(c, j) ==
  /\ clientPc[c] = "idle"
  /\ j \notin accepted \cup rejected
  /\ Full
  /\ rejected' = rejected \cup {j}
  /\ UNCHANGED <<poolState, pc, job, clientPc, owner, accepted, runs>>

\* Mutant: a submit() that forgets notify_one().
SubmitPushSilent(c, j) ==
  /\ clientPc[c] = "idle"
  /\ j \notin accepted \cup rejected
  /\ ~Full
  /\ queue' = Append(queue, j)
  /\ accepted' = accepted \cup {j}
  /\ UNCHANGED <<capacity, threads, stop, pc, job, clientPc, owner, rejected, runs>>

SubmitPush(c, j) ==
  /\ clientPc[c] = "idle"
  /\ j \notin accepted \cup rejected
  /\ ~Full
  /\ queue' = Append(queue, j)
  /\ accepted' = accepted \cup {j}
  /\ clientPc' = [clientPc EXCEPT ![c] = "notify"]
  /\ UNCHANGED <<capacity, threads, stop, pc, job, owner, rejected, runs>>

\* cv.notify_one(): one sleeping worker, if there is one, goes to re-acquire
\* the mutex and to look at the predicate again.
NotifyOne(c) ==
  /\ clientPc[c] = "notify"
  /\ clientPc' = [clientPc EXCEPT ![c] = "idle"]
  /\ IF Waiting = {}
     THEN UNCHANGED pc
     ELSE \E w \in Waiting : pc' = [pc EXCEPT ![w] = "enter"]
  /\ UNCHANGED <<poolState, job, owner, history>>

------------------------------------------------------------------------------
(* worker() *)

\* while (!stopToken.stop_requested())
CheckStop(w) ==
  /\ pc[w] = "loop"
  /\ pc' = [pc EXCEPT ![w] = IF stop THEN "exit" ELSE "enter"]
  /\ UNCHANGED <<poolState, job, clientPc, owner, history>>

\* Mutant: the job is copied from the top of the stack, m_jobIndex is not
\* decremented.
TakeJobKeepsIndex(w) ==
  /\ pc[w] = "enter"
  /\ queue # <<>>
  /\ job' = [job EXCEPT ![w] = Last(queue)]
  /\ runs' = [runs EXCEPT ![Last(queue)] = @ + 1]
  /\ pc' = [pc EXCEPT ![w] = "run"]
  /\ UNCHANGED <<poolState, clientPc, owner, accepted, rejected>>

\* Mutant: a stop request is looked at after the job was moved off the stack.
TakeJobThenStop(w) ==
  /\ pc[w] = "enter"
  /\ queue # <<>>
  /\ queue' = Front(queue)
  /\ IF stop
     THEN /\ pc' = [pc EXCEPT ![w] = "loop"]
          /\ UNCHANGED <<job, runs>>
     ELSE /\ pc' = [pc EXCEPT ![w] = "run"]
          /\ job' = [job EXCEPT ![w] = Last(queue)]
          /\ runs' = [runs EXCEPT ![Last(queue)] = @ + 1]
  /\ UNCHANGED <<capacity, threads, stop, clientPc, owner, accepted, rejected>>

\* cv.wait(lock, stopToken, pred) returns with pred() true, whether or not
\* stop was requested meanwhile: the job on top of the stack is taken.
TakeJob(w) ==
  /\ pc[w] = "enter"
  /\ queue # <<>>
  /\ job' = [job EXCEPT ![w] = Last(queue)]
  /\ queue' = Front(queue)
  /\ runs' = [runs EXCEPT ![Last(queue)] = @ + 1]
  /\ pc' = [pc EXCEPT ![w] = "run"]
  /\ UNCHANGED <<capacity, threads, stop, clientPc, owner, accepted, rejected>>

\* cv.wait returns pred() = false only when stop was requested: "continue".
ReturnEmpty(w) ==
  /\ pc[w] = "enter"
  /\ queue = <<>>
  /\ stop
  /\ pc' = [pc EXCEPT ![w] = "loop"]
  /\ UNCHANGED <<poolState, job, clientPc, owner, history>>

\* The predicate is false and nobody asked to stop: release the mutex, sleep.
Sleep(w) ==
  /\ pc[w] = "enter"
  /\ queue = <<>>
  /\ ~stop
  /\ pc' = [pc EXCEPT ![w] = "wait"]
  /\ UNCHANGED <<poolState, job, clientPc, owner, history>>

\* Condition variables may wake up without a notification.
SpuriousWakeup(w) ==
  /\ pc[w] = "wait"
  /\ pc' = [pc EXCEPT ![w] = "enter"]
  /\ UNCHANGED <<poolState, job, clientPc, owner, history>>

\* job() returns and the closure is destroyed at the end of the loop body.
FinishJob(w) ==
  /\ pc[w] = "run"
  /\ job' = [job EXCEPT ![w] = NoJob]
  /\ pc' = [pc EXCEPT ![w] = "loop"]
  /\ UNCHANGED <<poolState, clientPc, owner, history>>

Worker(w) ==
  \/ CheckStop(w)
  \/ TakeJob(w)
  \/ ReturnEmpty(w)
  \/ Sleep(w)
  \/ FinishJob(w)

------------------------------------------------------------------------------
(* resize() *)

\* Mutant: workers that wait without the stop token, and no notify_all().
WakeNobody(state) == state

\* request_stop() runs the stop callbacks of the sleeping workers, and
\* notify_all() follows it: every sleeper goes to look at the predicate.
WakeAll(state) == [w \in Workers |-> IF state[w] = "wait" THEN "enter" ELSE state[w]]

\* The early return of resize() for an unchanged thread count does nothing.
RequestStop(n) ==
  /\ owner = 0
  /\ n # threads
  /\ owner' = n
  /\ stop' = TRUE
  /\ pc' = WakeAll(pc)
  /\ UNCHANGED <<queue, capacity, threads, job, clientPc, history>>

\* m_workers.clear() joins: resize() goes on when every worker has returned.
Joined == \A w \in Workers : pc[w] \in {"exit", "absent"}

\* Under queueMutex: new stop source, new stack, m_jobIndex = 0 (whatever was
\* pending is forgotten), new threads.
Rebuild ==
  /\ owner # 0
  /\ Joined
  /\ stop' = FALSE
  /\ threads' = owner
  /\ capacity' = JobScalar * owner
  /\ queue' = <<>>
  /\ pc' = [w \in Workers |-> IF w \in Live(owner) THEN "loop" ELSE "absent"]
  /\ owner' = 0
  /\ UNCHANGED <<job, clientPc, history>>

------------------------------------------------------------------------------

Next ==
  \/ \E c \in Clients : \E j \in Jobs : SubmitPush(c, j) \/ SubmitReject(c, j)
  \/ \E c \in Clients : NotifyOne(c)
  \/ \E w \in Workers : Worker(w) \/ SpuriousWakeup(w)
  \/ \E n \in Sizes : RequestStop(n)
  \/ Rebuild

Spec == Init /\ [][Next]_vars

\* A thread that can go on is scheduled again; jobs end (the searches they run
\* are cut short by the stop flags or by their depth); a caller that pushed a
\* job returns from submit(), and one that started a resize ends it.  Nobody
\* is obliged to submit or to resize, and no spurious wake-up is promised.
Fairness ==
  /\ \A w \in Workers : WF_vars(Worker(w))
  /\ \A c \in Clients : WF_vars(NotifyOne(c))
  /\ WF_vars(Rebuild)

FairSpec == Spec /\ Fairness

------------------------------------------------------------------------------
(* What the pool is for *)

Queued == ToSet(queue)
Running == {j \in Jobs : \E w \in Workers : job[w] = j}

\* The type of each variable; m_jobIndex never passes the end of m_jobs.
TypeInvariant ==
  /\ queue \in Seq(Jobs)
  /\ capacity \in Nat
  /\ Len(queue) <= capacity
  /\ threads \in Sizes
  /\ stop \in BOOLEAN
  /\ pc \in [Workers -> {"absent", "loop", "enter", "wait", "run", "exit"}]
  /\ job \in [Workers -> Jobs \cup {NoJob}]
  /\ clientPc \in [Clients -> {"idle", "notify"}]
  /\ owner \in Sizes \cup {0}
  /\ accepted \in SUBSET Jobs
  /\ rejected \in SUBSET Jobs
  /\ runs \in [Jobs -> Nat]

\* No interleaving of submitters, workers and resize starts a job twice, or
\* starts one that submit() had refused (lines 57-71 and 104-115).
RunsAtMostOnce ==
  \A j \in Jobs : /\ runs[j] <= 1
                  /\ runs[j] = 1 => j \in accepted

\* A worker asleep on the condition variable is never asleep on work: while
\* one sleeps, for every queued job there is a worker on its way to the queue
\* or a submitter about to notify (lines 69 and 106).  The pool's callers
\* rely on it: the iterative deepening job blocks a worker until the search
\* jobs it submitted are all run by others.
OnTheirWay == {w \in Workers : pc[w] \in {"loop", "enter"}}
AboutToNotify == {c \in Clients : clientPc[c] = "notify"}

NoSleepOnWork ==
  (~stop /\ Waiting # {}) =>
    Len(queue) <= Cardinality(OnTheirWay) + Cardinality(AboutToNotify)

\* The workers a resize is about to replace are all gone when it replaces the
\* stop source and the stack, and none of them carries a job over
\* (lines 78-97).
ReplacedOnlyWhenJoined ==
  [][threads' # threads =>
       \A w \in Workers : /\ pc[w] \in {"exit", "absent"}
                          /\ job[w] = NoJob]_vars

\* An accepted job leaves the stack only by being started, or in the resize
\* that resets m_jobIndex (line 90).
LeavesOnlyStartedOrResized ==
  [][\A j \in Queued \ Queued' : runs'[j] = runs[j] + 1 \/ threads' # threads]_vars

\* No step drops a thread at work or a job that waits: both of the above.
NothingIsDropped == ReplacedOnlyWhenJoined /\ LeavesOnlyStartedOrResized

\* Every accepted job is started, or discarded by a resize: it does not stay
\* on the stack for ever (the stack is last in first out, so this is for
\* callers that submit finitely many jobs).
AcceptedJobLeaves == \A j \in Jobs : (j \in Queued) ~> (j \notin Queued)

\* A resize that asked the workers to stop gets them all joined: nobody
\* sleeps through the stop request (lines 79-81, 102 and 106).
ResizeEnds == (owner # 0) ~> (owner = 0)

\* Neither a job on the stack nor a resize waits for ever: both of the above.
PoolMovesOn == AcceptedJobLeaves /\ ResizeEnds

------------------------------------------------------------------------------
(* The pool implements JobPool. *)

Status(j) ==
  CASE j \in rejected                 -> "rejected"
    [] j \in Queued                   -> "pending"
    [] j \in Running                  -> "running"
    [] j \notin accepted \cup rejected -> "new"
    [] OTHER -> IF runs[j] > 0 THEN "done" ELSE "dropped"

Abstract == INSTANCE JobPool WITH status <- [j \in Jobs |-> Status(j)]

\* Seen through the jobs, the pool does what JobPool allows.
ImplementsJobPool == Abstract!Spec
==============================================================================
