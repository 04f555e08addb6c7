------------------------- MODULE ThreadPoolShutdown --------------------------
(***************************************************************************)
(* The destructor of ThreadPool (src/src/core/thread_pool.h, lines 46-54   *)
(* and the member declarations 119-125).  Its body asks the workers to     *)
(* stop and wakes them.  The members are then destroyed in the reverse     *)
(* order of their declaration: cv, queueMutex, m_stop and m_jobs first,    *)
(* m_workers, whose destruction joins the threads, last.                   *)
(***************************************************************************)
EXTENDS ThreadPool

VARIABLE lifetime   \* "alive", "stopping", "destroyed", "gone"

shutdownVars == <<vars, lifetime>>

ShutdownInit == Init /\ lifetime = "alive"

\* Nobody submits or resizes any more when the pool is destroyed.
DestructorBody ==
  /\ lifetime = "alive"
  /\ owner = 0
  /\ \A c \in Clients : clientPc[c] = "idle"
  /\ stop' = TRUE
  /\ pc' = WakeAll(pc)
  /\ lifetime' = "stopping"
  /\ UNCHANGED <<queue, capacity, threads, job, clientPc, owner, history>>

\* cv, queueMutex, m_stop, m_jobIndex and m_jobs end their life.
DestroyMembers ==
  /\ lifetime = "stopping"
  /\ lifetime' = "destroyed"
  /\ UNCHANGED vars

\* ~m_workers joins every thread.
JoinWorkers ==
  /\ lifetime = "destroyed"
  /\ Joined
  /\ lifetime' = "gone"
  /\ UNCHANGED vars

\* The workers run on meanwhile.  One that uses a destroyed member finds, in
\* the builds we know, the values it last held.
ShutdownNext ==
  \/ lifetime = "alive" /\ Next /\ UNCHANGED lifetime
  \/ lifetime # "alive" /\ (\E w \in Workers : Worker(w)) /\ UNCHANGED lifetime
  \/ DestructorBody
  \/ DestroyMembers
  \/ JoinWorkers

ShutdownSpec == ShutdownInit /\ [][ShutdownNext]_shutdownVars

\* "std::jthread auto joins" (line 53): when the condition variable, the mutex
\* and the stack are destroyed, no worker thread is about to use them.
JoinedBeforeDestroyed ==
  lifetime = "destroyed" => \A w \in Workers : pc[w] \notin {"enter", "wait"}
==============================================================================
