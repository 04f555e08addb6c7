-------------------------- MODULE SearchSessionProof -------------------------
(***************************************************************************)
(* Proofs about SearchSession, for any number of go commands, any depth    *)
(* and any number of widenings.                                            *)
(***************************************************************************)
EXTENDS SearchSession, TLAPS

(* The inductive invariant *)

Active(g) == pc[g] \notin {"none", "done"}
InLoop == {"iterate", "begin", "search", "judge"}
Stopping == {"stop1", "stop2", "stop3"}

\* A go is read when all earlier ones were answered, and becomes a job when its
\* handler says so.
OneAtATime ==
  \A g \in Gos :
    /\ g < sent => printed[g]
    /\ g > sent => pc[g] = "none"
    /\ g = sent => (pc[g] = "none" <=> uci \in {"startPondering", "submit"})
    /\ printed[g] => pc[g] = "done"

\* What a handler relies on after its first step.
HandlersFit ==
  /\ uci \in {"startPondering", "submit"} => sent # 0
  /\ uci = "startPondering" => ponderEnabled
  /\ uci = "hitLimits" => clock
  /\ uci \in Stopping => stopsLeft # 0 /\ \A g \in Gos : Active(g) => "stop" \in told[g]

\* A ponder search knows its clock from the start.
ClockIsKnown == \A g \in Outstanding : kind[g] = "ponder" => clock

\* m_isPondering is set for the job of the last go only, until its stop().
PonderingIsForTheJob ==
  pondering =>
    \E g \in Gos : /\ g = sent
                   /\ \/ uci = "submit"
                      \/ Active(g) /\ pc[g] \notin {"stop2", "stop3", "report", "print"}

\* In the loop, the flags are set by the clock or for a stop.
FlagsAreForTheJob ==
  \A g \in Gos :
    /\ pc[g] \in InLoop /\ timedOut => limit = "finite" \/ "stop" \in told[g]
    /\ pc[g] = "search" /\ searchStopped => "stop" \in told[g]

\* The best move is from an earlier iteration than the present one.
Deepens ==
  \A g \in Gos :
    /\ pc[g] \in {"none", "queued", "limits", "arm"} => best[g] = 0 /\ d[g] = 1
    /\ pc[g] \in InLoop => best[g] < d[g]
    /\ pc[g] \in {"begin", "search", "judge"} => d[g] =< MaxDepth

SessionInv ==
  /\ TypeInvariant /\ OneAtATime /\ HandlersFit /\ ClockIsKnown /\ PonderingIsForTheJob
  /\ FlagsAreForTheJob /\ CutOnlyWhenTold /\ Deepens
----------------------------------------------------------------------------
(* Lemmas *)

LEMMA EpilogueInOrder ==
  /\ Epilogue[1] = "stop1" /\ After("stop1") = "stop2" /\ After("stop2") = "stop3"
  /\ After("stop3") = "report" /\ After("report") = "print" /\ After("print") = "done"
<1>1. /\ Epilogue[1] = "stop1" /\ Epilogue[2] = "stop2" /\ Epilogue[3] = "stop3"
      /\ Epilogue[4] = "report" /\ Epilogue[5] = "print" /\ Epilogue[6] = "done"
  BY DEF Epilogue
<1>2. ASSUME NEW n \in 1 .. 5, NEW step, step = Epilogue[n]
      PROVE  After(step) = Epilogue[1 + n]
  <2>1. \A i \in 1 .. 5 : Epilogue[i] = step <=> i = n
    BY <1>1, <1>2
  <2>2. (CHOOSE i \in 1 .. 5 : Epilogue[i] = step) = n
    BY <2>1
  <2> QED
    BY <2>2 DEF After
<1> QED
  BY <1>1, <1>2

LEMMA Bounds ==
  /\ 0 \in 0 .. MaxGos /\ 0 \in 0 .. MaxFails /\ 0 \in 0 .. MaxDepth /\ 1 \in 1 .. MaxDepth + 1
  /\ \A n \in 0 .. MaxGos : n < MaxGos => n + 1 \in Gos /\ n + 1 \in 0 .. MaxGos
  /\ \A n \in 0 .. MaxFails : n < MaxFails => n + 1 \in 0 .. MaxFails
  /\ \A n \in 1 .. MaxDepth + 1 :
       n =< MaxDepth => n \in 0 .. MaxDepth /\ n + 1 \in 1 .. MaxDepth + 1
  BY SessionAssumption DEF Gos

LEMMA ActiveIsLast ==
  ASSUME OneAtATime, TypeInvariant, NEW g \in Gos, Active(g)
  PROVE  g = sent /\ ~printed[g] /\ g \in Outstanding
         /\ \A h \in Gos \ {g} : ~Active(h) /\ pc[h] \notin InLoop
<1>1. g \in Nat /\ sent \in Nat /\ 1 =< g /\ \A h \in Gos : h \in Nat
  BY SessionAssumption DEF Gos, TypeInvariant
<1>2. ~printed[g]
  BY DEF Active, OneAtATime
<1>3. g = sent
  BY <1>1, <1>2 DEF Active, OneAtATime
<1>4. \A h \in Gos \ {g} : pc[h] \in {"none", "done"}
  BY <1>1, <1>3 DEF OneAtATime
<1> QED
  BY <1>1, <1>2, <1>3, <1>4 DEF Active, InLoop, Outstanding

\* What a step of a job leaves alone.
LEMMA JobFrame ==
  ASSUME TypeInvariant, NEW g \in Gos, JobStep(g) \/ FinishSearch(g) \/ HardTimeout(g)
  PROVE  /\ Active(g) /\ pc'[g] # "none"
         /\ UNCHANGED <<uci, stopsLeft, sent, ponderEnabled, clock, killed>>
         /\ \A h \in Gos \ {g} :
              /\ pc'[h] = pc[h] /\ printed'[h] = printed[h] /\ kind'[h] = kind[h]
              /\ told'[h] = told[h] /\ best'[h] = best[h] /\ d'[h] = d[h]
              /\ found'[h] = found[h]
         /\ pondering' => pondering
         /\ printed'[g] => printed[g] \/ pc'[g] = "done"
         /\ pc'[g] # "done" => told'[g] = told[g] /\ kind'[g] = kind[g]
         /\ pc'[g] = "done" => kind'[g] = "timed"
<1> DEFINE Frame ==
         /\ Active(g) /\ pc'[g] # "none"
         /\ UNCHANGED <<uci, stopsLeft, sent, ponderEnabled, clock, killed>>
         /\ \A h \in Gos \ {g} :
              /\ pc'[h] = pc[h] /\ printed'[h] = printed[h] /\ kind'[h] = kind[h]
              /\ told'[h] = told[h] /\ best'[h] = best[h] /\ d'[h] = d[h]
              /\ found'[h] = found[h]
         /\ pondering' => pondering
         /\ printed'[g] => printed[g] \/ pc'[g] = "done"
         /\ pc'[g] # "done" => told'[g] = told[g] /\ kind'[g] = kind[g]
         /\ pc'[g] = "done" => kind'[g] = "timed"
<1> USE DEF TypeInvariant, Active, Goto, Return, uciVars, flags, options, ponderVars, jobVars
<1>1. ASSUME ChooseMode(g) PROVE Frame
  BY <1>1 DEF ChooseMode
<1>2. ASSUME SetLimits(g) PROVE Frame
  BY <1>2 DEF SetLimits
<1>3. ASSUME Arm(g) PROVE Frame
  BY <1>3 DEF Arm
<1>4. ASSUME StartIteration(g) PROVE Frame
  BY <1>4 DEF StartIteration
<1>5. ASSUME LeaveLoop(g) PROVE Frame
  BY <1>5, EpilogueInOrder DEF LeaveLoop
<1>6. ASSUME BeginSearch(g) PROVE Frame
  BY <1>6 DEF BeginSearch
<1>7. ASSUME CutSearch(g) PROVE Frame
  BY <1>7 DEF CutSearch
<1>8. ASSUME GiveUpIteration(g) PROVE Frame
  BY <1>8 DEF GiveUpIteration
<1>9. ASSUME AcceptIteration(g) PROVE Frame
  BY <1>9 DEF AcceptIteration
<1>10. ASSUME WidenWindow(g) PROVE Frame
  BY <1>10 DEF WidenWindow
<1>11. ASSUME JobStop1(g) PROVE Frame
  BY <1>11, EpilogueInOrder DEF JobStop1, ClearPondering
<1>12. ASSUME JobStop2(g) PROVE Frame
  BY <1>12, EpilogueInOrder DEF JobStop2
<1>13. ASSUME JobStop3(g) PROVE Frame
  BY <1>13, EpilogueInOrder DEF JobStop3
<1>14. ASSUME ReturnIfKilled(g) PROVE Frame
  BY <1>14 DEF ReturnIfKilled
<1>15. ASSUME ReportUnlessKilled(g) PROVE Frame
  BY <1>15, EpilogueInOrder DEF ReportUnlessKilled
<1>16. ASSUME PrintBestMove(g) PROVE Frame
  BY <1>16, EpilogueInOrder DEF PrintBestMove
<1>17. ASSUME FinishSearch(g) PROVE Frame
  BY <1>17 DEF FinishSearch
<1>18. ASSUME HardTimeout(g) PROVE Frame
  BY <1>18 DEF HardTimeout
<1> QED
  BY <1>1, <1>2, <1>3, <1>4, <1>5, <1>6, <1>7, <1>8, <1>9, <1>10, <1>11, <1>12, <1>13, <1>14, <1>15, <1>16, <1>17, <1>18 DEF JobStep

----------------------------------------------------------------------------
(* Type correctness *)

LEMMA TypeInit == Init => TypeInvariant
<1> SUFFICES ASSUME Init PROVE TypeInvariant
  OBVIOUS
<1>1. /\ sent \in 0 .. MaxGos /\ stopsLeft \in 0 .. 2
      /\ d \in [Gos -> 1 .. MaxDepth + 1] /\ fails \in [Gos -> 0 .. MaxFails]
      /\ best \in [Gos -> 0 .. MaxDepth]
  BY Bounds DEF Init
<1>2. /\ uci = "read" /\ limit = "finite" /\ ponderMove = 0 /\ inPvTable = {}
      /\ kind \in [Gos -> Kinds] /\ told \in [Gos -> SUBSET {"stop", "ponderhit"}]
      /\ pc \in [Gos -> {"none"}] /\ mode \in [Gos -> {"timed"}] /\ found \in [Gos -> {"none"}]
      /\ printed \in [Gos -> BOOLEAN]
  BY DEF Init, Kinds
<1>3. {pondering, ponderEnabled, killed, searchStopped, timedOut, clock} \subseteq BOOLEAN
  BY DEF Init
<1> QED
  BY <1>1, <1>2, <1>3 DEF TypeInvariant

LEMMA TypeStep == SessionInv /\ [Next]_vars => TypeInvariant'
<1> SUFFICES ASSUME SessionInv, [Next]_vars PROVE TypeInvariant'
  OBVIOUS
<1>0. TypeInvariant
  BY DEF SessionInv
<1> USE DEF TypeInvariant, Goto, Return, uciVars, flags, options, ponderVars, jobVars
<1>1. ASSUME NEW b \in BOOLEAN, SetPonderOption(b) PROVE TypeInvariant'
  BY <1>0, <1>1 DEF SetPonderOption
<1>2. ASSUME NEW k \in Kinds, ReadGo(k) PROVE TypeInvariant'
  <2>1. sent + 1 \in Gos /\ sent' \in 0 .. MaxGos
    BY <1>0, <1>2, Bounds DEF ReadGo
  <2>2. kind' \in [Gos -> Kinds] /\ uci' \in {"startPondering", "submit"}
    BY <1>0, <1>2, <2>1 DEF ReadGo
  <2>3. {timedOut', clock'} \subseteq BOOLEAN
    <3>1. HasClock(k) \in BOOLEAN
      BY DEF HasClock, Kinds
    <3>2. timedOut' = FALSE /\ clock' = HasClock(k)
      BY <1>2 DEF ReadGo
    <3> QED
      BY <3>1, <3>2
  <2> QED
    BY <1>0, <1>2, <2>1, <2>2, <2>3 DEF ReadGo
<1>3. ASSUME ReadPosition PROVE TypeInvariant'
  BY <1>0, <1>3 DEF ReadPosition
<1>4. ASSUME StartPondering PROVE TypeInvariant'
  BY <1>0, <1>4 DEF StartPondering
<1>5. ASSUME Submit PROVE TypeInvariant'
  BY <1>0, <1>5 DEF Submit
<1>6. ASSUME ReadPonderhit PROVE TypeInvariant'
  BY <1>0, <1>6 DEF ReadPonderhit, TellOutstanding
<1>7. ASSUME PonderhitLimits PROVE TypeInvariant'
  BY <1>0, <1>7 DEF PonderhitLimits, TimeControl
<1>8. ASSUME PonderhitArm PROVE TypeInvariant'
  BY <1>0, <1>8 DEF PonderhitArm
<1>9. ASSUME ReadStop PROVE TypeInvariant'
  BY <1>0, <1>9 DEF ReadStop, TellOutstanding
<1>10. ASSUME ReadQuit PROVE TypeInvariant'
  BY <1>0, <1>10 DEF ReadQuit, TellOutstanding
<1>11. ASSUME UciStop1 PROVE TypeInvariant'
  BY <1>0, <1>11 DEF UciStop1, ClearPondering
<1>12. ASSUME UciStop2 PROVE TypeInvariant'
  BY <1>0, <1>12 DEF UciStop2
<1>13. ASSUME UciStop3 PROVE TypeInvariant'
  BY <1>0, <1>13 DEF UciStop3, SessionInv, HandlersFit, Stopping
<1>14. ASSUME NEW g \in Gos, ChooseMode(g) PROVE TypeInvariant'
  BY <1>0, <1>14 DEF ChooseMode
<1>15. ASSUME NEW g \in Gos, SetLimits(g) PROVE TypeInvariant'
  BY <1>0, <1>15 DEF SetLimits, TimeControl
<1>16. ASSUME NEW g \in Gos, Arm(g) PROVE TypeInvariant'
  BY <1>0, <1>16 DEF Arm
<1>17. ASSUME NEW g \in Gos, StartIteration(g) PROVE TypeInvariant'
  BY <1>0, <1>17, Bounds DEF StartIteration
<1>18. ASSUME NEW g \in Gos, LeaveLoop(g) PROVE TypeInvariant'
  BY <1>0, <1>18, EpilogueInOrder DEF LeaveLoop
<1>19. ASSUME NEW g \in Gos, BeginSearch(g) PROVE TypeInvariant'
  BY <1>0, <1>19 DEF BeginSearch
<1>20. ASSUME NEW g \in Gos, CutSearch(g) PROVE TypeInvariant'
  BY <1>0, <1>20 DEF CutSearch
<1>21. ASSUME NEW g \in Gos, GiveUpIteration(g) PROVE TypeInvariant'
  BY <1>0, <1>21, Bounds DEF GiveUpIteration, SessionInv, Deepens
<1>22. ASSUME NEW g \in Gos, AcceptIteration(g) PROVE TypeInvariant'
  BY <1>0, <1>22, Bounds DEF AcceptIteration, NewPonderMove, SessionInv, Deepens
<1>23. ASSUME NEW g \in Gos, WidenWindow(g) PROVE TypeInvariant'
  BY <1>0, <1>23, Bounds DEF WidenWindow
<1>24. ASSUME NEW g \in Gos, JobStop1(g) PROVE TypeInvariant'
  BY <1>0, <1>24, EpilogueInOrder DEF JobStop1, ClearPondering
<1>25. ASSUME NEW g \in Gos, JobStop2(g) PROVE TypeInvariant'
  BY <1>0, <1>25, EpilogueInOrder DEF JobStop2
<1>26. ASSUME NEW g \in Gos, JobStop3(g) PROVE TypeInvariant'
  BY <1>0, <1>26, EpilogueInOrder DEF JobStop3
<1>27. ASSUME NEW g \in Gos, ReturnIfKilled(g) PROVE TypeInvariant'
  BY <1>0, <1>27, Bounds DEF ReturnIfKilled, Kinds
<1>28. ASSUME NEW g \in Gos, ReportUnlessKilled(g) PROVE TypeInvariant'
  BY <1>0, <1>28, EpilogueInOrder DEF ReportUnlessKilled
<1>29. ASSUME NEW g \in Gos, PrintBestMove(g) PROVE TypeInvariant'
  BY <1>0, <1>29, EpilogueInOrder, Bounds DEF PrintBestMove, Kinds
<1>30. ASSUME NEW g \in Gos, FinishSearch(g) PROVE TypeInvariant'
  BY <1>0, <1>30 DEF FinishSearch
<1>31. ASSUME NEW g \in Gos, HardTimeout(g) PROVE TypeInvariant'
  BY <1>0, <1>31 DEF HardTimeout
<1>32. ASSUME UNCHANGED vars PROVE TypeInvariant'
  BY <1>0, <1>32 DEF vars
<1> QED
  BY <1>1, <1>2, <1>3, <1>4, <1>5, <1>6, <1>7, <1>8, <1>9, <1>10, <1>11, <1>12, <1>13, <1>14, <1>15, <1>16, <1>17, <1>18, <1>19, <1>20, <1>21, <1>22, <1>23, <1>24, <1>25, <1>26, <1>27, <1>28, <1>29, <1>30, <1>31, <1>32
  DEF Next, JobStep, UciStep, UciStop

----------------------------------------------------------------------------
(* The other parts of the invariant *)

LEMMA SessionInit == Init => SessionInv
<1> SUFFICES ASSUME Init PROVE SessionInv
  OBVIOUS
<1>1. TypeInvariant
  BY TypeInit
<1>2. \A g \in Gos : /\ pc[g] = "none" /\ best[g] = 0 /\ d[g] = 1 /\ found[g] = "none"
                     /\ printed[g] = FALSE /\ kind[g] = "timed"
  BY DEF Init
<1>3. sent = 0 /\ uci = "read" /\ ~pondering
  BY DEF Init
<1>4. OneAtATime /\ HandlersFit
  BY <1>2, <1>3, SessionAssumption DEF OneAtATime, HandlersFit, Gos, Stopping
<1>5. ClockIsKnown
  BY <1>3, SessionAssumption DEF ClockIsKnown, Outstanding
<1>6. PonderingIsForTheJob /\ FlagsAreForTheJob /\ CutOnlyWhenTold
  BY <1>2, <1>3 DEF PonderingIsForTheJob, FlagsAreForTheJob, CutOnlyWhenTold, InLoop
<1>7. Deepens
  BY <1>2 DEF Deepens, InLoop, Active
<1> QED
  BY <1>1, <1>4, <1>5, <1>6, <1>7 DEF SessionInv

\* A step of a job is none of the go commands'.
LEMMA JobKeepsOrder ==
  ASSUME SessionInv, NEW g \in Gos, JobStep(g) \/ FinishSearch(g) \/ HardTimeout(g)
  PROVE  OneAtATime' /\ HandlersFit' /\ ClockIsKnown'
<1> USE DEF SessionInv
<1>1. /\ Active(g) /\ pc'[g] # "none"
      /\ UNCHANGED <<uci, stopsLeft, sent, ponderEnabled, clock, killed>>
      /\ \A h \in Gos \ {g} :
           /\ pc'[h] = pc[h] /\ printed'[h] = printed[h] /\ kind'[h] = kind[h]
           /\ told'[h] = told[h]
      /\ printed'[g] => printed[g] \/ pc'[g] = "done"
      /\ pc'[g] # "done" => told'[g] = told[g] /\ kind'[g] = kind[g]
      /\ pc'[g] = "done" => kind'[g] = "timed"
  BY JobFrame
<1>2. g = sent /\ ~printed[g] /\ g \in Outstanding
  BY <1>1, ActiveIsLast
<1>3. OneAtATime'
  <2> SUFFICES ASSUME NEW h \in Gos
               PROVE  /\ h < sent => printed'[h]
                      /\ h > sent => pc'[h] = "none"
                      /\ h = sent => (pc'[h] = "none" <=> uci \in {"startPondering", "submit"})
                      /\ printed'[h] => pc'[h] = "done"
    BY <1>1 DEF OneAtATime
  <2>1. CASE h = g
    BY <1>1, <1>2, <2>1 DEF OneAtATime, Active, Gos
  <2>2. CASE h # g
    BY <1>1, <1>2, <2>2 DEF OneAtATime
  <2> QED
    BY <2>1, <2>2
<1>4. HandlersFit'
  BY <1>1 DEF HandlersFit, Active
<1>5. ClockIsKnown'
  <2> SUFFICES ASSUME NEW h \in 1 .. sent, ~printed'[h], kind'[h] = "ponder" PROVE clock
    BY <1>1 DEF ClockIsKnown, Outstanding
  <2>1. h \in Gos
    BY SessionAssumption DEF TypeInvariant, Gos
  <2>2. kind[h] = "ponder" /\ ~printed[h]
    BY <1>1, <1>2, <2>1
  <2> QED
    BY <2>2 DEF ClockIsKnown, Outstanding
<1> QED
  BY <1>3, <1>4, <1>5

\* The flags, the depth and the ponder move are right for the job that steps...
LEMMA JobKeepsItsOwn ==
  ASSUME SessionInv, NEW g \in Gos, JobStep(g) \/ FinishSearch(g) \/ HardTimeout(g)
  PROVE  /\ pondering' => Active(g)' /\ pc'[g] \notin {"stop2", "stop3", "report", "print"}
         /\ pc'[g] \in InLoop /\ timedOut' => limit' = "finite" \/ "stop" \in told'[g]
         /\ pc'[g] = "search" /\ searchStopped' => "stop" \in told'[g]
         /\ pc'[g] = "judge" /\ found'[g] = "cut" /\ limit' = "infinite" => "stop" \in told'[g]
         /\ pc'[g] \in {"none", "queued", "limits", "arm"} => best'[g] = 0 /\ d'[g] = 1
         /\ pc'[g] \in InLoop => best'[g] < d'[g]
         /\ pc'[g] \in {"begin", "search", "judge"} => d'[g] =< MaxDepth
<1> DEFINE Kept ==
         /\ pondering' => Active(g)' /\ pc'[g] \notin {"stop2", "stop3", "report", "print"}
         /\ pc'[g] \in InLoop /\ timedOut' => limit' = "finite" \/ "stop" \in told'[g]
         /\ pc'[g] = "search" /\ searchStopped' => "stop" \in told'[g]
         /\ pc'[g] = "judge" /\ found'[g] = "cut" /\ limit' = "infinite" => "stop" \in told'[g]
         /\ pc'[g] \in {"none", "queued", "limits", "arm"} => best'[g] = 0 /\ d'[g] = 1
         /\ pc'[g] \in InLoop => best'[g] < d'[g]
         /\ pc'[g] \in {"begin", "search", "judge"} => d'[g] =< MaxDepth
<1>0. /\ Active(g) /\ g = sent /\ (pondering => pc[g] \notin {"stop2", "stop3", "report", "print"})
      /\ pc[g] \in InLoop /\ timedOut => limit = "finite" \/ "stop" \in told[g]
      /\ pc[g] = "search" /\ searchStopped => "stop" \in told[g]
      /\ pc[g] = "judge" /\ found[g] = "cut" /\ limit = "infinite" => "stop" \in told[g]
      /\ pc[g] \in {"none", "queued", "limits", "arm"} => best[g] = 0 /\ d[g] = 1
      /\ pc[g] \in InLoop => best[g] < d[g]
      /\ pc[g] \in {"begin", "search", "judge"} => d[g] =< MaxDepth
      /\ d[g] \in 1 .. MaxDepth + 1 /\ best[g] \in 0 .. MaxDepth /\ limit \in {"finite", "infinite"}
  <2>1. Active(g) /\ g = sent
    BY JobFrame, ActiveIsLast DEF SessionInv
  <2>2. pondering => pc[g] \notin {"stop2", "stop3", "report", "print"}
    <3>1. uci = "submit" => pc[g] = "none"
      BY <2>1 DEF SessionInv, OneAtATime
    <3> QED
      BY <2>1, <3>1 DEF SessionInv, PonderingIsForTheJob, Active
  <2>3. d[g] \in 1 .. MaxDepth + 1 /\ best[g] \in 0 .. MaxDepth /\ limit \in {"finite", "infinite"}
    BY DEF SessionInv, TypeInvariant
  <2> QED
    BY <2>1, <2>2, <2>3
    DEF SessionInv, FlagsAreForTheJob, CutOnlyWhenTold, Deepens
<1>t. MaxDepth \in Nat /\ TypeInvariant /\ RequestedDepth \in Int /\ RequestedDepth =< MaxDepth
  BY SessionAssumption DEF SessionInv
<1> USE DEF TypeInvariant, Active, InLoop, Goto, Return, uciVars, flags, options, ponderVars, jobVars
<1>1. ASSUME ChooseMode(g) PROVE Kept
  BY <1>0, <1>t, <1>1 DEF ChooseMode
<1>2. ASSUME SetLimits(g) PROVE Kept
  BY <1>0, <1>t, <1>2 DEF SetLimits
<1>3. ASSUME Arm(g) PROVE Kept
  BY <1>0, <1>t, <1>3 DEF Arm
<1>4. ASSUME StartIteration(g) PROVE Kept
  BY <1>0, <1>t, <1>4 DEF StartIteration, Depth
<1>5. ASSUME LeaveLoop(g) PROVE Kept
  BY <1>0, <1>t, <1>5, EpilogueInOrder DEF LeaveLoop
<1>6. ASSUME BeginSearch(g) PROVE Kept
  BY <1>0, <1>t, <1>6 DEF BeginSearch
<1>7. ASSUME CutSearch(g) PROVE Kept
  BY <1>0, <1>t, <1>7 DEF CutSearch
<1>8. ASSUME GiveUpIteration(g) PROVE Kept
  BY <1>0, <1>t, <1>8 DEF GiveUpIteration
<1>9. ASSUME AcceptIteration(g) PROVE Kept
  BY <1>0, <1>t, <1>9 DEF AcceptIteration
<1>10. ASSUME WidenWindow(g) PROVE Kept
  BY <1>0, <1>t, <1>10 DEF WidenWindow
<1>11. ASSUME JobStop1(g) PROVE Kept
  BY <1>0, <1>t, <1>11, EpilogueInOrder DEF JobStop1, ClearPondering
<1>12. ASSUME JobStop2(g) PROVE Kept
  BY <1>0, <1>t, <1>12, EpilogueInOrder DEF JobStop2
<1>13. ASSUME JobStop3(g) PROVE Kept
  BY <1>0, <1>t, <1>13, EpilogueInOrder DEF JobStop3
<1>14. ASSUME ReturnIfKilled(g) PROVE Kept
  BY <1>0, <1>t, <1>14 DEF ReturnIfKilled
<1>15. ASSUME ReportUnlessKilled(g) PROVE Kept
  BY <1>0, <1>t, <1>15, EpilogueInOrder DEF ReportUnlessKilled
<1>16. ASSUME PrintBestMove(g) PROVE Kept
  BY <1>0, <1>t, <1>16, EpilogueInOrder DEF PrintBestMove
<1>17. ASSUME FinishSearch(g) PROVE Kept
  BY <1>0, <1>t, <1>17 DEF FinishSearch
<1>18. ASSUME HardTimeout(g) PROVE Kept
  BY <1>0, <1>t, <1>18 DEF HardTimeout
<1> QED
  BY <1>1, <1>2, <1>3, <1>4, <1>5, <1>6, <1>7, <1>8, <1>9, <1>10, <1>11, <1>12, <1>13, <1>14, <1>15, <1>16, <1>17, <1>18 DEF JobStep

\* ... and say nothing of the others.
LEMMA JobKeepsFlags ==
  ASSUME SessionInv, NEW g \in Gos, JobStep(g) \/ FinishSearch(g) \/ HardTimeout(g)
  PROVE  PonderingIsForTheJob' /\ FlagsAreForTheJob' /\ CutOnlyWhenTold' /\ Deepens'
<1>1. /\ pondering' => Active(g)' /\ pc'[g] \notin {"stop2", "stop3", "report", "print"}
      /\ pc'[g] \in InLoop /\ timedOut' => limit' = "finite" \/ "stop" \in told'[g]
      /\ pc'[g] = "search" /\ searchStopped' => "stop" \in told'[g]
      /\ pc'[g] = "judge" /\ found'[g] = "cut" /\ limit' = "infinite" => "stop" \in told'[g]
      /\ pc'[g] \in {"none", "queued", "limits", "arm"} => best'[g] = 0 /\ d'[g] = 1
      /\ pc'[g] \in InLoop => best'[g] < d'[g]
      /\ pc'[g] \in {"begin", "search", "judge"} => d'[g] =< MaxDepth
  BY JobKeepsItsOwn
<1>2. /\ Active(g) /\ sent' = sent
      /\ \A h \in Gos \ {g} : pc'[h] = pc[h] /\ best'[h] = best[h] /\ d'[h] = d[h]
  BY JobFrame DEF SessionInv
<1>3. g = sent /\ \A h \in Gos \ {g} : pc[h] \in {"none", "done"}
  BY <1>2, ActiveIsLast DEF SessionInv, Active
<1>4. PonderingIsForTheJob'
  BY <1>1, <1>2, <1>3 DEF PonderingIsForTheJob
<1>5. FlagsAreForTheJob' /\ CutOnlyWhenTold'
  BY <1>1, <1>2, <1>3 DEF FlagsAreForTheJob, CutOnlyWhenTold, InLoop
<1>6. Deepens'
  BY <1>1, <1>2, <1>3 DEF Deepens, InLoop, SessionInv
<1> QED
  BY <1>4, <1>5, <1>6

\* The UCI thread touches no job but the one it submits, and only adds to what
\* the jobs were told.
LEMMA UciFrame ==
  ASSUME SessionInv,
         \/ \E b \in BOOLEAN : SetPonderOption(b)
         \/ \E k \in Kinds : ReadGo(k)
         \/ ReadPosition \/ ReadPonderhit \/ ReadStop \/ ReadQuit \/ UciStep \/ UciStop
  PROVE  /\ UNCHANGED <<best, d, found, printed>>
         /\ \A g \in Gos : \/ pc'[g] = pc[g]
                           \/ g = sent /\ uci = "submit" /\ pc[g] = "none" /\ pc'[g] = "queued"
         /\ \A g \in Gos : told[g] \subseteq told'[g]
<1> DEFINE Frame ==
         /\ UNCHANGED <<best, d, found, printed>>
         /\ \A g \in Gos : \/ pc'[g] = pc[g]
                           \/ g = sent /\ uci = "submit" /\ pc[g] = "none" /\ pc'[g] = "queued"
         /\ \A g \in Gos : told[g] \subseteq told'[g]
<1> USE DEF SessionInv, TypeInvariant, uciVars, flags, options, ponderVars, jobVars, TellOutstanding
<1>1. ASSUME NEW b \in BOOLEAN, SetPonderOption(b) PROVE Frame
  BY <1>1 DEF SetPonderOption
<1>2. ASSUME NEW k \in Kinds, ReadGo(k) PROVE Frame
  BY <1>2 DEF ReadGo
<1>3. ASSUME ReadPosition PROVE Frame
  BY <1>3 DEF ReadPosition
<1>4. ASSUME StartPondering PROVE Frame
  BY <1>4 DEF StartPondering
<1>5. ASSUME Submit PROVE Frame
  BY <1>5 DEF Submit, OneAtATime
<1>6. ASSUME ReadPonderhit PROVE Frame
  BY <1>6 DEF ReadPonderhit
<1>7. ASSUME PonderhitLimits PROVE Frame
  BY <1>7 DEF PonderhitLimits
<1>8. ASSUME PonderhitArm PROVE Frame
  BY <1>8 DEF PonderhitArm
<1>9. ASSUME ReadStop PROVE Frame
  BY <1>9 DEF ReadStop
<1>10. ASSUME ReadQuit PROVE Frame
  BY <1>10 DEF ReadQuit
<1>11. ASSUME UciStop1 PROVE Frame
  BY <1>11 DEF UciStop1, ClearPondering
<1>12. ASSUME UciStop2 PROVE Frame
  BY <1>12 DEF UciStop2
<1>13. ASSUME UciStop3 PROVE Frame
  BY <1>13 DEF UciStop3
<1> QED
  BY <1>1, <1>2, <1>3, <1>4, <1>5, <1>6, <1>7, <1>8, <1>9, <1>10, <1>11, <1>12, <1>13 DEF UciStep, UciStop

LEMMA UciKeepsOrder ==
  ASSUME SessionInv,
         \/ \E b \in BOOLEAN : SetPonderOption(b)
         \/ \E k \in Kinds : ReadGo(k)
         \/ ReadPosition \/ ReadPonderhit \/ ReadStop \/ ReadQuit \/ UciStep \/ UciStop
  PROVE  OneAtATime' /\ HandlersFit' /\ ClockIsKnown' /\ PonderingIsForTheJob'
<1> DEFINE Kept == OneAtATime' /\ HandlersFit' /\ ClockIsKnown' /\ PonderingIsForTheJob'
<1>0. /\ \A g \in Gos : g \in Nat /\ 1 =< g
      /\ sent \in Nat /\ 1 .. sent \subseteq Gos /\ Outstanding \subseteq Gos
      /\ \A g \in Gos : Active(g) => g \in Outstanding
  <2>1. \A g \in Gos : Active(g) => g \in Outstanding
    BY ActiveIsLast DEF SessionInv
  <2> QED
    BY <2>1, SessionAssumption DEF SessionInv, TypeInvariant, Gos, Outstanding
<1> USE DEF SessionInv, TypeInvariant, uciVars, flags, options, ponderVars, jobVars, TellOutstanding,
            OneAtATime, HandlersFit, ClockIsKnown, PonderingIsForTheJob, Active, Stopping
<1>1. ASSUME NEW b \in BOOLEAN, SetPonderOption(b) PROVE Kept
  BY <1>0, <1>1 DEF SetPonderOption, Outstanding
<1>2. ASSUME NEW k \in Kinds, ReadGo(k) PROVE Kept
  <2>1. /\ uci = "read" /\ Outstanding = {} /\ sent' = sent + 1 /\ printed' = printed /\ pc' = pc
        /\ uci' = IF k = "ponder" THEN "startPondering" ELSE "submit"
        /\ kind' = [kind EXCEPT ![sent + 1] = k] /\ clock' = HasClock(k)
        /\ k = "ponder" => ponderEnabled
        /\ pondering' = pondering /\ ponderEnabled' = ponderEnabled
    BY <1>2 DEF ReadGo
  <2>2. \A g \in Gos : g =< sent => printed[g]
    BY <1>0, <2>1 DEF Outstanding
  <2>3. OneAtATime'
    BY <1>0, <2>1, <2>2
  <2>4. HandlersFit'
    BY <1>0, <2>1
  <2>5. ClockIsKnown'
    <3> SUFFICES ASSUME NEW g \in 1 .. sent + 1, ~printed[g], kind'[g] = "ponder" PROVE clock'
      BY <2>1 DEF Outstanding
    <3>1. g = sent + 1 /\ g \in Gos
      BY <1>0, <1>2, <2>2, Bounds DEF ReadGo
    <3>2. k = "ponder"
      BY <2>1, <3>1
    <3> QED
      BY <2>1, <3>2 DEF HasClock
  <2>6. ~pondering
    BY <1>0, <2>1
  <2> QED
    BY <2>1, <2>3, <2>4, <2>5, <2>6
<1>3. ASSUME ReadPosition PROVE Kept
  BY <1>0, <1>3 DEF ReadPosition, Outstanding
<1>4. ASSUME StartPondering PROVE Kept
  BY <1>0, <1>4 DEF StartPondering, Outstanding
<1>5. ASSUME Submit PROVE Kept
  BY <1>0, <1>5 DEF Submit, Outstanding
<1>6. ASSUME ReadPonderhit PROVE Kept
  BY <1>0, <1>6 DEF ReadPonderhit, Outstanding
<1>7. ASSUME PonderhitLimits PROVE Kept
  BY <1>0, <1>7 DEF PonderhitLimits, Outstanding
<1>8. ASSUME PonderhitArm PROVE Kept
  BY <1>0, <1>8 DEF PonderhitArm, Outstanding
<1>9. ASSUME ReadStop PROVE Kept
  BY <1>0, <1>9 DEF ReadStop, Outstanding
<1>10. ASSUME ReadQuit PROVE Kept
  BY <1>0, <1>10 DEF ReadQuit, Outstanding
<1>11. ASSUME UciStop1 PROVE Kept
  BY <1>0, <1>11 DEF UciStop1, ClearPondering, Outstanding
<1>12. ASSUME UciStop2 PROVE Kept
  BY <1>0, <1>12 DEF UciStop2, Outstanding
<1>13. ASSUME UciStop3 PROVE Kept
  BY <1>0, <1>13 DEF UciStop3, Outstanding
<1> QED
  BY <1>1, <1>2, <1>3, <1>4, <1>5, <1>6, <1>7, <1>8, <1>9, <1>10, <1>11, <1>12, <1>13 DEF UciStep, UciStop

LEMMA UciKeepsFlags ==
  ASSUME SessionInv,
         \/ \E b \in BOOLEAN : SetPonderOption(b)
         \/ \E k \in Kinds : ReadGo(k)
         \/ ReadPosition \/ ReadPonderhit \/ ReadStop \/ ReadQuit \/ UciStep \/ UciStop
  PROVE  FlagsAreForTheJob' /\ CutOnlyWhenTold' /\ Deepens'
<1>0. /\ UNCHANGED <<best, d, found, printed>>
      /\ \A g \in Gos : \/ pc'[g] = pc[g]
                        \/ g = sent /\ uci = "submit" /\ pc[g] = "none" /\ pc'[g] = "queued"
      /\ \A g \in Gos : told[g] \subseteq told'[g]
  BY UciFrame
<1>1. Deepens'
  BY <1>0 DEF SessionInv, Deepens, Active, InLoop
<1> DEFINE Kept == FlagsAreForTheJob' /\ CutOnlyWhenTold'
<1>2. FlagsAreForTheJob /\ CutOnlyWhenTold /\ HandlersFit
  BY DEF SessionInv
<1> USE DEF uciVars, flags, options, ponderVars, jobVars, FlagsAreForTheJob, CutOnlyWhenTold, HandlersFit,
            Active, InLoop, Stopping
<1>3. ASSUME NEW b \in BOOLEAN, SetPonderOption(b) PROVE Kept
  BY <1>0, <1>2, <1>3 DEF SetPonderOption
<1>4. ASSUME NEW k \in Kinds, ReadGo(k) PROVE Kept
  BY <1>0, <1>2, <1>4 DEF ReadGo
<1>5. ASSUME ReadPosition PROVE Kept
  BY <1>0, <1>2, <1>5 DEF ReadPosition
<1>6. ASSUME StartPondering PROVE Kept
  BY <1>0, <1>2, <1>6 DEF StartPondering
<1>7. ASSUME Submit PROVE Kept
  BY <1>0, <1>2, <1>7 DEF Submit
<1>8. ASSUME ReadPonderhit PROVE Kept
  BY <1>0, <1>2, <1>8 DEF ReadPonderhit
<1>9. ASSUME PonderhitLimits PROVE Kept
  BY <1>0, <1>2, <1>9 DEF PonderhitLimits, TimeControl
<1>10. ASSUME PonderhitArm PROVE Kept
  BY <1>0, <1>2, <1>10 DEF PonderhitArm
<1>11. ASSUME ReadStop PROVE Kept
  BY <1>0, <1>2, <1>11 DEF ReadStop
<1>12. ASSUME ReadQuit PROVE Kept
  BY <1>0, <1>2, <1>12 DEF ReadQuit
<1>13. ASSUME UciStop1 PROVE Kept
  BY <1>0, <1>2, <1>13 DEF UciStop1, ClearPondering
<1>14. ASSUME UciStop2 PROVE Kept
  BY <1>0, <1>2, <1>14 DEF UciStop2
<1>15. ASSUME UciStop3 PROVE Kept
  BY <1>0, <1>2, <1>15 DEF UciStop3
<1> QED
  BY <1>1, <1>3, <1>4, <1>5, <1>6, <1>7, <1>8, <1>9, <1>10, <1>11, <1>12, <1>13, <1>14, <1>15 DEF UciStep, UciStop

LEMMA SessionStep == SessionInv /\ [Next]_vars => SessionInv'
<1> SUFFICES ASSUME SessionInv, [Next]_vars PROVE SessionInv'
  OBVIOUS
<1>1. TypeInvariant'
  BY TypeStep
<1>2. ASSUME NEW g \in Gos, JobStep(g) \/ FinishSearch(g) \/ HardTimeout(g) PROVE SessionInv'
  BY <1>1, <1>2, JobKeepsOrder, JobKeepsFlags DEF SessionInv
<1>3. ASSUME \/ \E b \in BOOLEAN : SetPonderOption(b)
             \/ \E k \in Kinds : ReadGo(k)
             \/ ReadPosition \/ ReadPonderhit \/ ReadStop \/ ReadQuit \/ UciStep \/ UciStop
      PROVE  SessionInv'
  BY <1>1, <1>3, UciKeepsOrder, UciKeepsFlags DEF SessionInv
<1>4. CASE UNCHANGED vars
  BY <1>1, <1>4 DEF vars, SessionInv, OneAtATime, HandlersFit, ClockIsKnown, PonderingIsForTheJob,
     FlagsAreForTheJob, CutOnlyWhenTold, Deepens, Active, Outstanding
<1> QED
  BY <1>2, <1>3, <1>4 DEF Next

LEMMA SessionIsInv == Spec => []SessionInv
  BY SessionInit, SessionStep, PTL DEF Spec

----------------------------------------------------------------------------
(* The theorems *)

\* The variables keep to their types; above all, the depth stays within
\* s_maxSearchDepth and stop() is never owed when nobody stops.
THEOREM SessionIsWellTyped == Spec => []TypeInvariant
<1>1. SessionInv => TypeInvariant
  BY DEF SessionInv
<1> QED
  BY <1>1, SessionIsInv, PTL

\* However the stores of the UCI thread and of the job to the four flags
\* interleave, a search without a limit ends early only for a stop of its own
\* (evaluator.h:198, time_manager.h).
THEOREM StopsReachTheirOwnSearch == Spec => []CutOnlyWhenTold
<1>1. SessionInv => CutOnlyWhenTold
  BY DEF SessionInv
<1> QED
  BY <1>1, SessionIsInv, PTL

\* No "go ponder" of a GUI that enabled pondering is refused: m_isPondering is
\* only ever set for the job of the last go, and gone before that job prints its
\* move (evaluator.h:90).
THEOREM PonderGoIsTaken == Spec => []PonderGoIsAccepted
<1>1. SessionInv => PonderGoIsAccepted
  BY DEF SessionInv, OneAtATime, HandlersFit, PonderingIsForTheJob, PonderGoIsAccepted, Active
<1> QED
  BY <1>1, SessionIsInv, PTL

----------------------------------------------------------------------------
(* The session implements Analysis *)

PhaseOf(g) == IF printed[g] THEN "answered"
              ELSE IF Thinking(g) THEN "thinking"
              ELSE IF pc[g] = "done" THEN "silenced" ELSE "idle"
Phase == [g \in Gos |-> PhaseOf(g)]

\* The actions of Analysis, in terms of the session.
LEMMA ServiceActions ==
  /\ UNCHANGED Service!analysisVars <=> UNCHANGED <<Phase, best>>
  /\ \A g \in Gos :
       /\ Service!Begin(g) <=>
            /\ PhaseOf(g) = "idle" /\ \A h \in Gos : PhaseOf(h) # "thinking"
            /\ Phase' = [Phase EXCEPT ![g] = "thinking"] /\ UNCHANGED best
       /\ Service!Deepen(g) <=>
            /\ PhaseOf(g) = "thinking"
            /\ \E n \in 1 .. MaxDepth : n > best[g] /\ best' = [best EXCEPT ![g] = n]
            /\ UNCHANGED Phase
       /\ Service!Answer(g) <=>
            /\ PhaseOf(g) = "thinking"
            /\ Phase' = [Phase EXCEPT ![g] = "answered"] /\ UNCHANGED best
       /\ Service!Silence(g) <=>
            /\ PhaseOf(g) = "thinking"
            /\ Phase' = [Phase EXCEPT ![g] = "silenced"] /\ UNCHANGED best
  BY DEF Service!analysisVars, Service!Begin, Service!Deepen, Service!Answer, Service!Silence,
         Phase, PhaseOf

LEMMA ServiceInit == Init => Service!Init
  BY DEF Init, Service!Init, Thinking

LEMMA UciIsUnseen ==
  ASSUME SessionInv,
         \/ \E b \in BOOLEAN : SetPonderOption(b)
         \/ \E k \in Kinds : ReadGo(k)
         \/ ReadPosition \/ ReadPonderhit \/ ReadStop \/ ReadQuit \/ UciStep \/ UciStop
  PROVE  UNCHANGED <<Phase, best>>
<1>0. /\ UNCHANGED <<best, d, found, printed>>
      /\ \A g \in Gos : \/ pc'[g] = pc[g]
                        \/ g = sent /\ uci = "submit" /\ pc[g] = "none" /\ pc'[g] = "queued"
      /\ \A g \in Gos : told[g] \subseteq told'[g]
  BY UciFrame
<1>1. /\ UNCHANGED <<best, printed>>
      /\ \A g \in Gos : pc'[g] = pc[g] \/ (pc[g] = "none" /\ pc'[g] = "queued")
  BY <1>0
<1>2. \A g \in Gos : PhaseOf(g)' = PhaseOf(g)
  BY <1>1 DEF PhaseOf, Thinking
<1> QED
  BY <1>1, <1>2 DEF Phase

\* What a step of a job looks like to the GUI.
LEMMA JobIsSeen ==
  ASSUME SessionInv, NEW g \in Gos, JobStep(g) \/ FinishSearch(g) \/ HardTimeout(g)
  PROVE  \/ PhaseOf(g)' = PhaseOf(g) /\ best' = best
         \/ PhaseOf(g) = "idle" /\ PhaseOf(g)' = "thinking" /\ best' = best
         \/ PhaseOf(g) = "thinking" /\ PhaseOf(g)' \in {"answered", "silenced"} /\ best' = best
         \/ /\ PhaseOf(g) = "thinking" /\ PhaseOf(g)' = "thinking"
            /\ d[g] \in 1 .. MaxDepth /\ d[g] > best[g] /\ best' = [best EXCEPT ![g] = d[g]]
<1> DEFINE Seen ==
         \/ PhaseOf(g)' = PhaseOf(g) /\ best' = best
         \/ PhaseOf(g) = "idle" /\ PhaseOf(g)' = "thinking" /\ best' = best
         \/ PhaseOf(g) = "thinking" /\ PhaseOf(g)' \in {"answered", "silenced"} /\ best' = best
         \/ /\ PhaseOf(g) = "thinking" /\ PhaseOf(g)' = "thinking"
            /\ d[g] \in 1 .. MaxDepth /\ d[g] > best[g] /\ best' = [best EXCEPT ![g] = d[g]]
<1>0. /\ ~printed[g] /\ pc[g] \notin {"none", "done"}
      /\ d[g] \in 1 .. MaxDepth + 1 /\ MaxDepth \in Nat /\ best[g] \in 0 .. MaxDepth
      /\ pc[g] = "judge" => d[g] =< MaxDepth /\ best[g] < d[g]
      /\ pc \in [Gos -> {"none", "queued", "limits", "arm", "iterate", "begin", "search",
                         "judge", "stop1", "stop2", "stop3", "report", "print", "done"}]
      /\ printed \in [Gos -> BOOLEAN]
  BY JobFrame, ActiveIsLast, SessionAssumption
  DEF SessionInv, Active, Deepens, InLoop, TypeInvariant
<1> USE DEF Goto, jobVars, PhaseOf, Thinking
<1>1. ASSUME ChooseMode(g) PROVE Seen
  BY <1>0, <1>1 DEF ChooseMode
<1>2. ASSUME SetLimits(g) PROVE Seen
  BY <1>0, <1>2 DEF SetLimits
<1>3. ASSUME Arm(g) PROVE Seen
  BY <1>0, <1>3 DEF Arm
<1>4. ASSUME StartIteration(g) PROVE Seen
  BY <1>0, <1>4 DEF StartIteration
<1>5. ASSUME LeaveLoop(g) PROVE Seen
  BY <1>0, <1>5, EpilogueInOrder DEF LeaveLoop
<1>6. ASSUME BeginSearch(g) PROVE Seen
  BY <1>0, <1>6 DEF BeginSearch
<1>7. ASSUME CutSearch(g) PROVE Seen
  BY <1>0, <1>7 DEF CutSearch
<1>8. ASSUME GiveUpIteration(g) PROVE Seen
  BY <1>0, <1>8 DEF GiveUpIteration
<1>9. ASSUME AcceptIteration(g) PROVE Seen
  BY <1>0, <1>9 DEF AcceptIteration
<1>10. ASSUME WidenWindow(g) PROVE Seen
  BY <1>0, <1>10 DEF WidenWindow
<1>11. ASSUME JobStop1(g) PROVE Seen
  BY <1>0, <1>11, EpilogueInOrder DEF JobStop1
<1>12. ASSUME JobStop2(g) PROVE Seen
  BY <1>0, <1>12, EpilogueInOrder DEF JobStop2
<1>13. ASSUME JobStop3(g) PROVE Seen
  BY <1>0, <1>13, EpilogueInOrder DEF JobStop3
<1>14. ASSUME ReturnIfKilled(g) PROVE Seen
  BY <1>0, <1>14 DEF ReturnIfKilled
<1>15. ASSUME ReportUnlessKilled(g) PROVE Seen
  BY <1>0, <1>15, EpilogueInOrder DEF ReportUnlessKilled
<1>16. ASSUME PrintBestMove(g) PROVE Seen
  BY <1>0, <1>16, EpilogueInOrder DEF PrintBestMove
<1>17. ASSUME FinishSearch(g) PROVE Seen
  BY <1>0, <1>17 DEF FinishSearch
<1>18. ASSUME HardTimeout(g) PROVE Seen
  BY <1>0, <1>18 DEF HardTimeout
<1> QED
  BY <1>1, <1>2, <1>3, <1>4, <1>5, <1>6, <1>7, <1>8, <1>9, <1>10, <1>11, <1>12, <1>13, <1>14, <1>15, <1>16, <1>17, <1>18 DEF JobStep

LEMMA JobIsService ==
  ASSUME SessionInv, NEW g \in Gos, JobStep(g) \/ FinishSearch(g) \/ HardTimeout(g)
  PROVE  Service!Next \/ UNCHANGED <<Phase, best>>
<1>1. \A h \in Gos \ {g} : PhaseOf(h)' = PhaseOf(h)
  BY JobFrame DEF SessionInv, PhaseOf, Thinking
<1>2. Phase' = [Phase EXCEPT ![g] = PhaseOf(g)']
  BY <1>1 DEF Phase
<1>3. \A h \in Gos \ {g} : PhaseOf(h) # "thinking"
  <2>1. \A h \in Gos \ {g} : ~Active(h)
    BY JobFrame, ActiveIsLast DEF SessionInv
  <2> QED
    BY <2>1 DEF PhaseOf, Thinking, Active
<1>4. Phase[g] = PhaseOf(g) /\ Phase = [Phase EXCEPT ![g] = Phase[g]]
  BY DEF Phase
<1>5. CASE PhaseOf(g)' = PhaseOf(g) /\ best' = best
  BY <1>2, <1>4, <1>5
<1>6. CASE PhaseOf(g) = "idle" /\ PhaseOf(g)' = "thinking" /\ best' = best
  BY <1>2, <1>3, <1>6, ServiceActions DEF Service!Next
<1>7. CASE PhaseOf(g) = "thinking" /\ PhaseOf(g)' \in {"answered", "silenced"} /\ best' = best
  BY <1>2, <1>7, ServiceActions DEF Service!Next
<1>8. CASE /\ PhaseOf(g) = "thinking" /\ PhaseOf(g)' = "thinking"
           /\ d[g] \in 1 .. MaxDepth /\ d[g] > best[g] /\ best' = [best EXCEPT ![g] = d[g]]
  BY <1>2, <1>4, <1>8, ServiceActions DEF Service!Next
<1> QED
  BY <1>5, <1>6, <1>7, <1>8, JobIsSeen

\* Seen from the GUI, every behaviour of the threads and flags is one of
\* Analysis: one analysis at a time, each best move from a deeper iteration than
\* the last, each go answered at most once (evaluator.h, uci_handler.h).
THEOREM SessionImplementsAnalysis == Spec => ImplementsAnalysis
<1>1. SessionInv /\ [Next]_vars => [Service!Next]_(Service!analysisVars)
  <2> SUFFICES ASSUME SessionInv, [Next]_vars
               PROVE  Service!Next \/ UNCHANGED <<Phase, best>>
    BY ServiceActions
  <2>1. CASE UNCHANGED vars
    BY <2>1 DEF vars, Phase, PhaseOf, Thinking
  <2> QED
    BY <2>1, UciIsUnseen, JobIsService DEF Next
<1> QED
  BY <1>1, ServiceInit, SessionIsInv, PTL DEF Spec, ImplementsAnalysis, Service!Spec

=============================================================================
