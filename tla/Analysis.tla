------------------------------- MODULE Analysis ------------------------------
(***************************************************************************)
(* What the engine promises a GUI about its analyses, whatever threads and *)
(* flags it uses: it analyses one position at a time, an analysis only     *)
(* ever replaces its best move by one from a deeper iteration, and a "go"  *)
(* is answered at most once (src/docs/uci_protocol.txt, bestmove).         *)
(***************************************************************************)
EXTENDS Naturals

CONSTANTS
  Gos,      \* the "go" commands of a session
  MaxDepth  \* s_maxSearchDepth

VARIABLES
  phase,    \* "idle", "thinking", "answered" or "silenced" (quit), per go
  depth     \* iteration the present best move is from, 0 for none

analysisVars == <<phase, depth>>

Init ==
  /\ phase = [g \in Gos |-> "idle"]
  /\ depth = [g \in Gos |-> 0]

Begin(g) ==
  /\ phase[g] = "idle"
  /\ \A h \in Gos : phase[h] # "thinking"
  /\ phase' = [phase EXCEPT ![g] = "thinking"]
  /\ UNCHANGED depth

Deepen(g) ==
  /\ phase[g] = "thinking"
  /\ \E d \in 1 .. MaxDepth : d > depth[g] /\ depth' = [depth EXCEPT ![g] = d]
  /\ UNCHANGED phase

Answer(g) ==
  /\ phase[g] = "thinking"
  /\ phase' = [phase EXCEPT ![g] = "answered"]
  /\ UNCHANGED depth

Silence(g) ==
  /\ phase[g] = "thinking"
  /\ phase' = [phase EXCEPT ![g] = "silenced"]
  /\ UNCHANGED depth

Next == \E g \in Gos : Begin(g) \/ Deepen(g) \/ Answer(g) \/ Silence(g)

Spec == Init /\ [][Next]_analysisVars
==============================================================================
