--------------------------- MODULE EssayLifecycle ---------------------------
(***************************************************************************)
(* What the grading pipeline promises about essays, without tasks, queues  *)
(* or Redis: one grading run at a time works on an essay, it starts from   *)
(* "queued", and "graded" is reached only together with a new grade for a  *)
(* version that had none.  BatchGrading implements it when requests come   *)
(* from one teacher's grading panel (MCBatchGrading).                      *)
(***************************************************************************)
EXTENDS Integers

CONSTANTS Essays, MaxVersions

VARIABLES
  status,    \* essay -> "queued", "grading" or "graded"
  latest,    \* essay -> number of its newest version
  grades,    \* the graded <<essay, version>> pairs
  claimed    \* essay -> a run is working on it

vars == <<status, latest, grades, claimed>>

Init ==
  /\ status = [e \in Essays |-> "queued"]
  /\ latest = [e \in Essays |-> 1]
  /\ grades = {}
  /\ claimed = [e \in Essays |-> FALSE]

\* The student hands in a newer version; a run that is under way goes on.
Submit(e) ==
  /\ latest[e] < MaxVersions
  /\ latest' = [latest EXCEPT ![e] = @ + 1]
  /\ status' = [status EXCEPT ![e] = "queued"]
  /\ UNCHANGED <<grades, claimed>>

Claim(e) ==
  /\ status[e] = "queued"
  /\ ~ claimed[e]
  /\ status' = [status EXCEPT ![e] = "grading"]
  /\ claimed' = [claimed EXCEPT ![e] = TRUE]
  /\ UNCHANGED <<latest, grades>>

Grade(e) ==
  /\ claimed[e]
  /\ \E v \in 1..latest[e] :
       /\ <<e, v>> \notin grades
       /\ grades' = grades \union {<<e, v>>}
  /\ status' = [status EXCEPT ![e] = "graded"]
  /\ claimed' = [claimed EXCEPT ![e] = FALSE]
  /\ UNCHANGED latest

\* The run stops without a grade (an error, a retry, a crash).
Abandon(e) ==
  /\ claimed[e]
  /\ claimed' = [claimed EXCEPT ![e] = FALSE]
  /\ UNCHANGED <<status, latest, grades>>

\* An essay that nobody works on is made gradable again.
Release(e) ==
  /\ status[e] = "grading"
  /\ ~ claimed[e]
  /\ status' = [status EXCEPT ![e] = "queued"]
  /\ UNCHANGED <<latest, grades, claimed>>

Next == \E e \in Essays :
          Submit(e) \/ Claim(e) \/ Grade(e) \/ Abandon(e) \/ Release(e)

Spec == Init /\ [][Next]_vars
=============================================================================
