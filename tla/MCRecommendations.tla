-------------------------- MODULE MCRecommendations --------------------------
(* Recommendations with small sets. *)
EXTENDS Recommendations

CONSTANTS s1, s2, w1, w2, c1, c2

\* s1 has been failing, s2 has not been graded yet.
StudentHistories == {[s \in Students |-> IF s = s1 THEN <<40, 40>> ELSE <<>>]}

M(serial, screen, locks, calls, faults, scans) ==
  [serial |-> serial, screen |-> screen, locks |-> locks, calls |-> calls,
   faults |-> faults, scans |-> scans]

SmallModes == {M(TRUE,  "worklist", 2, 1, 0, 0),
               M(FALSE, "worklist", 2, 1, 0, 0),
               M(FALSE, "worklist", 1, 2, 0, 0),
               M(FALSE, "worklist", 1, 0, 1, 1),
               M(FALSE, "groups",   1, 2, 0, 0),
               M(FALSE, "advice",   1, 2, 0, 0),
               M(FALSE, "advice",   0, 3, 0, 0),
               M(FALSE, "advice",   0, 2, 0, 2)}

\* s2 has resubmitted one essay and gained two points.
Resubmissions == [s \in Students |-> IF s = s2 THEN {<<70, 72>>} ELSE {}]
=============================================================================
