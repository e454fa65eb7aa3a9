----------------------------- MODULE MCPlatform -----------------------------
(* Platform with small sets. *)
EXTENDS Platform

CONSTANTS e1, s1, f1, f2, c1, c2, w1, w2, t1, t2, r1, r2, n1, n2, n3, x1, x2, k1, k2, g1, g2, g3

\* One essay uploaded and resubmitted by two handlers; one composed and saved.
SmallIntakeBounds ==
  {[about |-> "files",   calls |-> 4, faults |-> 1, clean |-> TRUE],
   [about |-> "writing", calls |-> 6, faults |-> 0, clean |-> TRUE]}

\* Two clocks may disagree by five minutes.
SkewedDelays == {-5, 20, 40}

\* The first two versions are similar.
OnePair == {<<1, 2>>, <<2, 1>>}

\* All three are.
Triangle == {pair \in (1 .. 3) \X (1 .. 3) : pair[1] # pair[2]}

\* The third version is a resubmission of the second one's essay,
ResubmittedLast == [v \in Submitted |-> IF v = 1 THEN 1 ELSE 2]

\* or every version is an essay of its own.
EachOwn == [v \in Submitted |-> v]

\* One version of each, where only the integrity check is of interest.
FewCalls == {[about |-> "files", calls |-> 1, faults |-> 0, clean |-> TRUE]}

OneLocked == {[fit |-> 1, unfit |-> 0]}

SmallLocked == [fit : 0 .. 2, unfit : 0 .. 1]

\* Sign-ups and resends; the contact forms; a trial in time, with a fault, and with
\* one scan that waits for a worker too long.
AccountBound(counted, calls, faults, late, days) ==
  [uses |-> counted, calls |-> calls, faults |-> faults, late |-> late, days |-> days,
   timely |-> TRUE]

SmallAccountBounds ==
  {AccountBound({"signup", "resend"}, 4, 1, 0, 0), AccountBound({"inquiry", "dpa"}, 2, 1, 0, 0),
   AccountBound({}, 0, 1, 0, 32), AccountBound({}, 0, 0, 1, 32)}

\* n1 and n2 are spellings of one name.
SomeAlike == {<<n1, n1>>, <<n2, n2>>, <<n3, n3>>, <<n1, n2>>, <<n2, n1>>}

Line(name, ext) == [name |-> name, ext |-> ext]

OneStudent == <<Line(n3, x1)>>

SmallRosters == {<<Line(n1, x1), Line(n2, NoExternalId), Line(NoName, x2)>>,
                 <<Line(n3, x2), Line(n1, x2)>>}

SmallHandRows == {Line(n1, x2), Line(n3, NoExternalId)}

\* The first sums to 100 only after rounding, the last does not.
SmallDrafts == {<<33345, 66655>>, <<50000, 25000, 25000>>, <<50000, 40000>>}

EvenDrafts == {<<50000, 50000>>, <<100000>>}

Answered(c, score, long, confidence) ==
  [criterion |-> c, score |-> score, long |-> long, confidence |-> confidence]

\* One entry in every way odd; it comes alone, or after another of its criterion.
OddAnswers ==
  {Answered(k1, score, TRUE, "high") : score \in {-1, 0, 2, 9, Unreadable, Infinite}} \union
  {Answered(k1, 2, FALSE, "high"), Answered(k1, 2, TRUE, "odd"), Answered(NoCriterion, 2, TRUE, "high")}

SmallReplies == {[shape |-> "broken", items |-> <<>>]} \union
  {[shape |-> "json", items |-> <<Answered(k2, 3, TRUE, "medium"), item>>] : item \in OddAnswers} \union
  {[shape |-> "json", items |-> <<Answered(k1, 3, TRUE, "high"), Answered(k2, 2, TRUE, "high"), item>>]
     : item \in OddAnswers}

SmallBase == {[c \in Criteria |-> IF c = k1 THEN 4 ELSE 1]}

\* A text that was empty, one with two words more, and the same text.
SmallEfforts == {[before |-> 0,   after |-> 3,   same |-> FALSE],
                 [before |-> 100, after |-> 102, same |-> FALSE],
                 [before |-> 100, after |-> 100, same |-> TRUE]}

\* g1 and g2 are grades of one essay, k1 and k2 criteria of one skill.
GradedEssays == [m \in Marks |-> IF m = g3 THEN 2 ELSE 1]

TwoPupils == <<1, 2>>

OneSkill == [c \in {k1, k2} |-> 1]

\* A score of g1 has been overridden, or will be.
SmallMarks ==
  {[m \in Marks |-> [c \in {k1, k2} |->
      IF m = g3 THEN 2 ELSE IF c = k1 THEN 5 ELSE IF m = g1 THEN score ELSE 3]] :
   score \in {3, 4}}
=============================================================================
