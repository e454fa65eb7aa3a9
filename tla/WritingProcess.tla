--------------------------- MODULE WritingProcess ---------------------------
(***************************************************************************)
(* The analysis of the autosave snapshots of a browser-composed essay      *)
(* (composition_timeline.py). A snapshot is [at, words]: the minute it was *)
(* saved in and the words of the whole text. Snapshots that cannot be      *)
(* parsed, seconds and the sequence number are left out.                   *)
(***************************************************************************)
EXTENDS Integers, Sequences, FiniteSets, Functions

\* Where a snapshot stands by time, after those of the same minute saved before it.
Place(snapshots, i) ==
  Cardinality({j \in DOMAIN snapshots :
                 \/ snapshots[j].at < snapshots[i].at
                 \/ snapshots[j].at = snapshots[i].at /\ j <= i})

\* By time: the clocks of two servers, or of one set back, may disagree with
\* the order in which the snapshots were saved.
Parsed(snapshots) ==
  [k \in DOMAIN snapshots |->
     snapshots[CHOOSE i \in DOMAIN snapshots : Place(snapshots, i) = k]]

\* The positions at which a session begins, that is, after a gap of 30 minutes.
Begins(parsed) ==
  {i \in DOMAIN parsed : i = 1 \/ parsed[i].at - parsed[i - 1].at >= 30}

Ends(parsed) ==
  {i \in DOMAIN parsed : i = Len(parsed) \/ i + 1 \in Begins(parsed)}

\* A session is the pair of its first and last position.
Sessions(parsed) ==
  {session \in Begins(parsed) \X Ends(parsed) :
     /\ session[1] <= session[2]
     /\ \A i \in Begins(parsed) : i <= session[1] \/ i > session[2]}

Duration(parsed, session) == parsed[session[2]].at - parsed[session[1]].at

Active(parsed) == SumFunction([s \in Sessions(parsed) |-> Duration(parsed, s)])

Gaps(parsed) == SumFunction([i \in Begins(parsed) \ {1} |-> parsed[i].at - parsed[i - 1].at])

\* Mutant: the instant at which a session begins is not part of it.
FindSessionAfter(parsed, at) ==
  LET found == {s \in Sessions(parsed) : parsed[s[1]].at < at /\ at <= parsed[s[2]].at}
  IN  IF found = {} THEN CHOOSE s \in Sessions(parsed) : s[1] = 1
      ELSE CHOOSE s \in found : \A t \in found : s[1] <= t[1]

\* The session at that time; the first one if there is none.
FindSession(parsed, at) ==
  LET found == {s \in Sessions(parsed) : parsed[s[1]].at <= at /\ at <= parsed[s[2]].at}
  IN  IF found = {} THEN CHOOSE s \in Sessions(parsed) : s[1] = 1
      ELSE CHOOSE s \in found : \A t \in found : s[1] <= t[1]

\* Jumps of at least 50 words that are 15 per cent of the final text, each with
\* the session it is reported in.
Pastes(parsed) ==
  LET final == parsed[Len(parsed)].words
      jumps == {i \in 2 .. Len(parsed) :
                  LET delta == parsed[i].words - parsed[i - 1].words
                  IN  final > 0 /\ delta >= 50 /\ 100 * delta >= 15 * final}
  IN  {<<i, FindSession(parsed, parsed[i].at)>> : i \in jumps}

\* Sessions of at most 20 minutes that wrote three quarters of the final text.
RapidCompletions(parsed) ==
  LET final == parsed[Len(parsed)].words
  IN  {s \in Sessions(parsed) :
         /\ final > 0
         /\ Duration(parsed, s) <= 20
         /\ 100 * (parsed[s[2]].words - parsed[s[1]].words) >= 75 * final}

NoTimeline == [sessions |-> {}, active |-> 0, gaps |-> 0, elapsed |-> 0,
               pastes |-> {}, rapid |-> {}]

Timeline(snapshots) ==
  LET parsed == Parsed(snapshots)
  IN  IF snapshots = <<>> THEN NoTimeline
      ELSE [sessions |-> Sessions(parsed),
            active   |-> Active(parsed),
            gaps     |-> Gaps(parsed),
            elapsed  |-> parsed[Len(parsed)].at - parsed[1].at,
            pastes   |-> Pastes(parsed),
            rapid    |-> RapidCompletions(parsed)]

---------------------------------------------------------------------------
(* Property, of one sequence of snapshots *)

\* Writing time and gaps add up to the time elapsed; the sessions partition the
\* snapshots; a jump is reported in the session that has its snapshot.
AddsUp(snapshots) ==
  LET line == Timeline(snapshots)
  IN  /\ line.active + line.gaps = line.elapsed
      /\ \A i \in DOMAIN snapshots :
           Cardinality({s \in line.sessions : s[1] <= i /\ i <= s[2]}) = 1
      /\ \A paste \in line.pastes : paste[2][1] <= paste[1] /\ paste[1] <= paste[2][2]
=============================================================================
