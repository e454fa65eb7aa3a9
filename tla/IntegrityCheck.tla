--------------------------- MODULE IntegrityCheck ---------------------------
(***************************************************************************)
(* The task compute_essay_embedding: it checks one essay version with the  *)
(* configured provider. The internal provider embeds the text and compares *)
(* it with the versions of the assignment embedded so far; Originality.ai  *)
(* is asked over HTTP and, when it is down, the internal one takes over.   *)
(* The teacher reviews the reports meanwhile.                              *)
(*                                                                         *)
(* Versions are numbered in the order of their submission. Every statement *)
(* is an action; an INSERT and its commit are one.                         *)
(***************************************************************************)
EXTENDS Integers, FiniteSets, Bags

CONSTANTS
  Submitted,        \* numbers of the versions, each sent to the queue once
  EssayOfVersion,   \* version -> its essay; a later version has a higher number
  Similar,          \* pairs whose cosine similarity reaches the threshold
  Providers,        \* values of INTEGRITY_PROVIDER to consider
  Checkers,         \* worker processes
  MaxRetries,       \* of the task, after an LLM error
  IntegrityFaults,  \* bound: LLM errors, HTTP errors, dead workers
  Redeliveries,     \* bound: tasks sent a second time
  Reviews           \* bound: reviews by the teacher

ASSUME IntegrityAssumption ==
  /\ Submitted \subseteq Nat /\ IsFiniteSet(Submitted)
  /\ DOMAIN EssayOfVersion = Submitted
  /\ Similar \subseteq Submitted \X Submitted
  /\ \A pair \in Similar : pair[1] # pair[2] /\ <<pair[2], pair[1]>> \in Similar
  /\ Providers \subseteq {"internal", "originality_ai"}
  /\ MaxRetries \in Nat
  /\ IntegrityFaults \in Nat /\ Redeliveries \in Nat /\ Reviews \in Nat

VARIABLES
  provider,  \* INTEGRITY_PROVIDER
  embedded,  \* versions whose embedding is committed
  reports,   \* rows of integrity_reports
  tasks,     \* bag of messages: <<version, retries so far>>
  checker,   \* worker -> the task it runs and what it has read
  reviewed,  \* history: report keys -> the last verdict of the teacher, if any
  may        \* what remains of the bounds

integrityVars == <<provider, embedded, reports, tasks, checker, reviewed, may>>

---------------------------------------------------------------------------

\* Rows are unique by version and provider.
ReportKey == Submitted \X {"internal", "originality_ai"}

\* matches: the versions named in flagged_passages. Rows are never deleted; their
\* created_at is their place in the order of the inserts.
Report == [key     : ReportKey,
           created : Nat,
           matches : SUBSET Submitted,
           status  : {"pending", "reviewed_clear", "flagged"}]

Keys == {r.key : r \in reports}

NewReport(v, by, matches) ==
  [key |-> <<v, by>>, created |-> Cardinality(reports), matches |-> matches, status |-> "pending"]

Resting == [pc |-> "idle", version |-> 0, retries |-> 0, matches |-> {}]

IntegrityInit ==
  /\ provider \in Providers
  /\ embedded = {}
  /\ reports = {}
  /\ tasks = SetToBag({<<v, 0>> : v \in Submitted})
  /\ checker = [w \in Checkers |-> Resting]
  /\ reviewed = [k \in {} |-> "pending"]
  /\ may = [faults |-> IntegrityFaults, redeliveries |-> Redeliveries, reviews |-> Reviews]

---------------------------------------------------------------------------
(* The task *)

At(w, pc) == checker[w].pc = pc

Go(w, pc) == checker' = [checker EXCEPT ![w].pc = pc]

Rest(w) == checker' = [checker EXCEPT ![w] = Resting]

Fault == may.faults > 0 /\ may' = [may EXCEPT !.faults = @ - 1]

TakeTask(w, task) ==
  /\ At(w, "idle")
  /\ BagIn(task, tasks)
  /\ tasks' = tasks (-) SetToBag({task})
  /\ checker' = [checker EXCEPT ![w] =
       [Resting EXCEPT !.pc = IF provider = "internal" THEN "embed" ELSE "ask",
                       !.version = task[1], !.retries = task[2]]]
  /\ UNCHANGED <<provider, embedded, reports, reviewed, may>>

\* OriginalityAiProvider.check: a report that exists saves the call. Without
\* an answer the internal provider takes over; another HTTP error fails the task.
AskProvider(w) ==
  /\ At(w, "ask")
  /\ \/ /\ <<checker[w].version, "originality_ai">> \in Keys
        /\ Rest(w)
        /\ UNCHANGED may
     \/ /\ <<checker[w].version, "originality_ai">> \notin Keys
        /\ \/ Go(w, "record") /\ UNCHANGED may
           \/ Fault /\ (Go(w, "embed") \/ Rest(w))
  /\ UNCHANGED <<provider, embedded, reports, tasks, reviewed>>

\* Mutant: ON CONFLICT DO UPDATE.
RecordReportAgain(w) ==
  LET new == NewReport(checker[w].version, "originality_ai", {})
  IN /\ At(w, "record")
     /\ reports' = {r \in reports : r.key # new.key} \union {new}
     /\ Rest(w)
     /\ UNCHANGED <<provider, embedded, tasks, reviewed, may>>

\* INSERT ... ON CONFLICT DO NOTHING.
RecordReport(w) ==
  LET new == NewReport(checker[w].version, "originality_ai", {})
  IN /\ At(w, "record")
     /\ reports' = IF new.key \in Keys THEN reports ELSE reports \union {new}
     /\ Rest(w)
     /\ UNCHANGED <<provider, embedded, tasks, reviewed, may>>

\* compute_and_store_embedding: an embedding that exists is not computed again.
\* An LLM error is retried with a back-off, a limited number of times.
StoreEmbedding(w) ==
  /\ At(w, "embed")
  /\ \/ /\ embedded' = embedded \union {checker[w].version}
        /\ Go(w, "compare")
        /\ UNCHANGED <<tasks, may>>
     \/ /\ checker[w].version \notin embedded
        /\ Fault
        /\ tasks' = IF checker[w].retries < MaxRetries
                    THEN tasks (+) SetToBag({<<checker[w].version, checker[w].retries + 1>>})
                    ELSE tasks
        /\ Rest(w)
        /\ UNCHANGED embedded
  /\ UNCHANGED <<provider, reports, reviewed>>

\* Mutant: only versions submitted earlier are compared.
CandidatesBefore(v) == {u \in embedded : <<u, v>> \in Similar /\ u < v}

Candidates(v) == {u \in embedded : <<u, v>> \in Similar}

\* flag_similar_essays, first the query for similar versions.
Compare(w) ==
  LET found == Candidates(checker[w].version)
  IN /\ At(w, "compare")
     /\ checker' = [checker EXCEPT ![w] =
          IF found = {} THEN Resting ELSE [@ EXCEPT !.pc = "dedupe", !.matches = found]]
     /\ UNCHANGED <<provider, embedded, reports, tasks, reviewed, may>>

\* Then the query for a report of an earlier run,
Deduplicate(w) ==
  /\ At(w, "dedupe")
  /\ IF <<checker[w].version, "internal">> \in Keys THEN Rest(w) ELSE Go(w, "flag")
  /\ UNCHANGED <<provider, embedded, reports, tasks, reviewed, may>>

\* and one INSERT per match, all of the same key. The unique constraint lets a
\* single one pass; otherwise the commit fails and so does the task.
Flag(w) ==
  LET new == {NewReport(checker[w].version, "internal", {u}) : u \in checker[w].matches}
  IN /\ At(w, "flag")
     /\ reports' = IF Cardinality(new) = 1 /\ <<checker[w].version, "internal">> \notin Keys
                   THEN reports \union new ELSE reports
     /\ Rest(w)
     /\ UNCHANGED <<provider, embedded, tasks, reviewed, may>>

\* The worker dies; the task was acknowledged when it began.
CheckerDies(w) ==
  /\ ~ At(w, "idle")
  /\ Fault
  /\ Rest(w)
  /\ UNCHANGED <<provider, embedded, reports, tasks, reviewed>>

\* The broker delivers a task again, or an operator sends it again.
Redeliver(v) ==
  /\ may.redeliveries > 0
  /\ may' = [may EXCEPT !.redeliveries = @ - 1]
  /\ tasks' = tasks (+) SetToBag({<<v, 0>>})
  /\ UNCHANGED <<provider, embedded, reports, checker, reviewed>>

\* update_integrity_report_status: a verdict may be revised, never withdrawn.
Review(r, status) ==
  /\ may.reviews > 0
  /\ may' = [may EXCEPT !.reviews = @ - 1]
  /\ reports' = (reports \ {r}) \union {[r EXCEPT !.status = status]}
  /\ reviewed' = [k \in DOMAIN reviewed \union {r.key} |->
                    IF k = r.key THEN status ELSE reviewed[k]]
  /\ UNCHANGED <<provider, embedded, tasks, checker>>

---------------------------------------------------------------------------
(* What the teacher is shown *)

VersionsOf(e) == {v \in Submitted : EssayOfVersion[v] = e}

\* get_integrity_report_for_essay: of the latest version, the latest report.
ReportsShown(e) ==
  LET latest == CHOOSE v \in VersionsOf(e) : \A u \in VersionsOf(e) : u <= v
      own    == {r \in reports : r.key[1] = latest}
  IN {r \in own : \A q \in own : q.created <= r.created}

\* Mutant: every version counts.
EveryVersion == Submitted

LatestVersions ==
  {v \in Submitted : \A u \in VersionsOf(EssayOfVersion[v]) : u <= v}

LatestReports ==
  {r \in reports :
     /\ r.key[1] \in LatestVersions
     /\ \A q \in reports : q.key[1] = r.key[1] => q.created <= r.created}

\* get_integrity_summary_for_assignment
Summary ==
  [status \in {"flagged", "reviewed_clear", "pending"} |->
     Cardinality({r \in LatestReports : r.status = status})]

---------------------------------------------------------------------------

CheckStep(w) ==
  \/ \E task \in BagToSet(tasks) : TakeTask(w, task)
  \/ AskProvider(w) \/ RecordReport(w)
  \/ StoreEmbedding(w) \/ Compare(w) \/ Deduplicate(w) \/ Flag(w)

IntegrityNext ==
  \/ \E w \in Checkers : CheckStep(w) \/ CheckerDies(w)
  \/ \E v \in Submitted : Redeliver(v)
  \/ \E r \in reports, status \in {"reviewed_clear", "flagged"} : Review(r, status)

IntegritySpec == IntegrityInit /\ [][IntegrityNext]_integrityVars

---------------------------------------------------------------------------
(* Properties *)

IntegrityTypeOK ==
  /\ embedded \subseteq Submitted
  /\ reports \subseteq Report
  /\ Cardinality(Keys) = Cardinality(reports)
  /\ \A w \in Checkers : ~ At(w, "idle") => checker[w].version \in Submitted

AllChecked == tasks = EmptyBag /\ \A w \in Checkers : At(w, "idle")

PairIsNamed(u, v) ==
  \E r \in reports : \/ r.key = <<u, "internal">> /\ v \in r.matches
                     \/ r.key = <<v, "internal">> /\ u \in r.matches

NothingFailed == provider = "internal" /\ may.faults = IntegrityFaults

\* Two versions that are similar to each other and to no other are reported
\* once all tasks have ended without a fault, in whatever order and however
\* much at the same time their tasks run: the embedding is committed before
\* the comparison (_run of InternalProvider.check).
LonePairsAreFlagged ==
  AllChecked /\ NothingFailed =>
    \A pair \in Similar :
      (\A other \in Similar : other[1] \in {pair[1], pair[2]} => other \in {pair, <<pair[2], pair[1]>>})
        => PairIsNamed(pair[1], pair[2])

\* The same of every pair. It does not hold: a version with two matches fails
\* on the unique constraint.
PairsAreFlagged ==
  AllChecked /\ NothingFailed => \A pair \in Similar : PairIsNamed(pair[1], pair[2])

\* A verdict of the teacher stays on its report until the next one, however
\* often the check of the version runs again (OriginalityAiProvider.check,
\* flag_similar_essays).
VerdictsAreKept ==
  \A k \in DOMAIN reviewed : \E r \in reports : r.key = k /\ r.status = reviewed[k]

\* The summary of the assignment counts each essay once, by the report its page
\* shows, however often it was resubmitted and whichever providers reported on it.
SummaryCountsEssays ==
  LET essays == {EssayOfVersion[v] : v \in Submitted}
  IN \A status \in DOMAIN Summary :
       Summary[status] =
         Cardinality({e \in essays : \E r \in ReportsShown(e) : r.status = status})

\* Reports appear, stay as the teacher has left them, and are summed up truly:
\* the three properties above.
ReportsAreKept == LonePairsAreFlagged /\ VerdictsAreKept /\ SummaryCountsEssays
=============================================================================
