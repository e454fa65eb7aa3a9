---------------------------- MODULE EssayIntake ----------------------------
(***************************************************************************)
(* How the essays of one assignment come in: uploaded or composed in the   *)
(* browser, resubmitted, assigned to a student. The rows live in the       *)
(* database, the files in S3, and each handler talks to both in turn.      *)
(*                                                                         *)
(* A statement that waits or locks is an action; a status of queued stands *)
(* for queued and for what the grading pipeline makes of it. What a file   *)
(* name, an author and a header resemble is left open.                     *)
(***************************************************************************)
EXTENDS Integers, Sequences, FiniteSets, WritingProcess

CONSTANTS
  EssayIds,      \* ids of essays
  Roster,        \* students enrolled in the class of the assignment
  Files,         \* sanitised file names
  Limit,         \* assignment.resubmission_limit
  WordCounts,    \* words an autosave may report
  Delays,        \* minutes between two autosaves, as their time stamps tell
  Servers,       \* API handlers that run at the same time
  NoEssay,       \* the essay of an idle handler
  NoStudent,     \* student_id is NULL
  NoFile,        \* file_storage_key is NULL
  NoSnapshots,   \* writing_snapshots is NULL
  NoSignals,     \* process_signals is NULL
  IntakeBounds   \* bounds: what a behaviour may contain, see IntakeBound

\* At most calls calls, of uploads or of writing, and at most faults failures
\* of S3, of a commit or of a handler.
\* clean tells that no failure yet could leave an object without a version.
IntakeBound == [about : {"files", "writing"}, calls : Nat, faults : Nat, clean : BOOLEAN]

ASSUME IntakeAssumption ==
  /\ Limit \in Nat
  /\ WordCounts \subseteq Nat
  /\ Delays \subseteq Int
  /\ IntakeBounds \subseteq IntakeBound
  /\ NoEssay \notin EssayIds
  /\ NoStudent \notin Roster

VARIABLES
  essay,    \* essay id -> its row with its versions, oldest first; the table has these ids
  objects,  \* keys of the objects in the bucket
  server,   \* handler -> the call it serves and what it has read
  allowed   \* what remains of the bounds

intakeVars == <<essay, objects, server, allowed>>

---------------------------------------------------------------------------
(* Types *)

Key == EssayIds \X (Nat \ {0}) \X Files

Snapshot == [at : Int, words : Nat]

Signals == [count : Nat, timeline : [sessions : SUBSET (Nat \X Nat), active : Int,
             gaps : Int, elapsed : Int, pastes : SUBSET (Nat \X (Nat \X Nat)),
             rapid : SUBSET (Nat \X Nat)]]

Version == [file      : Key \union {NoFile},
            snapshots : Seq(Snapshot) \union {NoSnapshots},
            signals   : Signals \union {NoSignals}]

Essay == [student  : Roster \union {NoStudent},
          status   : {"unassigned", "queued"},
          versions : Seq(Version)]

\* A null value is no value of its column.
ASSUME NullAssumption ==
  /\ NoFile \notin Key
  /\ NoSnapshots \notin Seq(Snapshot)

Free == [op |-> "none", pc |-> "idle", essay |-> NoEssay, n |-> 0, file |-> NoFile,
         student |-> NoStudent, snapshots |-> NoSnapshots, status |-> "none"]

Idle(c) == server[c].pc = "idle"

Serving == {c \in Servers : ~ Idle(c)}

Exists(e) == e \in DOMAIN essay

\* The table with one more row.
WithRow(e, row) == [f \in DOMAIN essay \union {e} |-> IF f = e THEN row ELSE essay[f]]

Latest(e) == Len(essay[e].versions)

IntakeInit ==
  /\ essay = [e \in {} |-> NoEssay]
  /\ objects = {}
  /\ server = [c \in Servers |-> Free]
  /\ allowed \in IntakeBounds

---------------------------------------------------------------------------
(* Calls *)

\* A call begins; state is what it knows after its first statements.
Receive(c, about, state) ==
  /\ allowed.about = about
  /\ allowed.calls > 0
  /\ Idle(c)
  /\ allowed' = [allowed EXCEPT !.calls = @ - 1]
  /\ server' = [server EXCEPT ![c] = state]

Reply(c) == server' = [server EXCEPT ![c] = Free]

\* Something fails; if clean, the code that follows leaves no object behind.
Failure(clean) ==
  /\ allowed.faults > 0
  /\ allowed' = [allowed EXCEPT !.faults = @ - 1, !.clean = @ /\ clean]

\* A new id.
Unused(e) == ~ Exists(e) /\ \A c \in Serving : server[c].essay # e

FirstStatus(student) == IF student = NoStudent THEN "unassigned" ELSE "queued"

NewVersion(file, snapshots) ==
  [file |-> file, snapshots |-> snapshots, signals |-> NoSignals]

---------------------------------------------------------------------------
(* Uploading *)

\* ingest_essay: the row is flushed, not yet committed. A student given must be
\* enrolled.
StartIngest(c, e, student, file) ==
  /\ Unused(e)
  /\ Receive(c, "files", [Free EXCEPT !.op = "ingest", !.pc = "upload", !.essay = e,
                            !.n = 1, !.file = file, !.student = student])
  /\ UNCHANGED <<essay, objects>>

\* The key of the first version has no number; it never meets another, because
\* the id of the essay is new.
KeyOf(c) == <<server[c].essay, server[c].n, server[c].file>>

Upload(c) ==
  /\ server[c].pc = "upload"
  /\ \/ /\ objects' = objects \union {KeyOf(c)}
        /\ server' = [server EXCEPT ![c].pc = "extract"]
        /\ UNCHANGED allowed
     \/ /\ Failure(TRUE)
        /\ Reply(c)
        /\ UNCHANGED objects
  /\ UNCHANGED essay

\* match_student: the students whose name the file name, the author or the header
\* resembles are candidates, and only a single candidate is assigned.
MatchStudent(resembled) ==
  LET candidates == Roster \intersect UNION resembled
  IN IF Cardinality(candidates) = 1 THEN CHOOSE student \in candidates : TRUE ELSE NoStudent

\* delete_file on an error path: best effort.
CleanUp(c) ==
  \/ objects' = objects \ {KeyOf(c)} /\ UNCHANGED allowed
  \/ Failure(FALSE) /\ UNCHANGED objects

\* The file may have no text to extract; then the object is removed.
Extract(c) ==
  /\ server[c].pc = "extract"
  /\ \/ /\ server' = [server EXCEPT ![c].pc = "commit"]
        /\ UNCHANGED <<objects, allowed>>
     \/ CleanUp(c) /\ Reply(c)
  /\ UNCHANGED essay

\* An essay without a student may be assigned to the one it matches. If the
\* commit fails nothing removes the object.
CommitIngest(c) ==
  LET call == server[c]
  IN /\ call.pc = "commit" /\ call.op = "ingest"
     /\ \/ /\ \E resembled \in SUBSET SUBSET Roster :
                LET student == IF call.student = NoStudent THEN MatchStudent(resembled)
                               ELSE call.student
                IN essay' = WithRow(call.essay,
                              [student |-> student, status |-> FirstStatus(student),
                               versions |-> <<NewVersion(KeyOf(c), NoSnapshots)>>])
           /\ UNCHANGED allowed
        \/ Failure(FALSE) /\ UNCHANGED essay
     /\ Reply(c)
     /\ UNCHANGED objects

---------------------------------------------------------------------------
(* Resubmitting *)

\* The row of the essay is locked from the first statement to the commit.
EssayIsFree(e) == \A c \in Serving : server[c].op = "resubmit" => server[c].essay # e

\* Mutant: without FOR UPDATE.
StartResubmitUnlocked(c, e, file) ==
  /\ Exists(e)
  /\ Receive(c, "files", IF Latest(e) - 1 >= Limit THEN Free
                         ELSE [Free EXCEPT !.op = "resubmit", !.pc = "upload", !.essay = e,
                                 !.n = Latest(e) + 1, !.file = file])
  /\ UNCHANGED <<essay, objects>>

\* Refused when the limit is reached; the version number is the next one.
StartResubmit(c, e, file) ==
  /\ Exists(e)
  /\ EssayIsFree(e)
  /\ Receive(c, "files", IF Latest(e) - 1 >= Limit THEN Free
                         ELSE [Free EXCEPT !.op = "resubmit", !.pc = "upload", !.essay = e,
                                 !.n = Latest(e) + 1, !.file = file])
  /\ UNCHANGED <<essay, objects>>

\* Mutant: the object stays when the commit fails.
CommitResubmitNoCleanUp(c) ==
  LET call == server[c]
      e    == call.essay
  IN /\ call.pc = "commit" /\ call.op = "resubmit"
     /\ \/ /\ essay' = [essay EXCEPT ![e].versions = Append(@, NewVersion(KeyOf(c), NoSnapshots)),
                                     ![e].status = "queued"]
           /\ UNCHANGED <<objects, allowed>>
        \/ Failure(TRUE) /\ UNCHANGED <<essay, objects>>
     /\ Reply(c)

\* A version number that exists violates the unique index. When the commit
\* fails, for that or for another reason, the object is removed.
CommitResubmit(c) ==
  LET call == server[c]
      e    == call.essay
  IN /\ call.pc = "commit" /\ call.op = "resubmit"
     /\ \/ IF Latest(e) < call.n
           THEN /\ essay' = [essay EXCEPT
                       ![e].versions = Append(@, NewVersion(KeyOf(c), NoSnapshots)),
                       ![e].status = "queued"]
                /\ UNCHANGED <<objects, allowed>>
           ELSE CleanUp(c) /\ UNCHANGED essay
        \/ Failure(TRUE) /\ objects' = objects \ {KeyOf(c)} /\ UNCHANGED essay
     /\ Reply(c)

---------------------------------------------------------------------------
(* Assigning *)

StartAssign(c, e, student) ==
  /\ Exists(e)
  /\ Receive(c, "files", [Free EXCEPT !.op = "assign", !.pc = "assign", !.essay = e,
                            !.student = student, !.status = essay[e].status])
  /\ UNCHANGED <<essay, objects>>

\* The status follows the one read before the student was validated.
Assign(c) ==
  LET call == server[c]
  IN /\ call.pc = "assign"
     /\ EssayIsFree(call.essay)
     /\ essay' = [essay EXCEPT ![call.essay].student = call.student,
                    ![call.essay].status = IF call.status = "unassigned" THEN "queued" ELSE @]
     /\ Reply(c)
     /\ UNCHANGED <<objects, allowed>>

---------------------------------------------------------------------------
(* Writing in the browser *)

Compose(c, e, student) ==
  /\ Unused(e)
  /\ Receive(c, "writing", Free)
  /\ essay' = WithRow(e, [student |-> student, status |-> FirstStatus(student),
                          versions |-> <<NewVersion(NoFile, <<>>)>>])
  /\ UNCHANGED objects

VersionIsFree(e, n) ==
  \A c \in Serving : server[c].pc = "save" => server[c].essay # e \/ server[c].n # n

LatestSnapshots(e) == essay[e].versions[Latest(e)].snapshots

\* Mutant: without FOR UPDATE.
LockSnapshotsNot(c, e) ==
  /\ Exists(e)
  /\ Receive(c, "writing", IF LatestSnapshots(e) = NoSnapshots THEN Free
                           ELSE [Free EXCEPT !.op = "autosave", !.pc = "save", !.essay = e,
                                   !.n = Latest(e), !.snapshots = LatestSnapshots(e)])
  /\ UNCHANGED <<essay, objects>>

\* save_writing_snapshot locks the row of the latest version; an essay that was
\* uploaded refuses snapshots.
LockSnapshots(c, e) ==
  /\ Exists(e)
  /\ VersionIsFree(e, Latest(e))
  /\ Receive(c, "writing", IF LatestSnapshots(e) = NoSnapshots THEN Free
                           ELSE [Free EXCEPT !.op = "autosave", !.pc = "save", !.essay = e,
                                   !.n = Latest(e), !.snapshots = LatestSnapshots(e)])
  /\ UNCHANGED <<essay, objects>>

\* The array is replaced by the one read with the new snapshot at its end.
SaveSnapshot(c, words, delay) ==
  LET call == server[c]
      last == IF call.snapshots = <<>> THEN 0 ELSE call.snapshots[Len(call.snapshots)].at
  IN /\ call.pc = "save"
     /\ essay' = [essay EXCEPT ![call.essay].versions[call.n].snapshots =
                    Append(call.snapshots, [at |-> last + delay, words |-> words])]
     /\ Reply(c)
     /\ UNCHANGED <<objects, allowed>>

Snapshots(version) == IF version.snapshots = NoSnapshots THEN <<>> ELSE version.snapshots

Cached(version) ==
  version.signals # NoSignals /\ version.signals.count = Len(Snapshots(version))

\* get_process_signals, without a lock: a cache of as many snapshots as there
\* are is served as it is.
ReadSignals(c, e) ==
  /\ Exists(e)
  /\ Receive(c, "writing",
       LET version == essay[e].versions[Latest(e)]
       IN  IF Cached(version) THEN Free
           ELSE [Free EXCEPT !.op = "signals", !.pc = "store", !.essay = e, !.n = Latest(e),
                   !.snapshots = Snapshots(version)])
  /\ UNCHANGED <<essay, objects>>

StoreSignals(c) ==
  LET call == server[c]
  IN /\ call.pc = "store"
     /\ VersionIsFree(call.essay, call.n)
     /\ essay' = [essay EXCEPT ![call.essay].versions[call.n].signals =
                    [count |-> Len(call.snapshots), timeline |-> Timeline(call.snapshots)]]
     /\ Reply(c)
     /\ UNCHANGED <<objects, allowed>>

---------------------------------------------------------------------------

\* The process or its connection dies: the transaction is rolled back, what S3
\* has stays.
Die(c) ==
  /\ ~ Idle(c)
  /\ Failure(FALSE)
  /\ Reply(c)
  /\ UNCHANGED <<essay, objects>>

IntakeNext ==
  \E c \in Servers :
    \/ \E e \in EssayIds, student \in Roster \union {NoStudent}, file \in Files :
         StartIngest(c, e, student, file)
    \/ Upload(c)
    \/ Extract(c)
    \/ CommitIngest(c)
    \/ \E e \in EssayIds, file \in Files : StartResubmit(c, e, file)
    \/ CommitResubmit(c)
    \/ \E e \in EssayIds, student \in Roster : StartAssign(c, e, student)
    \/ Assign(c)
    \/ \E e \in EssayIds, student \in Roster \union {NoStudent} : Compose(c, e, student)
    \/ \E e \in EssayIds : LockSnapshots(c, e)
    \/ \E words \in WordCounts, delay \in Delays : SaveSnapshot(c, words, delay)
    \/ \E e \in EssayIds : ReadSignals(c, e)
    \/ StoreSignals(c)
    \/ Die(c)

IntakeSpec == IntakeInit /\ [][IntakeNext]_intakeVars

---------------------------------------------------------------------------
(* Properties *)

Versions == {v \in (DOMAIN essay) \X (1 .. Limit + 1) : v[2] <= Latest(v[1])}

VersionAt(v) == essay[v[1]].versions[v[2]]

IntakeTypeOK ==
  /\ DOMAIN essay \subseteq EssayIds
  /\ \A e \in DOMAIN essay :
       /\ essay[e] \in Essay
       /\ Latest(e) \in 1 .. Limit + 1
       /\ essay[e].student # NoStudent => essay[e].status = "queued"
  /\ objects \subseteq Key
  /\ allowed.calls \in Nat /\ allowed.faults \in Nat

Stored == {VersionAt(v).file : v \in Versions} \ {NoFile}

\* A stored version has its file in the bucket, under a key of its own, whatever
\* uploads of the same file name overlap, fail and clean up; and once no call is
\* running every object belongs to a version: text that cannot be extracted and
\* a resubmission that cannot be committed leave nothing in the bucket, unless
\* the handler dies, the removal fails or it is the commit of an upload that
\* fails (ingest_essay, resubmit_essay).
FilesMatchVersions ==
  /\ Stored \subseteq objects
  /\ Serving = {} /\ allowed.clean => objects \subseteq Stored
  /\ \A v \in Versions : VersionAt(v).file # NoFile =>
       VersionAt(v).file[1] = v[1] /\ VersionAt(v).file[2] = v[2]

\* Signals served from the cache are those of the snapshots there are now, even
\* though only their number is compared (get_process_signals, save_writing_snapshot).
SignalsAreCurrent ==
  \A v \in Versions : Cached(VersionAt(v)) =>
    VersionAt(v).signals.timeline = Timeline(Snapshots(VersionAt(v)))

\* They are current, and the analysis of any saved sequence of snapshots is
\* consistent (analyze_writing_process).
SignalsAreFaithful ==
  /\ SignalsAreCurrent
  /\ \A v \in Versions : AddsUp(Snapshots(VersionAt(v)))

\* A snapshot once committed stays in its place (save_writing_snapshot).
SnapshotsAreKept ==
  [][\A v \in Versions : \A i \in DOMAIN Snapshots(VersionAt(v)) :
       LET now == Snapshots(essay'[v[1]].versions[v[2]])
       IN  i \in DOMAIN now /\ now[i] = Snapshots(VersionAt(v))[i]]_intakeVars
=============================================================================
