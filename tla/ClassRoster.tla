---------------------------- MODULE ClassRoster ----------------------------
(***************************************************************************)
(* The roster of a class: students of one teacher, enrolled one at a time  *)
(* or from a CSV file whose rows are compared with the roster when they    *)
(* are previewed and once more when they are confirmed                     *)
(* (services/student.py, services/roster_import.py).                       *)
(*                                                                         *)
(* Students are numbered in the order they are created. A name is a value, *)
(* and two names are alike or not.                                         *)
(***************************************************************************)
EXTENDS Integers, Sequences, FiniteSets, Rows

CONSTANTS
  Clerks,       \* request handlers
  Names,        \* full names
  Alike,        \* pairs of names whose similarity reaches FUZZY_MATCH_THRESHOLD
  ExternalIds,  \* student numbers of the school
  NoExternalId,
  NoName,       \* full_name missing or too long
  Rosters,      \* CSV files: sequences of rows
  HandRows,     \* what a teacher types for one student
  Students0,    \* the students at the start, of whom none is in the class
  MaxStudents,  \* bound: rows of students
  MaxEdits      \* bound: edits, removals and imports

ASSUME RosterAssumption ==
  /\ NoExternalId \notin ExternalIds /\ NoName \notin Names
  /\ \A name \in Names : <<name, name>> \in Alike
  /\ MaxStudents \in Nat /\ MaxEdits \in Nat

VARIABLES
  students,  \* rows of students
  enrolled,  \* those with an enrollment that is not removed
  clerk,     \* handler -> where its request is
  imported,  \* history: rows imported since a student was removed or edited
  crossed,   \* history: students were created other than by one import at a time
  edits      \* what remains of the bound

rosterVars == <<students, enrolled, clerk, imported, crossed, edits>>

---------------------------------------------------------------------------
(* Data *)

StudentRow == [name : Names, ext : ExternalIds \union {NoExternalId}]

CsvRow == [name : Names \union {NoName}, ext : ExternalIds \union {NoExternalId}]

NumbersAreUnique(rows) ==
  \A s, t \in DOMAIN rows : rows[s].ext = rows[t].ext /\ rows[s].ext # NoExternalId => s = t

ASSUME RowsAssumption ==
  /\ HandRows \subseteq StudentRow /\ Rosters \subseteq Seq(CsvRow)
  /\ Students0 \in Seq(StudentRow) /\ Len(Students0) <= MaxStudents
  /\ NumbersAreUnique(Students0)

NoRequest == [pc |-> "idle", rows |-> <<>>, student |-> 0,
              roster |-> {}, known |-> {}, undisturbed |-> TRUE]

RosterInit ==
  /\ students = Students0
  /\ enrolled = {}
  /\ clerk = [c \in Clerks |-> NoRequest]
  /\ imported = {}
  /\ crossed = FALSE
  /\ edits = MaxEdits

Number == Len(students)

Edit ==
  /\ edits > 0
  /\ edits' = edits - 1

\* Removals and edits may undo what an import under way has read.
Disturb(requests) ==
  /\ imported' = {}
  /\ clerk' = [c \in Clerks |-> [requests[c] EXCEPT !.undisturbed = (requests[c].pc = "idle")]]

---------------------------------------------------------------------------
(* The diff of an import *)

\* Where the rows without an error are.
ParseRoster(csv) == {i \in DOMAIN csv : csv[i].name # NoName}

\* A student is read as a row and its number.
Seen(numbers) == {[id |-> s, name |-> students[s].name, ext |-> students[s].ext] : s \in numbers}

FuzzyNameMatch(name, roster) == \E s \in roster : <<name, s.name>> \in Alike

Repeated(rows, i) == \E j \in 1 .. i - 1 : rows[j].ext = rows[i].ext

Matching(row, found) == {s \in found : s.ext # NoExternalId /\ s.ext = row.ext}

\* Mutant: a row that is like an enrolled student is found by its name only.
RowStatusByName(rows, i, roster, known) ==
  IF \/ rows[i].ext # NoExternalId /\ Repeated(rows, i)
     \/ FuzzyNameMatch(rows[i].name, roster)
  THEN "skipped" ELSE "new"

\* build_import_diff; roster: who is in the class, known: who has an id of the file.
RowStatus(rows, i, roster, known) ==
  IF \/ rows[i].ext # NoExternalId /\ Repeated(rows, i)
     \/ Matching(rows[i], roster) # {}
  THEN "skipped"
  ELSE IF Matching(rows[i], known) # {} THEN "updated"
  ELSE IF FuzzyNameMatch(rows[i].name, roster) THEN "skipped"
  ELSE "new"

RowsWith(status, rows, roster, known) ==
  {i \in DOMAIN rows : RowStatus(rows, i, roster, known) = status}

\* What import_students_endpoint answers, for the rows without an error.
ImportDiff(rows) ==
  [i \in DOMAIN rows |-> RowStatus(rows, i, Seen(enrolled), Seen(DOMAIN students))]

---------------------------------------------------------------------------
(* Confirming an import *)

\* The teacher confirms some of the rows shown.
StartImport(c, csv) ==
  /\ clerk[c].pc = "idle"
  /\ Edit
  /\ \E kept \in SUBSET ParseRoster(csv) \ {{}} :
       clerk' = [clerk EXCEPT ![c] = [NoRequest EXCEPT !.pc = "import",
                                                       !.rows = RowsAt(csv, kept)]]
  /\ UNCHANGED <<students, enrolled, imported, crossed>>

ReadRoster(c) ==
  /\ clerk[c].pc = "import"
  /\ clerk' = [clerk EXCEPT ![c].pc = "match", ![c].roster = Seen(enrolled)]
  /\ UNCHANGED <<students, enrolled, imported, crossed, edits>>

ReadKnown(c) ==
  /\ clerk[c].pc = "match"
  /\ clerk' = [clerk EXCEPT ![c].pc = "commit", ![c].known = Seen(DOMAIN students)]
  /\ UNCHANGED <<students, enrolled, imported, crossed, edits>>

OthersImport(c) == \E d \in Clerks \ {c} : clerk[d].pc \in {"match", "commit"}

\* New students are created, known ones renamed, all of them enrolled, in one
\* transaction, which the key on active enrollments may refuse as a whole.
CommitImport(c) ==
  /\ clerk[c].pc = "commit"
  /\ LET rows   == clerk[c].rows
         new    == RowsWith("new", rows, clerk[c].roster, clerk[c].known)
         known  == RowsWith("updated", rows, clerk[c].roster, clerk[c].known)
         added  == RowsAt(rows, new)
     IN /\ Number + Len(added) <= MaxStudents
        \* of several students with one id the query finds any
        /\ \E target \in [known -> DOMAIN students] :
             /\ \A i \in known : \E s \in Matching(rows[i], clerk[c].known) : target[i] = s.id
             /\ LET found == {target[i] : i \in known}
                    nameOf(s) == IF s \in found
                                 THEN rows[CHOOSE i \in known : target[i] = s].name
                                 ELSE students[s].name
                IN IF found \intersect enrolled # {}
                   THEN UNCHANGED <<students, enrolled, imported, crossed>>
                   ELSE /\ students' = [s \in DOMAIN students |->
                                          [students[s] EXCEPT !.name = nameOf(s)]] \o added
                        /\ enrolled' = enrolled \union found
                                         \union (Number + 1 .. Number + Len(added))
                        /\ imported' = IF clerk[c].undisturbed THEN imported \union {rows}
                                       ELSE imported
                        /\ crossed' = (crossed \/ OthersImport(c))
  /\ clerk' = [clerk EXCEPT ![c] = NoRequest]
  /\ UNCHANGED edits

---------------------------------------------------------------------------
(* One student *)

\* enroll_student without a student_id.
CreateStudent(row) ==
  /\ Edit
  /\ Number < MaxStudents
  /\ students' = Append(students, row)
  /\ enrolled' = enrolled \union {Number + 1}
  /\ crossed' = TRUE
  /\ UNCHANGED <<clerk, imported>>

StartEnroll(c, s) ==
  /\ clerk[c].pc = "idle"
  /\ Edit
  /\ s \in DOMAIN students \ enrolled
  /\ clerk' = [clerk EXCEPT ![c] = [NoRequest EXCEPT !.pc = "enroll", !.student = s]]
  /\ UNCHANGED <<students, enrolled, imported, crossed>>

\* 409 if another request has enrolled the student.
CommitEnroll(c) ==
  /\ clerk[c].pc = "enroll"
  /\ enrolled' = enrolled \union {clerk[c].student}
  /\ clerk' = [clerk EXCEPT ![c] = NoRequest]
  /\ UNCHANGED <<students, imported, crossed, edits>>

RemoveEnrollment(s) ==
  /\ s \in enrolled
  /\ Edit
  /\ enrolled' = enrolled \ {s}
  /\ Disturb(clerk)
  /\ UNCHANGED <<students, crossed>>

UpdateStudent(s, row) ==
  /\ s \in DOMAIN students /\ students[s] # row
  /\ Edit
  /\ students' = [students EXCEPT ![s] = row]
  /\ crossed' = TRUE
  /\ Disturb(clerk)
  /\ UNCHANGED enrolled

RosterNext ==
  \/ \E c \in Clerks :
       \/ \E csv \in Rosters : StartImport(c, csv)
       \/ ReadRoster(c) \/ ReadKnown(c) \/ CommitImport(c)
       \/ \E s \in DOMAIN students : StartEnroll(c, s)
       \/ CommitEnroll(c)
  \/ \E row \in HandRows :
       \/ CreateStudent(row)
       \/ \E s \in DOMAIN students : UpdateStudent(s, row)
  \/ \E s \in enrolled : RemoveEnrollment(s)

RosterSpec == RosterInit /\ [][RosterNext]_rosterVars

---------------------------------------------------------------------------
(* Properties *)

\* Students, enrollments and requests have their types.
RosterTypeOK ==
  /\ students \in Seq(StudentRow) /\ Number <= MaxStudents
  /\ enrolled \subseteq DOMAIN students
  /\ \A c \in Clerks :
       /\ clerk[c].pc \in {"idle", "import", "match", "commit", "enroll"}
       /\ \A i \in DOMAIN clerk[c].rows : clerk[c].rows[i] \in StudentRow
       /\ clerk[c].student \in 0 .. MaxStudents
  /\ imported \subseteq Seq(StudentRow) /\ crossed \in BOOLEAN

\* Rows that were imported are skipped when they are imported again, unless a
\* student was removed or edited meanwhile; and as long as only imports add
\* students, one at a time, no number belongs to two of them.
ReimportAddsNothing ==
  /\ \A rows \in imported : \A i \in DOMAIN rows : ImportDiff(rows)[i] = "skipped"
  /\ ~crossed => NumbersAreUnique(students)
=============================================================================
