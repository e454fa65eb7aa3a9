---------------------------- MODULE ClassPipeline ----------------------------
(***************************************************************************)
(* What follows the lock of a grade: three Celery tasks recompute the      *)
(* student's skill profile, the groups of the class and the worklist of    *)
(* the teacher, who meanwhile edits the group and works through the list.  *)
(*                                                                         *)
(* One teacher with one class, one skill. Each SELECT whose result is used *)
(* by a later statement is an action of its own; a conditional UPDATE with *)
(* its commit is one action. Messages are taken in the order they were     *)
(* sent, by as many workers as are free.                                   *)
(***************************************************************************)
EXTENDS SkillSignals, SequencesExt

CONSTANTS
  Students,     \* students of the teacher
  Enrolled,     \* those enrolled in the class
  Finals,       \* final scores a lock may freeze
  MinScore,     \* range of the criterion in the rubric snapshot
  MaxScore,
  Histories,    \* locked scores the students may have to begin with
  Pairs,        \* student -> resubmitted essays: <<original, best>> in per cent
  GroupBelow,   \* settings.auto_grouping_underperformance_threshold, per cent
  MinGroupSize, \* settings.auto_grouping_min_group_size
  Workers,      \* worker processes
  Calls,        \* API handlers that serve the teacher at the same time
  NoGroup,      \* there is no student_groups row
  NoItem,       \* the item of a call about something else
  NoStudent,    \* the student of a message about something else
  Modes         \* bounds: what a behaviour may contain, see Mode

ASSUME PipelineAssumption ==
  /\ IsFiniteSet(Students) /\ Enrolled \subseteq Students
  /\ Finals \subseteq Int /\ MinScore \in Int /\ MaxScore \in Int
  /\ GroupBelow \in Nat /\ MinGroupSize \in Nat \ {0}
  /\ Histories \subseteq [Students -> Seq(0 .. 100)]
  /\ NoStudent \notin Students

VARIABLES
  locked,   \* student -> normalised scores of the locked grades, by locked_at
  profile,  \* student -> history its student_skill_profiles row sums up; <<>>: no row
  group,    \* the student_groups row of the skill
  items,    \* teacher_worklist_items
  runs,     \* rows of groups and lists computed so far, for fresh ids
  queue,    \* messages waiting in the broker
  worker,   \* worker -> task it runs and what it has read
  call,     \* handler -> API call and what it has read
  left,     \* what remains of the bounds
  mode      \* the mode, fixed at the start

vars == <<locked, profile, group, items, runs, queue, worker, call, left, mode>>

---------------------------------------------------------------------------
(* Types *)

\* A behaviour locks at most locks grades and makes at most calls API calls, on
\* one screen ("advice" is that of module Recommendations); at most faults tasks
\* fail or are not sent; there are scans daily scans. If serial, one worker runs.
Mode == [serial : BOOLEAN, screen : {"worklist", "groups", "advice"},
         locks : Nat, calls : Nat, faults : Nat, scans : Nat]

ASSUME ModesAssumption == Modes \subseteq Mode

Message == [task    : {"profile", "groups", "worklist", "scan"},
            student : Students \union {NoStudent}]

Stability == {"new", "persistent", "exited"}

GroupRow == [id : Nat, members : SUBSET Students, stability : Stability]

ASSUME NoGroupAssumption == NoGroup \notin GroupRow

Signal == Students \X Triggers

Item == [signal : Signal, run : Nat, 
         status : {"active", "completed", "snoozed", "dismissed"}]

Open == {"active", "snoozed"}

NoMessage == [task |-> "none", student |-> NoStudent]

IdleWorker == [pc |-> "idle", message |-> NoMessage, scores |-> <<>>,
               members |-> {}, before |-> FALSE, profiles |-> <<>>,
               computed |-> {}, deleting |-> {}]

IdleCall == [op |-> "none", pc |-> "idle", item |-> NoItem, row |-> NoGroup,
             members |-> {}, signal |-> NoItem, n |-> 0, answer |-> "none"]

Busy(w) == worker[w].pc # "idle"

Quiet == queue = <<>> /\ \A w \in Workers : ~ Busy(w)

Active(row) == row # NoGroup /\ row.stability # "exited"

Weak(profiles) == {s \in Enrolled : profiles[s] # <<>> /\ AverageBelow(profiles[s], GroupBelow)}

Clusters(profiles) == IF Cardinality(Weak(profiles)) >= MinGroupSize THEN Weak(profiles) ELSE {}

Signals(profiles, persistent, scores) ==
  {signal \in Signal :
     LET s == signal[1]
     IN  /\ profiles[s] # <<>>
         /\ Fires(signal[2], profiles[s], scores[s], s \in persistent, Pairs[s])}

\* The tasks of earlier locks have left everything up to date.
Init ==
  /\ locked \in Histories
  /\ profile = locked
  /\ group = IF Clusters(locked) = {} THEN NoGroup
              ELSE [id |-> 0, members |-> Clusters(locked), stability |-> "new"]
  /\ items = {[signal |-> g, run |-> 0, status |-> "active"] : g \in Signals(locked, {}, locked)}
  /\ runs = 1
  /\ queue = <<>>
  /\ worker = [w \in Workers |-> IdleWorker]
  /\ call = [c \in Calls |-> IdleCall]
  /\ mode \in Modes
  /\ left = mode

---------------------------------------------------------------------------
(* Locking a grade *)

Sent(task, s, lost) == IF task \in lost THEN <<>> ELSE <<[task |-> task, student |-> s]>>

\* Mutant: the groups are sent before the profile they read.
MessagesGroupsFirst(s, lost) ==
  Sent("groups", NoStudent, lost) \o Sent("profile", s, lost) \o Sent("worklist", NoStudent, lost)

\* The three messages of a lock, less those in lost: sending each is best effort.
Messages(s, lost) ==
  Sent("profile", s, lost) \o Sent("groups", NoStudent, lost) \o Sent("worklist", NoStudent, lost)

LockGrade(s, final) ==
  /\ left.locks > 0
  /\ locked' = [locked EXCEPT ![s] = Append(@, Normalised(final, MinScore, MaxScore))]
  /\ \E lost \in {{}} \union {{t} : t \in {"profile", "groups", "worklist"}} :
       /\ Cardinality(lost) <= left.faults
       /\ queue' = queue \o Messages(s, lost)
       /\ left' = [left EXCEPT !.locks = @ - 1, !.faults = @ - Cardinality(lost)]
  /\ UNCHANGED <<profile, group, items, runs, worker, call, mode>>

---------------------------------------------------------------------------
(* Workers *)

MayTake(w) == ~ Busy(w) /\ queue # <<>> /\ (mode.serial => \A v \in Workers : ~ Busy(v))

\* The worker takes the oldest message and goes on with what state says.
Take(w, task, state) ==
  /\ MayTake(w)
  /\ Head(queue).task = task
  /\ queue' = Tail(queue)
  /\ worker' = [worker EXCEPT ![w] = [state EXCEPT !.message = Head(queue)]]
  /\ UNCHANGED <<locked, profile, group, items, runs, call, left, mode>>

Proceed(w, state) ==
  /\ worker' = [worker EXCEPT ![w] = state]
  /\ UNCHANGED <<locked, queue, call, left, mode>>

\* update_skill_profile: one SELECT of the locked grades, then an upsert.
ReadGrades(w) ==
  Take(w, "profile", [IdleWorker EXCEPT !.pc = "upsert", 
                                        !.scores = locked[Head(queue).student]])

UpsertProfile(w) ==
  /\ worker[w].pc = "upsert"
  /\ profile' = [profile EXCEPT ![worker[w].message.student] = worker[w].scores]
  /\ Proceed(w, IdleWorker)
  /\ UNCHANGED <<group, items, runs>>

\* compute_class_groups: clusters are built before the class row is locked,
\* the stability of the old groups is read under the lock.
ReadProfiles(w) ==
  Take(w, "groups", [IdleWorker EXCEPT !.pc = "lockClass", !.members = Clusters(profile)])

ClassIsFree == \A v \in Workers : worker[v].pc # "replace"

\* Mutant: without SELECT ... FOR UPDATE on the class.
ReadOldGroups(w) ==
  /\ worker[w].pc = "lockClass"
  /\ Proceed(w, [worker[w] EXCEPT !.pc = "replace", !.before = Active(group)])
  /\ UNCHANGED <<profile, group, items, runs>>

LockClass(w) ==
  /\ worker[w].pc = "lockClass"
  /\ ClassIsFree
  /\ Proceed(w, [worker[w] EXCEPT !.pc = "replace", !.before = Active(group)])
  /\ UNCHANGED <<profile, group, items, runs>>

ReplaceGroups(w) ==
  /\ worker[w].pc = "replace"
  /\ group' = CASE worker[w].members # {} ->
                     [id |-> runs, members |-> worker[w].members,
                      stability |-> IF worker[w].before THEN "persistent" ELSE "new"]
                [] worker[w].members = {} /\ worker[w].before ->
                     [id |-> runs, members |-> {}, stability |-> "exited"]
                [] OTHER -> NoGroup
  /\ runs' = runs + 1
  /\ Proceed(w, IdleWorker)
  /\ UNCHANGED <<profile, items>>

\* refresh_teacher_worklist: profiles, groups and grades are read before the
\* row of the teacher is locked; the lock covers the DELETE and the INSERT.
StartWorklist(w) ==
  Take(w, "worklist", [IdleWorker EXCEPT !.pc = "signals", !.profiles = profile])

Persistent(row) == IF row # NoGroup /\ row.stability = "persistent" THEN row.members ELSE {}

ReadSignals(w) ==
  /\ worker[w].pc = "signals"
  /\ Proceed(w, [IdleWorker EXCEPT !.pc = "lockUser", !.message = worker[w].message,
                   !.computed = Signals(worker[w].profiles, Persistent(group), locked)])
  /\ UNCHANGED <<profile, group, items, runs>>

UserIsFree == \A v \in Workers : worker[v].pc # "insert"

\* Mutants: without SELECT ... FOR UPDATE on the user; the status is not tested.
DeleteActiveUnlocked(w) ==
  /\ worker[w].pc = "lockUser"
  /\ Proceed(w, [worker[w] EXCEPT !.pc = "insert",
                                  !.deleting = {i \in items : i.status = "active"}])
  /\ UNCHANGED <<profile, group, items, runs>>

DeleteAll(w) ==
  /\ worker[w].pc = "lockUser"
  /\ UserIsFree
  /\ Proceed(w, [worker[w] EXCEPT !.pc = "insert", !.deleting = items])
  /\ UNCHANGED <<profile, group, items, runs>>

DeleteActive(w) ==
  /\ worker[w].pc = "lockUser"
  /\ UserIsFree
  /\ Proceed(w, [worker[w] EXCEPT !.pc = "insert",
                                  !.deleting = {i \in items : i.status = "active"}])
  /\ UNCHANGED <<profile, group, items, runs>>

InsertItems(w) ==
  /\ worker[w].pc = "insert"
  /\ items' = (items \ worker[w].deleting) \union
              {[signal |-> g, run |-> runs, status |-> "active"] : g \in worker[w].computed}
  /\ runs' = runs + 1
  /\ Proceed(w, IdleWorker)
  /\ UNCHANGED <<profile, group>>

\* A task raises or its worker dies: its transaction is rolled back, and the
\* message is sent again (after a back-off) or lost.
FailTask(w) ==
  /\ Busy(w)
  /\ left.faults > 0
  /\ left' = [left EXCEPT !.faults = @ - 1]
  /\ worker' = [worker EXCEPT ![w] = IdleWorker]
  /\ queue' \in {queue, Append(queue, worker[w].message)}
  /\ UNCHANGED <<locked, profile, group, items, runs, call, mode>>

WorkerStep(w) ==
  \/ ReadGrades(w)    \/ UpsertProfile(w)
  \/ ReadProfiles(w)  \/ LockClass(w)    \/ ReplaceGroups(w)
  \/ StartWorklist(w) \/ ReadSignals(w)  \/ DeleteActive(w)  \/ InsertItems(w)

---------------------------------------------------------------------------
(* The teacher's calls *)

\* The call begins and its first SELECT leaves it in state.
StartCall(c, screen, state) ==
  /\ mode.screen = screen
  /\ left.calls > 0
  /\ call[c].pc = "idle"
  /\ left' = [left EXCEPT !.calls = @ - 1]
  /\ call' = [call EXCEPT ![c] = state]
  /\ UNCHANGED <<locked, profile, group, items, runs, queue, worker, mode>>

Answer(c, answer) ==
  call' = [call EXCEPT ![c] = [IdleCall EXCEPT !.op = call[c].op, !.answer = answer]]

Verdict == [complete |-> "completed", snooze |-> "snoozed", dismiss |-> "dismissed"]

\* What an operation says of an item it finds closed: done already, or refused.
Closed(op, status) == IF op # "snooze" /\ status = Verdict[op] THEN "ok" ELSE "refused"

LoadItem(c, op, item) ==
  StartCall(c, "worklist",
    IF item.status \in Open
    THEN [IdleCall EXCEPT !.op = op, !.pc = "update", !.item = item]
    ELSE [IdleCall EXCEPT !.op = op, !.answer = Closed(op, item.status)])

\* The same row, whatever its status.
SameItem(i, j) == i.signal = j.signal /\ i.run = j.run

Now(item) == {i \in items : SameItem(i, item)}

\* Mutant: the number of rows updated is not looked at.
UpdateItemUnchecked(c) ==
  LET item == call[c].item
      op   == call[c].op
      open == {i \in Now(item) : i.status \in Open}
  IN /\ call[c].pc = "update"
     /\ op \in DOMAIN Verdict
     /\ \A w \in Workers : \A i \in worker[w].deleting : ~ SameItem(i, item)
     /\ items' = (items \ open) \union {[i EXCEPT !.status = Verdict[op]] : i \in open}
     /\ Answer(c, "ok")
     /\ UNCHANGED <<locked, profile, group, runs, queue, worker, left, mode>>

\* UPDATE ... WHERE status IN ('active', 'snoozed'); it waits for a worker
\* that is deleting the row. If no row matched, the row is read again: when it
\* is gone the refresh raises, except in snooze, which does not read it again.
UpdateItem(c) ==
  LET item == call[c].item
      op   == call[c].op
      open == {i \in Now(item) : i.status \in Open}
  IN /\ call[c].pc = "update" 
     /\ op \in DOMAIN Verdict
     /\ \A w \in Workers : \A i \in worker[w].deleting : ~ SameItem(i, item)
     /\ items' = (items \ open) \union {[i EXCEPT !.status = Verdict[op]] : i \in open}
     /\ Answer(c, CASE open # {}                        -> "ok"
                    [] Now(item) = {} /\ op # "snooze"  -> "error"
                    [] Now(item) = {} /\ op = "snooze"  -> "refused"
                    [] OTHER -> Closed(op, (CHOOSE i \in Now(item) : TRUE).status))
     /\ UNCHANGED <<locked, profile, group, runs, queue, worker, left, mode>>

\* update_group_members reads the row, then updates it by id.
LoadGroup(c, members) ==
  /\ group # NoGroup
  /\ StartCall(c, "groups",
       [IdleCall EXCEPT !.op = "edit", !.pc = "edit", !.row = group,
                        !.members = members \intersect Enrolled])

\* Mutant: the handler waits for a row that has been replaced.
EditGroupWhenFound(c) ==
  /\ call[c].pc = "edit"
  /\ group # NoGroup /\ group.id = call[c].row.id
  /\ group' = [group EXCEPT !.members = call[c].members]
  /\ Answer(c, "ok")
  /\ UNCHANGED <<locked, profile, items, runs, queue, worker, left, mode>>

\* Mutant: the object is changed and flushed, and the UPDATE leaves out a
\* stability that is the one read.
EditGroupFlushed(c) ==
  LET row == call[c].row
      members == call[c].members
      found == group # NoGroup /\ group.id = row.id
      new == CASE members = {} -> "exited"
               [] members # {} /\ row.stability = "exited" -> "persistent"
               [] OTHER -> row.stability
  IN /\ call[c].pc = "edit"
     /\ group' = IF ~ found THEN group
                 ELSE [group EXCEPT !.members = members,
                                    !.stability = IF new = row.stability THEN @ ELSE new]
     /\ Answer(c, IF found THEN "ok" ELSE "refused")
     /\ UNCHANGED <<locked, profile, items, runs, queue, worker, left, mode>>

EditGroup(c) ==
  LET row == call[c].row
      members == call[c].members
      found == group # NoGroup /\ group.id = row.id
  IN /\ call[c].pc = "edit"
     /\ group' = IF ~ found THEN group
                 ELSE [group EXCEPT !.members = members,
                         !.stability = CASE members = {} -> "exited"
                                         [] members # {} /\ row.stability = "exited" -> "persistent"
                                         [] OTHER -> row.stability]
     /\ Answer(c, IF found THEN "ok" ELSE "refused")
     /\ UNCHANGED <<locked, profile, items, runs, queue, worker, left, mode>>

TeacherStep(c) ==
  \/ \E op \in DOMAIN Verdict, item \in items : LoadItem(c, op, item)
  \/ UpdateItem(c)
  \/ \E members \in SUBSET Students : LoadGroup(c, members)
  \/ EditGroup(c)

Next ==
  \/ \E s \in Students, final \in Finals : LockGrade(s, final)
  \/ \E w \in Workers : WorkerStep(w) \/ FailTask(w)
  \/ \E c \in Calls : TeacherStep(c)

Spec == Init /\ [][Next]_vars

---------------------------------------------------------------------------
(* Properties *)

TypeOK ==
  /\ locked \in [Students -> Seq(0 .. 100)]
  /\ profile \in [Students -> Seq(0 .. 100)]
  /\ group \in GroupRow \union {NoGroup}
  /\ items \subseteq Item
  /\ queue \in Seq(Message)
  /\ \A w \in Workers : Busy(w) => worker[w].message \in Message
  /\ mode \in Modes

\* Two refreshes that overlap leave one active item per signal
\* (compute_and_persist_worklist).
ActiveItemsAreUnique ==
  \A i, j \in items : i.status = "active" /\ j.status = "active" /\ i.signal = j.signal => i = j

\* What the teacher decided about an item is never lost: a refresh keeps it and
\* a racing call cannot turn completed into dismissed or back
\* (compute_and_persist_worklist, complete_/dismiss_/snooze_worklist_item).
DecisionsAreKept ==
  [][\A i \in items : i.status # "active" =>
       \E j \in items' : SameItem(i, j) /\ (i.status # "snoozed" => j = i) /\ j.status # "active"]_vars

\* An item is acted on with effect: the call has found it, and answers 200.
ItemAnswerIsTrue(c) ==
  call[c].pc = "update" /\ call'[c].answer = "ok" =>
    \E i \in items' : SameItem(i, call[c].item) /\ i.status = Verdict[call[c].op]

\* A group is exited exactly while it has no members, although an edit decides by
\* a row that another edit or a recomputation has changed since
\* (update_group_members, compute_and_persist_groups).
ExitedIsEmpty == group # NoGroup => (group.stability = "exited" <=> group.members = {})

\* The label of a group is true of its members after every edit and recomputation,
\* and while nobody edits it, that of a recomputed group tells what was there at the moment it replaced it: persistent after
\* an active group, new after none, exited when an active group dissolves
\* (compute_and_persist_groups).
StabilityTellsHistory ==
  [][/\ ExitedIsEmpty'
     /\ group' # group /\ mode.screen # "groups" =>
          /\ group' # NoGroup =>
               /\ group'.stability = "persistent" <=> group'.members # {} /\ Active(group)
               /\ group'.stability = "new" <=> group'.members # {} /\ ~ Active(group)
          /\ Active(group) => group' # NoGroup]_vars

\* With one worker and no failure, the last lock leaves profiles, groups and
\* the newest worklist up to date: the order in which lock_grade sends the
\* three messages is enough.
SettlesInOrder ==
  mode.serial /\ mode.faults = 0 /\ mode.screen # "groups" /\ Quiet =>
    /\ profile = locked
    /\ (IF group = NoGroup THEN {} ELSE group.members) = Clusters(locked)
    /\ \A i \in items : i.status = "active" =>
         i.signal \in Signals(locked, Persistent(group), locked)
    /\ \A g \in Signals(locked, Persistent(group), locked) : \E i \in items : i.signal = g
=============================================================================
