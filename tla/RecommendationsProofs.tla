------------------------ MODULE RecommendationsProofs ------------------------
(* Theorems about Recommendations, for any number of students, workers,    *)
(* handlers, locks and scans.                                              *)
EXTENDS Recommendations, SumProofs, FiniteSetTheorems, SequenceTheorems, TLAPS

---------------------------------------------------------------------------
(* The inductive invariant *)

Steps == {"idle", "upsert", "lockClass", "replace", "signals", "lockUser", "insert",
          "pending", "propose"}

\* What a worker has read is of the type its next statement needs.
WorkerRecord(r) ==
  /\ DOMAIN r = DOMAIN IdleWorker
  /\ r.pc \in Steps
  /\ r.pc # "idle" => r.message \in Message
  /\ r.pc = "upsert" /\ r.message.student \in Students => r.scores \in Seq(0 .. 100)
  /\ r.pc \in {"lockClass", "replace"} => r.members \subseteq Students
  /\ r.pc = "replace" => r.before \in BOOLEAN
  /\ r.pc \in {"lockUser", "insert"} => r.computed \subseteq Signal
  /\ r.pc = "insert" => \A d \in r.deleting : d.status = "active"

CallRecord(r) ==
  /\ DOMAIN r = DOMAIN IdleCall
  /\ r.pc \in {"idle", "update", "edit", "generate", "decide"}
  /\ r.pc # "idle" => r.answer = "none"
  /\ r.pc = "update" => r.op \in DOMAIN Verdict
  /\ r.pc = "edit" => r.row \in GroupRow /\ r.members \subseteq Students
  /\ r.pc = "generate" => /\ r.row \in GroupRow \union {NoGroup}
                          /\ r.item \in Item \union {NoItem}
  /\ r.pc = "decide" => r.op \in DOMAIN Decision

WorkersAndCalls ==
  /\ DOMAIN worker = Workers /\ worker = [w \in Workers |-> worker[w]]
  /\ DOMAIN call = Calls     /\ call = [c \in Calls |-> call[c]]
  /\ \A w \in Workers : WorkerRecord(worker[w])
  /\ \A c \in Calls : CallRecord(call[c])

Tables ==
  /\ locked \in [Students -> Seq(0 .. 100)]
  /\ profile \in [Students -> Seq(0 .. 100)]
  /\ group \in GroupRow \union {NoGroup}
  /\ items \subseteq Item
  /\ runs \in Nat
  /\ queue \in Seq(Message)
  /\ mode \in Modes
  /\ interventions \in [Advice -> Seq(Intervention)]
  /\ recommendations \in Seq(Recommendation)

\* What a call names exists, and only the groups screen edits groups.
CallsFit ==
  \A c \in Calls :
    /\ call[c].pc = "edit" => mode.screen = "groups"
    /\ call[c].pc = "decide" /\ call[c].op \in {"approve", "refuse"} =>
         call[c].signal \in Advice /\ call[c].n \in DOMAIN interventions[call[c].signal]
    /\ call[c].pc = "decide" /\ call[c].op \in {"assign", "discard"} =>
         call[c].n \in DOMAIN recommendations

Types == Tables /\ WorkersAndCalls

\* One worker at most is between the two statements of a transaction, and what
\* it has read is still true when it writes.
LocksProtect ==
  /\ \A v, w \in Workers : worker[v].pc = "replace" /\ worker[w].pc = "replace" => v = w
  /\ \A v, w \in Workers : worker[v].pc = "insert" /\ worker[w].pc = "insert" => v = w
  /\ \A w \in Workers : worker[w].pc = "replace" /\ mode.screen # "groups" =>
       (worker[w].before <=> Active(group))
  /\ \A w \in Workers : worker[w].pc = "insert" =>
       \A i \in items : i.status = "active" => i \in worker[w].deleting

InterventionsAreLogged ==
  \A a \in Advice : \A n \in DOMAIN interventions[a] :
    interventions[a][n].log = IF IsPending(interventions[a][n])
                              THEN <<"created">> ELSE <<"created", interventions[a][n].status>>

RecommendationsAreLogged ==
  \A n \in DOMAIN recommendations :
    recommendations[n].log = IF IsPending(recommendations[n])
                             THEN <<>> ELSE <<recommendations[n].status>>

PendingIsUnique ==
  \A a \in Advice : \A m, n \in DOMAIN interventions[a] :
    IsPending(interventions[a][m]) /\ IsPending(interventions[a][n]) => m = n

AdviceInv ==
  /\ Types
  /\ CallsFit
  /\ LocksProtect
  /\ ActiveItemsAreUnique
  /\ InterventionsAreLogged
  /\ RecommendationsAreLogged
  /\ PendingIsUnique

---------------------------------------------------------------------------
(* Records of workers and calls *)

LEMMA IdleRecords == WorkerRecord(IdleWorker) /\ CallRecord(IdleCall)
BY DEF WorkerRecord, CallRecord, IdleWorker, IdleCall, Steps

LEMMA WorkerMoves ==
  ASSUME WorkersAndCalls, NEW w \in Workers, NEW new, WorkerRecord(new),
         worker' = [worker EXCEPT ![w] = new], UNCHANGED call
  PROVE  /\ WorkersAndCalls'
         /\ worker'[w] = new
         /\ \A v \in Workers \ {w} : worker'[v] = worker[v]
<1>1. worker'[w] = new /\ \A v \in Workers \ {w} : worker'[v] = worker[v]
  BY DEF WorkersAndCalls
<1>2. DOMAIN worker' = Workers /\ worker' = [v \in Workers |-> worker'[v]]
  BY DEF WorkersAndCalls
<1>3. \A v \in Workers : WorkerRecord(worker'[v])
  BY <1>1 DEF WorkersAndCalls
<1>. QED
  BY <1>1, <1>2, <1>3 DEF WorkersAndCalls

LEMMA CallMoves ==
  ASSUME WorkersAndCalls, NEW c \in Calls, NEW new, CallRecord(new),
         call' = [call EXCEPT ![c] = new], UNCHANGED worker
  PROVE  /\ WorkersAndCalls'
         /\ call'[c] = new
         /\ \A d \in Calls \ {c} : call'[d] = call[d]
<1>1. call'[c] = new /\ \A d \in Calls \ {c} : call'[d] = call[d]
  BY DEF WorkersAndCalls
<1>2. DOMAIN call' = Calls /\ call' = [d \in Calls |-> call'[d]]
  BY DEF WorkersAndCalls
<1>3. \A d \in Calls : CallRecord(call'[d])
  BY <1>1 DEF WorkersAndCalls
<1>. QED
  BY <1>1, <1>2, <1>3 DEF WorkersAndCalls

LEMMA AnswerMoves ==
  ASSUME WorkersAndCalls, NEW c \in Calls, NEW answer, Answer(c, answer), UNCHANGED worker
  PROVE  /\ WorkersAndCalls'
         /\ call'[c].pc = "idle" /\ call'[c].answer = answer
         /\ \A d \in Calls \ {c} : call'[d] = call[d]
<1>. DEFINE new == [IdleCall EXCEPT !.op = call[c].op, !.answer = answer]
<1>1. CallRecord(new) /\ new.pc = "idle" /\ new.answer = answer
  BY DEF CallRecord, IdleCall
<1>2. call' = [call EXCEPT ![c] = new]
  BY DEF Answer
<1>. HIDE DEF new
<1>. QED
  BY <1>1, <1>2, CallMoves

\* The message a worker takes.
LEMMA TakenMessage ==
  ASSUME Tables, queue # <<>>
  PROVE  Head(queue) \in Message /\ Tail(queue) \in Seq(Message)
BY DEF Tables

LEMMA TakeMoves ==
  ASSUME Types, NEW w \in Workers, NEW task, NEW state, Take(w, task, state),
         WorkerRecord([state EXCEPT !.message = Head(queue)]), UNCHANGED advice
  PROVE  /\ Types'
         /\ worker'[w] = [state EXCEPT !.message = Head(queue)]
         /\ \A v \in Workers \ {w} : worker'[v] = worker[v]
         /\ UNCHANGED <<locked, profile, group, items, runs, call, mode>>
<1>. DEFINE new == [state EXCEPT !.message = Head(queue)]
<1>1. worker' = [worker EXCEPT ![w] = new] /\ UNCHANGED call
  BY DEF Take
<1>2. WorkerRecord(new)
  OBVIOUS
<1>. HIDE DEF new
<1>3. /\ WorkersAndCalls' /\ worker'[w] = new
      /\ \A v \in Workers \ {w} : worker'[v] = worker[v]
  BY <1>1, <1>2, WorkerMoves DEF Types
<1>4. queue' \in Seq(Message)
  BY TakenMessage DEF Take, MayTake, Types
<1>5. Tables'
  BY <1>4 DEF Take, Types, Tables, advice
<1>6. UNCHANGED <<locked, profile, group, items, runs, call, mode>>
  BY DEF Take
<1>. QED
  BY <1>3, <1>5, <1>6 DEF new, Types

LEMMA ProceedMoves ==
  ASSUME Types, NEW w \in Workers, NEW new, Proceed(w, new), WorkerRecord(new),
         UNCHANGED <<profile, group, items, runs, advice>>
  PROVE  /\ Types'
         /\ worker'[w] = new
         /\ \A v \in Workers \ {w} : worker'[v] = worker[v]
<1>1. /\ WorkersAndCalls' /\ worker'[w] = new
      /\ \A v \in Workers \ {w} : worker'[v] = worker[v]
  BY WorkerMoves DEF Types, Proceed
<1>2. Tables'
  BY DEF Proceed, Types, Tables, advice
<1>. QED
  BY <1>1, <1>2 DEF Types

---------------------------------------------------------------------------
(* Workers keep the types, and where each step leaves its worker *)

LEMMA ClustersAreStudents == \A profiles : Clusters(profiles) \subseteq Students
BY PipelineAssumption DEF Clusters, Weak

\* The steps that take a message.
LEMMA TakingKeepsTypes ==
  ASSUME Types, NEW w \in Workers, UNCHANGED advice,
         ReadGrades(w) \/ ReadProfiles(w) \/ StartWorklist(w) \/ StartScan(w)
  PROVE  /\ Types'
         /\ worker'[w].pc \in {"upsert", "lockClass", "signals", "pending"}
         /\ \A v \in Workers \ {w} : worker'[v] = worker[v]
         /\ UNCHANGED <<group, items, runs, call, mode>>
<1>1. CASE ReadGrades(w)
  <2>. DEFINE state == [IdleWorker EXCEPT !.pc = "upsert", !.scores = locked[Head(queue).student]]
  <2>1. queue # <<>> /\ Take(w, "profile", state)
    BY <1>1 DEF ReadGrades, Take, MayTake
  <2>2. Head(queue) \in Message
    BY <2>1, TakenMessage DEF Types
  <2>3. /\ WorkerRecord([state EXCEPT !.message = Head(queue)])
        /\ [state EXCEPT !.message = Head(queue)].pc = "upsert"
    BY <2>2 DEF WorkerRecord, IdleWorker, Steps, Types, Tables
  <2>. HIDE DEF state
  <2>. QED
    BY <2>1, <2>3, TakeMoves
<1>2. CASE ReadProfiles(w)
  <2>. DEFINE state == [IdleWorker EXCEPT !.pc = "lockClass", !.members = Clusters(profile)]
  <2>1. queue # <<>> /\ Take(w, "groups", state)
    BY <1>2 DEF ReadProfiles, Take, MayTake
  <2>2. Head(queue) \in Message
    BY <2>1, TakenMessage DEF Types
  <2>3. /\ WorkerRecord([state EXCEPT !.message = Head(queue)])
        /\ [state EXCEPT !.message = Head(queue)].pc = "lockClass"
    BY <2>2, ClustersAreStudents DEF WorkerRecord, IdleWorker, Steps
  <2>. HIDE DEF state
  <2>. QED
    BY <2>1, <2>3, TakeMoves
<1>3. CASE StartWorklist(w)
  <2>. DEFINE state == [IdleWorker EXCEPT !.pc = "signals", !.profiles = profile]
  <2>1. queue # <<>> /\ Take(w, "worklist", state)
    BY <1>3 DEF StartWorklist, Take, MayTake
  <2>2. Head(queue) \in Message
    BY <2>1, TakenMessage DEF Types
  <2>3. /\ WorkerRecord([state EXCEPT !.message = Head(queue)])
        /\ [state EXCEPT !.message = Head(queue)].pc = "signals"
    BY <2>2 DEF WorkerRecord, IdleWorker, Steps
  <2>. HIDE DEF state
  <2>. QED
    BY <2>1, <2>3, TakeMoves
<1>4. CASE StartScan(w)
  <2>. DEFINE state == [IdleWorker EXCEPT !.pc = "pending", !.profiles = profile]
  <2>1. queue # <<>> /\ Take(w, "scan", state)
    BY <1>4 DEF StartScan, Take, MayTake
  <2>2. Head(queue) \in Message
    BY <2>1, TakenMessage DEF Types
  <2>3. /\ WorkerRecord([state EXCEPT !.message = Head(queue)])
        /\ [state EXCEPT !.message = Head(queue)].pc = "pending"
    BY <2>2 DEF WorkerRecord, IdleWorker, Steps
  <2>. HIDE DEF state
  <2>. QED
    BY <2>1, <2>3, TakeMoves
<1>. QED
  BY <1>1, <1>2, <1>3, <1>4

LEMMA UpsertKeepsTypes ==
  ASSUME Types, NEW w \in Workers, UpsertProfile(w), UNCHANGED advice
  PROVE  /\ Types'
         /\ worker'[w].pc = "idle"
         /\ \A v \in Workers \ {w} : worker'[v] = worker[v]
         /\ UNCHANGED <<group, items, runs, call, mode>>
<1>1. WorkerRecord(worker[w]) /\ worker[w].pc = "upsert"
  BY DEF UpsertProfile, Types, WorkersAndCalls
<1>2. profile' \in [Students -> Seq(0 .. 100)]
  <2>1. CASE worker[w].message.student \in Students
    BY <1>1, <2>1 DEF WorkerRecord, UpsertProfile, Types, Tables
  <2>2. CASE worker[w].message.student \notin Students
    BY <2>2 DEF UpsertProfile, Types, Tables
  <2>. QED
    BY <2>1, <2>2
<1>3. Tables'
  BY <1>2 DEF UpsertProfile, Proceed, Types, Tables, advice
<1>4. /\ WorkersAndCalls' /\ worker'[w] = IdleWorker
      /\ \A v \in Workers \ {w} : worker'[v] = worker[v]
  BY WorkerMoves, IdleRecords DEF UpsertProfile, Proceed, Types
<1>. QED
  BY <1>3, <1>4 DEF UpsertProfile, Proceed, Types, IdleWorker

LEMMA LockClassKeepsTypes ==
  ASSUME Types, NEW w \in Workers, LockClass(w), UNCHANGED advice
  PROVE  /\ Types'
         /\ worker'[w].pc = "replace" /\ (worker'[w].before <=> Active(group))
         /\ \A v \in Workers \ {w} : worker'[v] = worker[v]
<1>. DEFINE new == [worker[w] EXCEPT !.pc = "replace", !.before = Active(group)]
<1>1. WorkerRecord(worker[w]) /\ worker[w].pc = "lockClass"
  BY DEF LockClass, Types, WorkersAndCalls
<1>2. Active(group) \in BOOLEAN
  BY DEF Active
<1>3. /\ DOMAIN new = DOMAIN IdleWorker
      /\ new.pc = "replace" /\ new.before = Active(group)
      /\ new.message = worker[w].message /\ new.members = worker[w].members
  BY <1>1 DEF WorkerRecord, IdleWorker
<1>. HIDE DEF new
<1>4. WorkerRecord(new)
  BY <1>1, <1>2, <1>3 DEF WorkerRecord, Steps
<1>5. Proceed(w, new) /\ UNCHANGED <<profile, group, items, runs>>
  BY DEF LockClass, new
<1>. QED
  BY <1>3, <1>4, <1>5, ProceedMoves

LEMMA ReadSignalsKeepsTypes ==
  ASSUME Types, NEW w \in Workers, ReadSignals(w), UNCHANGED advice
  PROVE  /\ Types'
         /\ worker'[w].pc = "lockUser"
         /\ \A v \in Workers \ {w} : worker'[v] = worker[v]
<1>. DEFINE computed == Signals(worker[w].profiles, Persistent(group), locked)
            new == [IdleWorker EXCEPT !.pc = "lockUser", !.message = worker[w].message,
                                      !.computed = computed]
<1>1. WorkerRecord(worker[w]) /\ worker[w].pc = "signals"
  BY DEF ReadSignals, Types, WorkersAndCalls
<1>2. computed \subseteq Signal
  BY DEF Signals
<1>. HIDE DEF computed
<1>3. WorkerRecord(new) /\ new.pc = "lockUser"
  BY <1>1, <1>2 DEF WorkerRecord, IdleWorker, Steps
<1>4. Proceed(w, new) /\ UNCHANGED <<profile, group, items, runs>>
  BY DEF ReadSignals, computed
<1>. HIDE DEF new
<1>. QED
  BY <1>3, <1>4, ProceedMoves

LEMMA DeleteActiveKeepsTypes ==
  ASSUME Types, NEW w \in Workers, DeleteActive(w), UNCHANGED advice
  PROVE  /\ Types'
         /\ worker'[w].pc = "insert"
         /\ worker'[w].deleting = {i \in items : i.status = "active"}
         /\ \A v \in Workers \ {w} : worker'[v] = worker[v]
<1>. DEFINE found == {i \in items : i.status = "active"}
            new == [worker[w] EXCEPT !.pc = "insert", !.deleting = found]
<1>1. WorkerRecord(worker[w]) /\ worker[w].pc = "lockUser"
  BY DEF DeleteActive, Types, WorkersAndCalls
<1>2. \A d \in found : d.status = "active"
  OBVIOUS
<1>. HIDE DEF found
<1>3. /\ DOMAIN new = DOMAIN IdleWorker
      /\ new.pc = "insert" /\ new.deleting = found
      /\ new.message = worker[w].message /\ new.computed = worker[w].computed
  BY <1>1 DEF WorkerRecord, IdleWorker
<1>4. Proceed(w, new) /\ UNCHANGED <<profile, group, items, runs>>
  BY DEF DeleteActive, found
<1>. HIDE DEF new
<1>5. WorkerRecord(new)
  BY <1>1, <1>2, <1>3 DEF WorkerRecord, Steps
<1>6. /\ Types' /\ worker'[w] = new
      /\ \A v \in Workers \ {w} : worker'[v] = worker[v]
  BY <1>4, <1>5, ProceedMoves
<1>. QED
  BY <1>3, <1>6 DEF found

LEMMA ReadPendingKeepsTypes ==
  ASSUME Types, NEW w \in Workers, ReadPending(w)
  PROVE  /\ Types'
         /\ worker'[w].pc = "propose"
         /\ \A v \in Workers \ {w} : worker'[v] = worker[v]
<1>. DEFINE computed == {a \in Advice : /\ worker[w].profiles[a[1]] # <<>>
                                        /\ a[2] \in Interventions(worker[w].profiles[a[1]])
                                        /\ ~ HasPending(a)}
            new == [IdleWorker EXCEPT !.pc = "propose", !.message = worker[w].message,
                                      !.computed = computed]
<1>1. WorkerRecord(worker[w]) /\ worker[w].pc = "pending"
  BY DEF ReadPending, Types, WorkersAndCalls
<1>2. Proceed(w, new) /\ UNCHANGED <<profile, group, items, runs, advice>>
  BY DEF ReadPending
<1>. HIDE DEF computed
<1>3. WorkerRecord(new) /\ new.pc = "propose"
  BY <1>1 DEF WorkerRecord, IdleWorker, Steps
<1>. HIDE DEF new
<1>. QED
  BY <1>2, <1>3, ProceedMoves

LEMMA ReplaceKeepsTypes ==
  ASSUME Types, NEW w \in Workers, ReplaceGroupsAndAdvice(w)
  PROVE  /\ Types'
         /\ worker'[w].pc = "idle"
         /\ \A v \in Workers \ {w} : worker'[v] = worker[v]
         /\ DOMAIN recommendations' = DOMAIN recommendations
         /\ \A n \in DOMAIN recommendations :
              /\ recommendations'[n].status = recommendations[n].status
              /\ recommendations'[n].log = recommendations[n].log
<1>1. WorkerRecord(worker[w]) /\ worker[w].pc = "replace"
  BY DEF ReplaceGroupsAndAdvice, ReplaceGroups, Types, WorkersAndCalls
<1>2. worker[w].members \subseteq Students
  BY <1>1 DEF WorkerRecord
<1>3. group' \in GroupRow \union {NoGroup} /\ runs' \in Nat
  <2>1. runs \in Nat
    BY DEF Types, Tables
  <2>2. \A members \in SUBSET Students, stability \in Stability :
          [id |-> runs, members |-> members, stability |-> stability] \in GroupRow
    BY <2>1 DEF GroupRow
  <2>3. "persistent" \in Stability /\ "new" \in Stability /\ "exited" \in Stability
    BY DEF Stability
  <2>8. runs' \in Nat
    BY <2>1 DEF ReplaceGroupsAndAdvice, ReplaceGroups
  <2>4. CASE worker[w].members # {} /\ worker[w].before
    <3>1. group' = [id |-> runs, members |-> worker[w].members, stability |-> "persistent"]
      BY <2>4 DEF ReplaceGroupsAndAdvice, ReplaceGroups
    <3>. QED
      BY <1>2, <2>8, <2>2, <2>3, <3>1
  <2>5. CASE worker[w].members # {} /\ ~ worker[w].before
    <3>1. group' = [id |-> runs, members |-> worker[w].members, stability |-> "new"]
      BY <2>5 DEF ReplaceGroupsAndAdvice, ReplaceGroups
    <3>. QED
      BY <1>2, <2>8, <2>2, <2>3, <3>1
  <2>6. CASE worker[w].members = {} /\ worker[w].before
    <3>1. group' = [id |-> runs, members |-> {}, stability |-> "exited"]
      BY <2>6 DEF ReplaceGroupsAndAdvice, ReplaceGroups
    <3>. QED
      BY <2>8, <2>2, <2>3, <3>1
  <2>7. CASE worker[w].members = {} /\ ~ worker[w].before
    <3>1. group' = NoGroup
      BY <2>7 DEF ReplaceGroupsAndAdvice, ReplaceGroups
    <3>. QED
      BY <2>8, <3>1
  <2>. QED
    BY <2>4, <2>5, <2>6, <2>7
<1>4. /\ recommendations' \in Seq(Recommendation)
      /\ DOMAIN recommendations' = DOMAIN recommendations
      /\ \A n \in DOMAIN recommendations :
           /\ recommendations'[n].status = recommendations[n].status
           /\ recommendations'[n].log = recommendations[n].log
  <2>. DEFINE gone(n) == group # NoGroup /\ recommendations[n].for # NoGroup
                           /\ recommendations[n].for.id = group.id
              new(n) == IF gone(n) THEN [recommendations[n] EXCEPT !.present = FALSE]
                        ELSE recommendations[n]
  <2>1. recommendations' = [n \in DOMAIN recommendations |-> new(n)]
    BY DEF ReplaceGroupsAndAdvice
  <2>2. recommendations \in Seq(Recommendation)
    BY DEF Types, Tables
  <2>3. ASSUME NEW n \in DOMAIN recommendations
        PROVE  /\ new(n) \in Recommendation
               /\ new(n).status = recommendations[n].status
               /\ new(n).log = recommendations[n].log
    <3>1. recommendations[n] \in Recommendation
      BY <2>2
    <3>2. CASE gone(n)
      <4>. HIDE DEF gone
      <4>. QED
        BY <3>1, <3>2 DEF Recommendation
    <3>3. CASE ~ gone(n)
      BY <3>1, <3>3
    <3>. QED
      BY <3>2, <3>3
  <2>. HIDE DEF new
  <2>4. DOMAIN recommendations = 1 .. Len(recommendations) /\ Len(recommendations) \in Nat
    BY <2>2
  <2>5. recommendations' \in [1 .. Len(recommendations) -> Recommendation]
    BY <2>1, <2>3, <2>4
  <2>6. recommendations' \in Seq(Recommendation)
    BY <2>4, <2>5
  <2>. QED
    BY <2>1, <2>3, <2>4, <2>6
<1>5. Tables'
  BY <1>3, <1>4 DEF ReplaceGroupsAndAdvice, ReplaceGroups, Proceed, Types, Tables
<1>6. /\ WorkersAndCalls' /\ worker'[w] = IdleWorker
      /\ \A v \in Workers \ {w} : worker'[v] = worker[v]
  BY WorkerMoves, IdleRecords DEF ReplaceGroupsAndAdvice, ReplaceGroups, Proceed, Types
<1>. QED
  BY <1>4, <1>5, <1>6 DEF Types, IdleWorker

LEMMA InsertKeepsTypes ==
  ASSUME Types, NEW w \in Workers, InsertItemsAndDetach(w)
  PROVE  /\ Types'
         /\ worker'[w].pc = "idle"
         /\ \A v \in Workers \ {w} : worker'[v] = worker[v]
         /\ DOMAIN recommendations' = DOMAIN recommendations
         /\ \A n \in DOMAIN recommendations :
              /\ recommendations'[n].status = recommendations[n].status
              /\ recommendations'[n].log = recommendations[n].log
<1>1. WorkerRecord(worker[w]) /\ worker[w].pc = "insert"
  BY DEF InsertItemsAndDetach, InsertItems, Types, WorkersAndCalls
<1>2. worker[w].computed \subseteq Signal
  BY <1>1 DEF WorkerRecord
<1>3. items' \subseteq Item /\ runs' \in Nat
  <2>1. runs \in Nat /\ items \subseteq Item
    BY DEF Types, Tables
  <2>2. \A g \in worker[w].computed : [signal |-> g, run |-> runs, status |-> "active"] \in Item
    BY <1>2, <2>1 DEF Item
  <2>3. {[signal |-> g, run |-> runs, status |-> "active"] : g \in worker[w].computed} \subseteq Item
    BY <2>2
  <2>. QED
    BY <2>1, <2>3 DEF InsertItemsAndDetach, InsertItems
<1>4. /\ recommendations' \in Seq(Recommendation)
      /\ DOMAIN recommendations' = DOMAIN recommendations
      /\ \A n \in DOMAIN recommendations :
           /\ recommendations'[n].status = recommendations[n].status
           /\ recommendations'[n].log = recommendations[n].log
  <2>. DEFINE new(n) == IF recommendations[n].item \in worker[w].deleting
                        THEN [recommendations[n] EXCEPT !.item = NoItem]
                        ELSE recommendations[n]
  <2>1. recommendations' = [n \in DOMAIN recommendations |-> new(n)]
    BY DEF InsertItemsAndDetach
  <2>2. recommendations \in Seq(Recommendation)
    BY DEF Types, Tables
  <2>3. ASSUME NEW n \in DOMAIN recommendations
        PROVE  /\ new(n) \in Recommendation
               /\ new(n).status = recommendations[n].status
               /\ new(n).log = recommendations[n].log
    <3>1. recommendations[n] \in Recommendation
      BY <2>2
    <3>. QED
      BY <3>1 DEF Recommendation
  <2>. HIDE DEF new
  <2>4. DOMAIN recommendations = 1 .. Len(recommendations) /\ Len(recommendations) \in Nat
    BY <2>2
  <2>5. recommendations' \in [1 .. Len(recommendations) -> Recommendation]
    BY <2>1, <2>3, <2>4
  <2>6. recommendations' \in Seq(Recommendation)
    BY <2>4, <2>5
  <2>. QED
    BY <2>1, <2>3, <2>4, <2>6
<1>5. Tables'
  BY <1>3, <1>4 DEF InsertItemsAndDetach, InsertItems, Proceed, Types, Tables
<1>6. /\ WorkersAndCalls' /\ worker'[w] = IdleWorker
      /\ \A v \in Workers \ {w} : worker'[v] = worker[v]
  BY WorkerMoves, IdleRecords DEF InsertItemsAndDetach, InsertItems, Proceed, Types
<1>. QED
  BY <1>4, <1>5, <1>6 DEF Types, IdleWorker

\* What a scan adds to the interventions of one signal.
Created == [status |-> "pending_review", log |-> <<"created">>]

LEMMA ProposeKeepsTypes ==
  ASSUME Types, NEW w \in Workers, Propose(w)
  PROVE  /\ Types'
         /\ worker'[w].pc = "idle"
         /\ \A v \in Workers \ {w} : worker'[v] = worker[v]
         /\ \A a \in Advice :
              \/ interventions'[a] = interventions[a]
              \/ ~ HasPending(a) /\ interventions'[a] = Append(interventions[a], Created)
<1>1. Created \in Intervention
  BY DEF Created, Intervention
<1>2. \A a \in Advice :
        /\ interventions'[a] \in Seq(Intervention)
        /\ \/ interventions'[a] = interventions[a]
           \/ ~ HasPending(a) /\ interventions'[a] = Append(interventions[a], Created)
  <2>. SUFFICES ASSUME NEW a \in Advice
                PROVE  /\ interventions'[a] \in Seq(Intervention)
                       /\ \/ interventions'[a] = interventions[a]
                          \/ /\ ~ HasPending(a)
                             /\ interventions'[a] = Append(interventions[a], Created)
    OBVIOUS
  <2>1. interventions[a] \in Seq(Intervention)
    BY DEF Types, Tables
  <2>2. interventions'[a] = IF a \in worker[w].computed /\ ~ HasPending(a)
                            THEN Append(interventions[a], Created)
                            ELSE interventions[a]
    BY DEF Propose, Created
  <2>3. Append(interventions[a], Created) \in Seq(Intervention)
    BY <1>1, <2>1
  <2>. QED
    BY <2>1, <2>2, <2>3
<1>3. interventions' \in [Advice -> Seq(Intervention)]
  <2>1. interventions' = [a \in Advice |-> interventions'[a]]
    BY DEF Propose
  <2>. QED
    BY <1>2, <2>1
<1>4. Tables'
  BY <1>3 DEF Propose, Proceed, Types, Tables
<1>5. /\ WorkersAndCalls' /\ worker'[w] = IdleWorker
      /\ \A v \in Workers \ {w} : worker'[v] = worker[v]
  BY WorkerMoves, IdleRecords DEF Propose, Proceed, Types
<1>. QED
  BY <1>2, <1>4, <1>5 DEF Types, IdleWorker

LEMMA FailKeepsTypes ==
  ASSUME Types, NEW w \in Workers, FailTask(w), UNCHANGED advice
  PROVE  /\ Types'
         /\ worker'[w].pc = "idle"
         /\ \A v \in Workers \ {w} : worker'[v] = worker[v]
<1>1. worker[w].message \in Message
  BY DEF FailTask, Busy, Types, WorkersAndCalls, WorkerRecord
<1>2. queue \in Seq(Message)
  BY DEF Types, Tables
<1>3. queue' \in Seq(Message)
  <2>1. Append(queue, worker[w].message) \in Seq(Message)
    BY <1>1, <1>2
  <2>. QED
    BY <1>2, <2>1 DEF FailTask
<1>4. Tables'
  BY <1>3 DEF FailTask, Types, Tables, advice
<1>5. /\ WorkersAndCalls' /\ worker'[w] = IdleWorker
      /\ \A v \in Workers \ {w} : worker'[v] = worker[v]
  BY WorkerMoves, IdleRecords DEF FailTask, Types
<1>. QED
  BY <1>4, <1>5 DEF Types, IdleWorker

---------------------------------------------------------------------------
(* Locks and scans keep the types *)

\* A score on the scale of its criterion is a percentage.
LEMMA NormalisedIsPercentage ==
  ASSUME NEW final \in Finals
  PROVE  Normalised(final, MinScore, MaxScore) \in 0 .. 100
<1>1. final \in Int /\ MinScore \in Int /\ MaxScore \in Int
  BY PipelineAssumption
<1>2. CASE MaxScore <= MinScore
  BY <1>1, <1>2 DEF Normalised
<1>3. CASE ~ (MaxScore <= MinScore)
  <2>. DEFINE share == (100 * (final - MinScore)) \div (MaxScore - MinScore)
              low == Min({100, share})
  <2>1. share \in Int
    <3>1. 100 * (final - MinScore) \in Int
      BY <1>1
    <3>2. MaxScore - MinScore \in Int /\ MaxScore - MinScore > 0
      BY <1>1, <1>3
    <3>. QED
      BY <3>1, <3>2
  <2>2. Normalised(final, MinScore, MaxScore) = Max({0, low})
    BY <1>3 DEF Normalised
  <2>. HIDE DEF share
  <2>3. low \in {100, share} /\ low <= 100
    <3>1. \E x \in {100, share} : \A y \in {100, share} : x =< y
      BY <2>1
    <3>. QED
      BY <3>1 DEF Min
  <2>4. low \in Int /\ low <= 100
    BY <2>1, <2>3
  <2>. HIDE DEF low
  <2>5. Max({0, low}) \in {0, low} /\ Max({0, low}) >= 0
    <3>1. \E x \in {0, low} : \A y \in {0, low} : x >= y
      BY <2>4
    <3>. QED
      BY <3>1 DEF Max
  <2>. QED
    BY <2>2, <2>4, <2>5
<1>. QED
  BY <1>2, <1>3

LEMMA SentAreMessages ==
  ASSUME NEW task \in {"profile", "groups", "worklist"},
         NEW s \in Students \union {NoStudent}, NEW lost
  PROVE  Sent(task, s, lost) \in Seq(Message)
<1>1. [task |-> task, student |-> s] \in Message
  BY DEF Message
<1>. DEFINE m == [task |-> task, student |-> s]
<1>2. <<m>> \in Seq(Message) /\ <<>> \in Seq(Message)
  BY <1>1
<1>. HIDE DEF m
<1>. QED
  BY <1>2 DEF Sent, m

LEMMA LockGradeKeepsTypes ==
  ASSUME Types, NEW s \in Students, NEW final \in Finals, LockGrade(s, final), UNCHANGED advice
  PROVE  Types'
<1>1. locked' \in [Students -> Seq(0 .. 100)]
  <2>. DEFINE score == Normalised(final, MinScore, MaxScore)
  <2>1. score \in 0 .. 100
    BY NormalisedIsPercentage
  <2>. HIDE DEF score
  <2>2. locked[s] \in Seq(0 .. 100)
    BY DEF Types, Tables
  <2>3. Append(locked[s], score) \in Seq(0 .. 100)
    BY <2>1, <2>2
  <2>. QED
    BY <2>3 DEF LockGrade, Types, Tables, score
<1>2. queue' \in Seq(Message)
  <2>1. PICK lost : queue' = queue \o Messages(s, lost)
    BY DEF LockGrade
  <2>2. Messages(s, lost) \in Seq(Message)
    <3>1. /\ Sent("profile", s, lost) \in Seq(Message)
          /\ Sent("groups", NoStudent, lost) \in Seq(Message)
          /\ Sent("worklist", NoStudent, lost) \in Seq(Message)
      BY SentAreMessages
    <3>2. Sent("profile", s, lost) \o Sent("groups", NoStudent, lost) \in Seq(Message)
      BY <3>1
    <3>. QED
      BY <3>1, <3>2 DEF Messages
  <2>. QED
    BY <2>1, <2>2 DEF Types, Tables
<1>3. Tables'
  BY <1>1, <1>2 DEF LockGrade, Types, Tables, advice
<1>. QED
  BY <1>3 DEF LockGrade, Types, WorkersAndCalls

LEMMA BeatKeepsTypes ==
  ASSUME Types, Beat
  PROVE  Types'
<1>1. [task |-> "scan", student |-> NoStudent] \in Message
  BY DEF Message
<1>2. queue' \in Seq(Message)
  BY <1>1 DEF Beat, Types, Tables
<1>3. Tables'
  BY <1>2 DEF Beat, Types, Tables, advice
<1>. QED
  BY <1>3 DEF Beat, Types, WorkersAndCalls

---------------------------------------------------------------------------
(* The teacher's calls keep the types; what they answer *)

LEMMA StartMoves ==
  ASSUME Types, NEW c \in Calls, NEW screen, NEW state, StartCall(c, screen, state),
         CallRecord(state), UNCHANGED advice
  PROVE  /\ Types'
         /\ call'[c] = state /\ mode.screen = screen /\ call[c].pc = "idle"
         /\ \A d \in Calls \ {c} : call'[d] = call[d]
<1>1. /\ WorkersAndCalls' /\ call'[c] = state
      /\ \A d \in Calls \ {c} : call'[d] = call[d]
  BY CallMoves DEF StartCall, Types
<1>2. Tables'
  BY DEF StartCall, Types, Tables, advice
<1>. QED
  BY <1>1, <1>2 DEF StartCall, Types

LEMMA LoadItemKeepsTypes ==
  ASSUME Types, NEW c \in Calls, NEW op \in DOMAIN Verdict, NEW item \in items,
         LoadItem(c, op, item), UNCHANGED advice
  PROVE  /\ Types'
         /\ call[c].pc = "idle" /\ call'[c].pc \in {"idle", "update"}
         /\ \A d \in Calls \ {c} : call'[d] = call[d]
<1>. DEFINE state == IF item.status \in Open
                     THEN [IdleCall EXCEPT !.op = op, !.pc = "update", !.item = item]
                     ELSE [IdleCall EXCEPT !.op = op, !.answer = Closed(op, item.status)]
<1>1. StartCall(c, "worklist", state)
  BY DEF LoadItem
<1>2. CallRecord(state) /\ state.pc \in {"idle", "update"}
  <2>1. CASE item.status \in Open
    BY <2>1 DEF CallRecord, IdleCall
  <2>2. CASE item.status \notin Open
    BY <2>2 DEF CallRecord, IdleCall
  <2>. QED
    BY <2>1, <2>2
<1>. HIDE DEF state
<1>. QED
  BY <1>1, <1>2, StartMoves

LEMMA LoadGroupKeepsTypes ==
  ASSUME Types, NEW c \in Calls, NEW members \in SUBSET Students,
         LoadGroup(c, members), UNCHANGED advice
  PROVE  /\ Types'
         /\ call[c].pc = "idle" /\ call'[c].pc = "edit" /\ mode.screen = "groups"
         /\ \A d \in Calls \ {c} : call'[d] = call[d]
<1>. DEFINE kept == members \intersect Enrolled
            state == [IdleCall EXCEPT !.op = "edit", !.pc = "edit", !.row = group,
                                      !.members = kept]
<1>1. StartCall(c, "groups", state)
  BY DEF LoadGroup
<1>2. group \in GroupRow
  BY DEF LoadGroup, Types, Tables
<1>3. kept \subseteq Students
  OBVIOUS
<1>. HIDE DEF kept
<1>4. CallRecord(state) /\ state.pc = "edit"
  BY <1>2, <1>3 DEF CallRecord, IdleCall
<1>. HIDE DEF state
<1>. QED
  BY <1>1, <1>4, StartMoves

\* The rows of items a conditional UPDATE changes.
OpenRows(item) == {i \in Now(item) : i.status \in Open}

Moved(i, op) == [i EXCEPT !.status = Verdict[op]]

LEMMA MovedItem ==
  ASSUME NEW i \in Item, NEW op \in DOMAIN Verdict
  PROVE  /\ Moved(i, op) \in Item
         /\ Moved(i, op).status = Verdict[op] /\ Verdict[op] # "active"
         /\ Moved(i, op).signal = i.signal /\ Moved(i, op).run = i.run
<1>1. Verdict[op] \in {"completed", "snoozed", "dismissed"}
  BY DEF Verdict
<1>. QED
  BY <1>1 DEF Moved, Item

LEMMA UpdateItemKeepsTypes ==
  ASSUME Types, NEW c \in Calls, UpdateItem(c), UNCHANGED advice
  PROVE  /\ Types'
         /\ call[c].op \in DOMAIN Verdict
         /\ items' = (items \ OpenRows(call[c].item)) \union
                     {Moved(i, call[c].op) : i \in OpenRows(call[c].item)}
         /\ call'[c].pc = "idle"
         /\ \A d \in Calls \ {c} : call'[d] = call[d]
<1>. DEFINE item == call[c].item
            op == call[c].op
<1>1. op \in DOMAIN Verdict
  BY DEF UpdateItem
<1>2. items' = (items \ OpenRows(item)) \union {Moved(i, op) : i \in OpenRows(item)}
  BY DEF UpdateItem, OpenRows, Moved
<1>3. items' \subseteq Item
  <2>1. OpenRows(item) \subseteq items /\ items \subseteq Item
    BY DEF OpenRows, Now, Types, Tables
  <2>2. \A i \in OpenRows(item) : Moved(i, op) \in Item
    BY <1>1, <2>1, MovedItem
  <2>. QED
    BY <1>2, <2>1, <2>2
<1>4. Tables'
  BY <1>3 DEF UpdateItem, Types, Tables, advice
<1>5. PICK answer : Answer(c, answer)
  BY DEF UpdateItem
<1>6. WorkersAndCalls' /\ call'[c].pc = "idle" /\ \A d \in Calls \ {c} : call'[d] = call[d]
  BY <1>5, AnswerMoves DEF UpdateItem, Types
<1>. QED
  BY <1>1, <1>2, <1>4, <1>6 DEF Types

LEMMA EditGroupKeepsTypes ==
  ASSUME Types, NEW c \in Calls, EditGroup(c), UNCHANGED advice
  PROVE  /\ Types'
         /\ call[c].pc = "edit" /\ call'[c].pc = "idle"
         /\ \A d \in Calls \ {c} : call'[d] = call[d]
<1>. DEFINE row == call[c].row
            members == call[c].members
            found == group # NoGroup /\ group.id = row.id
            stability == CASE members = {} -> "exited"
                           [] members # {} /\ row.stability = "exited" -> "persistent"
                           [] OTHER -> row.stability
<1>1. CallRecord(call[c]) /\ call[c].pc = "edit"
  BY DEF EditGroup, Types, WorkersAndCalls
<1>2. row \in GroupRow /\ members \subseteq Students
  BY <1>1 DEF CallRecord
<1>3. stability \in Stability
  <2>1. row.stability \in Stability
    BY <1>2 DEF GroupRow
  <2>2. CASE members = {}
    BY <2>2 DEF Stability
  <2>3. CASE members # {} /\ row.stability = "exited"
    BY <2>3 DEF Stability
  <2>4. CASE members # {} /\ row.stability # "exited"
    BY <2>1, <2>4
  <2>. QED
    BY <2>2, <2>3, <2>4
<1>4. group' = IF ~ found THEN group
               ELSE [group EXCEPT !.members = members, !.stability = stability]
  BY DEF EditGroup
<1>. HIDE DEF stability, members
<1>5. group' \in GroupRow \union {NoGroup}
  <2>1. group \in GroupRow \union {NoGroup}
    BY DEF Types, Tables
  <2>2. CASE found
    <3>1. group \in GroupRow
      BY <2>1, <2>2
    <3>2. [group EXCEPT !.members = members, !.stability = stability] \in GroupRow
      BY <1>2, <1>3, <3>1 DEF GroupRow
    <3>. QED
      BY <1>4, <2>2, <3>2
  <2>3. CASE ~ found
    BY <1>4, <2>1, <2>3
  <2>. QED
    BY <2>2, <2>3
<1>6. Tables'
  BY <1>5 DEF EditGroup, Types, Tables, advice
<1>7. PICK answer : Answer(c, answer)
  BY DEF EditGroup
<1>8. WorkersAndCalls' /\ call'[c].pc = "idle" /\ \A d \in Calls \ {c} : call'[d] = call[d]
  BY <1>7, AnswerMoves DEF EditGroup, Types
<1>. QED
  BY <1>1, <1>6, <1>8 DEF Types

LEMMA StartGroupAdviceKeepsTypes ==
  ASSUME Types, NEW c \in Calls, StartGroupAdvice(c)
  PROVE  /\ Types'
         /\ call[c].pc = "idle" /\ call'[c].pc = "generate"
         /\ \A d \in Calls \ {c} : call'[d] = call[d]
<1>. DEFINE state == [IdleCall EXCEPT !.op = "generate", !.pc = "generate", !.row = group]
<1>1. StartCall(c, "advice", state) /\ UNCHANGED advice
  BY DEF StartGroupAdvice
<1>2. group \in GroupRow
  BY DEF StartGroupAdvice, Types, Tables
<1>3. CallRecord(state) /\ state.pc = "generate"
  BY <1>2 DEF CallRecord, IdleCall
<1>. HIDE DEF state
<1>. QED
  BY <1>1, <1>3, StartMoves

LEMMA StartStudentAdviceKeepsTypes ==
  ASSUME Types, NEW c \in Calls, NEW item \in items, StartStudentAdvice(c, item)
  PROVE  /\ Types'
         /\ call[c].pc = "idle" /\ call'[c].pc = "generate"
         /\ \A d \in Calls \ {c} : call'[d] = call[d]
<1>. DEFINE state == [IdleCall EXCEPT !.op = "generate", !.pc = "generate", !.item = item]
<1>1. StartCall(c, "advice", state) /\ UNCHANGED advice
  BY DEF StartStudentAdvice
<1>2. item \in Item
  BY DEF Types, Tables
<1>3. CallRecord(state) /\ state.pc = "generate"
  BY <1>2 DEF CallRecord, IdleCall
<1>. HIDE DEF state
<1>. QED
  BY <1>1, <1>3, StartMoves

LEMMA LoadAdviceKeepsTypes ==
  ASSUME Types, NEW c \in Calls, NEW op \in DOMAIN Decision, NEW signal, NEW n, NEW row,
         LoadAdvice(c, op, signal, n, row)
  PROVE  /\ Types' /\ UNCHANGED advice
         /\ call[c].pc = "idle" /\ call'[c].pc \in {"idle", "decide"}
         /\ call'[c].pc = "decide" =>
              call'[c].op = op /\ call'[c].signal = signal /\ call'[c].n = n
         /\ \A d \in Calls \ {c} : call'[d] = call[d]
<1>. DEFINE answer == Settled(op, row.status)
            state == IF IsPending(row)
                     THEN [IdleCall EXCEPT !.op = op, !.pc = "decide", !.signal = signal, !.n = n]
                     ELSE [IdleCall EXCEPT !.op = op, !.answer = answer]
<1>1. StartCall(c, "advice", state) /\ UNCHANGED advice
  BY DEF LoadAdvice
<1>. HIDE DEF answer
<1>2. /\ CallRecord(state) /\ state.pc \in {"idle", "decide"}
      /\ state.pc = "decide" => state.op = op /\ state.signal = signal /\ state.n = n
  <2>1. CASE IsPending(row)
    BY <2>1 DEF CallRecord, IdleCall
  <2>2. CASE ~ IsPending(row)
    BY <2>2 DEF CallRecord, IdleCall
  <2>. QED
    BY <2>1, <2>2
<1>. HIDE DEF state
<1>. QED
  BY <1>1, <1>2, StartMoves

Inserted(row, item) == [for |-> row, item |-> item, present |-> TRUE,
                        status |-> "pending_review", log |-> <<>>]

LEMMA InsertAdviceKeepsTypes ==
  ASSUME Types, NEW c \in Calls, InsertAdvice(c)
  PROVE  /\ Types'
         /\ \/ UNCHANGED recommendations
            \/ recommendations' = Append(recommendations, Inserted(call[c].row, call[c].item))
         /\ call[c].pc = "generate" /\ call'[c].pc = "idle"
         /\ \A d \in Calls \ {c} : call'[d] = call[d]
<1>1. CallRecord(call[c]) /\ call[c].pc = "generate"
  BY DEF InsertAdvice, Types, WorkersAndCalls
<1>2. Inserted(call[c].row, call[c].item) \in Recommendation
  <2>1. call[c].row \in GroupRow \union {NoGroup} /\ call[c].item \in Item \union {NoItem}
    BY <1>1 DEF CallRecord
  <2>. DEFINE row == call[c].row
              item == call[c].item
  <2>. HIDE DEF row, item
  <2>2. row \in GroupRow \union {NoGroup} /\ item \in Item \union {NoItem}
    BY <2>1 DEF row, item
  <2>3. Inserted(row, item) \in Recommendation
    BY <2>2 DEF Inserted, Recommendation
  <2>. QED
    BY <2>3 DEF row, item
<1>3. \/ UNCHANGED recommendations
      \/ recommendations' = Append(recommendations, Inserted(call[c].row, call[c].item))
  BY DEF InsertAdvice, Inserted
<1>4. recommendations' \in Seq(Recommendation)
  <2>1. recommendations \in Seq(Recommendation)
    BY DEF Types, Tables
  <2>2. Append(recommendations, Inserted(call[c].row, call[c].item)) \in Seq(Recommendation)
    BY <1>2, <2>1
  <2>. QED
    BY <1>3, <2>1, <2>2
<1>5. Tables'
  BY <1>4 DEF InsertAdvice, Unchanged, Types, Tables
<1>6. PICK answer : Answer(c, answer)
  BY DEF InsertAdvice
<1>7. WorkersAndCalls' /\ call'[c].pc = "idle" /\ \A d \in Calls \ {c} : call'[d] = call[d]
  BY <1>6, AnswerMoves DEF InsertAdvice, Unchanged, Types
<1>. QED
  BY <1>1, <1>3, <1>5, <1>7 DEF Types

\* A decision sets the status and logs it.
LEMMA DecidedIntervention ==
  ASSUME NEW row \in Intervention, NEW op \in {"approve", "refuse"}
  PROVE  /\ Decided(row, op) \in Intervention
         /\ Decided(row, op).status = Decision[op]
         /\ Decided(row, op).log = Append(row.log, Decision[op])
<1>1. Decision[op] \in {"approved", "dismissed"}
  BY DEF Decision
<1>. DEFINE status == Decision[op]
<1>2. row.log \in Seq({"created", "approved", "dismissed"}) /\ status \in {"approved", "dismissed"}
  BY <1>1 DEF Intervention
<1>. HIDE DEF status
<1>3. Append(row.log, status) \in Seq({"created", "approved", "dismissed"})
  BY <1>2
<1>. DEFINE log == Append(row.log, status)
<1>4. [row EXCEPT !.status = status, !.log = Append(@, status)]
        = [row EXCEPT !.status = status, !.log = log]
  BY DEF Intervention
<1>5. Decided(row, op) = [row EXCEPT !.status = status, !.log = log]
  BY <1>4 DEF Decided, status
<1>6. log \in Seq({"created", "approved", "dismissed"})
  BY <1>3
<1>. HIDE DEF log
<1>7. [row EXCEPT !.status = status, !.log = log] \in Intervention
  BY <1>2, <1>6 DEF Intervention
<1>8. [row EXCEPT !.status = status, !.log = log].status = status
  BY DEF Intervention
<1>9. [row EXCEPT !.status = status, !.log = log].log = log
  BY DEF Intervention
<1>. QED
  BY <1>5, <1>7, <1>8, <1>9 DEF status, log

LEMMA DecidedRecommendation ==
  ASSUME NEW row \in Recommendation, NEW op \in {"assign", "discard"}
  PROVE  /\ Decided(row, op) \in Recommendation
         /\ Decided(row, op).status = Decision[op]
         /\ Decided(row, op).log = Append(row.log, Decision[op])
<1>1. Decision[op] \in {"accepted", "dismissed"}
  BY DEF Decision
<1>. DEFINE status == Decision[op]
<1>2. row.log \in Seq({"accepted", "dismissed"}) /\ status \in {"accepted", "dismissed"}
  BY <1>1 DEF Recommendation
<1>. HIDE DEF status
<1>3. Append(row.log, status) \in Seq({"accepted", "dismissed"})
  BY <1>2
<1>. DEFINE log == Append(row.log, status)
<1>4. [row EXCEPT !.status = status, !.log = Append(@, status)]
        = [row EXCEPT !.status = status, !.log = log]
  BY DEF Recommendation
<1>5. Decided(row, op) = [row EXCEPT !.status = status, !.log = log]
  BY <1>4 DEF Decided, status
<1>6. log \in Seq({"accepted", "dismissed"})
  BY <1>3
<1>. HIDE DEF log
<1>7. [row EXCEPT !.status = status, !.log = log] \in Recommendation
  BY <1>2, <1>6 DEF Recommendation
<1>8. [row EXCEPT !.status = status, !.log = log].status = status
  BY DEF Recommendation
<1>9. [row EXCEPT !.status = status, !.log = log].log = log
  BY DEF Recommendation
<1>. QED
  BY <1>5, <1>7, <1>8, <1>9 DEF status, log

LEMMA DecideInterventionKeepsTypes ==
  ASSUME Types, CallsFit, NEW c \in Calls, DecideIntervention(c)
  PROVE  /\ Types'
         /\ call[c].pc = "decide" /\ call[c].op \in {"approve", "refuse"}
         /\ call[c].signal \in Advice /\ call[c].n \in DOMAIN interventions[call[c].signal]
         /\ LET row == interventions[call[c].signal][call[c].n]
            IN  interventions' = IF IsPending(row)
                                 THEN [interventions EXCEPT ![call[c].signal] =
                                         [@ EXCEPT ![call[c].n] = Decided(row, call[c].op)]]
                                 ELSE interventions
         /\ UNCHANGED recommendations
         /\ call'[c].pc = "idle"
         /\ \A d \in Calls \ {c} : call'[d] = call[d]
<1>. DEFINE op == call[c].op
            a == call[c].signal
            n == call[c].n
            row == interventions[a][n]
<1>1. /\ call[c].pc = "decide" /\ op \in {"approve", "refuse"}
      /\ a \in Advice /\ n \in DOMAIN interventions[a]
  BY DEF DecideIntervention, CallsFit
<1>2. interventions' = IF IsPending(row)
                       THEN [interventions EXCEPT ![a] = [@ EXCEPT ![n] = Decided(row, op)]]
                       ELSE interventions
  BY DEF DecideIntervention
<1>3. interventions \in [Advice -> Seq(Intervention)]
  BY DEF Types, Tables
<1>4. row \in Intervention
  BY <1>1, <1>3
<1>5. Decided(row, op) \in Intervention
  BY <1>1, <1>4, DecidedIntervention
<1>6. interventions' \in [Advice -> Seq(Intervention)]
  <2>. DEFINE new == Decided(row, op)
              rows == interventions[a]
  <2>1. rows \in Seq(Intervention) /\ n \in DOMAIN rows /\ new \in Intervention
    BY <1>1, <1>3, <1>5
  <2>2. interventions' = interventions \/ interventions' = [interventions EXCEPT ![a] = [rows EXCEPT ![n] = new]]
    BY <1>2, <1>3
  <2>. HIDE DEF new, rows
  <2>3. [rows EXCEPT ![n] = new] \in Seq(Intervention)
    BY <2>1
  <2>. QED
    BY <1>1, <1>3, <2>2, <2>3
<1>7. Tables'
  BY <1>6 DEF DecideIntervention, Unchanged, Types, Tables
<1>8. PICK answer : Answer(c, answer)
  BY DEF DecideIntervention
<1>9. WorkersAndCalls' /\ call'[c].pc = "idle" /\ \A d \in Calls \ {c} : call'[d] = call[d]
  BY <1>8, AnswerMoves DEF DecideIntervention, Unchanged, Types
<1>10. UNCHANGED recommendations
  BY DEF DecideIntervention
<1>. QED
  BY <1>1, <1>2, <1>7, <1>9, <1>10 DEF Types

LEMMA DecideRecommendationKeepsTypes ==
  ASSUME Types, CallsFit, NEW c \in Calls, DecideRecommendation(c)
  PROVE  /\ Types'
         /\ call[c].pc = "decide" /\ call[c].op \in {"assign", "discard"}
         /\ call[c].n \in DOMAIN recommendations
         /\ LET row == recommendations[call[c].n]
            IN  recommendations' = IF row.present /\ IsPending(row)
                                   THEN [recommendations EXCEPT ![call[c].n] = Decided(row, call[c].op)]
                                   ELSE recommendations
         /\ UNCHANGED interventions
         /\ call'[c].pc = "idle"
         /\ \A d \in Calls \ {c} : call'[d] = call[d]
<1>. DEFINE op == call[c].op
            n == call[c].n
            row == recommendations[n]
<1>1. call[c].pc = "decide" /\ op \in {"assign", "discard"} /\ n \in DOMAIN recommendations
  BY DEF DecideRecommendation, CallsFit
<1>2. recommendations' = IF row.present /\ IsPending(row)
                         THEN [recommendations EXCEPT ![n] = Decided(row, op)]
                         ELSE recommendations
  BY DEF DecideRecommendation
<1>3. recommendations \in Seq(Recommendation)
  BY DEF Types, Tables
<1>4. row \in Recommendation
  BY <1>1, <1>3
<1>5. Decided(row, op) \in Recommendation
  BY <1>1, <1>4, DecidedRecommendation
<1>6. recommendations' \in Seq(Recommendation)
  <2>. DEFINE new == Decided(row, op)
  <2>1. new \in Recommendation
    BY <1>5
  <2>2. recommendations' = recommendations \/ recommendations' = [recommendations EXCEPT ![n] = new]
    BY <1>2
  <2>. HIDE DEF new
  <2>3. [recommendations EXCEPT ![n] = new] \in Seq(Recommendation)
    BY <1>1, <1>3, <2>1
  <2>. QED
    BY <1>3, <2>2, <2>3
<1>7. Tables'
  BY <1>6 DEF DecideRecommendation, Unchanged, Types, Tables
<1>8. PICK answer : Answer(c, answer)
  BY DEF DecideRecommendation
<1>9. WorkersAndCalls' /\ call'[c].pc = "idle" /\ \A d \in Calls \ {c} : call'[d] = call[d]
  BY <1>8, AnswerMoves DEF DecideRecommendation, Unchanged, Types
<1>10. UNCHANGED interventions
  BY DEF DecideRecommendation
<1>. QED
  BY <1>1, <1>2, <1>7, <1>9, <1>10 DEF Types

---------------------------------------------------------------------------
(* The locks, and what the teacher decided about items *)

\* A worker steps without touching items or the group.
LEMMA QuietWorkerKeepsLocks ==
  ASSUME LocksProtect, NEW w \in Workers,
         worker'[w].pc \notin {"replace", "insert"},
         \A v \in Workers \ {w} : worker'[v] = worker[v],
         UNCHANGED <<group, items, mode>>
  PROVE  LocksProtect'
<1>. DEFINE others == Workers \ {w}
<1>1. \A u, v \in Workers : worker'[u].pc = "replace" /\ worker'[v].pc = "replace" => u = v
  BY DEF LocksProtect
<1>2. \A u, v \in Workers : worker'[u].pc = "insert" /\ worker'[v].pc = "insert" => u = v
  BY DEF LocksProtect
<1>3. Active(group)' <=> Active(group)
  BY DEF Active
<1>4. \A v \in Workers : worker'[v].pc = "replace" /\ mode'.screen # "groups" =>
        (worker'[v].before <=> Active(group))
  BY DEF LocksProtect
<1>5. \A v \in Workers : worker'[v].pc = "insert" =>
        \A i \in items' : i.status = "active" => i \in worker'[v].deleting
  BY DEF LocksProtect
<1>. QED
  BY <1>1, <1>2, <1>3, <1>4, <1>5 DEF LocksProtect

LEMMA LockClassKeepsLocks ==
  ASSUME Types, LocksProtect, NEW w \in Workers, LockClass(w),
         worker'[w].pc = "replace", worker'[w].before <=> Active(group),
         \A v \in Workers \ {w} : worker'[v] = worker[v]
  PROVE  LocksProtect'
<1>1. UNCHANGED <<group, items, mode>> /\ \A v \in Workers : worker[v].pc # "replace"
  BY DEF LockClass, Proceed, ClassIsFree
<1>2. \A u, v \in Workers : worker'[u].pc = "replace" /\ worker'[v].pc = "replace" => u = v
  BY <1>1
<1>3. \A u, v \in Workers : worker'[u].pc = "insert" /\ worker'[v].pc = "insert" => u = v
  BY DEF LocksProtect
<1>4. Active(group)' <=> Active(group)
  BY <1>1 DEF Active
<1>5. \A v \in Workers : worker'[v].pc = "replace" /\ mode'.screen # "groups" =>
        (worker'[v].before <=> Active(group))
  BY <1>1
<1>6. \A v \in Workers : worker'[v].pc = "insert" =>
        \A i \in items' : i.status = "active" => i \in worker'[v].deleting
  BY <1>1 DEF LocksProtect
<1>. QED
  BY <1>2, <1>3, <1>4, <1>5, <1>6 DEF LocksProtect

LEMMA DeleteActiveKeepsLocks ==
  ASSUME Types, LocksProtect, NEW w \in Workers, DeleteActive(w),
         worker'[w].pc = "insert",
         worker'[w].deleting = {i \in items : i.status = "active"},
         \A v \in Workers \ {w} : worker'[v] = worker[v]
  PROVE  LocksProtect'
<1>1. UNCHANGED <<group, items, mode>> /\ \A v \in Workers : worker[v].pc # "insert"
  BY DEF DeleteActive, Proceed, UserIsFree
<1>2. \A u, v \in Workers : worker'[u].pc = "replace" /\ worker'[v].pc = "replace" => u = v
  BY DEF LocksProtect
<1>3. \A u, v \in Workers : worker'[u].pc = "insert" /\ worker'[v].pc = "insert" => u = v
  BY <1>1
<1>4. Active(group)' <=> Active(group)
  BY <1>1 DEF Active
<1>5. \A v \in Workers : worker'[v].pc = "replace" /\ mode'.screen # "groups" =>
        (worker'[v].before <=> Active(group))
  BY <1>1 DEF LocksProtect
<1>6. \A v \in Workers : worker'[v].pc = "insert" =>
        \A i \in items' : i.status = "active" => i \in worker'[v].deleting
  BY <1>1
<1>. QED
  BY <1>2, <1>3, <1>4, <1>5, <1>6 DEF LocksProtect

\* The one worker that may write the groups, or the items, writes and stops.
LEMMA WriterKeepsLocks ==
  ASSUME Types, LocksProtect, NEW w \in Workers, UNCHANGED mode,
         \/ worker[w].pc = "replace" /\ UNCHANGED items
         \/ worker[w].pc = "insert" /\ UNCHANGED group,
         worker'[w].pc = "idle",
         \A v \in Workers \ {w} : worker'[v] = worker[v]
  PROVE  LocksProtect'
<1>1. \A u, v \in Workers : worker'[u].pc = "replace" /\ worker'[v].pc = "replace" => u = v
  BY DEF LocksProtect
<1>2. \A u, v \in Workers : worker'[u].pc = "insert" /\ worker'[v].pc = "insert" => u = v
  BY DEF LocksProtect
<1>3. \A v \in Workers : worker'[v].pc = "replace" /\ mode'.screen # "groups" =>
        (worker'[v].before <=> Active(group)')
  <2>1. CASE worker[w].pc = "replace"
    BY <2>1 DEF LocksProtect
  <2>2. CASE UNCHANGED group
    <3>1. Active(group)' <=> Active(group)
      BY <2>2 DEF Active
    <3>. QED
      BY <3>1 DEF LocksProtect
  <2>. QED
    BY <2>1, <2>2
<1>4. \A v \in Workers : worker'[v].pc = "insert" =>
        \A i \in items' : i.status = "active" => i \in worker'[v].deleting
  BY DEF LocksProtect
<1>. QED
  BY <1>1, <1>2, <1>3, <1>4 DEF LocksProtect

\* Locks, scans and calls leave the workers alone; a call closes items at most.
LEMMA CallKeepsLocks ==
  ASSUME LocksProtect, UNCHANGED <<worker, mode>>,
         UNCHANGED group \/ mode.screen = "groups",
         \A i \in items' : i.status = "active" => i \in items
  PROVE  LocksProtect'
<1>1. \A v \in Workers : worker'[v].pc = "replace" /\ mode'.screen # "groups" =>
        (worker'[v].before <=> Active(group)')
  <2>1. CASE mode.screen = "groups"
    BY <2>1
  <2>2. CASE UNCHANGED group
    <3>1. Active(group)' <=> Active(group)
      BY <2>2 DEF Active
    <3>. QED
      BY <3>1 DEF LocksProtect
  <2>. QED
    BY <2>1, <2>2
<1>2. \A v \in Workers : worker'[v].pc = "insert" =>
        \A i \in items' : i.status = "active" => i \in worker'[v].deleting
  BY DEF LocksProtect
<1>3. /\ \A u, v \in Workers : worker'[u].pc = "replace" /\ worker'[v].pc = "replace" => u = v
      /\ \A u, v \in Workers : worker'[u].pc = "insert" /\ worker'[v].pc = "insert" => u = v
  BY DEF LocksProtect
<1>. QED
  BY <1>1, <1>2, <1>3 DEF LocksProtect

KeepsDecisions ==
  \A i \in items : i.status # "active" =>
    \E j \in items' : SameItem(i, j) /\ (i.status # "snoozed" => j = i) /\ j.status # "active"

LEMMA InsertKeepsDecisions ==
  ASSUME Types, LocksProtect, NEW w \in Workers, InsertItems(w)
  PROVE  ActiveItemsAreUnique' /\ KeepsDecisions
<1>. DEFINE new == {[signal |-> g, run |-> runs, status |-> "active"] : g \in worker[w].computed}
<1>1. worker[w].pc = "insert" /\ items' = (items \ worker[w].deleting) \union new
  BY DEF InsertItems
<1>2. \A d \in worker[w].deleting : d.status = "active"
  BY <1>1 DEF Types, WorkersAndCalls, WorkerRecord
<1>3. \A i \in items : i.status = "active" => i \in worker[w].deleting
  BY <1>1 DEF LocksProtect
<1>4. \A i \in items' : i.status = "active" => i \in new
  BY <1>1, <1>3
<1>5. \A i, j \in new : i.signal = j.signal => i = j
  OBVIOUS
<1>6. ActiveItemsAreUnique'
  BY <1>4, <1>5 DEF ActiveItemsAreUnique
<1>7. \A i \in items : i.status # "active" => i \in items'
  BY <1>1, <1>2
<1>8. KeepsDecisions
  BY <1>7 DEF KeepsDecisions, SameItem
<1>. QED
  BY <1>6, <1>8

LEMMA UpdateKeepsDecisions ==
  ASSUME Types, NEW c \in Calls, UpdateItem(c), UNCHANGED advice, ActiveItemsAreUnique
  PROVE  /\ ActiveItemsAreUnique' /\ KeepsDecisions
         /\ \A i \in items' : i.status = "active" => i \in items
<1>. DEFINE op == call[c].op
            open == OpenRows(call[c].item)
<1>1. /\ op \in DOMAIN Verdict
      /\ items' = (items \ open) \union {Moved(i, op) : i \in open}
  BY UpdateItemKeepsTypes
<1>2. open \subseteq items /\ items \subseteq Item /\ \A i \in open : i.status \in Open
  BY DEF OpenRows, Now, Types, Tables
<1>. HIDE DEF op, open
<1>3. \A i \in open : /\ Moved(i, op).status # "active"
                      /\ Moved(i, op).signal = i.signal /\ Moved(i, op).run = i.run
  BY <1>1, <1>2, MovedItem
<1>4. \A i \in items' : i.status = "active" => i \in items
  BY <1>1, <1>3
<1>5. ActiveItemsAreUnique'
  BY <1>4 DEF ActiveItemsAreUnique
<1>6. ASSUME NEW i \in items, i.status # "active"
      PROVE  \E j \in items' : SameItem(i, j) /\ (i.status # "snoozed" => j = i) /\ j.status # "active"
  <2>1. CASE i \in open
    <3>1. i.status = "snoozed"
      BY <1>2, <1>6, <2>1 DEF Open
    <3>2. Moved(i, op) \in items' /\ SameItem(i, Moved(i, op)) /\ Moved(i, op).status # "active"
      BY <1>1, <1>3, <2>1 DEF SameItem
    <3>. QED
      BY <3>1, <3>2
  <2>2. CASE i \notin open
    <3>1. i \in items' /\ SameItem(i, i)
      BY <1>1, <2>2 DEF SameItem
    <3>. QED
      BY <1>6, <3>1
  <2>. QED
    BY <2>1, <2>2
<1>7. KeepsDecisions
  BY <1>6 DEF KeepsDecisions
<1>. QED
  BY <1>4, <1>5, <1>7

---------------------------------------------------------------------------
(* The logs, and what calls name *)

Logged == InterventionsAreLogged /\ RecommendationsAreLogged /\ PendingIsUnique

LEMMA UnchangedAdviceIsLogged ==
  ASSUME Logged, UNCHANGED advice
  PROVE  Logged'
<1>1. InterventionsAreLogged'
  BY DEF Logged, InterventionsAreLogged, advice, IsPending
<1>2. RecommendationsAreLogged'
  BY DEF Logged, RecommendationsAreLogged, advice, IsPending
<1>3. PendingIsUnique'
  BY DEF Logged, PendingIsUnique, advice, IsPending
<1>. QED
  BY <1>1, <1>2, <1>3 DEF Logged

LEMMA DetachedAdviceIsLogged ==
  ASSUME Logged, UNCHANGED interventions,
         DOMAIN recommendations' = DOMAIN recommendations,
         \A n \in DOMAIN recommendations :
           /\ recommendations'[n].status = recommendations[n].status
           /\ recommendations'[n].log = recommendations[n].log
  PROVE  Logged'
<1>1. InterventionsAreLogged'
  BY DEF Logged, InterventionsAreLogged, IsPending
<1>2. RecommendationsAreLogged'
  BY DEF Logged, RecommendationsAreLogged, IsPending
<1>3. PendingIsUnique'
  BY DEF Logged, PendingIsUnique, IsPending
<1>. QED
  BY <1>1, <1>2, <1>3 DEF Logged

LEMMA ProposedAdviceIsLogged ==
  ASSUME Types, Logged, UNCHANGED recommendations,
         \A a \in Advice :
              \/ interventions'[a] = interventions[a]
              \/ ~ HasPending(a) /\ interventions'[a] = Append(interventions[a], Created)
  PROVE  /\ Logged'
         /\ \A a \in Advice : DOMAIN interventions[a] \subseteq DOMAIN interventions'[a]
<1>1. ASSUME NEW a \in Advice, interventions'[a] # interventions[a]
      PROVE  /\ ~ HasPending(a)
             /\ DOMAIN interventions'[a] = DOMAIN interventions[a] \union {Len(interventions[a]) + 1}
             /\ \A n \in DOMAIN interventions[a] : interventions'[a][n] = interventions[a][n]
             /\ interventions'[a][Len(interventions[a]) + 1] = Created
  <2>. DEFINE rows == interventions[a]
              more == interventions'[a]
  <2>1. rows \in Seq(Intervention)
    BY DEF Types, Tables
  <2>2. ~ HasPending(a) /\ more = Append(rows, Created)
    BY <1>1
  <2>. HIDE DEF rows, more
  <2>3. /\ DOMAIN more = DOMAIN rows \union {Len(rows) + 1}
        /\ \A n \in DOMAIN rows : more[n] = rows[n]
        /\ more[Len(rows) + 1] = Created
    BY <2>1, <2>2
  <2>. QED
    BY <2>2, <2>3 DEF rows, more
<1>2. InterventionsAreLogged'
  <2>. SUFFICES ASSUME NEW a \in Advice, NEW n \in DOMAIN interventions'[a]
                PROVE  interventions'[a][n].log =
                         IF IsPending(interventions'[a][n])
                         THEN <<"created">> ELSE <<"created", interventions'[a][n].status>>
    BY DEF InterventionsAreLogged, IsPending
  <2>1. CASE interventions'[a] = interventions[a] \/ n \in DOMAIN interventions[a]
    BY <1>1, <2>1 DEF Logged, InterventionsAreLogged
  <2>2. CASE interventions'[a][n] = Created
    BY <2>2 DEF Created, IsPending
  <2>. QED
    BY <1>1, <2>1, <2>2
<1>3. RecommendationsAreLogged'
  BY DEF Logged, RecommendationsAreLogged, IsPending
<1>4. PendingIsUnique'
  <2>. SUFFICES ASSUME NEW a \in Advice,
                       NEW m \in DOMAIN interventions'[a], NEW n \in DOMAIN interventions'[a],
                       IsPending(interventions'[a][m]), IsPending(interventions'[a][n])
                PROVE  m = n
    BY DEF PendingIsUnique, IsPending
  <2>1. CASE interventions'[a] = interventions[a]
    BY <2>1 DEF Logged, PendingIsUnique
  <2>2. CASE interventions'[a] # interventions[a]
    <3>1. m \notin DOMAIN interventions[a] /\ n \notin DOMAIN interventions[a]
      BY <1>1, <2>2 DEF HasPending
    <3>. QED
      BY <1>1, <2>2, <3>1
  <2>. QED
    BY <2>1, <2>2
<1>5. \A a \in Advice : DOMAIN interventions[a] \subseteq DOMAIN interventions'[a]
  BY <1>1
<1>. QED
  BY <1>2, <1>3, <1>4, <1>5 DEF Logged

LEMMA InsertedAdviceIsLogged ==
  ASSUME Types, Logged, UNCHANGED interventions, NEW row, NEW item,
         recommendations' = Append(recommendations, Inserted(row, item))
  PROVE  Logged' /\ DOMAIN recommendations \subseteq DOMAIN recommendations'
<1>1. recommendations \in Seq(Recommendation)
  BY DEF Types, Tables
<1>. DEFINE new == Inserted(row, item)
<1>2. new.log = <<>> /\ IsPending(new)
  BY DEF Inserted, IsPending
<1>. HIDE DEF new
<1>3. /\ DOMAIN recommendations' = DOMAIN recommendations \union {Len(recommendations) + 1}
      /\ \A n \in DOMAIN recommendations : recommendations'[n] = recommendations[n]
      /\ recommendations'[Len(recommendations) + 1] = new
  BY <1>1 DEF new
<1>4. RecommendationsAreLogged'
  BY <1>2, <1>3 DEF Logged, RecommendationsAreLogged, IsPending
<1>5. InterventionsAreLogged'
  BY DEF Logged, InterventionsAreLogged, IsPending
<1>6. PendingIsUnique'
  BY DEF Logged, PendingIsUnique, IsPending
<1>. QED
  BY <1>3, <1>4, <1>5, <1>6 DEF Logged

LEMMA AppendPair ==
  ASSUME NEW x, NEW y
  PROVE  Append(<<x>>, y) = <<x, y>>
<1>. DEFINE one == <<x>>
            two == <<x, y>>
<1>1. one \in Seq({x, y}) /\ Len(one) = 1 /\ one[1] = x
  OBVIOUS
<1>2. two \in Seq({x, y}) /\ Len(two) = 2 /\ two[1] = x /\ two[2] = y
  OBVIOUS
<1>. HIDE DEF one, two
<1>. DEFINE S == {x, y}
<1>3. one \in Seq(S) /\ two \in Seq(S) /\ y \in S
  BY <1>1, <1>2
<1>. HIDE DEF S
<1>4. /\ Append(one, y) \in Seq(S) /\ Len(Append(one, y)) = Len(one) + 1
      /\ \A i \in 1 .. Len(one) : Append(one, y)[i] = one[i]
      /\ Append(one, y)[Len(one) + 1] = y
  BY <1>3, AppendProperties
<1>5. Len(Append(one, y)) = 2 /\ Append(one, y)[1] = x /\ Append(one, y)[2] = y
  BY <1>1, <1>4
<1>6. \A i \in 1 .. 2 : i = 1 \/ i = 2
  OBVIOUS
<1>7. \A i \in 1 .. Len(two) : Append(one, y)[i] = two[i]
  BY <1>2, <1>5, <1>6
<1>8. Append(one, y) = two
  BY <1>2, <1>3, <1>4, <1>5, <1>7, SeqEqual
<1>. QED
  BY <1>8 DEF one, two

LEMMA DecidedInterventionIsLogged ==
  ASSUME Types, Logged, UNCHANGED recommendations, NEW a \in Advice, NEW n \in DOMAIN interventions[a],
         NEW op \in {"approve", "refuse"}, IsPending(interventions[a][n]),
         interventions' = [interventions EXCEPT ![a] =
                             [@ EXCEPT ![n] = Decided(interventions[a][n], op)]]
  PROVE  /\ Logged'
         /\ \A b \in Advice : DOMAIN interventions'[b] = DOMAIN interventions[b]
         /\ interventions'[a][n].status = Decision[op]
<1>. DEFINE new == Decided(interventions[a][n], op)
<1>1. interventions \in [Advice -> Seq(Intervention)]
  BY DEF Types, Tables
<1>2. interventions[a][n] \in Intervention
  BY <1>1
<1>3. new.status = Decision[op] /\ new.log = Append(interventions[a][n].log, Decision[op])
  BY <1>2, DecidedIntervention
<1>4. interventions[a][n].log = <<"created">>
  BY DEF Logged, InterventionsAreLogged
<1>5. Decision[op] # "pending_review"
  BY DEF Decision
<1>6. new.log = <<"created", new.status>> /\ ~ IsPending(new)
  <2>1. Append(<<"created">>, Decision[op]) = <<"created", Decision[op]>>
    BY AppendPair
  <2>. QED
    BY <1>3, <1>4, <1>5, <2>1 DEF IsPending
<1>7. interventions' = [interventions EXCEPT ![a] = [@ EXCEPT ![n] = new]]
  OBVIOUS
<1>. HIDE DEF new
<1>8. /\ \A b \in Advice : DOMAIN interventions'[b] = DOMAIN interventions[b]
      /\ interventions'[a][n] = new
      /\ \A b \in Advice : \A m \in DOMAIN interventions[b] :
           b # a \/ m # n => interventions'[b][m] = interventions[b][m]
  <2>. DEFINE rows == interventions[a]
              more == [rows EXCEPT ![n] = new]
  <2>1. interventions' = [interventions EXCEPT ![a] = more]
    BY <1>7
  <2>2. DOMAIN more = DOMAIN rows /\ more[n] = new /\ \A m \in DOMAIN rows : m # n => more[m] = rows[m]
    OBVIOUS
  <2>. HIDE DEF more
  <2>3. interventions'[a] = more /\ \A b \in Advice \ {a} : interventions'[b] = interventions[b]
    BY <1>1, <2>1
  <2>. QED
    BY <2>2, <2>3
<1>9. InterventionsAreLogged'
  BY <1>6, <1>8 DEF Logged, InterventionsAreLogged, IsPending
<1>10. PendingIsUnique'
  BY <1>6, <1>8 DEF Logged, PendingIsUnique, IsPending
<1>11. RecommendationsAreLogged'
  BY DEF Logged, RecommendationsAreLogged, IsPending
<1>. QED
  BY <1>3, <1>8, <1>9, <1>10, <1>11 DEF Logged

LEMMA DecidedRecommendationIsLogged ==
  ASSUME Types, Logged, UNCHANGED interventions, NEW n \in DOMAIN recommendations,
         NEW op \in {"assign", "discard"}, IsPending(recommendations[n]),
         recommendations' = [recommendations EXCEPT ![n] = Decided(recommendations[n], op)]
  PROVE  /\ Logged'
         /\ DOMAIN recommendations' = DOMAIN recommendations
         /\ recommendations'[n].status = Decision[op]
<1>. DEFINE new == Decided(recommendations[n], op)
<1>1. recommendations \in Seq(Recommendation)
  BY DEF Types, Tables
<1>2. recommendations[n] \in Recommendation
  BY <1>1
<1>3. new.status = Decision[op] /\ new.log = Append(recommendations[n].log, Decision[op])
  BY <1>2, DecidedRecommendation
<1>4. recommendations[n].log = <<>>
  BY DEF Logged, RecommendationsAreLogged
<1>5. Decision[op] # "pending_review"
  BY DEF Decision
<1>6. new.log = <<new.status>> /\ ~ IsPending(new)
  <2>1. Append(<<>>, Decision[op]) = <<Decision[op]>>
    OBVIOUS
  <2>. QED
    BY <1>3, <1>4, <1>5, <2>1 DEF IsPending
<1>7. recommendations' = [recommendations EXCEPT ![n] = new]
  OBVIOUS
<1>. HIDE DEF new
<1>8. /\ DOMAIN recommendations' = DOMAIN recommendations
      /\ recommendations'[n] = new
      /\ \A m \in DOMAIN recommendations : m # n => recommendations'[m] = recommendations[m]
  BY <1>1, <1>7
<1>9. RecommendationsAreLogged'
  BY <1>6, <1>8 DEF Logged, RecommendationsAreLogged, IsPending
<1>10. InterventionsAreLogged'
  BY DEF Logged, InterventionsAreLogged, IsPending
<1>11. PendingIsUnique'
  BY DEF Logged, PendingIsUnique, IsPending
<1>. QED
  BY <1>3, <1>8, <1>9, <1>10, <1>11 DEF Logged

\* Rows are never taken out of the tables: a call still names an existing row.
LEMMA CallsStillFit ==
  ASSUME CallsFit, NEW c \in Calls, \A d \in Calls \ {c} : call'[d] = call[d], UNCHANGED mode,
         \A a \in Advice : DOMAIN interventions[a] \subseteq DOMAIN interventions'[a],
         DOMAIN recommendations \subseteq DOMAIN recommendations',
         call'[c].pc = "edit" => mode.screen = "groups",
         call'[c].pc = "decide" /\ call'[c].op \in {"approve", "refuse"} =>
           call'[c].signal \in Advice /\ call'[c].n \in DOMAIN interventions'[call'[c].signal],
         call'[c].pc = "decide" /\ call'[c].op \in {"assign", "discard"} =>
           call'[c].n \in DOMAIN recommendations'
  PROVE  CallsFit'
BY DEF CallsFit

LEMMA WaitingCallsStillFit ==
  ASSUME CallsFit, UNCHANGED <<call, mode>>,
         \A a \in Advice : DOMAIN interventions[a] \subseteq DOMAIN interventions'[a],
         DOMAIN recommendations \subseteq DOMAIN recommendations'
  PROVE  CallsFit'
BY DEF CallsFit

---------------------------------------------------------------------------
(* The invariant *)

LEMMA AdviceInitInv == AdviceInit => AdviceInv
<1>. SUFFICES ASSUME AdviceInit PROVE AdviceInv
  OBVIOUS
<1>1. locked \in [Students -> Seq(0 .. 100)]
  BY PipelineAssumption DEF AdviceInit, Init
<1>2. group \in GroupRow \union {NoGroup}
  <2>1. CASE Clusters(locked) = {}
    BY <2>1 DEF AdviceInit, Init
  <2>2. CASE Clusters(locked) # {}
    <3>. DEFINE members == Clusters(locked)
    <3>1. members \in SUBSET Students
      BY ClustersAreStudents
    <3>2. group = [id |-> 0, members |-> members, stability |-> "new"]
      BY <2>2 DEF AdviceInit, Init
    <3>. HIDE DEF members
    <3>. QED
      BY <3>1, <3>2 DEF GroupRow, Stability
  <2>. QED
    BY <2>1, <2>2
<1>. DEFINE signals == Signals(locked, {}, locked)
<1>3. signals \subseteq Signal
  BY DEF Signals
<1>4. items = {[signal |-> g, run |-> 0, status |-> "active"] : g \in signals}
  BY DEF AdviceInit, Init
<1>. HIDE DEF signals
<1>5. items \subseteq Item
  BY <1>3, <1>4 DEF Item
<1>6. ActiveItemsAreUnique
  BY <1>4 DEF ActiveItemsAreUnique
<1>7. Tables
  <2>1. interventions \in [Advice -> Seq(Intervention)] /\ recommendations \in Seq(Recommendation)
    BY DEF AdviceInit
  <2>2. profile = locked /\ runs = 1 /\ queue = <<>> /\ mode \in Modes
    BY DEF AdviceInit, Init
  <2>3. queue \in Seq(Message)
    BY <2>2
  <2>. QED
    BY <1>1, <1>2, <1>5, <2>1, <2>2, <2>3 DEF Tables
<1>8. /\ worker = [w \in Workers |-> IdleWorker]
      /\ call = [c \in Calls |-> IdleCall]
  BY DEF AdviceInit, Init
<1>9. WorkersAndCalls
  BY <1>8, IdleRecords DEF WorkersAndCalls
<1>10. \A w \in Workers : worker[w].pc = "idle"
  BY <1>8 DEF IdleWorker
<1>11. \A c \in Calls : call[c].pc = "idle"
  BY <1>8 DEF IdleCall
<1>12. CallsFit
  BY <1>11 DEF CallsFit
<1>13. LocksProtect
  BY <1>10 DEF LocksProtect
<1>14. InterventionsAreLogged /\ RecommendationsAreLogged /\ PendingIsUnique
  BY DEF AdviceInit, InterventionsAreLogged, RecommendationsAreLogged, PendingIsUnique
<1>. QED
  BY <1>6, <1>7, <1>9, <1>12, <1>13, <1>14 DEF AdviceInv, Types

\* The steps of workers that write neither groups, items nor advice.
LEMMA QuietWorkerKeepsInv ==
  ASSUME AdviceInv, Types', NEW w \in Workers,
         worker'[w].pc \notin {"replace", "insert"},
         \A v \in Workers \ {w} : worker'[v] = worker[v],
         UNCHANGED <<group, items, call, mode, advice>>
  PROVE  AdviceInv'
<1>1. LocksProtect'
  BY QuietWorkerKeepsLocks DEF AdviceInv
<1>2. Logged'
  BY UnchangedAdviceIsLogged DEF AdviceInv, Logged
<1>3. CallsFit'
  BY WaitingCallsStillFit DEF AdviceInv, advice
<1>4. ActiveItemsAreUnique'
  BY DEF AdviceInv, ActiveItemsAreUnique
<1>. QED
  BY <1>1, <1>2, <1>3, <1>4 DEF AdviceInv, Logged

\* The steps of calls that leave items and advice alone.
LEMMA QuietCallKeepsInv ==
  ASSUME AdviceInv, Types', NEW c \in Calls,
         \A d \in Calls \ {c} : call'[d] = call[d],
         UNCHANGED <<items, worker, mode, advice>>, 
         UNCHANGED group \/ mode.screen = "groups",
         call'[c].pc = "edit" => mode.screen = "groups",
         call'[c].pc # "decide"
  PROVE  AdviceInv'
<1>1. LocksProtect'
  BY CallKeepsLocks DEF AdviceInv
<1>2. Logged'
  BY UnchangedAdviceIsLogged DEF AdviceInv, Logged
<1>3. CallsFit'
  BY CallsStillFit DEF AdviceInv, advice
<1>4. ActiveItemsAreUnique'
  BY DEF AdviceInv, ActiveItemsAreUnique
<1>. QED
  BY <1>1, <1>2, <1>3, <1>4 DEF AdviceInv, Logged

LEMMA PipelineStepKeepsInv ==
  ASSUME AdviceInv, NEW w \in Workers, PipelineStep(w)
  PROVE  AdviceInv'
<1>. USE DEF AdviceInv
<1>1. CASE (ReadGrades(w) \/ ReadProfiles(w) \/ StartWorklist(w)) /\ UNCHANGED advice
  <2>1. /\ Types' /\ worker'[w].pc \notin {"replace", "insert"}
        /\ \A v \in Workers \ {w} : worker'[v] = worker[v]
        /\ UNCHANGED <<group, items, call, mode, advice>>
    BY <1>1, TakingKeepsTypes
  <2>. QED
    BY <2>1, QuietWorkerKeepsInv
<1>2. CASE StartScan(w)
  <2>1. UNCHANGED advice
    BY <1>2 DEF StartScan
  <2>2. /\ Types' /\ worker'[w].pc \notin {"replace", "insert"}
        /\ \A v \in Workers \ {w} : worker'[v] = worker[v]
        /\ UNCHANGED <<group, items, call, mode, advice>>
    BY <1>2, <2>1, TakingKeepsTypes
  <2>. QED
    BY <2>2, QuietWorkerKeepsInv
<1>3. CASE UpsertProfile(w) /\ UNCHANGED advice
  <2>1. /\ Types' /\ worker'[w].pc \notin {"replace", "insert"}
        /\ \A v \in Workers \ {w} : worker'[v] = worker[v]
        /\ UNCHANGED <<group, items, call, mode, advice>>
    BY <1>3, UpsertKeepsTypes
  <2>. QED
    BY <2>1, QuietWorkerKeepsInv
<1>4. CASE ReadSignals(w) /\ UNCHANGED advice
  <2>1. /\ Types' /\ worker'[w].pc \notin {"replace", "insert"}
        /\ \A v \in Workers \ {w} : worker'[v] = worker[v]
    BY <1>4, ReadSignalsKeepsTypes
  <2>2. UNCHANGED <<group, items, call, mode, advice>>
    BY <1>4 DEF ReadSignals, Proceed
  <2>. QED
    BY <2>1, <2>2, QuietWorkerKeepsInv
<1>5. CASE ReadPending(w)
  <2>1. /\ Types' /\ worker'[w].pc \notin {"replace", "insert"}
        /\ \A v \in Workers \ {w} : worker'[v] = worker[v]
    BY <1>5, ReadPendingKeepsTypes
  <2>2. UNCHANGED <<group, items, call, mode, advice>>
    BY <1>5 DEF ReadPending, Proceed
  <2>. QED
    BY <2>1, <2>2, QuietWorkerKeepsInv
<1>6. CASE LockClass(w) /\ UNCHANGED advice
  <2>1. Types' /\ LocksProtect'
    BY <1>6, LockClassKeepsTypes, LockClassKeepsLocks
  <2>2. UNCHANGED <<items, call, mode, advice>>
    BY <1>6 DEF LockClass, Proceed
  <2>3. Logged' /\ CallsFit'
    BY <2>2, UnchangedAdviceIsLogged, WaitingCallsStillFit DEF Logged, advice
  <2>4. ActiveItemsAreUnique'
    BY <2>2 DEF ActiveItemsAreUnique
  <2>. QED
    BY <2>1, <2>3, <2>4 DEF Logged
<1>7. CASE DeleteActive(w) /\ UNCHANGED advice
  <2>1. Types' /\ LocksProtect'
    BY <1>7, DeleteActiveKeepsTypes, DeleteActiveKeepsLocks
  <2>2. UNCHANGED <<items, call, mode, advice>>
    BY <1>7 DEF DeleteActive, Proceed
  <2>3. Logged' /\ CallsFit'
    BY <2>2, UnchangedAdviceIsLogged, WaitingCallsStillFit DEF Logged, advice
  <2>4. ActiveItemsAreUnique'
    BY <2>2 DEF ActiveItemsAreUnique
  <2>. QED
    BY <2>1, <2>3, <2>4 DEF Logged
<1>8. CASE ReplaceGroupsAndAdvice(w)
  <2>1. UNCHANGED <<items, call, mode, interventions>> /\ worker[w].pc = "replace"
    BY <1>8 DEF ReplaceGroupsAndAdvice, ReplaceGroups, Proceed
  <2>2. /\ Types' /\ worker'[w].pc = "idle"
        /\ \A v \in Workers \ {w} : worker'[v] = worker[v]
        /\ DOMAIN recommendations' = DOMAIN recommendations
        /\ \A n \in DOMAIN recommendations :
              /\ recommendations'[n].status = recommendations[n].status
              /\ recommendations'[n].log = recommendations[n].log
    BY <1>8, ReplaceKeepsTypes
  <2>3. LocksProtect'
    BY <2>1, <2>2, WriterKeepsLocks
  <2>4. Logged' /\ CallsFit'
    BY <2>1, <2>2, DetachedAdviceIsLogged, WaitingCallsStillFit DEF Logged
  <2>5. ActiveItemsAreUnique'
    BY <2>1 DEF ActiveItemsAreUnique
  <2>. QED
    BY <2>2, <2>3, <2>4, <2>5 DEF Logged
<1>9. CASE InsertItemsAndDetach(w)
  <2>1. UNCHANGED <<group, call, mode, interventions>> /\ worker[w].pc = "insert"
    BY <1>9 DEF InsertItemsAndDetach, InsertItems, Proceed
  <2>2. /\ Types' /\ worker'[w].pc = "idle"
        /\ \A v \in Workers \ {w} : worker'[v] = worker[v]
        /\ DOMAIN recommendations' = DOMAIN recommendations
        /\ \A n \in DOMAIN recommendations :
              /\ recommendations'[n].status = recommendations[n].status
              /\ recommendations'[n].log = recommendations[n].log
    BY <1>9, InsertKeepsTypes
  <2>3. LocksProtect'
    BY <2>1, <2>2, WriterKeepsLocks
  <2>4. Logged' /\ CallsFit'
    BY <2>1, <2>2, DetachedAdviceIsLogged, WaitingCallsStillFit DEF Logged
  <2>5. ActiveItemsAreUnique'
    BY <1>9, InsertKeepsDecisions DEF InsertItemsAndDetach
  <2>. QED
    BY <2>2, <2>3, <2>4, <2>5 DEF Logged
<1>10. CASE Propose(w)
  <2>1. UNCHANGED <<group, items, call, mode, recommendations>>
    BY <1>10 DEF Propose, Proceed
  <2>2. /\ Types' /\ worker'[w].pc = "idle"
        /\ \A v \in Workers \ {w} : worker'[v] = worker[v]
        /\ \A a \in Advice :
              \/ interventions'[a] = interventions[a]
              \/ ~ HasPending(a) /\ interventions'[a] = Append(interventions[a], Created)
    BY <1>10, ProposeKeepsTypes
  <2>3. LocksProtect'
    BY <2>1, <2>2, QuietWorkerKeepsLocks
  <2>4. Logged' /\ \A a \in Advice : DOMAIN interventions[a] \subseteq DOMAIN interventions'[a]
    BY <2>1, <2>2, ProposedAdviceIsLogged DEF Logged
  <2>5. CallsFit'
    BY <2>1, <2>4, WaitingCallsStillFit
  <2>6. ActiveItemsAreUnique'
    BY <2>1 DEF ActiveItemsAreUnique
  <2>. QED
    BY <2>2, <2>3, <2>4, <2>5, <2>6 DEF Logged
<1>. QED
  BY <1>1, <1>2, <1>3, <1>4, <1>5, <1>6, <1>7, <1>8, <1>9, <1>10 DEF PipelineStep

LEMMA AdviceStepKeepsInv ==
  ASSUME AdviceInv, NEW c \in Calls, AdviceStep(c)
  PROVE  AdviceInv'
<1>. USE DEF AdviceInv
<1>1. CASE StartGroupAdvice(c)
  <2>1. UNCHANGED <<group, items, worker, mode, advice>>
    BY <1>1 DEF StartGroupAdvice, StartCall
  <2>2. Types' /\ call'[c].pc = "generate" /\ \A d \in Calls \ {c} : call'[d] = call[d]
    BY <1>1, StartGroupAdviceKeepsTypes
  <2>. QED
    BY <2>1, <2>2, QuietCallKeepsInv
<1>2. ASSUME NEW item \in items, StartStudentAdvice(c, item)
      PROVE  AdviceInv'
  <2>1. UNCHANGED <<group, items, worker, mode, advice>>
    BY <1>2 DEF StartStudentAdvice, StartCall
  <2>2. Types' /\ call'[c].pc = "generate" /\ \A d \in Calls \ {c} : call'[d] = call[d]
    BY <1>2, StartStudentAdviceKeepsTypes
  <2>. QED
    BY <2>1, <2>2, QuietCallKeepsInv
<1>3. CASE InsertAdvice(c)
  <2>1. UNCHANGED <<group, items, worker, mode, interventions>>
    BY <1>3 DEF InsertAdvice, Unchanged
  <2>2. /\ Types' /\ call'[c].pc = "idle" /\ \A d \in Calls \ {c} : call'[d] = call[d]
        /\ \/ UNCHANGED recommendations
           \/ recommendations' = Append(recommendations, Inserted(call[c].row, call[c].item))
    BY <1>3, InsertAdviceKeepsTypes
  <2>3. Logged' /\ DOMAIN recommendations \subseteq DOMAIN recommendations'
    <3>1. CASE UNCHANGED recommendations
      BY <2>1, <3>1, UnchangedAdviceIsLogged DEF Logged, advice
    <3>2. CASE recommendations' = Append(recommendations, Inserted(call[c].row, call[c].item))
      BY <2>1, <3>2, InsertedAdviceIsLogged DEF Logged
    <3>. QED
      BY <2>2, <3>1, <3>2
  <2>4. LocksProtect' /\ CallsFit'
    BY <2>1, <2>2, <2>3, CallKeepsLocks, CallsStillFit
  <2>5. ActiveItemsAreUnique'
    BY <2>1 DEF ActiveItemsAreUnique
  <2>. QED
    BY <2>2, <2>3, <2>4, <2>5 DEF Logged
<1>4. ASSUME NEW op \in DOMAIN Decision, NEW signal, NEW n, NEW row,
             LoadAdvice(c, op, signal, n, row),
             op \in {"approve", "refuse"} => signal \in Advice /\ n \in DOMAIN interventions[signal],
             op \in {"assign", "discard"} => n \in DOMAIN recommendations
      PROVE  AdviceInv'
  <2>1. UNCHANGED <<group, items, worker, mode>>
    BY <1>4 DEF LoadAdvice, StartCall
  <2>2. /\ Types' /\ UNCHANGED advice /\ call'[c].pc \in {"idle", "decide"}
        /\ call'[c].pc = "decide" =>
             call'[c].op = op /\ call'[c].signal = signal /\ call'[c].n = n
        /\ \A d \in Calls \ {c} : call'[d] = call[d]
    BY <1>4, LoadAdviceKeepsTypes
  <2>3. UNCHANGED <<interventions, recommendations>>
    BY <2>2 DEF advice
  <2>4. CallsFit'
    BY <1>4, <2>1, <2>2, <2>3, CallsStillFit
  <2>5. Logged' /\ LocksProtect'
    BY <2>1, <2>2, UnchangedAdviceIsLogged, CallKeepsLocks DEF Logged
  <2>6. ActiveItemsAreUnique'
    BY <2>1 DEF ActiveItemsAreUnique
  <2>. QED
    BY <2>2, <2>4, <2>5, <2>6 DEF Logged
<1>5. CASE DecideIntervention(c)
  <2>. DEFINE a == call[c].signal
              n == call[c].n
              op == call[c].op
  <2>1. UNCHANGED <<group, items, worker, mode>>
    BY <1>5 DEF DecideIntervention, Unchanged
  <2>2. /\ Types' /\ call'[c].pc = "idle" /\ \A d \in Calls \ {c} : call'[d] = call[d]
        /\ op \in {"approve", "refuse"} /\ a \in Advice /\ n \in DOMAIN interventions[a]
        /\ UNCHANGED recommendations
        /\ interventions' = IF IsPending(interventions[a][n])
                            THEN [interventions EXCEPT ![a] =
                                    [@ EXCEPT ![n] = Decided(interventions[a][n], op)]]
                            ELSE interventions
    BY <1>5, DecideInterventionKeepsTypes
  <2>. HIDE DEF a, n, op
  <2>3. Logged' /\ \A b \in Advice : DOMAIN interventions'[b] = DOMAIN interventions[b]
    <3>1. CASE IsPending(interventions[a][n])
      BY <2>2, <3>1, DecidedInterventionIsLogged DEF Logged
    <3>2. CASE ~ IsPending(interventions[a][n])
      BY <2>2, <3>2, UnchangedAdviceIsLogged DEF Logged, advice
    <3>. QED
      BY <3>1, <3>2
  <2>4. LocksProtect' /\ CallsFit'
    BY <2>1, <2>2, <2>3, CallKeepsLocks, CallsStillFit
  <2>5. ActiveItemsAreUnique'
    BY <2>1 DEF ActiveItemsAreUnique
  <2>. QED
    BY <2>2, <2>3, <2>4, <2>5 DEF Logged
<1>6. CASE DecideRecommendation(c)
  <2>. DEFINE n == call[c].n
              op == call[c].op
  <2>1. UNCHANGED <<group, items, worker, mode>>
    BY <1>6 DEF DecideRecommendation, Unchanged
  <2>2. /\ Types' /\ call'[c].pc = "idle" /\ \A d \in Calls \ {c} : call'[d] = call[d]
        /\ op \in {"assign", "discard"} /\ n \in DOMAIN recommendations
        /\ UNCHANGED interventions
        /\ recommendations' = IF recommendations[n].present /\ IsPending(recommendations[n])
                              THEN [recommendations EXCEPT ![n] = Decided(recommendations[n], op)]
                              ELSE recommendations
    BY <1>6, DecideRecommendationKeepsTypes
  <2>. HIDE DEF n, op
  <2>3. Logged' /\ DOMAIN recommendations' = DOMAIN recommendations
    <3>1. CASE recommendations[n].present /\ IsPending(recommendations[n])
      BY <2>2, <3>1, DecidedRecommendationIsLogged DEF Logged
    <3>2. CASE ~ (recommendations[n].present /\ IsPending(recommendations[n]))
      BY <2>2, <3>2, UnchangedAdviceIsLogged DEF Logged, advice
    <3>. QED
      BY <3>1, <3>2
  <2>4. LocksProtect' /\ CallsFit'
    BY <2>1, <2>2, <2>3, CallKeepsLocks, CallsStillFit
  <2>5. ActiveItemsAreUnique'
    BY <2>1 DEF ActiveItemsAreUnique
  <2>. QED
    BY <2>2, <2>3, <2>4, <2>5 DEF Logged
<1>7. {"approve", "refuse", "assign", "discard"} \subseteq DOMAIN Decision
  BY DEF Decision
<1>8. ASSUME NEW op \in {"approve", "refuse"}, NEW a \in Advice, NEW n \in DOMAIN interventions[a],
             LoadAdvice(c, op, a, n, interventions[a][n])
      PROVE  AdviceInv'
  BY <1>4, <1>7, <1>8
<1>9. ASSUME NEW op \in {"assign", "discard"}, NEW n \in DOMAIN recommendations,
             LoadAdvice(c, op, NoItem, n, recommendations[n])
      PROVE  AdviceInv'
  BY <1>4, <1>7, <1>9
<1>. QED
  BY <1>1, <1>2, <1>3, <1>5, <1>6, <1>8, <1>9 DEF AdviceStep

LEMMA TeacherStepKeepsInv ==
  ASSUME AdviceInv, NEW c \in Calls, TeacherStep(c), UNCHANGED advice
  PROVE  AdviceInv'
<1>. USE DEF AdviceInv
<1>1. ASSUME NEW op \in DOMAIN Verdict, NEW item \in items, LoadItem(c, op, item)
      PROVE  AdviceInv'
  <2>1. UNCHANGED <<group, items, worker, mode, advice>>
    BY <1>1 DEF LoadItem, StartCall
  <2>2. /\ Types' /\ call'[c].pc \in {"idle", "update"}
        /\ \A d \in Calls \ {c} : call'[d] = call[d]
    BY <1>1, LoadItemKeepsTypes
  <2>. QED
    BY <2>1, <2>2, QuietCallKeepsInv
<1>2. CASE UpdateItem(c)
  <2>1. UNCHANGED <<group, worker, mode>>
    BY <1>2 DEF UpdateItem
  <2>2. Types' /\ call'[c].pc = "idle" /\ \A d \in Calls \ {c} : call'[d] = call[d]
    BY <1>2, UpdateItemKeepsTypes
  <2>3. ActiveItemsAreUnique' /\ \A i \in items' : i.status = "active" => i \in items
    BY <1>2, UpdateKeepsDecisions
  <2>4. LocksProtect' /\ CallsFit'
    BY <2>1, <2>2, <2>3, CallKeepsLocks, CallsStillFit DEF advice
  <2>5. Logged'
    BY UnchangedAdviceIsLogged DEF Logged
  <2>. QED
    BY <2>2, <2>3, <2>4, <2>5 DEF Logged
<1>3. ASSUME NEW members \in SUBSET Students, LoadGroup(c, members)
      PROVE  AdviceInv'
  <2>1. UNCHANGED <<group, items, worker, mode, advice>>
    BY <1>3 DEF LoadGroup, StartCall
  <2>2. /\ Types' /\ call'[c].pc = "edit" /\ mode.screen = "groups"
        /\ \A d \in Calls \ {c} : call'[d] = call[d]
    BY <1>3, LoadGroupKeepsTypes
  <2>. QED
    BY <2>1, <2>2, QuietCallKeepsInv
<1>4. CASE EditGroup(c)
  <2>1. UNCHANGED <<items, worker, mode, advice>>
    BY <1>4 DEF EditGroup
  <2>2. /\ Types' /\ call[c].pc = "edit" /\ call'[c].pc = "idle"
        /\ \A d \in Calls \ {c} : call'[d] = call[d]
    BY <1>4, EditGroupKeepsTypes
  <2>3. mode.screen = "groups"
    BY <2>2 DEF CallsFit
  <2>. QED
    BY <2>1, <2>2, <2>3, QuietCallKeepsInv
<1>. QED
  BY <1>1, <1>2, <1>3, <1>4 DEF TeacherStep

\* A new message in the queue disturbs nothing.
LEMMA SendingKeepsInv ==
  ASSUME AdviceInv, Types', UNCHANGED <<group, items, worker, call, mode, advice>>
  PROVE  AdviceInv'
<1>1. LocksProtect'
  BY CallKeepsLocks DEF AdviceInv
<1>2. Logged'
  BY UnchangedAdviceIsLogged DEF AdviceInv, Logged
<1>3. CallsFit'
  BY WaitingCallsStillFit DEF AdviceInv, advice
<1>4. ActiveItemsAreUnique'
  BY DEF AdviceInv, ActiveItemsAreUnique
<1>. QED
  BY <1>1, <1>2, <1>3, <1>4 DEF AdviceInv, Logged

LEMMA AdviceNextKeepsInv == AdviceInv /\ [AdviceNext]_allVars => AdviceInv'
<1>. SUFFICES ASSUME AdviceInv, [AdviceNext]_allVars PROVE AdviceInv'
  OBVIOUS
<1>1. ASSUME NEW s \in Students, NEW final \in Finals, LockGrade(s, final), UNCHANGED advice
      PROVE  AdviceInv'
  <2>1. UNCHANGED <<group, items, worker, call, mode, advice>>
    BY <1>1 DEF LockGrade
  <2>2. Types'
    BY <1>1, LockGradeKeepsTypes DEF AdviceInv
  <2>. QED
    BY <2>1, <2>2, SendingKeepsInv
<1>2. CASE Beat
  <2>1. UNCHANGED <<group, items, worker, call, mode, advice>>
    BY <1>2 DEF Beat
  <2>2. Types'
    BY <1>2, BeatKeepsTypes DEF AdviceInv
  <2>. QED
    BY <2>1, <2>2, SendingKeepsInv
<1>3. ASSUME NEW w \in Workers, FailTask(w), UNCHANGED advice
      PROVE  AdviceInv'
  <2>1. UNCHANGED <<group, items, call, mode, advice>>
    BY <1>3 DEF FailTask
  <2>2. /\ Types' /\ worker'[w].pc = "idle"
        /\ \A v \in Workers \ {w} : worker'[v] = worker[v]
    BY <1>3, FailKeepsTypes DEF AdviceInv
  <2>. QED
    BY <2>1, <2>2, QuietWorkerKeepsInv
<1>4. CASE UNCHANGED allVars
  <2>1. UNCHANGED <<group, items, worker, call, mode, advice>>
    BY <1>4 DEF allVars, vars
  <2>2. Types'
    BY <1>4 DEF allVars, vars, advice, AdviceInv, Types, Tables, WorkersAndCalls
  <2>. QED
    BY <2>1, <2>2, SendingKeepsInv
<1>. QED
  BY <1>1, <1>2, <1>3, <1>4, PipelineStepKeepsInv, AdviceStepKeepsInv, TeacherStepKeepsInv
     DEF AdviceNext

LEMMA AdviceInvHolds == AdviceSpec => []AdviceInv
BY AdviceInitInv, AdviceNextKeepsInv, PTL DEF AdviceSpec

---------------------------------------------------------------------------
(* Theorems *)

\* Rows, messages and what the workers carry keep their types, for any number of
\* students, workers and handlers.
THEOREM AdviceTypesHold == AdviceSpec => []AdviceTypeOK
<1>1. AdviceInv => AdviceTypeOK
  BY DEF AdviceInv, Types, Tables, WorkersAndCalls, WorkerRecord, AdviceTypeOK, TypeOK, Busy
<1>. QED
  BY <1>1, AdviceInvHolds, PTL

\* However many refreshes of the worklist overlap with the teacher's calls, at most
\* one active item stands for a signal (compute_and_persist_worklist).
THEOREM ActiveItemsAreAlwaysUnique == AdviceSpec => []ActiveItemsAreUnique
<1>1. AdviceInv => ActiveItemsAreUnique
  BY DEF AdviceInv
<1>. QED
  BY <1>1, AdviceInvHolds, PTL

\* No refresh and no racing call undoes a decision of the teacher about an item.
THEOREM DecisionsAreNeverLost == AdviceSpec => DecisionsAreKept
<1>1. AdviceInv /\ [AdviceNext]_allVars => [KeepsDecisions]_vars
  <2>. SUFFICES ASSUME AdviceInv, [AdviceNext]_allVars, vars' # vars
                PROVE  KeepsDecisions
    OBVIOUS
  <2>1. ASSUME UNCHANGED items PROVE KeepsDecisions
    BY <2>1 DEF KeepsDecisions, SameItem
  <2>2. ASSUME NEW w \in Workers, PipelineStep(w) PROVE KeepsDecisions
    <3>1. CASE InsertItemsAndDetach(w)
      BY <3>1, InsertKeepsDecisions DEF AdviceInv, InsertItemsAndDetach
    <3>2. CASE ~ InsertItemsAndDetach(w)
      <4>1. UNCHANGED items
        BY <2>2, <3>2 DEF PipelineStep, ReadGrades, ReadProfiles, StartWorklist, StartScan, Take,
             UpsertProfile, LockClass, ReadSignals, DeleteActive, ReplaceGroupsAndAdvice,
             ReplaceGroups, ReadPending, Propose
      <4>. QED
        BY <2>1, <4>1
    <3>. QED
      BY <3>1, <3>2
  <2>3. ASSUME NEW c \in Calls, AdviceStep(c) PROVE KeepsDecisions
    <3>1. UNCHANGED items
      BY <2>3 DEF AdviceStep, StartGroupAdvice, StartStudentAdvice, LoadAdvice, StartCall,
           InsertAdvice, DecideIntervention, DecideRecommendation, Unchanged
    <3>. QED
      BY <2>1, <3>1
  <2>4. ASSUME NEW c \in Calls, TeacherStep(c), UNCHANGED advice PROVE KeepsDecisions
    <3>1. CASE UpdateItem(c)
      BY <2>4, <3>1, UpdateKeepsDecisions DEF AdviceInv
    <3>2. CASE ~ UpdateItem(c)
      <4>1. UNCHANGED items
        BY <2>4, <3>2 DEF TeacherStep, LoadItem, LoadGroup, StartCall, EditGroup
      <4>. QED
        BY <2>1, <4>1
    <3>. QED
      BY <3>1, <3>2
  <2>5. CASE \/ \E s \in Students, final \in Finals : LockGrade(s, final) /\ UNCHANGED advice
             \/ Beat
             \/ \E w \in Workers : FailTask(w) /\ UNCHANGED advice
             \/ UNCHANGED allVars
    <3>1. UNCHANGED items
      BY <2>5 DEF LockGrade, Beat, FailTask, allVars, vars
    <3>. QED
      BY <2>1, <3>1
  <2>. QED
    BY <2>2, <2>3, <2>4, <2>5 DEF AdviceNext
<1>2. DecisionsAreKept <=> [][KeepsDecisions]_vars
  BY DEF DecisionsAreKept, KeepsDecisions
<1>. QED
  BY <1>1, <1>2, AdviceInvHolds, PTL DEF AdviceSpec

\* Edits that decide by stale rows and recomputations between them leave a group
\* exited exactly if it has no members (update_group_members,
\* compute_and_persist_groups).
THEOREM ExitedIsAlwaysEmpty == AdviceSpec => []ExitedIsEmpty
<1>1. AdviceInit => ExitedIsEmpty
  <2>. SUFFICES ASSUME AdviceInit, Clusters(locked) # {} PROVE ExitedIsEmpty
    BY DEF AdviceInit, Init, ExitedIsEmpty
  <2>. DEFINE members == Clusters(locked)
  <2>1. group = [id |-> 0, members |-> members, stability |-> "new"] /\ members # {}
    BY DEF AdviceInit, Init
  <2>. HIDE DEF members
  <2>. QED
    BY <2>1 DEF ExitedIsEmpty
<1>2. ASSUME AdviceInv, ExitedIsEmpty, NEW w \in Workers, ReplaceGroups(w)
      PROVE  ExitedIsEmpty'
  <2>1. PICK members, stability :
          /\ group' = NoGroup \/ group' = [id |-> runs, members |-> members, stability |-> stability]
          /\ stability = "exited" <=> members = {}
    <3>1. CASE worker[w].members # {}
      <4>1. \E stability \in {"new", "persistent"} :
              group' = [id |-> runs, members |-> worker[w].members, stability |-> stability]
        BY <1>2, <3>1 DEF ReplaceGroups
      <4>. QED
        BY <3>1, <4>1
    <3>2. CASE worker[w].members = {}
      <4>1. group' = NoGroup \/ group' = [id |-> runs, members |-> {}, stability |-> "exited"]
        BY <1>2, <3>2 DEF ReplaceGroups
      <4>. QED
        BY <4>1
    <3>. QED
      BY <3>1, <3>2
  <2>. QED
    BY <2>1 DEF ExitedIsEmpty
<1>3. ASSUME AdviceInv, ExitedIsEmpty, NEW c \in Calls, EditGroup(c)
      PROVE  ExitedIsEmpty'
  <2>. DEFINE row == call[c].row
              members == call[c].members
              stability == CASE members = {} -> "exited"
                             [] members # {} /\ row.stability = "exited" -> "persistent"
                             [] OTHER -> row.stability
  <2>. DEFINE found == group # NoGroup /\ group.id = row.id
  <2>0. group' = IF ~ found THEN group
                 ELSE [group EXCEPT !.members = members, !.stability = stability]
    BY <1>3 DEF EditGroup
  <2>2. stability = "exited" <=> members = {}
    <3>1. CASE members = {}
      BY <3>1
    <3>2. CASE members # {} /\ row.stability = "exited"
      BY <3>2
    <3>3. CASE members # {} /\ row.stability # "exited"
      BY <3>3
    <3>. QED
      BY <3>1, <3>2, <3>3
  <2>. HIDE DEF stability, members
  <2>3. group \in GroupRow \union {NoGroup}
    BY <1>3 DEF AdviceInv, Types, Tables
  <2>4. CASE ~ found
    BY <1>3, <2>0, <2>4 DEF ExitedIsEmpty
  <2>5. CASE found
    <3>1. group' = [group EXCEPT !.members = members, !.stability = stability]
      BY <2>0, <2>5
    <3>2. group'.members = members /\ group'.stability = stability
      BY <2>3, <2>5, <3>1 DEF GroupRow
    <3>. QED
      BY <2>2, <3>2 DEF ExitedIsEmpty
  <2>. QED
    BY <2>4, <2>5
<1>4. AdviceInv /\ ExitedIsEmpty /\ [AdviceNext]_allVars => ExitedIsEmpty'
  <2>. SUFFICES ASSUME AdviceInv, ExitedIsEmpty, [AdviceNext]_allVars PROVE ExitedIsEmpty'
    OBVIOUS
  <2>1. ASSUME UNCHANGED group PROVE ExitedIsEmpty'
    BY <2>1 DEF ExitedIsEmpty
  <2>2. ASSUME NEW w \in Workers, PipelineStep(w) PROVE ExitedIsEmpty'
    <3>1. CASE ReplaceGroupsAndAdvice(w)
      BY <1>2, <3>1 DEF ReplaceGroupsAndAdvice
    <3>2. CASE ~ ReplaceGroupsAndAdvice(w)
      <4>1. UNCHANGED group
        BY <2>2, <3>2 DEF PipelineStep, ReadGrades, ReadProfiles, StartWorklist, StartScan, Take,
             UpsertProfile, LockClass, ReadSignals, DeleteActive, InsertItemsAndDetach,
             InsertItems, ReadPending, Propose
      <4>. QED
        BY <2>1, <4>1
    <3>. QED
      BY <3>1, <3>2
  <2>3. ASSUME NEW c \in Calls, AdviceStep(c) PROVE ExitedIsEmpty'
    <3>1. UNCHANGED group
      BY <2>3 DEF AdviceStep, StartGroupAdvice, StartStudentAdvice, LoadAdvice, StartCall,
           InsertAdvice, DecideIntervention, DecideRecommendation, Unchanged
    <3>. QED
      BY <2>1, <3>1
  <2>4. ASSUME NEW c \in Calls, TeacherStep(c) PROVE ExitedIsEmpty'
    <3>1. CASE EditGroup(c)
      BY <1>3, <3>1
    <3>2. CASE ~ EditGroup(c)
      <4>1. UNCHANGED group
        BY <2>4, <3>2 DEF TeacherStep, LoadItem, LoadGroup, StartCall, UpdateItem
      <4>. QED
        BY <2>1, <4>1
    <3>. QED
      BY <3>1, <3>2
  <2>5. CASE \/ \E s \in Students, final \in Finals : LockGrade(s, final) /\ UNCHANGED advice
             \/ Beat
             \/ \E w \in Workers : FailTask(w) /\ UNCHANGED advice
             \/ UNCHANGED allVars
    <3>1. UNCHANGED group
      BY <2>5 DEF LockGrade, Beat, FailTask, allVars, vars
    <3>. QED
      BY <2>1, <3>1
  <2>. QED
    BY <2>2, <2>3, <2>4, <2>5 DEF AdviceNext
<1>. QED
  BY <1>1, <1>4, AdviceInvHolds, PTL DEF AdviceSpec

HistoryTold ==
  group' # group /\ mode.screen # "groups" =>
    /\ group' # NoGroup =>
         /\ group'.stability = "persistent" <=> group'.members # {} /\ Active(group)
         /\ group'.stability = "new" <=> group'.members # {} /\ ~ Active(group)
    /\ Active(group) => group' # NoGroup

LabelTold ==
  /\ ExitedIsEmpty'
  /\ HistoryTold

\* An exited group is one without members, and while the teacher does not edit the
\* group, the stability of the row that replaces it tells what was there, however the
\* recomputations overlap (compute_and_persist_groups).
THEOREM StabilityAlwaysTellsHistory == AdviceSpec => StabilityTellsHistory
<1>1. ASSUME AdviceInv, NEW w \in Workers, ReplaceGroups(w)
      PROVE  HistoryTold
  <2>. SUFFICES ASSUME mode.screen # "groups" PROVE HistoryTold
    BY DEF HistoryTold
  <2>1. worker[w].before <=> Active(group)
    BY <1>1 DEF AdviceInv, LocksProtect, ReplaceGroups
  <2>2. CASE worker[w].members # {} /\ worker[w].before
    <3>1. group' = [id |-> runs, members |-> worker[w].members, stability |-> "persistent"]
      BY <1>1, <2>2 DEF ReplaceGroups
    <3>2. group' # NoGroup
      <4>1. worker[w].members \subseteq Students /\ runs \in Nat
        BY <1>1 DEF AdviceInv, Types, Tables, WorkersAndCalls, WorkerRecord, ReplaceGroups
      <4>2. group' \in GroupRow
        BY <3>1, <4>1 DEF GroupRow, Stability
      <4>. QED
        BY <4>2, NoGroupAssumption
    <3>3. group'.stability = "persistent" /\ group'.members = worker[w].members
      BY <3>1
    <3>. QED
      BY <2>1, <2>2, <3>2, <3>3 DEF HistoryTold
  <2>3. CASE worker[w].members # {} /\ ~ worker[w].before
    <3>1. group' = [id |-> runs, members |-> worker[w].members, stability |-> "new"]
      BY <1>1, <2>3 DEF ReplaceGroups
    <3>2. group'.stability = "new" /\ group'.members = worker[w].members
      BY <3>1
    <3>. QED
      BY <2>1, <2>3, <3>2 DEF HistoryTold
  <2>4. CASE worker[w].members = {} /\ worker[w].before
    <3>1. group' = [id |-> runs, members |-> {}, stability |-> "exited"]
      BY <1>1, <2>4 DEF ReplaceGroups
    <3>2. group' # NoGroup
      <4>1. runs \in Nat
        BY <1>1 DEF AdviceInv, Types, Tables
      <4>2. group' \in GroupRow
        BY <3>1, <4>1 DEF GroupRow, Stability
      <4>. QED
        BY <4>2, NoGroupAssumption
    <3>3. group'.stability = "exited" /\ group'.members = {}
      BY <3>1
    <3>. QED
      BY <2>1, <3>2, <3>3 DEF HistoryTold
  <2>5. CASE worker[w].members = {} /\ ~ worker[w].before
    <3>1. group' = NoGroup
      BY <1>1, <2>5 DEF ReplaceGroups
    <3>. QED
      BY <2>1, <2>5, <3>1 DEF HistoryTold
  <2>. QED
    BY <2>2, <2>3, <2>4, <2>5
<1>2. AdviceInv /\ [AdviceNext]_allVars => [HistoryTold]_vars
  <2>. SUFFICES ASSUME AdviceInv, [AdviceNext]_allVars, vars' # vars
                PROVE  HistoryTold
    OBVIOUS
  <2>1. ASSUME UNCHANGED group PROVE HistoryTold
    BY <2>1 DEF HistoryTold
  <2>2. ASSUME NEW w \in Workers, PipelineStep(w) PROVE HistoryTold
    <3>1. CASE ReplaceGroupsAndAdvice(w)
      BY <1>1, <3>1 DEF ReplaceGroupsAndAdvice
    <3>2. CASE ~ ReplaceGroupsAndAdvice(w)
      <4>1. UNCHANGED group
        BY <2>2, <3>2 DEF PipelineStep, ReadGrades, ReadProfiles, StartWorklist, StartScan, Take,
             UpsertProfile, LockClass, ReadSignals, DeleteActive, InsertItemsAndDetach,
             InsertItems, ReadPending, Propose
      <4>. QED
        BY <2>1, <4>1
    <3>. QED
      BY <3>1, <3>2
  <2>3. ASSUME NEW c \in Calls, AdviceStep(c) PROVE HistoryTold
    <3>1. UNCHANGED group
      BY <2>3 DEF AdviceStep, StartGroupAdvice, StartStudentAdvice, LoadAdvice, StartCall,
           InsertAdvice, DecideIntervention, DecideRecommendation, Unchanged
    <3>. QED
      BY <2>1, <3>1
  <2>4. ASSUME NEW c \in Calls, TeacherStep(c) PROVE HistoryTold
    <3>1. CASE EditGroup(c)
      <4>1. mode.screen = "groups"
        BY <3>1 DEF AdviceInv, CallsFit, EditGroup
      <4>. QED
        BY <4>1 DEF HistoryTold
    <3>2. CASE ~ EditGroup(c)
      <4>1. UNCHANGED group
        BY <2>4, <3>2 DEF TeacherStep, LoadItem, LoadGroup, StartCall, UpdateItem
      <4>. QED
        BY <2>1, <4>1
    <3>. QED
      BY <3>1, <3>2
  <2>5. CASE \/ \E s \in Students, final \in Finals : LockGrade(s, final) /\ UNCHANGED advice
             \/ Beat
             \/ \E w \in Workers : FailTask(w) /\ UNCHANGED advice
             \/ UNCHANGED allVars
    <3>1. UNCHANGED group
      BY <2>5 DEF LockGrade, Beat, FailTask, allVars, vars
    <3>. QED
      BY <2>1, <3>1
  <2>. QED
    BY <2>2, <2>3, <2>4, <2>5 DEF AdviceNext
<1>3. StabilityTellsHistory <=> [][LabelTold]_vars
  BY DEF StabilityTellsHistory, LabelTold, HistoryTold
<1>4. LabelTold <=> ExitedIsEmpty' /\ HistoryTold
  BY DEF LabelTold
<1>. QED
  BY <1>2, <1>3, <1>4, ExitedIsAlwaysEmpty, AdviceInvHolds, PTL DEF AdviceSpec

\* Overlapping scans leave one pending intervention per signal, and the audit log of
\* every intervention and recommendation tells its status, with one entry per
\* transition, however decisions race.
THEOREM DecisionsAreAlwaysLogged == AdviceSpec => []DecisionsAreLogged
<1>1. Types /\ PendingIsUnique => OnePendingPerSignal
  <2>. SUFFICES ASSUME Types, PendingIsUnique, NEW a \in Advice
                PROVE  Cardinality({n \in DOMAIN interventions[a] : IsPending(interventions[a][n])}) <= 1
    BY DEF OnePendingPerSignal
  <2>. DEFINE pending == {n \in DOMAIN interventions[a] : IsPending(interventions[a][n])}
  <2>1. \A m, n \in pending : m = n
    BY DEF PendingIsUnique
  <2>. HIDE DEF pending
  <2>2. CASE pending = {}
    BY <2>2, FS_EmptySet DEF pending
  <2>3. CASE pending # {}
    <3>1. PICK n \in pending : pending = {n}
      BY <2>1, <2>3
    <3>2. Cardinality(pending) = 1
      BY <3>1, FS_Singleton
    <3>. QED
      BY <3>2 DEF pending
  <2>. QED
    BY <2>2, <2>3
<1>2. AdviceInv => DecisionsAreLogged
  BY <1>1 DEF AdviceInv, DecisionsAreLogged, InterventionsAreLogged, RecommendationsAreLogged
<1>. QED
  BY <1>2, AdviceInvHolds, PTL

---------------------------------------------------------------------------
(* Answers *)

LEMMA UpdateAnswersTruly ==
  ASSUME Types, NEW c \in Calls, UpdateItem(c), UNCHANGED advice
  PROVE  ItemAnswerIsTrue(c)
<1>. DEFINE item == call[c].item
            op == call[c].op
            open == OpenRows(item)
            chosen == CHOOSE i \in Now(item) : TRUE
            answer == CASE open # {}                        -> "ok"
                        [] Now(item) = {} /\ op # "snooze"  -> "error"
                        [] Now(item) = {} /\ op = "snooze"  -> "refused"
                        [] OTHER -> Closed(op, chosen.status)
<1>1. /\ op \in DOMAIN Verdict
      /\ items' = (items \ open) \union {Moved(i, op) : i \in open}
  BY UpdateItemKeepsTypes
<1>2. Answer(c, answer)
  BY DEF UpdateItem, OpenRows
<1>3. call'[c].answer = answer
  <2>. HIDE DEF answer
  <2>. QED
    BY <1>2, AnswerMoves DEF UpdateItem, Types
<1>4. open = {i \in Now(item) : i.status \in Open} /\ Now(item) = {i \in items : SameItem(i, item)}
  BY DEF OpenRows, Now
<1>. SUFFICES ASSUME answer = "ok"
              PROVE  \E i \in items' : SameItem(i, item) /\ i.status = Verdict[op]
  BY <1>3 DEF ItemAnswerIsTrue
<1>5. CASE open # {}
  <2>1. PICK i \in open : TRUE
    BY <1>5
  <2>2. i \in Item /\ SameItem(i, item)
    BY <1>4, <2>1 DEF Types, Tables
  <2>3. /\ Moved(i, op).status = Verdict[op]
        /\ Moved(i, op).signal = i.signal /\ Moved(i, op).run = i.run
    BY <1>1, <2>2, MovedItem
  <2>4. Moved(i, op) \in items' /\ SameItem(Moved(i, op), item)
    BY <1>1, <2>1, <2>2, <2>3 DEF SameItem
  <2>. QED
    BY <2>3, <2>4
<1>6. CASE open = {}
  <2>1. Now(item) # {} /\ Closed(op, chosen.status) = "ok"
    BY <1>6
  <2>2. chosen \in Now(item)
    BY <2>1
  <2>3. chosen.status = Verdict[op]
    <3>. HIDE DEF chosen
    <3>. QED
      BY <2>1 DEF Closed
  <2>. HIDE DEF chosen
  <2>4. chosen \in items' /\ SameItem(chosen, item)
    BY <1>1, <1>4, <1>6, <2>2
  <2>. QED
    BY <2>3, <2>4
<1>. QED
  BY <1>5, <1>6

LEMMA DecideAnswersTruly ==
  ASSUME AdviceInv, NEW c \in Calls, DecideIntervention(c) \/ DecideRecommendation(c)
  PROVE  DecisionAnswerIsTrue(c)
<1>. USE DEF AdviceInv
<1>1. CASE DecideIntervention(c)
  <2>. DEFINE a == call[c].signal
              n == call[c].n
              op == call[c].op
              row == interventions[a][n]
              answer == IF IsPending(row) THEN "ok" ELSE Settled(op, row.status)
  <2>1. /\ op \in {"approve", "refuse"} /\ a \in Advice /\ n \in DOMAIN interventions[a]
        /\ UNCHANGED recommendations
        /\ interventions' = IF IsPending(row)
                            THEN [interventions EXCEPT ![a] = [@ EXCEPT ![n] = Decided(row, op)]]
                            ELSE interventions
    BY <1>1, DecideInterventionKeepsTypes
  <2>2. Answer(c, answer) /\ UNCHANGED worker
    BY <1>1 DEF DecideIntervention, Unchanged
  <2>. HIDE DEF answer
  <2>3. call'[c].answer = answer
    BY <2>2, AnswerMoves DEF Types
  <2>. SUFFICES ASSUME answer = "ok"
                PROVE  interventions'[a][n].status = Decision[op]
    BY <2>1, <2>3 DEF DecisionAnswerIsTrue
  <2>4. CASE IsPending(row)
    <3>. HIDE DEF a, n, op
    <3>. QED
      BY <2>1, <2>4, DecidedInterventionIsLogged DEF Logged
  <2>5. CASE ~ IsPending(row)
    BY <2>1, <2>5 DEF answer, Settled
  <2>. QED
    BY <2>4, <2>5
<1>2. CASE DecideRecommendation(c)
  <2>. DEFINE n == call[c].n
              op == call[c].op
              row == recommendations[n]
              may == row.present /\ IsPending(row)
              answer == CASE may \/ (row.present /\ op = "assign") -> "ok"
                          [] ~ row.present                         -> "error"
                          [] OTHER                                 -> Settled(op, row.status)
  <2>1. /\ op \in {"assign", "discard"} /\ n \in DOMAIN recommendations
        /\ UNCHANGED interventions
        /\ recommendations' = IF may THEN [recommendations EXCEPT ![n] = Decided(row, op)]
                              ELSE recommendations
    BY <1>2, DecideRecommendationKeepsTypes
  <2>2. Answer(c, answer) /\ UNCHANGED worker
    BY <1>2 DEF DecideRecommendation, Unchanged
  <2>. HIDE DEF answer
  <2>3. call'[c].answer = answer
    BY <2>2, AnswerMoves DEF Types
  <2>4. Decision.discard = "dismissed"
    BY DEF Decision
  <2>. SUFFICES ASSUME answer = "ok", op = "discard"
                PROVE  recommendations'[n].status = Decision[op]
    BY <2>1, <2>3, <2>4 DEF DecisionAnswerIsTrue
  <2>5. CASE may
    <3>1. IsPending(row)
      BY <2>5
    <3>. HIDE DEF n, op
    <3>. QED
      BY <2>1, <2>5, <3>1, DecidedRecommendationIsLogged DEF Logged
  <2>6. CASE ~ may
    <3>1. row.present /\ Settled(op, row.status) = "ok"
      BY <2>6 DEF answer
    <3>. QED
      BY <2>1, <2>6, <3>1 DEF Settled
  <2>. QED
    BY <2>5, <2>6
<1>. QED
  BY <1>1, <1>2

AnswersTruly(c) == ItemAnswerIsTrue(c) /\ DecisionAnswerIsTrue(c)

\* A call that has not been answered has no answer yet.
LEMMA UnansweredCall ==
  ASSUME WorkersAndCalls, NEW c \in Calls, call'[c] = call[c] \/ call[c].pc \notin {"update", "decide"}
  PROVE  AnswersTruly(c)
<1>1. call[c].pc \in {"update", "decide"} => call[c].answer = "none"
  BY DEF WorkersAndCalls, CallRecord
<1>. QED
  BY <1>1 DEF AnswersTruly, ItemAnswerIsTrue, DecisionAnswerIsTrue

\* A call that answers 200 has its effect, on items, interventions and discarded
\* recommendations, whatever was decided meanwhile.
THEOREM AnswersAreAlwaysTrue == AdviceSpec => AnswersAreTrue
<1>1. ASSUME AdviceInv, [AdviceNext]_allVars, NEW c \in Calls
      PROVE  AnswersTruly(c)
  <2>. USE DEF AdviceInv, Types
  <2>1. CASE call'[c] = call[c]
    BY <1>1, <2>1, UnansweredCall
  <2>2. ASSUME NEW d \in Calls, AdviceStep(d) \/ (TeacherStep(d) /\ UNCHANGED advice)
        PROVE  AnswersTruly(c)
    <3>1. CASE d # c
      <4>1. \E new : call' = [call EXCEPT ![d] = new]
        BY <2>2 DEF AdviceStep, TeacherStep, StartGroupAdvice, StartStudentAdvice, LoadAdvice,
             LoadItem, LoadGroup, StartCall, InsertAdvice, DecideIntervention,
             DecideRecommendation, UpdateItem, EditGroup, Answer
      <4>2. call'[c] = call[c]
        BY <1>1, <3>1, <4>1 DEF WorkersAndCalls
      <4>. QED
        BY <2>1, <4>2
    <3>2. CASE d = c
      <4>1. CASE UpdateItem(c) /\ UNCHANGED advice
        <5>1. ItemAnswerIsTrue(c)
          BY <1>1, <4>1, UpdateAnswersTruly
        <5>2. DecisionAnswerIsTrue(c)
          BY <4>1 DEF UpdateItem, DecisionAnswerIsTrue
        <5>. QED
          BY <5>1, <5>2 DEF AnswersTruly
      <4>2. CASE DecideIntervention(c) \/ DecideRecommendation(c)
        <5>1. DecisionAnswerIsTrue(c)
          BY <1>1, <4>2, DecideAnswersTruly
        <5>2. ItemAnswerIsTrue(c)
          BY <4>2 DEF DecideIntervention, DecideRecommendation, ItemAnswerIsTrue
        <5>. QED
          BY <5>1, <5>2 DEF AnswersTruly
      <4>3. CASE AdviceStep(c) /\ ~ (DecideIntervention(c) \/ DecideRecommendation(c))
        <5>1. call[c].pc \in {"idle", "generate"}
          BY <4>3 DEF AdviceStep, StartGroupAdvice, StartStudentAdvice, LoadAdvice, StartCall,
               InsertAdvice
        <5>. QED
          BY <1>1, <5>1, UnansweredCall
      <4>4. CASE TeacherStep(c) /\ ~ UpdateItem(c)
        <5>1. call[c].pc \in {"idle", "edit"}
          BY <4>4 DEF TeacherStep, LoadItem, LoadGroup, StartCall, EditGroup
        <5>. QED
          BY <1>1, <5>1, UnansweredCall
      <4>. QED
        BY <2>2, <3>2, <4>1, <4>2, <4>3, <4>4
    <3>. QED
      BY <3>1, <3>2
  <2>3. CASE \/ \E s \in Students, final \in Finals : LockGrade(s, final) /\ UNCHANGED advice
             \/ Beat
             \/ \E w \in Workers : PipelineStep(w) \/ (FailTask(w) /\ UNCHANGED advice)
             \/ UNCHANGED allVars
    <3>1. UNCHANGED call
      BY <2>3 DEF LockGrade, Beat, FailTask, allVars, vars, PipelineStep, ReadGrades, ReadProfiles,
           StartWorklist, StartScan, Take, UpsertProfile, LockClass, ReadSignals, DeleteActive,
           ReplaceGroupsAndAdvice, ReplaceGroups, InsertItemsAndDetach, InsertItems, ReadPending,
           Propose, Proceed
    <3>. QED
      BY <2>1, <3>1
  <2>. QED
    BY <1>1, <2>2, <2>3 DEF AdviceNext
<1>2. AdviceInv /\ [AdviceNext]_allVars => [\A c \in Calls : AnswersTruly(c)]_allVars
  BY <1>1
<1>3. AnswersAreTrue <=> [][\A c \in Calls : AnswersTruly(c)]_allVars
  BY DEF AnswersAreTrue, AnswersTruly
<1>. QED
  BY <1>2, <1>3, AdviceInvHolds, PTL DEF AdviceSpec

---------------------------------------------------------------------------
(* With one worker and no failure the pipeline settles                     *)

\* Messages wait with one of the tasks.
Waits(task) == \E i \in 1 .. Len(queue) : queue[i].task = task

ProfileWaits(s) == \E i \in 1 .. Len(queue) : queue[i].task = "profile" /\ queue[i].student = s

\* A profile is followed by the groups, and those by the worklist.
QueueInOrder ==
  \A i \in 1 .. Len(queue) :
    /\ queue[i].task = "profile" => \E j \in i + 1 .. Len(queue) : queue[j].task = "groups"
    /\ queue[i].task = "groups" => \E j \in i + 1 .. Len(queue) : queue[j].task = "worklist"

WorkInOrder ==
  \A w \in Workers :
    /\ worker[w].pc = "upsert" => Waits("groups") /\ Waits("worklist")
    /\ worker[w].pc \in {"lockClass", "replace"} => Waits("worklist")

WorksAlone(w) == \A v \in Workers \ {w} : worker[v].pc = "idle"

OneWorks == \A w \in Workers : worker[w].pc # "idle" => WorksAlone(w)

Upserts(w, s) == worker[w].pc = "upsert" /\ worker[w].message.student = s

\* What no message waits to compute again is up to date, or is being written.
ProfilesFollow ==
  \A s \in Students : ~ ProfileWaits(s) =>
    /\ \A w \in Workers : Upserts(w, s) => worker[w].scores = locked[s]
    /\ (\A w \in Workers : ~ Upserts(w, s)) => profile[s] = locked[s]

MembersOf(row) == IF row = NoGroup THEN {} ELSE row.members

GroupFollows ==
  ~ Waits("groups") =>
    /\ \A w \in Workers : worker[w].pc \in {"lockClass", "replace"} =>
         worker[w].members = Clusters(profile)
    /\ (\A w \in Workers : worker[w].pc \notin {"lockClass", "replace"}) =>
         MembersOf(group) = Clusters(profile)

SignalsNow == Signals(profile, Persistent(group), locked)

ItemsFit(signals) ==
  /\ \A i \in items : i.status = "active" => i.signal \in signals
  /\ \A g \in signals : \E i \in items : i.signal = g

ItemsFollow ==
  ~ Waits("worklist") =>
    /\ \A w \in Workers : worker[w].pc = "signals" => worker[w].profiles = profile
    /\ \A w \in Workers : worker[w].pc \in {"lockUser", "insert"} => worker[w].computed = SignalsNow
    /\ (\A w \in Workers : worker[w].pc \notin {"signals", "lockUser", "insert"}) =>
         ItemsFit(SignalsNow)

Orderly == mode.serial /\ mode.faults = 0 /\ mode.screen # "groups"

LeftOver == [serial : BOOLEAN, screen : {"worklist", "groups", "advice"},
             locks : Int, calls : Int, faults : Int, scans : Int]

NothingFails == left \in LeftOver /\ left.faults = 0

Settling == /\ NothingFails
            /\ OneWorks /\ QueueInOrder /\ WorkInOrder
            /\ ProfilesFollow /\ GroupFollows /\ ItemsFollow

\* What waits once the oldest message is taken.
LEMMA TailWaits ==
  ASSUME queue \in Seq(Message), queue # <<>>, queue' = Tail(queue), QueueInOrder
  PROVE  /\ QueueInOrder'
         /\ \A task : Waits(task)' => Waits(task)
         /\ \A task : Waits(task) /\ Head(queue).task # task => Waits(task)'
         /\ \A s : ProfileWaits(s)' => ProfileWaits(s)
         /\ \A s : ProfileWaits(s) /\ ~ (Head(queue).task = "profile" /\ Head(queue).student = s)
                     => ProfileWaits(s)'
         /\ Head(queue).task = "profile" => Waits("groups")' /\ Waits("worklist")'
         /\ Head(queue).task = "groups" => Waits("worklist")'
<1>1. /\ Len(queue) \in Nat /\ Len(queue) > 0 /\ Len(queue') = Len(queue) - 1
      /\ Head(queue) = queue[1]
      /\ \A i \in 1 .. Len(queue) - 1 : queue'[i] = queue[i + 1]
  OBVIOUS
<1>2. \A i \in 2 .. Len(queue) : i - 1 \in 1 .. Len(queue') /\ queue'[i - 1] = queue[i]
  <2>. SUFFICES ASSUME NEW i \in 2 .. Len(queue)
                PROVE  i - 1 \in 1 .. Len(queue') /\ queue'[i - 1] = queue[i]
    OBVIOUS
  <2>. DEFINE k == i - 1
  <2>1. k \in 1 .. Len(queue) - 1 /\ k + 1 = i
    BY <1>1
  <2>. HIDE DEF k
  <2>2. queue'[k] = queue[i]
    BY <1>1, <2>1
  <2>. QED
    BY <1>1, <2>1, <2>2 DEF k
<1>3. \A i \in 1 .. Len(queue') : i + 1 \in 2 .. Len(queue) /\ queue'[i] = queue[i + 1]
  BY <1>1
<1>4. \A task : (\E i \in 2 .. Len(queue) : queue[i].task = task) => Waits(task)'
  BY <1>2 DEF Waits
<1>5. QueueInOrder'
  <2>. SUFFICES ASSUME NEW i \in 1 .. Len(queue')
                PROVE  /\ queue'[i].task = "profile" =>
                            \E j \in i + 1 .. Len(queue') : queue'[j].task = "groups"
                       /\ queue'[i].task = "groups" =>
                            \E j \in i + 1 .. Len(queue') : queue'[j].task = "worklist"
    BY DEF QueueInOrder
  <2>1. i \in Nat /\ i + 1 \in 1 .. Len(queue) /\ queue'[i] = queue[i + 1]
    BY <1>1, <1>3
  <2>2. \A j \in (i + 1) + 1 .. Len(queue) :
          j - 1 \in i + 1 .. Len(queue') /\ queue'[j - 1] = queue[j]
    BY <1>1, <1>2, <2>1
  <2>3. /\ queue[i + 1].task = "profile" =>
             \E j \in (i + 1) + 1 .. Len(queue) : queue[j].task = "groups"
        /\ queue[i + 1].task = "groups" =>
             \E j \in (i + 1) + 1 .. Len(queue) : queue[j].task = "worklist"
    BY <2>1 DEF QueueInOrder
  <2>. QED
    BY <2>1, <2>2, <2>3
<1>6. \A task : Waits(task)' => Waits(task)
  BY <1>1, <1>3 DEF Waits
<1>7. \A task : Waits(task) /\ Head(queue).task # task => Waits(task)'
  <2>. SUFFICES ASSUME NEW task, NEW i \in 1 .. Len(queue), queue[i].task = task,
                       Head(queue).task # task
                PROVE  Waits(task)'
    BY DEF Waits
  <2>1. i \in 2 .. Len(queue)
    BY <1>1
  <2>. QED
    BY <1>4, <2>1
<1>8. \A s : ProfileWaits(s)' => ProfileWaits(s)
  BY <1>1, <1>3 DEF ProfileWaits
<1>9. \A s : ProfileWaits(s) /\ ~ (Head(queue).task = "profile" /\ Head(queue).student = s)
               => ProfileWaits(s)'
  <2>. SUFFICES ASSUME NEW s, NEW i \in 1 .. Len(queue), queue[i].task = "profile",
                       queue[i].student = s,
                       ~ (Head(queue).task = "profile" /\ Head(queue).student = s)
                PROVE  ProfileWaits(s)'
    BY DEF ProfileWaits
  <2>1. i \in 2 .. Len(queue)
    BY <1>1
  <2>. QED
    BY <1>2, <2>1 DEF ProfileWaits
<1>10. /\ queue[1].task = "profile" => \E j \in 2 .. Len(queue) : queue[j].task = "groups"
       /\ queue[1].task = "groups" => \E j \in 2 .. Len(queue) : queue[j].task = "worklist"
  BY <1>1 DEF QueueInOrder
<1>11. Head(queue).task = "groups" => Waits("worklist")'
  BY <1>1, <1>4, <1>10
<1>12. ASSUME Head(queue).task = "profile" PROVE Waits("groups")' /\ Waits("worklist")'
  <2>1. PICK j \in 2 .. Len(queue) : queue[j].task = "groups"
    BY <1>1, <1>10, <1>12
  <2>2. j \in 1 .. Len(queue) /\ \A k \in j + 1 .. Len(queue) : k \in 2 .. Len(queue)
    BY <1>1
  <2>3. \E k \in j + 1 .. Len(queue) : queue[k].task = "worklist"
    BY <2>1, <2>2 DEF QueueInOrder
  <2>. QED
    BY <1>4, <2>1, <2>2, <2>3
<1>. QED
  BY <1>5, <1>6, <1>7, <1>8, <1>9, <1>11, <1>12

\* What waits once messages are sent.
LEMMA SentWaits ==
  ASSUME queue \in Seq(Message), NEW more \in Seq(Message), queue' = queue \o more
  PROVE  /\ \A i \in 1 .. Len(queue) : i \in 1 .. Len(queue') /\ queue'[i] = queue[i]
         /\ \A i \in 1 .. Len(more) : /\ Len(queue) + i \in 1 .. Len(queue')
                                      /\ queue'[Len(queue) + i] = more[i]
         /\ \A i \in 1 .. Len(queue') : i \in 1 .. Len(queue) \/
              (i - Len(queue) \in 1 .. Len(more) /\ queue'[i] = more[i - Len(queue)])
         /\ \A task : Waits(task) => Waits(task)'
         /\ \A s : ProfileWaits(s) => ProfileWaits(s)'
         /\ Len(queue') = Len(queue) + Len(more)
<1>1. /\ Len(queue) \in Nat /\ Len(more) \in Nat
      /\ Len(queue') = Len(queue) + Len(more)
      /\ \A i \in 1 .. Len(queue) : i \in 1 .. Len(queue') /\ queue'[i] = queue[i]
  OBVIOUS
<1>2. \A i \in 1 .. Len(more) : /\ Len(queue) + i \in 1 .. Len(queue')
                                /\ queue'[Len(queue) + i] = more[i]
  OBVIOUS
<1>3. \A i \in 1 .. Len(queue') : i \in 1 .. Len(queue) \/
        (i - Len(queue) \in 1 .. Len(more) /\ queue'[i] = more[i - Len(queue)])
  OBVIOUS
<1>. QED
  BY <1>1, <1>2, <1>3 DEF Waits, ProfileWaits

\* A worker that works alone, and where a step leaves the others.
LEMMA OthersRest ==
  ASSUME OneWorks, NEW w \in Workers, worker[w].pc # "idle" \/ WorksAlone(w),
         \A v \in Workers \ {w} : worker'[v] = worker[v]
  PROVE  /\ OneWorks'
         /\ WorksAlone(w) /\ WorksAlone(w)'
<1>1. WorksAlone(w)
  BY DEF OneWorks
<1>2. WorksAlone(w)'
  BY <1>1 DEF WorksAlone
<1>. QED
  BY <1>1, <1>2 DEF OneWorks, WorksAlone

\* With one worker at a time, the conditions are about that worker.
Alone(w) ==
  /\ worker[w].pc = "upsert" => Waits("groups") /\ Waits("worklist")
  /\ worker[w].pc \in {"lockClass", "replace"} => Waits("worklist")
  /\ \A s \in Students : ~ ProfileWaits(s) =>
       /\ Upserts(w, s) => worker[w].scores = locked[s]
       /\ ~ Upserts(w, s) => profile[s] = locked[s]
  /\ ~ Waits("groups") =>
       /\ worker[w].pc \in {"lockClass", "replace"} => worker[w].members = Clusters(profile)
       /\ worker[w].pc \notin {"lockClass", "replace"} => MembersOf(group) = Clusters(profile)
  /\ ~ Waits("worklist") =>
       /\ worker[w].pc = "signals" => worker[w].profiles = profile
       /\ worker[w].pc \in {"lockUser", "insert"} => worker[w].computed = SignalsNow
       /\ worker[w].pc \notin {"signals", "lockUser", "insert"} => ItemsFit(SignalsNow)

LEMMA SettlingOfOne ==
  ASSUME Settling, NEW w \in Workers, WorksAlone(w)
  PROVE  Alone(w)
<1>1. /\ worker[w].pc = "upsert" => Waits("groups") /\ Waits("worklist")
      /\ worker[w].pc \in {"lockClass", "replace"} => Waits("worklist")
  BY DEF Settling, WorkInOrder
<1>2. \A s \in Students : ~ ProfileWaits(s) =>
        /\ Upserts(w, s) => worker[w].scores = locked[s]
        /\ ~ Upserts(w, s) => profile[s] = locked[s]
  BY DEF Settling, ProfilesFollow, WorksAlone, Upserts
<1>3. ~ Waits("groups") =>
        /\ worker[w].pc \in {"lockClass", "replace"} => worker[w].members = Clusters(profile)
        /\ worker[w].pc \notin {"lockClass", "replace"} => MembersOf(group) = Clusters(profile)
  BY DEF Settling, GroupFollows, WorksAlone
<1>4. ~ Waits("worklist") =>
        /\ worker[w].pc = "signals" => worker[w].profiles = profile
        /\ worker[w].pc \in {"lockUser", "insert"} => worker[w].computed = SignalsNow
        /\ worker[w].pc \notin {"signals", "lockUser", "insert"} => ItemsFit(SignalsNow)
  BY DEF Settling, ItemsFollow, WorksAlone
<1>. QED
  BY <1>1, <1>2, <1>3, <1>4 DEF Alone

LEMMA OneSettles ==
  ASSUME NothingFails', OneWorks', QueueInOrder', NEW w \in Workers, WorksAlone(w)', Alone(w)'
  PROVE  Settling'
<1>1. \A v \in Workers : v # w => worker'[v].pc = "idle"
  BY DEF WorksAlone
<1>2. WorkInOrder'
  BY <1>1 DEF WorkInOrder, Alone
<1>3. ProfilesFollow'
  BY <1>1 DEF ProfilesFollow, Alone, Upserts
<1>4. GroupFollows'
  BY <1>1 DEF GroupFollows, Alone
<1>5. ItemsFollow'
  BY <1>1 DEF ItemsFollow, Alone
<1>. QED
  BY <1>2, <1>3, <1>4, <1>5 DEF Settling

\* A step that takes a message and starts work on it.
LEMMA TakingSettles ==
  ASSUME AdviceInv, Settling, mode.serial, NEW w \in Workers, UNCHANGED advice,
         ReadGrades(w) \/ ReadProfiles(w) \/ StartWorklist(w) \/ StartScan(w)
  PROVE  Settling'
<1>. DEFINE m == Head(queue)
<1>1. /\ queue # <<>> /\ queue' = Tail(queue) /\ UNCHANGED <<locked, profile, group, items, left>>
      /\ worker[w].pc = "idle" /\ WorksAlone(w)
  BY DEF ReadGrades, ReadProfiles, StartWorklist, StartScan, Take, MayTake, Busy, WorksAlone
<1>2. queue \in Seq(Message)
  BY DEF AdviceInv, Types, Tables
<1>3. \A v \in Workers \ {w} : worker'[v] = worker[v]
  BY TakingKeepsTypes DEF AdviceInv
<1>4. OneWorks' /\ WorksAlone(w)'
  BY <1>1, <1>3, OthersRest DEF Settling
<1>5. /\ QueueInOrder'
      /\ \A task : Waits(task) /\ m.task # task => Waits(task)'
      /\ \A s : ProfileWaits(s) /\ ~ (m.task = "profile" /\ m.student = s) => ProfileWaits(s)'
      /\ m.task = "profile" => Waits("groups")' /\ Waits("worklist")'
      /\ m.task = "groups" => Waits("worklist")'
  BY <1>1, <1>2, TailWaits DEF Settling
<1>6. Alone(w)
  BY <1>1, SettlingOfOne
<1>7. \A s \in Students : ~ ProfileWaits(s) => profile[s] = locked[s]
  BY <1>1, <1>6 DEF Alone, Upserts
<1>8. ~ Waits("groups") => MembersOf(group) = Clusters(profile)
  BY <1>1, <1>6 DEF Alone
<1>9. ~ Waits("worklist") => ItemsFit(SignalsNow)
  BY <1>1, <1>6 DEF Alone
<1>10. /\ SignalsNow' = SignalsNow /\ MembersOf(group)' = MembersOf(group)
       /\ ItemsFit(SignalsNow)' = ItemsFit(SignalsNow)
  BY <1>1 DEF SignalsNow, MembersOf, ItemsFit
<1>11. NothingFails'
  BY <1>1 DEF Settling, NothingFails
<1>12. worker' = [worker EXCEPT ![w] = worker'[w]] /\ w \in DOMAIN worker
  BY <1>3 DEF ReadGrades, ReadProfiles, StartWorklist, StartScan, Take, AdviceInv, Types, WorkersAndCalls
<1>13. CASE ReadGrades(w)
  <2>1. /\ m.task = "profile"
        /\ worker'[w].pc = "upsert" /\ worker'[w].message = m
        /\ worker'[w].scores = locked[m.student]
    BY <1>12, <1>13 DEF ReadGrades, Take, IdleWorker
  <2>2. Waits("groups")' /\ Waits("worklist")'
    BY <1>5, <2>1
  <2>3. \A s \in Students : ~ ProfileWaits(s)' =>
          /\ Upserts(w, s)' => worker'[w].scores = locked'[s]
          /\ ~ Upserts(w, s)' => profile'[s] = locked'[s]
    BY <1>1, <1>5, <1>7, <2>1 DEF Upserts
  <2>4. Alone(w)'
    BY <2>1, <2>2, <2>3 DEF Alone
  <2>. QED
    BY <1>4, <1>5, <1>11, <2>4, OneSettles
<1>14. CASE ReadProfiles(w)
  <2>1. /\ m.task = "groups"
        /\ worker'[w].pc = "lockClass" /\ worker'[w].members = Clusters(profile)
    BY <1>12, <1>14 DEF ReadProfiles, Take, IdleWorker
  <2>2. Waits("worklist")'
    BY <1>5, <2>1
  <2>3. \A s \in Students : ~ ProfileWaits(s)' => ~ Upserts(w, s)' /\ profile'[s] = locked'[s]
    BY <1>1, <1>5, <1>7, <2>1 DEF Upserts
  <2>4. Alone(w)'
    BY <1>1, <2>1, <2>2, <2>3 DEF Alone
  <2>. QED
    BY <1>4, <1>5, <1>11, <2>4, OneSettles
<1>15. CASE StartWorklist(w)
  <2>1. /\ m.task = "worklist"
        /\ worker'[w].pc = "signals" /\ worker'[w].profiles = profile
    BY <1>12, <1>15 DEF StartWorklist, Take, IdleWorker
  <2>2. \A s \in Students : ~ ProfileWaits(s)' => ~ Upserts(w, s)' /\ profile'[s] = locked'[s]
    BY <1>1, <1>5, <1>7, <2>1 DEF Upserts
  <2>3. ~ Waits("groups")' => MembersOf(group)' = Clusters(profile)
    BY <1>5, <1>8, <1>10, <2>1
  <2>4. Alone(w)'
    BY <1>1, <2>1, <2>2, <2>3 DEF Alone
  <2>. QED
    BY <1>4, <1>5, <1>11, <2>4, OneSettles
<1>16. CASE StartScan(w)
  <2>1. m.task = "scan" /\ worker'[w].pc = "pending"
    BY <1>12, <1>16 DEF StartScan, Take, IdleWorker
  <2>2. \A s \in Students : ~ ProfileWaits(s)' => ~ Upserts(w, s)' /\ profile'[s] = locked'[s]
    BY <1>1, <1>5, <1>7, <2>1 DEF Upserts
  <2>3. ~ Waits("groups")' => MembersOf(group)' = Clusters(profile)
    BY <1>5, <1>8, <1>10, <2>1
  <2>4. ~ Waits("worklist")' => ItemsFit(SignalsNow)'
    BY <1>5, <1>9, <1>10, <2>1
  <2>5. Alone(w)'
    BY <1>1, <2>1, <2>2, <2>3, <2>4 DEF Alone
  <2>. QED
    BY <1>4, <1>5, <1>11, <2>5, OneSettles
<1>. QED
  BY <1>13, <1>14, <1>15, <1>16

\* The steps by which a worker goes on with its task.
LEMMA ProceedSettles ==
  ASSUME Settling, NEW w \in Workers, worker[w].pc # "idle",
         \A v \in Workers \ {w} : worker'[v] = worker[v],
         UNCHANGED <<queue, left>>, Alone(w)'
  PROVE  Settling'
<1>1. OneWorks' /\ WorksAlone(w)'
  BY OthersRest DEF Settling
<1>2. NothingFails' /\ QueueInOrder'
  BY DEF Settling, NothingFails, QueueInOrder
<1>. QED
  BY <1>1, <1>2, OneSettles

LEMMA QueueWaits ==
  ASSUME UNCHANGED queue
  PROVE  /\ \A task : Waits(task)' <=> Waits(task)
         /\ \A s : ProfileWaits(s)' <=> ProfileWaits(s)
BY DEF Waits, ProfileWaits

LEMMA UpsertSettles ==
  ASSUME AdviceInv, Settling, NEW w \in Workers, UpsertProfile(w), UNCHANGED advice
  PROVE  Settling'
<1>1. /\ worker[w].pc = "upsert" /\ UNCHANGED <<queue, left, locked>>
      /\ profile' = [profile EXCEPT ![worker[w].message.student] = worker[w].scores]
  BY DEF UpsertProfile, Proceed
<1>2. Alone(w)
  BY <1>1, SettlingOfOne DEF Settling, OneWorks
<1>3. worker'[w].pc = "idle" /\ \A v \in Workers \ {w} : worker'[v] = worker[v]
  BY UpsertKeepsTypes DEF AdviceInv
<1>4. \A s \in Students : ~ ProfileWaits(s)' => profile'[s] = locked'[s]
  <2>. SUFFICES ASSUME NEW s \in Students, ~ ProfileWaits(s) PROVE profile'[s] = locked[s]
    BY <1>1, QueueWaits
  <2>1. profile \in [Students -> Seq(0 .. 100)]
    BY DEF AdviceInv, Types, Tables
  <2>2. CASE worker[w].message.student = s
    BY <1>1, <1>2, <2>1, <2>2 DEF Alone, Upserts
  <2>3. CASE worker[w].message.student # s
    BY <1>1, <1>2, <2>1, <2>3 DEF Alone, Upserts
  <2>. QED
    BY <2>2, <2>3
<1>5. Alone(w)'
  BY <1>1, <1>2, <1>3, <1>4, QueueWaits DEF Alone, Upserts
<1>. QED
  BY <1>1, <1>3, <1>5, ProceedSettles

LEMMA GroupsSettle ==
  ASSUME AdviceInv, Settling, NEW w \in Workers,
         (LockClass(w) /\ UNCHANGED advice) \/ ReplaceGroupsAndAdvice(w)
  PROVE  Settling'
<1>1. /\ worker[w].pc \in {"lockClass", "replace"}
      /\ UNCHANGED <<queue, left, locked, profile, items>>
  BY DEF LockClass, ReplaceGroupsAndAdvice, ReplaceGroups, Proceed
<1>2. Alone(w)
  BY <1>1, SettlingOfOne DEF Settling, OneWorks
<1>3. \A s \in Students : ~ ProfileWaits(s)' => profile'[s] = locked'[s]
  BY <1>1, <1>2, QueueWaits DEF Alone, Upserts
<1>4. Waits("worklist")'
  BY <1>1, <1>2, QueueWaits DEF Alone
<1>5. ~ Waits("groups")' => worker[w].members = Clusters(profile')
  BY <1>1, <1>2, QueueWaits DEF Alone
<1>6. CASE LockClass(w) /\ UNCHANGED advice
  <2>1. \A v \in Workers \ {w} : worker'[v] = worker[v]
    BY <1>6, LockClassKeepsTypes DEF AdviceInv
  <2>2. worker'[w].pc = "replace" /\ worker'[w].members = worker[w].members
    BY <1>6 DEF LockClass, Proceed, AdviceInv, Types, WorkersAndCalls, WorkerRecord, IdleWorker
  <2>3. Alone(w)'
    BY <1>3, <1>4, <1>5, <2>2 DEF Alone, Upserts
  <2>. QED
    BY <1>1, <2>1, <2>3, ProceedSettles
<1>7. CASE ReplaceGroupsAndAdvice(w)
  <2>1. worker'[w].pc = "idle" /\ \A v \in Workers \ {w} : worker'[v] = worker[v]
    BY <1>7, ReplaceKeepsTypes DEF AdviceInv
  <2>2. /\ worker[w].members \subseteq Students /\ worker[w].before \in BOOLEAN /\ runs \in Nat
    BY <1>7 DEF ReplaceGroupsAndAdvice, ReplaceGroups, AdviceInv, Types, Tables,
                WorkersAndCalls, WorkerRecord
  <2>3. MembersOf(group)' = worker[w].members
    <3>. DEFINE row(stability) == [id |-> runs, members |-> worker[w].members, stability |-> stability]
    <3>1. \A stability \in Stability : row(stability) # NoGroup
      BY <2>2, NoGroupAssumption DEF GroupRow
    <3>2. \/ worker[w].members = {} /\ group' = NoGroup
          \/ \E stability \in Stability : group' = row(stability)
      BY <1>7, <2>2 DEF ReplaceGroupsAndAdvice, ReplaceGroups, Stability
    <3>. QED
      BY <3>1, <3>2 DEF MembersOf
  <2>4. Alone(w)'
    BY <1>3, <1>4, <1>5, <2>1, <2>3 DEF Alone, Upserts
  <2>. QED
    BY <1>1, <2>1, <2>4, ProceedSettles
<1>. QED
  BY <1>6, <1>7

\* What the list of the teacher shows once a refresh commits.
LEMMA InsertedItemsFit ==
  ASSUME AdviceInv, NEW w \in Workers, InsertItems(w)
  PROVE  /\ \A i \in items' : i.status = "active" => i.signal \in worker[w].computed
         /\ \A g \in worker[w].computed : \E i \in items' : i.signal = g
<1>. DEFINE row(g) == [signal |-> g, run |-> runs, status |-> "active"]
<1>1. /\ worker[w].pc = "insert"
      /\ items' = (items \ worker[w].deleting) \union {row(g) : g \in worker[w].computed}
  BY DEF InsertItems
<1>2. \A i \in items : i.status = "active" => i \in worker[w].deleting
  BY <1>1 DEF AdviceInv, LocksProtect
<1>3. \A g : row(g).signal = g
  OBVIOUS
<1>. HIDE DEF row
<1>4. \A i \in items' : i.status = "active" => i.signal \in worker[w].computed
  BY <1>1, <1>2, <1>3
<1>5. \A g \in worker[w].computed : \E i \in items' : i.signal = g
  BY <1>1, <1>3
<1>. QED
  BY <1>4, <1>5

LEMMA WorklistSettles ==
  ASSUME AdviceInv, Settling, NEW w \in Workers,
         \/ (ReadSignals(w) \/ DeleteActive(w)) /\ UNCHANGED advice
         \/ InsertItemsAndDetach(w)
  PROVE  Settling'
<1>1. /\ worker[w].pc \in {"signals", "lockUser", "insert"}
      /\ UNCHANGED <<queue, left, locked, profile, group>>
  BY DEF ReadSignals, DeleteActive, InsertItemsAndDetach, InsertItems, Proceed
<1>2. Alone(w)
  BY <1>1, SettlingOfOne DEF Settling, OneWorks
<1>3. \A s \in Students : ~ ProfileWaits(s)' => profile'[s] = locked'[s]
  BY <1>1, <1>2, QueueWaits DEF Alone, Upserts
<1>4. ~ Waits("groups")' => MembersOf(group)' = Clusters(profile)'
  BY <1>1, <1>2, QueueWaits DEF Alone, MembersOf
<1>5. SignalsNow' = SignalsNow /\ (~ Waits("worklist")' => ~ Waits("worklist"))
  BY <1>1, QueueWaits DEF SignalsNow
<1>6. CASE ReadSignals(w) /\ UNCHANGED advice
  <2>1. worker'[w].pc = "lockUser" /\ \A v \in Workers \ {w} : worker'[v] = worker[v]
    BY <1>6, ReadSignalsKeepsTypes DEF AdviceInv
  <2>2. worker'[w].computed = Signals(worker[w].profiles, Persistent(group), locked)
    BY <1>6 DEF ReadSignals, Proceed, AdviceInv, Types, WorkersAndCalls, IdleWorker
  <2>3. ~ Waits("worklist")' => worker'[w].computed = SignalsNow'
    BY <1>2, <1>5, <1>6, <2>2 DEF Alone, SignalsNow, ReadSignals
  <2>4. Alone(w)'
    BY <1>3, <1>4, <2>1, <2>3 DEF Alone, Upserts
  <2>. QED
    BY <1>1, <2>1, <2>4, ProceedSettles
<1>7. CASE DeleteActive(w) /\ UNCHANGED advice
  <2>1. worker'[w].pc = "insert" /\ \A v \in Workers \ {w} : worker'[v] = worker[v]
    BY <1>7, DeleteActiveKeepsTypes DEF AdviceInv
  <2>2. worker'[w].computed = worker[w].computed
    BY <1>7 DEF DeleteActive, Proceed, AdviceInv, Types, WorkersAndCalls, WorkerRecord, IdleWorker
  <2>3. ~ Waits("worklist")' => worker'[w].computed = SignalsNow'
    BY <1>2, <1>5, <1>7, <2>2 DEF Alone, DeleteActive
  <2>4. Alone(w)'
    BY <1>3, <1>4, <2>1, <2>3 DEF Alone, Upserts
  <2>. QED
    BY <1>1, <2>1, <2>4, ProceedSettles
<1>8. CASE InsertItemsAndDetach(w)
  <2>1. worker'[w].pc = "idle" /\ \A v \in Workers \ {w} : worker'[v] = worker[v]
    BY <1>8, InsertKeepsTypes DEF AdviceInv
  <2>2. InsertItems(w)
    BY <1>8 DEF InsertItemsAndDetach
  <2>3. ~ Waits("worklist")' => worker[w].computed = SignalsNow'
    BY <1>2, <1>5, <2>2 DEF Alone, InsertItems
  <2>4. ~ Waits("worklist")' => ItemsFit(SignalsNow)'
    BY <2>2, <2>3, InsertedItemsFit DEF ItemsFit
  <2>5. Alone(w)'
    BY <1>3, <1>4, <2>1, <2>4 DEF Alone, Upserts
  <2>. QED
    BY <1>1, <2>1, <2>5, ProceedSettles
<1>. QED
  BY <1>6, <1>7, <1>8

LEMMA ScanSettles ==
  ASSUME AdviceInv, Settling, NEW w \in Workers, ReadPending(w) \/ Propose(w)
  PROVE  Settling'
<1>1. /\ worker[w].pc \in {"pending", "propose"}
      /\ UNCHANGED <<queue, left, locked, profile, group, items>>
  BY DEF ReadPending, Propose, Proceed
<1>2. Alone(w)
  BY <1>1, SettlingOfOne DEF Settling, OneWorks
<1>3. \A s \in Students : ~ ProfileWaits(s)' => profile'[s] = locked'[s]
  BY <1>1, <1>2, QueueWaits DEF Alone, Upserts
<1>4. ~ Waits("groups")' => MembersOf(group)' = Clusters(profile)'
  BY <1>1, <1>2, QueueWaits DEF Alone, MembersOf
<1>5. ~ Waits("worklist")' => ItemsFit(SignalsNow)'
  BY <1>1, <1>2, QueueWaits DEF Alone, ItemsFit, SignalsNow
<1>6. /\ worker'[w].pc \in {"propose", "idle"}
      /\ \A v \in Workers \ {w} : worker'[v] = worker[v]
  BY ReadPendingKeepsTypes, ProposeKeepsTypes DEF AdviceInv
<1>7. Alone(w)'
  BY <1>3, <1>4, <1>5, <1>6 DEF Alone, Upserts
<1>. QED
  BY <1>1, <1>6, <1>7, ProceedSettles

\* Nothing is lost when nothing may fail, so a lock sends all three messages.
LEMMA AllAreSent ==
  ASSUME NothingFails, NEW s \in Students, NEW final \in Finals, LockGrade(s, final)
  PROVE  /\ NothingFails'
         /\ queue' = queue \o ((<<[task |-> "profile", student |-> s]>>
                                \o <<[task |-> "groups", student |-> NoStudent]>>)
                                \o <<[task |-> "worklist", student |-> NoStudent]>>)
<1>1. PICK lost \in {{}} \union {{t} : t \in {"profile", "groups", "worklist"}} :
        /\ Cardinality(lost) <= left.faults
        /\ queue' = queue \o Messages(s, lost)
        /\ left' = [left EXCEPT !.locks = @ - 1, !.faults = @ - Cardinality(lost)]
  BY DEF LockGrade
<1>2. left \in LeftOver /\ left.faults = 0
  BY DEF NothingFails
<1>3. Cardinality(lost) <= 0
  BY <1>1, <1>2
<1>4. lost = {}
  <2>. SUFFICES ASSUME NEW t, lost = {t} PROVE FALSE
    BY <1>1
  <2>1. Cardinality(lost) = 1
    BY FS_Singleton
  <2>. QED
    BY <1>3, <2>1
<1>5. Cardinality(lost) = 0
  BY <1>4, FS_EmptySet
<1>6. NothingFails'
  <2>1. left' = [left EXCEPT !.locks = left.locks - 1, !.faults = 0]
    BY <1>1, <1>2, <1>5
  <2>2. left.locks - 1 \in Int
    BY <1>2 DEF LeftOver
  <2>. DEFINE n == left.locks - 1
  <2>3. left' = [left EXCEPT !.locks = n, !.faults = 0] /\ n \in Int
    BY <2>1, <2>2
  <2>. HIDE DEF n
  <2>. QED
    BY <1>2, <2>3 DEF NothingFails, LeftOver
<1>7. /\ Sent("profile", s, {}) = <<[task |-> "profile", student |-> s]>>
      /\ Sent("groups", NoStudent, {}) = <<[task |-> "groups", student |-> NoStudent]>>
      /\ Sent("worklist", NoStudent, {}) = <<[task |-> "worklist", student |-> NoStudent]>>
  BY DEF Sent
<1>. QED
  BY <1>1, <1>4, <1>6, <1>7 DEF Messages

LEMMA LockGradeSettles ==
  ASSUME AdviceInv, Settling, NEW s \in Students, NEW final \in Finals, LockGrade(s, final)
  PROVE  Settling'
<1>. DEFINE p == [task |-> "profile", student |-> s]
            g == [task |-> "groups", student |-> NoStudent]
            l == [task |-> "worklist", student |-> NoStudent]
            more == (<<p>> \o <<g>>) \o <<l>>
            n == Len(queue)
<1>1. NothingFails' /\ queue' = queue \o more
  BY AllAreSent DEF Settling
<1>2. UNCHANGED <<profile, group, items, worker>>
  BY DEF LockGrade
<1>3. /\ p \in Message /\ p.task = "profile" /\ p.student = s
      /\ g \in Message /\ g.task = "groups" /\ l \in Message /\ l.task = "worklist"
  BY DEF Message
<1>. HIDE DEF p, g, l
<1>4. more \in Seq(Message) /\ Len(more) = 3 /\ more[1] = p /\ more[2] = g /\ more[3] = l
  BY <1>3
<1>. HIDE DEF more
<1>5. queue \in Seq(Message) /\ n \in Nat
  BY DEF AdviceInv, Types, Tables
<1>6. /\ \A i \in 1 .. n : i \in 1 .. Len(queue') /\ queue'[i] = queue[i]
      /\ \A i \in 1 .. 3 : n + i \in 1 .. Len(queue') /\ queue'[n + i] = more[i]
      /\ Len(queue') = n + 3
      /\ \A task : Waits(task) => Waits(task)'
      /\ \A t : ProfileWaits(t) => ProfileWaits(t)'
  BY <1>1, <1>4, <1>5, SentWaits
<1>. HIDE DEF n
<1>7. /\ n + 1 \in 1 .. Len(queue') /\ queue'[n + 1] = p
      /\ n + 2 \in 1 .. Len(queue') /\ queue'[n + 2] = g
      /\ n + 3 \in 1 .. Len(queue') /\ queue'[n + 3] = l
  BY <1>4, <1>6
<1>8. Waits("groups")' /\ Waits("worklist")' /\ ProfileWaits(s)'
  BY <1>3, <1>7 DEF Waits, ProfileWaits
<1>9. QueueInOrder'
  <2>. SUFFICES ASSUME NEW i \in 1 .. n + 3
                PROVE  /\ queue'[i].task = "profile" =>
                            \E j \in i + 1 .. n + 3 : queue'[j].task = "groups"
                       /\ queue'[i].task = "groups" =>
                            \E j \in i + 1 .. n + 3 : queue'[j].task = "worklist"
    BY <1>6 DEF QueueInOrder
  <2>1. CASE i \in 1 .. n + 1
    <3>1. n + 2 \in i + 1 .. n + 3 /\ n + 3 \in i + 1 .. n + 3
      BY <1>5, <2>1
    <3>. QED
      BY <1>3, <1>7, <3>1
  <2>2. CASE i = n + 2
    <3>1. n + 3 \in i + 1 .. n + 3
      BY <1>5, <2>2
    <3>. QED
      BY <1>3, <1>7, <2>2, <3>1
  <2>3. CASE i = n + 3
    BY <1>3, <1>7, <2>3
  <2>. QED
    BY <1>5, <2>1, <2>2, <2>3
<1>10. ProfilesFollow'
  <2>. SUFFICES ASSUME NEW t \in Students, ~ ProfileWaits(t)'
                PROVE  /\ \A w \in Workers : Upserts(w, t)' => worker'[w].scores = locked'[t]
                       /\ (\A w \in Workers : ~ Upserts(w, t)') => profile'[t] = locked'[t]
    BY DEF ProfilesFollow
  <2>1. t # s /\ ~ ProfileWaits(t)
    BY <1>6, <1>8
  <2>2. locked'[t] = locked[t]
    BY <2>1 DEF LockGrade, AdviceInv, Types, Tables
  <2>. QED
    BY <1>2, <2>1, <2>2 DEF Settling, ProfilesFollow, Upserts
<1>11. OneWorks' /\ WorkInOrder'
  BY <1>2, <1>6 DEF Settling, OneWorks, WorksAlone, WorkInOrder
<1>12. GroupFollows' /\ ItemsFollow'
  BY <1>8 DEF GroupFollows, ItemsFollow
<1>. QED
  BY <1>1, <1>9, <1>10, <1>11, <1>12 DEF Settling

LEMMA BeatSettles ==
  ASSUME AdviceInv, Settling, Beat
  PROVE  Settling'
<1>. DEFINE m == [task |-> "scan", student |-> NoStudent]
            more == <<m>>
            n == Len(queue)
<1>1. /\ queue' = queue \o more
      /\ UNCHANGED <<locked, profile, group, items, worker>>
  BY DEF Beat, AdviceInv, Types, Tables
<1>2. NothingFails'
  BY DEF Beat, Settling, NothingFails, LeftOver
<1>3. m \in Message /\ m.task = "scan"
  BY DEF Message
<1>. HIDE DEF m
<1>4. more \in Seq(Message) /\ Len(more) = 1 /\ more[1] = m
  BY <1>3
<1>. HIDE DEF more
<1>5. queue \in Seq(Message) /\ n \in Nat
  BY DEF AdviceInv, Types, Tables
<1>6. /\ \A i \in 1 .. n : i \in 1 .. Len(queue') /\ queue'[i] = queue[i]
      /\ \A i \in 1 .. 1 : n + i \in 1 .. Len(queue') /\ queue'[n + i] = more[i]
      /\ Len(queue') = n + 1
      /\ \A task : Waits(task) => Waits(task)'
      /\ \A t : ProfileWaits(t) => ProfileWaits(t)'
  BY <1>1, <1>4, <1>5, SentWaits
<1>. HIDE DEF n
<1>7. queue'[n + 1].task = "scan"
  BY <1>3, <1>4, <1>6
<1>8. \A i \in 1 .. Len(queue') : i \in 1 .. n \/ i = n + 1
  BY <1>5, <1>6
<1>9. /\ Waits("groups")' => Waits("groups")
      /\ Waits("worklist")' => Waits("worklist")
      /\ \A t : ProfileWaits(t)' => ProfileWaits(t)
  BY <1>6, <1>7, <1>8 DEF Waits, ProfileWaits, n
<1>10. QueueInOrder'
  <2>. SUFFICES ASSUME NEW i \in 1 .. n
                PROVE  /\ queue'[i].task = "profile" =>
                            \E j \in i + 1 .. n + 1 : queue'[j].task = "groups"
                       /\ queue'[i].task = "groups" =>
                            \E j \in i + 1 .. n + 1 : queue'[j].task = "worklist"
    BY <1>6, <1>7, <1>8 DEF QueueInOrder
  <2>1. \A j \in i + 1 .. n : /\ j \in i + 1 .. n + 1 /\ queue'[j] = queue[j]
    BY <1>5, <1>6
  <2>2. queue'[i] = queue[i]
    BY <1>6
  <2>3. /\ queue[i].task = "profile" => \E j \in i + 1 .. n : queue[j].task = "groups"
        /\ queue[i].task = "groups" => \E j \in i + 1 .. n : queue[j].task = "worklist"
    BY DEF Settling, QueueInOrder, n
  <2>. QED
    BY <2>1, <2>2, <2>3
<1>11. ProfilesFollow' /\ GroupFollows' /\ ItemsFollow'
  BY <1>1, <1>6, <1>9 DEF Settling, ProfilesFollow, GroupFollows, ItemsFollow, Upserts, MembersOf,
                          SignalsNow, ItemsFit
<1>12. OneWorks' /\ WorkInOrder'
  BY <1>1, <1>6 DEF Settling, OneWorks, WorksAlone, WorkInOrder
<1>. QED
  BY <1>2, <1>10, <1>11, <1>12 DEF Settling

\* What a call changes of the tables of the pipeline is the status of items.
LEMMA CallSettles ==
  ASSUME Settling, UNCHANGED <<locked, profile, group, queue, worker>>, NothingFails',
         \A signals : ItemsFit(signals) =>
           /\ \A i \in items' : i.status = "active" => i.signal \in signals
           /\ \A g \in signals : \E i \in items' : i.signal = g
  PROVE  Settling'
<1>1. QueueInOrder' /\ OneWorks' /\ WorkInOrder' /\ ProfilesFollow' /\ GroupFollows'
  BY DEF Settling, QueueInOrder, OneWorks, WorksAlone, WorkInOrder, ProfilesFollow, GroupFollows,
         Waits, ProfileWaits, Upserts, MembersOf
<1>2. SignalsNow' = SignalsNow
  BY DEF SignalsNow
<1>3. ItemsFit(SignalsNow) => ItemsFit(SignalsNow)'
  BY <1>2 DEF ItemsFit
<1>4. ItemsFollow'
  BY <1>2, <1>3, QueueWaits DEF Settling, ItemsFollow
<1>. QED
  BY <1>1, <1>4 DEF Settling

LEMMA StartSettles ==
  ASSUME Settling, NEW c \in Calls, NEW screen, NEW state, StartCall(c, screen, state)
  PROVE  Settling'
<1>1. NothingFails'
  BY DEF StartCall, Settling, NothingFails, LeftOver
<1>. QED
  BY <1>1, CallSettles DEF StartCall, ItemsFit

LEMMA UpdateItemSettles ==
  ASSUME AdviceInv, Settling, NEW c \in Calls, UpdateItem(c), UNCHANGED advice
  PROVE  Settling'
<1>. DEFINE open == OpenRows(call[c].item)
            op == call[c].op
<1>1. /\ op \in DOMAIN Verdict
      /\ items' = (items \ open) \union {Moved(i, op) : i \in open}
  BY UpdateItemKeepsTypes DEF AdviceInv
<1>2. open \subseteq items /\ items \subseteq Item
  BY DEF OpenRows, Now, AdviceInv, Types, Tables
<1>3. \A i \in open : Moved(i, op).status # "active" /\ Moved(i, op).signal = i.signal
  BY <1>1, <1>2, MovedItem
<1>. HIDE DEF open, op
<1>4. ASSUME NEW signals, ItemsFit(signals)
      PROVE  /\ \A i \in items' : i.status = "active" => i.signal \in signals
             /\ \A g \in signals : \E i \in items' : i.signal = g
  <2>1. \A i \in items' : i.status = "active" => i \in items
    BY <1>1, <1>3
  <2>2. \A i \in items : \E j \in items' : j.signal = i.signal
    BY <1>1, <1>3
  <2>. QED
    BY <1>4, <2>1, <2>2 DEF ItemsFit
<1>5. NothingFails'
  BY DEF UpdateItem, Settling, NothingFails
<1>. QED
  BY <1>4, <1>5, CallSettles DEF UpdateItem

\* What is left of the bounds names nothing a message or a task needs.
LEMMA AdviceSettles ==
  ASSUME AdviceInv, Settling, NEW c \in Calls, AdviceStep(c)
  PROVE  Settling'
<1>1. CASE \E screen, state : StartCall(c, screen, state)
  BY <1>1, StartSettles
<1>2. CASE UNCHANGED <<locked, profile, group, items, queue, worker, left>>
  <2>1. NothingFails'
    BY <1>2 DEF Settling, NothingFails
  <2>. QED
    BY <1>2, <2>1, CallSettles DEF ItemsFit
<1>. QED
  BY <1>1, <1>2 DEF AdviceStep, StartGroupAdvice, StartStudentAdvice, InsertAdvice, LoadAdvice,
                    DecideIntervention, DecideRecommendation, Unchanged

LEMMA TeacherSettles ==
  ASSUME AdviceInv, Orderly, Settling, NEW c \in Calls, TeacherStep(c), UNCHANGED advice
  PROVE  Settling'
<1>1. ASSUME NEW op \in DOMAIN Verdict, NEW item \in items, LoadItem(c, op, item)
      PROVE  Settling'
  BY <1>1, StartSettles DEF LoadItem
<1>2. ASSUME NEW members \in SUBSET Students, LoadGroup(c, members)
      PROVE  FALSE
  BY <1>2 DEF LoadGroup, StartCall, Orderly
<1>3. ~ EditGroup(c)
  BY DEF EditGroup, Orderly, AdviceInv, CallsFit
<1>. QED
  BY <1>1, <1>2, <1>3, UpdateItemSettles DEF TeacherStep

LEMMA PipelineSettles ==
  ASSUME AdviceInv, Orderly, Settling, NEW w \in Workers, PipelineStep(w)
  PROVE  Settling'
<1>1. CASE /\ ReadGrades(w) \/ ReadProfiles(w) \/ StartWorklist(w) \/ StartScan(w)
           /\ UNCHANGED advice
  BY <1>1, TakingSettles DEF Orderly
<1>2. CASE UpsertProfile(w) /\ UNCHANGED advice
  BY <1>2, UpsertSettles
<1>3. CASE (LockClass(w) /\ UNCHANGED advice) \/ ReplaceGroupsAndAdvice(w)
  BY <1>3, GroupsSettle
<1>4. CASE \/ (ReadSignals(w) \/ DeleteActive(w)) /\ UNCHANGED advice
           \/ InsertItemsAndDetach(w)
  BY <1>4, WorklistSettles
<1>5. CASE ReadPending(w) \/ Propose(w)
  BY <1>5, ScanSettles
<1>. QED
  BY <1>1, <1>2, <1>3, <1>4, <1>5 DEF PipelineStep, StartScan

LEMMA SettlingInit == AdviceInit /\ Orderly => Settling
<1>. SUFFICES ASSUME AdviceInit, Orderly PROVE Settling
  OBVIOUS
<1>. USE DEF AdviceInit, Init
<1>1. NothingFails
  <2>1. left \in Mode /\ left.faults = 0
    BY ModesAssumption DEF Orderly
  <2>. QED
    BY <2>1 DEF NothingFails, Mode, LeftOver
<1>2. queue = <<>> /\ Len(queue) = 0
  OBVIOUS
<1>3. \A w \in Workers : worker[w].pc = "idle"
  BY DEF IdleWorker
<1>4. OneWorks /\ QueueInOrder /\ WorkInOrder
  BY <1>2, <1>3 DEF OneWorks, WorksAlone, QueueInOrder, WorkInOrder
<1>5. ProfilesFollow
  BY <1>3 DEF ProfilesFollow, Upserts
<1>6. MembersOf(group) = Clusters(profile) /\ Persistent(group) = {}
  <2>. DEFINE row == [id |-> 0, members |-> Clusters(locked), stability |-> "new"]
  <2>1. row \in GroupRow
    BY ClustersAreStudents DEF GroupRow, Stability
  <2>2. row # NoGroup
    BY <2>1, NoGroupAssumption
  <2>. QED
    BY <2>2 DEF MembersOf, Persistent
<1>7. GroupFollows
  BY <1>3, <1>6 DEF GroupFollows
<1>8. ItemsFit(SignalsNow)
  <2>. DEFINE row(g) == [signal |-> g, run |-> 0, status |-> "active"]
  <2>1. items = {row(g) : g \in SignalsNow}
    BY <1>6 DEF SignalsNow
  <2>2. \A g : row(g).signal = g
    OBVIOUS
  <2>. HIDE DEF row
  <2>. QED
    BY <2>1, <2>2 DEF ItemsFit
<1>9. ItemsFollow
  BY <1>3, <1>8 DEF ItemsFollow
<1>. QED
  BY <1>1, <1>4, <1>5, <1>7, <1>9 DEF Settling

LEMMA NextSettles ==
  AdviceInv /\ (Orderly => Settling) /\ [AdviceNext]_allVars => (Orderly => Settling)'
<1>. SUFFICES ASSUME AdviceInv, Orderly => Settling, [AdviceNext]_allVars, Orderly'
              PROVE  Settling'
  OBVIOUS
<1>1. mode' = mode
  <2>1. ASSUME NEW w \in Workers, PipelineStep(w) PROVE mode' = mode
    BY <2>1 DEF PipelineStep, ReadGrades, UpsertProfile, ReadProfiles, LockClass, StartWorklist,
                ReadSignals, DeleteActive, ReplaceGroupsAndAdvice, ReplaceGroups,
                InsertItemsAndDetach, InsertItems, StartScan, ReadPending, Propose, Take, Proceed
  <2>2. ASSUME NEW c \in Calls, AdviceStep(c) PROVE mode' = mode
    BY <2>2 DEF AdviceStep, StartGroupAdvice, StartStudentAdvice, InsertAdvice, LoadAdvice,
                DecideIntervention, DecideRecommendation, Unchanged, StartCall
  <2>3. ASSUME NEW c \in Calls, TeacherStep(c) PROVE mode' = mode
    BY <2>3 DEF TeacherStep, LoadItem, UpdateItem, LoadGroup, EditGroup, StartCall
  <2>4. ASSUME NEW s \in Students, NEW final \in Finals, LockGrade(s, final) PROVE mode' = mode
    BY <2>4 DEF LockGrade
  <2>5. ASSUME NEW w \in Workers, FailTask(w) PROVE mode' = mode
    BY <2>5 DEF FailTask
  <2>6. Beat \/ UNCHANGED allVars => mode' = mode
    BY DEF Beat, allVars, vars
  <2>. QED
    BY <2>1, <2>2, <2>3, <2>4, <2>5, <2>6 DEF AdviceNext
<1>2. Orderly /\ Settling
  BY <1>1 DEF Orderly
<1>3. \A w \in Workers : ~ FailTask(w)
  BY <1>2 DEF FailTask, Settling, NothingFails
<1>4. CASE UNCHANGED allVars
  BY <1>2, <1>4, CallSettles DEF allVars, vars, Settling, NothingFails, ItemsFit
<1>. QED
  BY <1>2, <1>3, <1>4, LockGradeSettles, BeatSettles, PipelineSettles, AdviceSettles, TeacherSettles
     DEF AdviceNext

\* With one worker and no failure, and the groups left to the pipeline, the order in
\* which lock_grade sends its three messages is enough: whenever nothing waits and
\* nothing runs, profiles, groups and worklist are those of the locked grades.
THEOREM PipelineAlwaysSettles == AdviceSpec => []SettlesInOrder
<1>1. AdviceInv /\ (Orderly => Settling) => SettlesInOrder
  <2>. SUFFICES ASSUME AdviceInv, Orderly, Settling, Quiet
                PROVE  /\ profile = locked
                       /\ MembersOf(group) = Clusters(locked)
                       /\ ItemsFit(Signals(locked, Persistent(group), locked))
    BY DEF SettlesInOrder, Orderly, MembersOf, ItemsFit
  <2>1. queue = <<>> /\ \A w \in Workers : worker[w].pc = "idle"
    BY DEF Quiet, Busy
  <2>2. \A task : ~ Waits(task)
    BY <2>1 DEF Waits
  <2>3. \A s : ~ ProfileWaits(s)
    BY <2>1 DEF ProfileWaits
  <2>4. \A s \in Students : profile[s] = locked[s]
    BY <2>1, <2>3 DEF Settling, ProfilesFollow, Upserts
  <2>5. profile = locked
    BY <2>4 DEF AdviceInv, Types, Tables
  <2>6. MembersOf(group) = Clusters(profile)
    BY <2>1, <2>2 DEF Settling, GroupFollows
  <2>7. ItemsFit(SignalsNow)
    BY <2>1, <2>2 DEF Settling, ItemsFollow
  <2>. QED
    BY <2>5, <2>6, <2>7 DEF SignalsNow
<1>2. AdviceInit => (Orderly => Settling)
  BY SettlingInit
<1>. QED
  BY <1>1, <1>2, NextSettles, AdviceInvHolds, PTL DEF AdviceSpec

---------------------------------------------------------------------------
(* Signals and grades *)

\* A lower score one place further back makes the weighted sum larger.
LEMMA RecencyCounts ==
  ASSUME NEW h \in Seq(Int), NEW i \in 1 .. Len(h) - 1, h[i] > h[i + 1]
  PROVE  WeightedSum(Swapped(h, i)) > WeightedSum(h)
<1>. DEFINE k == Swapped(h, i)
            D == 1 .. Len(h)
            f == [j \in DOMAIN h |-> j * h[j]]
            g == [j \in DOMAIN k |-> j * k[j]]
<1>1. DOMAIN h = D /\ IsFiniteSet(D) /\ i \in D /\ i + 1 \in D /\ i # i + 1
  BY FS_Interval
<1>2. /\ DOMAIN k = D /\ k[i] = h[i + 1] /\ k[i + 1] = h[i]
      /\ \A j \in D : j # i /\ j # i + 1 => k[j] = h[j]
  BY <1>1 DEF Swapped
<1>3. \A j \in D : h[j] \in Int /\ k[j] \in Int
  BY <1>1 DEF Swapped
<1>4. \A j \in D : f[j] = j * h[j] /\ g[j] = j * k[j]
  BY <1>1, <1>2
<1>5. DOMAIN f = D /\ DOMAIN g = D
  BY <1>1, <1>2
<1>6. WeightedSum(h) = SumFunctionOnSet(f, D) /\ WeightedSum(k) = SumFunctionOnSet(g, D)
  BY <1>5 DEF WeightedSum, SumFunction
<1>. HIDE DEF f, g, k
<1>7. \A j \in D : f[j] \in Int /\ g[j] \in Int
  <2>. SUFFICES ASSUME NEW j \in D PROVE f[j] \in Int /\ g[j] \in Int
    OBVIOUS
  <2>1. PICK n \in Int, a \in Int, b \in Int : n = j /\ a = h[j] /\ b = k[j]
    BY <1>3
  <2>2. n * a \in Int /\ n * b \in Int
    OBVIOUS
  <2>. QED
    BY <1>4, <2>1, <2>2
<1>8. g[i] + g[i + 1] > f[i] + f[i + 1]
  <2>1. PICK a \in Int, b \in Int : a = h[i] /\ b = h[i + 1]
    BY <1>1, <1>3
  <2>2. f[i] = i * a /\ f[i + 1] = (i + 1) * b /\ g[i] = i * b /\ g[i + 1] = (i + 1) * a
    BY <1>1, <1>2, <1>4, <2>1
  <2>3. (i + 1) * a = i * a + a /\ (i + 1) * b = i * b + b
    OBVIOUS
  <2>4. PICK m \in Int, n \in Int : m = i * a /\ n = i * b
    OBVIOUS
  <2>5. f[i] = m /\ f[i + 1] = n + b /\ g[i] = n /\ g[i + 1] = m + a
    BY <2>2, <2>3, <2>4
  <2>. QED
    BY <2>1, <2>5
<1>9. \A j \in D : j # i /\ j # i + 1 => f[j] = g[j]
  BY <1>2, <1>4
\* The positions as mere elements of D.
<1>. HIDE DEF D
<1>10. PICK x \in D, y \in D : x = i /\ y = i + 1
  BY <1>1
<1>11. x # y /\ f[x] + f[y] < g[x] + g[y] /\ \A z \in D : z # x /\ z # y => f[z] = g[z]
  <2>1. f[x] \in Int /\ f[y] \in Int /\ g[x] \in Int /\ g[y] \in Int
    BY <1>7
  <2>. QED
    BY <1>1, <1>8, <1>9, <1>10, <2>1
<1>12. IsFiniteSet(D)
  BY <1>1
<1>13. SumFunctionOnSet(f, D) < SumFunctionOnSet(g, D)
  BY <1>7, <1>11, <1>12, SumIsLarger
<1>14. SumFunctionOnSet(f, D) \in Int /\ SumFunctionOnSet(g, D) \in Int
  BY <1>7, <1>12, SumIsInt
<1>. QED
  BY <1>6, <1>13, <1>14 DEF k

\* The agent reports a regression where the worklist does, and a gap or a student
\* who does not respond where the worklist sees a gap and no regression.
LEMMA AgentMirrors ==
  ASSUME NEW h
  PROVE  /\ "regression" \in Interventions(h) <=> Regression(h)
         /\ Interventions(h) \intersect {"persistent_gap", "non_responder"} # {}
              <=> PersistentGap(h, FALSE) /\ ~ Regression(h)
<1>1. Trend(h) \in {"improving", "declining", "stable"}
  BY DEF Trend
<1>2. "regression" \in Interventions(h) <=> Trend(h) = "declining"
  BY DEF Interventions
<1>3. "non_responder" \in Interventions(h) <=> Stagnant(h)
  BY DEF Interventions
<1>4. "persistent_gap" \in Interventions(h)
        <=> AverageBelow(h, 60) /\ Len(h) >= 2 /\ Trend(h) = "stable" /\ ~ Stagnant(h)
  BY DEF Interventions
<1>5. Interventions(h) \intersect {"persistent_gap", "non_responder"} # {}
        <=> "persistent_gap" \in Interventions(h) \/ "non_responder" \in Interventions(h)
  OBVIOUS
<1>. QED
  BY <1>1, <1>2, <1>3, <1>4, <1>5 DEF Regression, PersistentGap, Stagnant

\* In every stored profile recent grades weigh more, and the agent reports of it what
\* the worklist reports, for any number and values of the grades.
THEOREM SignalsAlwaysFollowGrades == AdviceSpec => []SignalsFollowGrades
<1>1. AdviceInv => SignalsFollowGrades
  <2>. SUFFICES ASSUME AdviceInv, NEW s \in Students
                PROVE  RecencyCountsIn({profile[s]}) /\ AgentMirrorsWorklistIn({profile[s]})
    BY DEF SignalsFollowGrades, RecencyCountsIn, AgentMirrorsWorklistIn
  <2>1. profile[s] \in Seq(0 .. 100)
    BY DEF AdviceInv, Types, Tables
  <2>2. profile[s] \in Seq(Int)
    <3>1. 0 .. 100 \subseteq Int
      OBVIOUS
    <3>. QED
      BY <2>1, <3>1, SeqMonotonic
  <2>3. RecencyCountsIn({profile[s]})
    BY <2>2, RecencyCounts DEF RecencyCountsIn
  <2>4. AgentMirrorsWorklistIn({profile[s]})
    BY AgentMirrors DEF AgentMirrorsWorklistIn
  <2>. QED
    BY <2>3, <2>4
<1>. QED
  BY <1>1, AdviceInvHolds, PTL
=============================================================================
