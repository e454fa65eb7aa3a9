--------------------------- MODULE RecordsProofs ---------------------------
(* Theorems about the records around grading, each for every number of     *)
(* requests, rows, essays and faults: recorded comments and exports (the   *)
(* files in the store), rosters, answers of the language model, rubrics,   *)
(* and the screens about a class.                                          *)
EXTENDS MediaComments, ExportJob, ClassRoster, LlmAnswer, RubricBook, ClassInsights,
        SumProofs, FiniteSetTheorems, SequenceTheorems, TLAPS

---------------------------------------------------------------------------
(* Recorded comments: the inductive invariant *)

RecordingSteps == {"idle", "upload", "copy", "commit", "cleanup", "delete"}

Recording == [pc : RecordingSteps, key : Nat, source : Nat]

\* The request holds a key it has made up itself.
Making(r) == recorder[r].pc \in {"upload", "copy", "commit", "cleanup"}

RowsAndRequests ==
  /\ keys \in Nat
  /\ comments \in Seq([key : Nat, banked : BOOLEAN])
  /\ recorder \in [Recorders -> Recording]
  /\ unwanted \subseteq DOMAIN comments

\* No key beyond the last one made up is in use.
KeysAreMadeUp ==
  /\ \A c \in DOMAIN comments : comments[c].key \in 1 .. keys
  /\ \A r \in Recorders : recorder[r].key \in 0 .. keys
  /\ \A r \in Recorders : recorder[r].pc = "idle" <=> recorder[r].key = 0
  /\ recordings \subseteq 1 .. keys
  /\ leftover \subseteq 1 .. keys

\* A key belongs to one comment or to one request that makes a comment.
KeysAreOwned ==
  /\ \A c, d \in DOMAIN comments : comments[c].key = comments[d].key => c = d
  /\ \A r \in Recorders, c \in DOMAIN comments :
       Making(r) => recorder[r].key # comments[c].key
  /\ \A r, s \in Recorders :
       Making(r) /\ Making(s) /\ recorder[r].key = recorder[s].key => r = s

\* What a request knows of its object.
StepsAreReached ==
  /\ \A r \in Recorders : recorder[r].pc = "copy" => recorder[r].key \notin recordings
  /\ \A r \in Recorders : recorder[r].pc = "commit" => recorder[r].key \in recordings
  /\ \A r \in Recorders : recorder[r].pc = "delete" =>
       \E c \in unwanted : comments[c].key = recorder[r].key

MediaInv == RowsAndRequests /\ KeysAreMadeUp /\ KeysAreOwned /\ StepsAreReached /\ CommentsCanBePlayed

---------------------------------------------------------------------------
(* How one step changes the requests and the rows *)

LEMMA MediaInitInv == MediaInit => MediaInv
<1>. SUFFICES ASSUME MediaInit PROVE MediaInv
  OBVIOUS
<1>1. DOMAIN comments = {}
  BY DEF MediaInit
<1>2. NoRecording \in Recording /\ NoRecording.pc = "idle" /\ NoRecording.key = 0
  BY DEF NoRecording, Recording, RecordingSteps
<1>3. RowsAndRequests
  BY <1>1, <1>2 DEF MediaInit, RowsAndRequests
<1>4. KeysAreMadeUp
  BY <1>1, <1>2 DEF MediaInit, KeysAreMadeUp
<1>5. KeysAreOwned /\ StepsAreReached
  BY <1>1, <1>2 DEF MediaInit, KeysAreOwned, StepsAreReached, Making
<1>6. CommentsCanBePlayed
  BY <1>1 DEF MediaInit, CommentsCanBePlayed
<1>. QED
  BY <1>3, <1>4, <1>5, <1>6 DEF MediaInv

LEMMA SetRecorder ==
  ASSUME RowsAndRequests, NEW r \in Recorders, NEW new \in Recording,
         recorder' = [recorder EXCEPT ![r] = new]
  PROVE  /\ recorder' \in [Recorders -> Recording]
         /\ recorder'[r] = new
         /\ \A s \in Recorders \ {r} : recorder'[s] = recorder[s]
BY DEF RowsAndRequests

LEMMA EndRecorder ==
  ASSUME RowsAndRequests, NEW r \in Recorders, EndCall(r)
  PROVE  /\ recorder' \in [Recorders -> Recording]
         /\ recorder'[r].pc = "idle" /\ recorder'[r].key = 0
         /\ \A s \in Recorders \ {r} : recorder'[s] = recorder[s]
<1>1. NoRecording \in Recording /\ NoRecording.pc = "idle" /\ NoRecording.key = 0
  BY DEF NoRecording, Recording, RecordingSteps
<1>. QED
  BY <1>1, SetRecorder DEF EndCall

LEMMA MoveRecorder ==
  ASSUME RowsAndRequests, NEW r \in Recorders, NEW pc \in RecordingSteps,
         recorder' = [recorder EXCEPT ![r].pc = pc]
  PROVE  /\ recorder' \in [Recorders -> Recording]
         /\ recorder'[r].pc = pc /\ recorder'[r].key = recorder[r].key
         /\ \A s \in Recorders \ {r} : recorder'[s] = recorder[s]
<1>. DEFINE new == [recorder[r] EXCEPT !.pc = pc]
<1>1. recorder[r] \in Recording
  BY DEF RowsAndRequests
<1>2. new \in Recording /\ new.pc = pc /\ new.key = recorder[r].key
  BY <1>1 DEF Recording
<1>3. recorder' = [recorder EXCEPT ![r] = new]
  BY DEF RowsAndRequests
<1>. HIDE DEF new
<1>. QED
  BY <1>2, <1>3, SetRecorder

\* A request begins with a key nobody has.
LEMMA BeginRecorder ==
  ASSUME RowsAndRequests, NEW r \in Recorders, NEW pc \in RecordingSteps, NEW source \in Nat,
         keys' = keys + 1,
         recorder' = [recorder EXCEPT ![r] = [pc |-> pc, key |-> keys', source |-> source]]
  PROVE  /\ recorder' \in [Recorders -> Recording]
         /\ recorder'[r].pc = pc /\ recorder'[r].key = keys + 1
         /\ \A s \in Recorders \ {r} : recorder'[s] = recorder[s]
<1>. DEFINE new == [pc |-> pc, key |-> keys', source |-> source]
<1>1. keys' \in Nat
  BY DEF RowsAndRequests
<1>2. new \in Recording /\ new.pc = pc /\ new.key = keys + 1
  BY <1>1 DEF Recording
<1>3. recorder' = [recorder EXCEPT ![r] = new]
  OBVIOUS
<1>. HIDE DEF new
<1>. QED
  BY <1>2, <1>3, SetRecorder

---------------------------------------------------------------------------
(* Each kind of step keeps the invariant *)

\* A request that begins with a new key.
LEMMA BeginKeeps ==
  ASSUME MediaInv, NEW r \in Recorders, NEW pc \in {"upload", "copy"}, NEW source \in Nat,
         recorder[r].pc = "idle",
         keys' = keys + 1,
         recorder' = [recorder EXCEPT ![r] = [pc |-> pc, key |-> keys', source |-> source]],
         UNCHANGED <<comments, recordings, unwanted, leftover>>
  PROVE  MediaInv'
<1>1. /\ recorder' \in [Recorders -> Recording]
      /\ recorder'[r].pc = pc /\ recorder'[r].key = keys + 1
      /\ \A s \in Recorders \ {r} : recorder'[s] = recorder[s]
  <2>1. pc \in RecordingSteps
    BY DEF RecordingSteps
  <2>. QED
    BY <2>1, BeginRecorder DEF MediaInv
<1>2. keys \in Nat /\ keys' = keys + 1
  BY DEF MediaInv, RowsAndRequests
<1>3. RowsAndRequests'
  BY <1>1, <1>2 DEF MediaInv, RowsAndRequests
<1>4. KeysAreMadeUp'
  <2>1. \A key \in 0 .. keys : key \in 0 .. keys' /\ (key # 0 => key \in 1 .. keys')
    BY <1>2
  <2>2. keys + 1 \in 0 .. keys' /\ keys + 1 # 0
    BY <1>2
  <2>. QED
    BY <1>1, <1>2, <2>1, <2>2 DEF MediaInv, KeysAreMadeUp
<1>5. KeysAreOwned'
  <2>1. \A c \in DOMAIN comments : comments[c].key # keys + 1
    BY <1>2 DEF MediaInv, KeysAreMadeUp
  <2>2. \A s \in Recorders : recorder[s].key # keys + 1
    BY <1>2 DEF MediaInv, KeysAreMadeUp
  <2>. QED
    BY <1>1, <2>1, <2>2 DEF MediaInv, KeysAreOwned, Making
<1>6. StepsAreReached'
  <2>1. keys + 1 \notin recordings
    BY <1>2 DEF MediaInv, KeysAreMadeUp
  <2>. QED
    BY <1>1, <2>1 DEF MediaInv, StepsAreReached
<1>7. CommentsCanBePlayed'
  <2>1. recorder[r].key \notin recordings
    BY <1>2 DEF MediaInv, KeysAreMadeUp
  <2>. QED
    BY <1>1, <2>1 DEF MediaInv, CommentsCanBePlayed
<1>. QED
  BY <1>3, <1>4, <1>5, <1>6, <1>7 DEF MediaInv

\* The object of a request is there.
LEMMA StoreCommentKeeps ==
  ASSUME MediaInv, NEW r \in Recorders, recorder[r].pc \in {"upload", "copy"},
         recorder' = [recorder EXCEPT ![r].pc = "commit"],
         recordings' = recordings \union {recorder[r].key},
         UNCHANGED <<comments, keys, unwanted, leftover>>
  PROVE  MediaInv'
<1>1. /\ recorder' \in [Recorders -> Recording]
      /\ recorder'[r].pc = "commit" /\ recorder'[r].key = recorder[r].key
      /\ \A s \in Recorders \ {r} : recorder'[s] = recorder[s]
  <2>1. "commit" \in RecordingSteps
    BY DEF RecordingSteps
  <2>. QED
    BY <2>1, MoveRecorder DEF MediaInv
<1>2. Making(r) /\ recorder[r].key \in 1 .. keys
  BY DEF MediaInv, KeysAreMadeUp, RowsAndRequests, Making
<1>3. RowsAndRequests'
  BY <1>1 DEF MediaInv, RowsAndRequests
<1>4. KeysAreMadeUp'
  BY <1>1, <1>2 DEF MediaInv, KeysAreMadeUp
<1>5. \A s \in Recorders : Making(s)' <=> Making(s)
  BY <1>1, <1>2 DEF Making
<1>6. \A s \in Recorders : recorder'[s].key = recorder[s].key
  BY <1>1
<1>7. KeysAreOwned'
  BY <1>5, <1>6 DEF MediaInv, KeysAreOwned
<1>8. StepsAreReached'
  <2>1. \A s \in Recorders \ {r} : recorder[s].pc = "copy" => recorder[s].key \notin recordings'
    BY <1>2 DEF MediaInv, KeysAreOwned, StepsAreReached, Making
  <2>. QED
    BY <1>1, <2>1 DEF MediaInv, StepsAreReached
<1>9. CommentsCanBePlayed'
  BY <1>6 DEF MediaInv, CommentsCanBePlayed
<1>. QED
  BY <1>3, <1>4, <1>7, <1>8, <1>9 DEF MediaInv

\* A request ends and leaves its object to nobody: there is none, it removes
\* it, or it is accounted for.
LEMMA EndKeeps ==
  ASSUME MediaInv, NEW r \in Recorders, recorder[r].pc # "idle",
         EndCall(r),
         \/ recorder[r].key \notin recordings
         \/ recorder[r].key \in leftover',
         leftover' \in {leftover, leftover \union {recorder[r].key}},
         UNCHANGED <<comments, keys, recordings, unwanted>>
  PROVE  MediaInv'
<1>1. /\ recorder' \in [Recorders -> Recording]
      /\ recorder'[r].pc = "idle" /\ recorder'[r].key = 0
      /\ \A s \in Recorders \ {r} : recorder'[s] = recorder[s]
  BY EndRecorder DEF MediaInv
<1>2. keys \in Nat /\ recorder[r].key \in 1 .. keys
  BY DEF MediaInv, KeysAreMadeUp, RowsAndRequests
<1>3. RowsAndRequests'
  BY <1>1 DEF MediaInv, RowsAndRequests
<1>4. KeysAreMadeUp'
  BY <1>1, <1>2 DEF MediaInv, KeysAreMadeUp
<1>5. \A s \in Recorders : Making(s)' => s # r /\ Making(s)
  BY <1>1 DEF Making
<1>6. KeysAreOwned'
  BY <1>1, <1>5 DEF MediaInv, KeysAreOwned
<1>7. StepsAreReached'
  BY <1>1 DEF MediaInv, StepsAreReached
<1>8. CommentsCanBePlayed'
  <2>1. leftover \subseteq leftover'
    OBVIOUS
  <2>2. ASSUME NEW key \in recordings \ leftover'
        PROVE  \/ \E c \in DOMAIN comments : comments[c].key = key
               \/ \E s \in Recorders : recorder'[s].key = key
    <3>1. key # recorder[r].key
      BY <2>2
    <3>. QED
      BY <1>1, <2>1, <2>2, <3>1 DEF MediaInv, CommentsCanBePlayed
  <2>. QED
    BY <2>2 DEF MediaInv, CommentsCanBePlayed
<1>. QED
  BY <1>3, <1>4, <1>6, <1>7, <1>8 DEF MediaInv

\* An object goes that no request is about to name, nor a comment that is wanted.
LEMMA RemoveKeeps ==
  ASSUME MediaInv, NEW r \in Recorders, recorder[r].pc \in {"cleanup", "delete"},
         EndCall(r),
         recordings' = recordings \ {recorder[r].key},
         UNCHANGED <<comments, keys, unwanted, leftover>>
  PROVE  MediaInv'
<1>1. /\ recorder' \in [Recorders -> Recording]
      /\ recorder'[r].pc = "idle" /\ recorder'[r].key = 0
      /\ \A s \in Recorders \ {r} : recorder'[s] = recorder[s]
  BY EndRecorder DEF MediaInv
<1>2. RowsAndRequests'
  BY <1>1 DEF MediaInv, RowsAndRequests
<1>3. KeysAreMadeUp'
  <2>1. 0 \in 0 .. keys
    BY DEF MediaInv, RowsAndRequests
  <2>. QED
    BY <1>1, <2>1 DEF MediaInv, KeysAreMadeUp
<1>4. KeysAreOwned'
  <2>1. \A s \in Recorders : Making(s)' => s # r /\ Making(s)
    BY <1>1 DEF Making
  <2>. QED
    BY <1>1, <2>1 DEF MediaInv, KeysAreOwned
<1>5. \A s \in Recorders \ {r} : recorder[s].pc = "commit" => recorder[s].key # recorder[r].key
  <2>1. CASE recorder[r].pc = "cleanup"
    BY <2>1 DEF MediaInv, KeysAreOwned, Making
  <2>2. CASE recorder[r].pc = "delete"
    <3>1. PICK c \in unwanted : comments[c].key = recorder[r].key
      BY <2>2 DEF MediaInv, StepsAreReached
    <3>. QED
      BY <3>1 DEF MediaInv, RowsAndRequests, KeysAreOwned, Making
  <2>. QED
    BY <2>1, <2>2
<1>6. StepsAreReached'
  BY <1>1, <1>5 DEF MediaInv, StepsAreReached
<1>7. \A c \in DOMAIN comments \ unwanted : comments[c].key # recorder[r].key
  <2>1. CASE recorder[r].pc = "cleanup"
    BY <2>1 DEF MediaInv, KeysAreOwned, Making
  <2>2. CASE recorder[r].pc = "delete"
    <3>1. PICK c \in unwanted : comments[c].key = recorder[r].key
      BY <2>2 DEF MediaInv, StepsAreReached
    <3>. QED
      BY <3>1 DEF MediaInv, RowsAndRequests, KeysAreOwned
  <2>. QED
    BY <2>1, <2>2
<1>8. CommentsCanBePlayed'
  <2>1. \A c \in DOMAIN comments' \ unwanted' : comments'[c].key \in recordings'
    BY <1>7 DEF MediaInv, CommentsCanBePlayed
  <2>2. ASSUME NEW key \in recordings' \ leftover'
        PROVE  \/ \E c \in DOMAIN comments : comments[c].key = key
               \/ \E s \in Recorders : recorder'[s].key = key
    BY <1>1, <2>2 DEF MediaInv, CommentsCanBePlayed
  <2>. QED
    BY <2>1, <2>2 DEF CommentsCanBePlayed
<1>. QED
  BY <1>2, <1>3, <1>4, <1>6, <1>8 DEF MediaInv

LEMMA CommitKeeps ==
  ASSUME MediaInv, NEW r \in Recorders, CommitComment(r)
  PROVE  MediaInv'
<1>. DEFINE last == Len(comments) + 1
<1>1. /\ recorder' \in [Recorders -> Recording]
      /\ recorder'[r].pc = "idle" /\ recorder'[r].key = 0
      /\ \A s \in Recorders \ {r} : recorder'[s] = recorder[s]
  BY EndRecorder DEF MediaInv, CommitComment
<1>2. /\ recorder[r].pc = "commit" /\ Making(r)
      /\ recorder[r].key \in 1 .. keys /\ recorder[r].key \in recordings
      /\ recorder[r].key \in Nat /\ keys \in Nat
      /\ UNCHANGED <<recordings, keys, unwanted, leftover>>
  BY DEF CommitComment, MediaInv, KeysAreMadeUp, RowsAndRequests, StepsAreReached, Making
<1>3. /\ comments' \in Seq([key : Nat, banked : BOOLEAN])
      /\ DOMAIN comments' = DOMAIN comments \union {last}
      /\ comments'[last].key = recorder[r].key
      /\ \A c \in DOMAIN comments : comments'[c] = comments[c] /\ c # last
  <2>1. Comment(recorder[r].key) \in [key : Nat, banked : BOOLEAN]
    BY <1>2 DEF Comment
  <2>2. comments' = Append(comments, Comment(recorder[r].key))
    BY DEF CommitComment
  <2>3. comments \in Seq([key : Nat, banked : BOOLEAN])
    BY DEF MediaInv, RowsAndRequests
  <2>4. Comment(recorder[r].key).key = recorder[r].key
    BY DEF Comment
  <2>. QED
    BY <2>1, <2>2, <2>3, <2>4
<1>. HIDE DEF last
<1>4. RowsAndRequests'
  BY <1>1, <1>2, <1>3 DEF MediaInv, RowsAndRequests
<1>5. KeysAreMadeUp'
  <2>1. \A c \in DOMAIN comments' : comments'[c].key \in 1 .. keys'
    BY <1>2, <1>3 DEF MediaInv, KeysAreMadeUp
  <2>2. 0 \in 0 .. keys
    BY <1>2
  <2>3. \A s \in Recorders :
           recorder'[s].key \in 0 .. keys' /\ (recorder'[s].pc = "idle" <=> recorder'[s].key = 0)
    BY <1>1, <1>2, <2>2 DEF MediaInv, KeysAreMadeUp
  <2>. QED
    BY <1>2, <2>1, <2>3 DEF MediaInv, KeysAreMadeUp
<1>6. KeysAreOwned'
  <2>1. \A s \in Recorders : Making(s)' => s # r /\ Making(s)
    BY <1>1 DEF Making
  <2>2. \A c, d \in DOMAIN comments' : comments'[c].key = comments'[d].key => c = d
    BY <1>2, <1>3 DEF MediaInv, KeysAreOwned
  <2>3. \A s \in Recorders, c \in DOMAIN comments' :
           Making(s)' => recorder'[s].key # comments'[c].key
    BY <1>1, <1>2, <1>3, <2>1 DEF MediaInv, KeysAreOwned
  <2>4. \A s, t \in Recorders :
           Making(s)' /\ Making(t)' /\ recorder'[s].key = recorder'[t].key => s = t
    BY <1>1, <2>1 DEF MediaInv, KeysAreOwned
  <2>. QED
    BY <2>2, <2>3, <2>4 DEF KeysAreOwned
<1>7. StepsAreReached'
  <2>1. ASSUME NEW s \in Recorders, recorder'[s].pc = "delete"
        PROVE  \E c \in unwanted' : comments'[c].key = recorder'[s].key
    <3>1. recorder'[s] = recorder[s]
      BY <1>1, <2>1
    <3>2. PICK c \in unwanted : comments[c].key = recorder[s].key
      BY <2>1, <3>1 DEF MediaInv, StepsAreReached
    <3>3. c \in DOMAIN comments
      BY DEF MediaInv, RowsAndRequests
    <3>. QED
      BY <1>2, <1>3, <3>1, <3>2, <3>3
  <2>. QED
    BY <1>1, <1>2, <2>1 DEF MediaInv, StepsAreReached
<1>8. CommentsCanBePlayed'
  <2>1. \A c \in DOMAIN comments' \ unwanted' : comments'[c].key \in recordings'
    BY <1>2, <1>3 DEF MediaInv, CommentsCanBePlayed
  <2>2. ASSUME NEW key \in recordings' \ leftover'
        PROVE  \/ \E c \in DOMAIN comments' : comments'[c].key = key
               \/ \E s \in Recorders : recorder'[s].key = key
    <3>1. CASE key = recorder[r].key
      BY <1>3, <3>1
    <3>2. CASE key # recorder[r].key
      BY <1>1, <1>2, <1>3, <2>2, <3>2 DEF MediaInv, CommentsCanBePlayed
    <3>. QED
      BY <3>1, <3>2
  <2>. QED
    BY <2>1, <2>2 DEF CommentsCanBePlayed
<1>. QED
  BY <1>4, <1>5, <1>6, <1>7, <1>8 DEF MediaInv

LEMMA FailedCopyKeeps ==
  ASSUME MediaInv, NEW r \in Recorders, CommitFails(r)
  PROVE  MediaInv'
<1>1. /\ recorder' \in [Recorders -> Recording]
      /\ recorder'[r].pc = "cleanup" /\ recorder'[r].key = recorder[r].key
      /\ \A s \in Recorders \ {r} : recorder'[s] = recorder[s]
  <2>1. "cleanup" \in RecordingSteps
    BY DEF RecordingSteps
  <2>. QED
    BY <2>1, MoveRecorder DEF MediaInv, CommitFails
<1>2. recorder[r].pc = "commit" /\ UNCHANGED <<comments, recordings, keys, unwanted, leftover>>
  BY DEF CommitFails
<1>3. \A s \in Recorders : recorder'[s].key = recorder[s].key /\ (Making(s)' <=> Making(s))
  BY <1>1, <1>2 DEF Making
<1>4. RowsAndRequests'
  BY <1>1, <1>2 DEF MediaInv, RowsAndRequests
<1>5. KeysAreMadeUp'
  BY <1>1, <1>2 DEF MediaInv, KeysAreMadeUp
<1>6. KeysAreOwned'
  BY <1>2, <1>3 DEF MediaInv, KeysAreOwned
<1>7. StepsAreReached'
  BY <1>1, <1>2 DEF MediaInv, StepsAreReached
<1>8. CommentsCanBePlayed'
  BY <1>2, <1>3 DEF MediaInv, CommentsCanBePlayed
<1>. QED
  BY <1>4, <1>5, <1>6, <1>7, <1>8 DEF MediaInv

LEMMA DeleteKeeps ==
  ASSUME MediaInv, NEW r \in Recorders, NEW c \in DOMAIN comments, StartDeleteComment(r, c)
  PROVE  MediaInv'
<1>. DEFINE new == [pc |-> "delete", key |-> comments[c].key, source |-> 0]
<1>1. /\ recorder' \in [Recorders -> Recording]
      /\ recorder'[r].pc = "delete" /\ recorder'[r].key = comments[c].key
      /\ \A s \in Recorders \ {r} : recorder'[s] = recorder[s]
  <2>1. comments[c].key \in Nat
    BY DEF MediaInv, RowsAndRequests, KeysAreMadeUp
  <2>2. new \in Recording /\ new.pc = "delete" /\ new.key = comments[c].key
    BY <2>1 DEF Recording, RecordingSteps
  <2>3. recorder' = [recorder EXCEPT ![r] = new]
    BY DEF StartDeleteComment
  <2>. HIDE DEF new
  <2>. QED
    BY <2>2, <2>3, SetRecorder DEF MediaInv
<1>. HIDE DEF new
<1>2. /\ recorder[r].pc = "idle" /\ unwanted' = unwanted \union {c}
      /\ UNCHANGED <<comments, recordings, keys, leftover>>
  BY DEF StartDeleteComment
<1>3. RowsAndRequests'
  BY <1>1, <1>2 DEF MediaInv, RowsAndRequests
<1>4. KeysAreMadeUp'
  <2>1. comments[c].key \in 0 .. keys /\ comments[c].key # 0
    BY DEF MediaInv, KeysAreMadeUp, RowsAndRequests
  <2>. QED
    BY <1>1, <1>2, <2>1 DEF MediaInv, KeysAreMadeUp
<1>5. KeysAreOwned'
  <2>1. \A s \in Recorders : Making(s)' => s # r /\ Making(s)
    BY <1>1 DEF Making
  <2>. QED
    BY <1>1, <1>2, <2>1 DEF MediaInv, KeysAreOwned
<1>6. StepsAreReached'
  BY <1>1, <1>2 DEF MediaInv, StepsAreReached
<1>7. CommentsCanBePlayed'
  <2>1. recorder[r].key \notin recordings
    BY <1>2 DEF MediaInv, KeysAreMadeUp, RowsAndRequests
  <2>. QED
    BY <1>1, <1>2, <2>1 DEF MediaInv, CommentsCanBePlayed
<1>. QED
  BY <1>3, <1>4, <1>5, <1>6, <1>7 DEF MediaInv

LEMMA BankKeeps ==
  ASSUME MediaInv, NEW c \in DOMAIN comments, SaveToBank(c)
  PROVE  MediaInv'
<1>1. /\ comments' \in Seq([key : Nat, banked : BOOLEAN])
      /\ DOMAIN comments' = DOMAIN comments
      /\ \A d \in DOMAIN comments : comments'[d].key = comments[d].key
  <2>1. comments \in Seq([key : Nat, banked : BOOLEAN])
    BY DEF MediaInv, RowsAndRequests
  <2>2. comments' = [comments EXCEPT ![c] = [comments[c] EXCEPT !.banked = TRUE]]
    BY DEF SaveToBank
  <2>3. comments[c] \in [key : Nat, banked : BOOLEAN]
    <3>1. c \in 1 .. Len(comments)
      BY <2>1
    <3>. QED
      BY <2>1, <3>1, ElementOfSeq
  <2>. DEFINE new == [comments[c] EXCEPT !.banked = TRUE]
  <2>4. new \in [key : Nat, banked : BOOLEAN] /\ new.key = comments[c].key
    BY <2>3
  <2>. HIDE DEF new
  <2>. QED
    BY <2>1, <2>2, <2>4 DEF new
<1>2. UNCHANGED <<recordings, keys, recorder, unwanted, leftover>>
  BY DEF SaveToBank
<1>3. RowsAndRequests'
  BY <1>1, <1>2 DEF MediaInv, RowsAndRequests
<1>4. KeysAreMadeUp'
  BY <1>1, <1>2 DEF MediaInv, KeysAreMadeUp
<1>5. KeysAreOwned'
  BY <1>1, <1>2 DEF MediaInv, KeysAreOwned, Making
<1>6. StepsAreReached'
  BY <1>1, <1>2 DEF MediaInv, StepsAreReached, RowsAndRequests
<1>7. CommentsCanBePlayed'
  BY <1>1, <1>2 DEF MediaInv, CommentsCanBePlayed
<1>. QED
  BY <1>3, <1>4, <1>5, <1>6, <1>7 DEF MediaInv

---------------------------------------------------------------------------

LEMMA MediaStep == MediaInv /\ [MediaNext]_mediaVars => MediaInv'
<1>. SUFFICES ASSUME MediaInv, [MediaNext]_mediaVars PROVE MediaInv'
  OBVIOUS
<1>1. ASSUME NEW r \in Recorders, StartRecording(r) PROVE MediaInv'
  BY <1>1, BeginKeeps DEF StartRecording
<1>2. ASSUME NEW r \in Recorders, NEW c \in DOMAIN comments, StartApply(r, c) PROVE MediaInv'
  <2>1. comments[c].key \in Nat
    BY DEF MediaInv, KeysAreMadeUp
  <2>. QED
    BY <1>2, <2>1, BeginKeeps DEF StartApply
<1>3. ASSUME NEW r \in Recorders, UploadFile(r) PROVE MediaInv'
  BY <1>3, StoreCommentKeeps DEF UploadFile
<1>4. ASSUME NEW r \in Recorders, CopyFile(r) PROVE MediaInv'
  <2>1. CASE recorder[r].source \in recordings
    BY <1>4, <2>1, StoreCommentKeeps DEF CopyFile
  <2>2. CASE recorder[r].source \notin recordings
    <3>1. recorder[r].key \notin recordings
      BY <1>4 DEF MediaInv, StepsAreReached, CopyFile
    <3>. QED
      BY <1>4, <2>2, <3>1, EndKeeps DEF CopyFile
  <2>. QED
    BY <2>1, <2>2
<1>5. ASSUME NEW r \in Recorders, CleanUpRecording(r) \/ DeleteFile(r) PROVE MediaInv'
  BY <1>5, RemoveKeeps DEF CleanUpRecording, DeleteFile
<1>6. ASSUME NEW r \in Recorders, RecorderFails(r) PROVE MediaInv'
  BY <1>6, EndKeeps DEF RecorderFails, GiveUp
<1>7. CASE UNCHANGED mediaVars
  BY <1>7 DEF mediaVars, MediaInv, RowsAndRequests, KeysAreMadeUp, KeysAreOwned, Making,
     StepsAreReached, CommentsCanBePlayed
<1>. QED
  BY <1>1, <1>2, <1>3, <1>4, <1>5, <1>6, <1>7, CommitKeeps, FailedCopyKeeps, DeleteKeeps, BankKeeps
     DEF MediaNext

\* Rows and requests of media comments have their types (media_comment.py).
THEOREM MediaTypesHold == MediaSpec => []MediaTypeOK
<1>1. MediaInv => MediaTypeOK
  <2>. SUFFICES ASSUME MediaInv PROVE MediaTypeOK
    OBVIOUS
  <2>1. comments \in Seq([key : 1 .. keys, banked : BOOLEAN])
    <3>1. comments \in Seq([key : Nat, banked : BOOLEAN])
      BY DEF MediaInv, RowsAndRequests
    <3>2. ASSUME NEW c \in 1 .. Len(comments)
          PROVE  comments[c] \in [key : 1 .. keys, banked : BOOLEAN]
      <4>1. comments[c] \in [key : Nat, banked : BOOLEAN]
        BY <3>1, ElementOfSeq
      <4>2. comments[c].key \in 1 .. keys
        BY <3>1 DEF MediaInv, KeysAreMadeUp
      <4>. QED
        BY <4>1, <4>2
    <3>. DEFINE Row == [key : 1 .. keys, banked : BOOLEAN]
    <3>3. \A c \in 1 .. Len(comments) : comments[c] \in Row
      BY <3>2
    <3>. HIDE DEF Row
    <3>4. comments \in Seq(Row)
      BY <3>1, <3>3
    <3>. QED
      BY <3>4 DEF Row
  <2>2. \A r \in Recorders : recorder[r] \in Recording
    BY DEF MediaInv, RowsAndRequests
  <2>. QED
    BY <2>1, <2>2 DEF MediaInv, RowsAndRequests, KeysAreMadeUp, MediaTypeOK, Recording, RecordingSteps
<1>. QED
  BY <1>1, MediaInitInv, MediaStep, PTL DEF MediaSpec

\* Deleting or failing on one comment never takes the recording of another,
\* and no recording is without a comment, a request or a failure that explains
\* it (create_media_comment, apply_banked_comment, delete_media_comment).
THEOREM CommentsCanAlwaysBePlayed == MediaSpec => []CommentsCanBePlayed
<1>1. MediaInv => CommentsCanBePlayed
  BY DEF MediaInv
<1>. QED
  BY <1>1, MediaInitInv, MediaStep, PTL DEF MediaSpec

---------------------------------------------------------------------------
(* Exports: the inductive invariant *)

ExportSteps == {"idle", "load", "pdf", "zipped", "report", "extend"}

Exporter == [pc : ExportSteps, retries : 0 .. MaxExportRetries,
             fit : Nat, unfit : Nat, complete : Nat, skipped : Nat]

Unsent == {"create", "expire", "audit", "send"}

Types ==
  /\ job \in Job \union {NoJob}
  /\ zip \in BOOLEAN
  /\ locked \in [fit : Nat, unfit : Nat]
  /\ message \in 0 .. MaxExportRetries \union {NoTask}
  /\ exporter \in Exporter

\* No task runs before the request has sent it, and the record waits for its
\* time to live.
SentFirst ==
  /\ request \in Unsent => message = NoTask /\ exporter.pc = "idle"
  /\ request = "expire" => job # NoJob /\ job.status # "complete" /\ job.expires = FALSE

\* What the run has made of the essays it has found.
RunCounts ==
  /\ exporter.pc \in {"idle", "load"} => /\ exporter.fit = 0 /\ exporter.unfit = 0
                                         /\ exporter.complete = 0 /\ exporter.skipped = 0
  /\ exporter.pc = "pdf" => /\ exporter.fit + exporter.complete = locked.fit
                            /\ exporter.unfit + exporter.skipped = locked.unfit
  /\ exporter.pc \in {"zipped", "report", "extend"} => /\ exporter.fit = 0
                                                       /\ exporter.complete = locked.fit
  /\ exporter.pc \in {"report", "extend"} => zip

\* The record of the teacher tells what the run counts. A record made anew
\* after it expired has no owner.
RecordCounts ==
  job # NoJob /\ job.owned =>
    /\ exporter.pc \in {"load", "pdf", "zipped", "report"} => job.status # "complete"
    /\ exporter.pc = "load" => job.complete = 0
    /\ exporter.pc = "pdf" => /\ job.complete = exporter.complete
                              /\ job.total = locked.fit + locked.unfit
    /\ exporter.pc \in {"zipped", "report"} => /\ job.complete = locked.fit
                                               /\ job.total = locked.fit

ExportInv == Types /\ SentFirst /\ RunCounts /\ RecordCounts /\ CompleteIsDownloadable

---------------------------------------------------------------------------

LEMMA CurrentType ==
  ASSUME Types
  PROVE  /\ Current \in Job
         /\ job # NoJob => Current = job
         /\ job = NoJob => Current = Blank
         /\ Blank.owned = FALSE /\ Blank.status = "pending" /\ Blank \in Job
BY DEF Types, Current, Blank, Job

LEMMA NoRunFacts ==
  /\ NoRun \in Exporter /\ NoRun.pc = "idle" /\ NoRun.fit = 0 /\ NoRun.unfit = 0
  /\ NoRun.complete = 0 /\ NoRun.skipped = 0
BY ExportAssumption DEF NoRun, Exporter, ExportSteps

\* The run ends with the record as it was or marked as failed.
LEMMA EndExportKeeps ==
  ASSUME ExportInv, exporter.pc # "idle",
         exporter' = NoRun, message' \in 0 .. MaxExportRetries \union {NoTask},
         job' \in {job, [Current EXCEPT !.status = "failed"]},
         UNCHANGED <<zip, locked, request>>
  PROVE  ExportInv'
<1>1. Types /\ request \notin Unsent
  BY DEF ExportInv, SentFirst
<1>. DEFINE failed == [Current EXCEPT !.status = "failed"]
<1>2. failed \in Job /\ failed.status = "failed"
  BY <1>1, CurrentType DEF Job
<1>. HIDE DEF failed
<1>3. Types'
  BY <1>1, <1>2, NoRunFacts DEF Types, failed
<1>4. SentFirst' /\ RunCounts' /\ RecordCounts'
  BY <1>1, NoRunFacts DEF SentFirst, RunCounts, RecordCounts, Unsent
<1>5. CompleteIsDownloadable'
  BY <1>2 DEF ExportInv, CompleteIsDownloadable, failed
<1>. QED
  BY <1>3, <1>4, <1>5 DEF ExportInv

\* The record vanishes, or is marked as failed, or gets its time to live.
LEMMA RecordKeeps ==
  ASSUME ExportInv,
         \/ job' \in {job, NoJob, [Current EXCEPT !.status = "failed"]}
         \/ job # NoJob /\ job' = [job EXCEPT !.expires = TRUE],
         request' # "expire",
         request' \in Unsent => request \in Unsent,
         message' = message \/ (request' \notin Unsent /\ message' = 0),
         UNCHANGED <<zip, locked, exporter>>
  PROVE  ExportInv'
<1>1. Types
  BY DEF ExportInv
<1>. DEFINE failed == [Current EXCEPT !.status = "failed"]
            timed == [job EXCEPT !.expires = TRUE]
<1>2. /\ failed \in Job /\ failed.status = "failed"
      /\ job # NoJob => /\ failed.owned = job.owned
                        /\ failed.complete = job.complete /\ failed.total = job.total
      /\ job = NoJob => failed.owned = FALSE
  BY <1>1, CurrentType DEF Job, Types
<1>3. job \in Job => /\ timed \in Job /\ timed.status = job.status /\ timed.owned = job.owned
                     /\ timed.complete = job.complete /\ timed.total = job.total
                     /\ timed.file = job.file
  BY DEF Job
<1>. HIDE DEF failed, timed
<1>4. \/ job' = NoJob
      \/ job' = job
      \/ job' = failed
      \/ job # NoJob /\ job \in Job /\ job' = timed
  BY <1>1 DEF failed, timed, Types
<1>5. Types'
  BY <1>1, <1>2, <1>3, <1>4, ExportAssumption DEF Types
<1>6. SentFirst'
  BY DEF ExportInv, SentFirst
<1>7. RunCounts'
  BY DEF ExportInv, RunCounts
<1>8. RecordCounts' /\ CompleteIsDownloadable'
  <2>1. CASE job' = NoJob \/ job' = job
    BY <2>1 DEF ExportInv, RecordCounts, CompleteIsDownloadable
  <2>2. CASE job' = failed
    BY <1>2, <2>2 DEF ExportInv, RecordCounts, CompleteIsDownloadable
  <2>3. CASE job \in Job /\ job' = timed /\ job # NoJob
    BY <1>3, <2>3 DEF ExportInv, RecordCounts, CompleteIsDownloadable
  <2>. QED
    BY <1>4, <2>1, <2>2, <2>3
<1>. QED
  BY <1>5, <1>6, <1>7, <1>8 DEF ExportInv

---------------------------------------------------------------------------
(* The request *)

LEMMA CreateKeeps ==
  ASSUME ExportInv, CreateRecord
  PROVE  ExportInv'
<1>. DEFINE new == [Blank EXCEPT !.owned = TRUE]
<1>1. new \in Job /\ new.status = "pending" /\ new.expires = FALSE
  BY DEF Blank, Job
<1>2. job' = new /\ request = "create" /\ request' = "expire" /\ UNCHANGED <<zip, locked, message, exporter>>
  BY DEF CreateRecord
<1>3. exporter.pc = "idle" /\ message = NoTask /\ Types
  BY <1>2 DEF ExportInv, SentFirst, Unsent
<1>. HIDE DEF new
<1>4. new # NoJob
  BY <1>1, NoJobAssumption
<1>5. Types'
  BY <1>1, <1>2, <1>3 DEF Types
<1>6. SentFirst' /\ RunCounts' /\ RecordCounts' /\ CompleteIsDownloadable'
  BY <1>1, <1>2, <1>3, <1>4 DEF ExportInv, SentFirst, RunCounts, RecordCounts, CompleteIsDownloadable
<1>. QED
  BY <1>5, <1>6 DEF ExportInv

LEMMA RequestExportKeeps ==
  ASSUME ExportInv, SetTtl \/ CommitAudit \/ Send \/ RaiseRequest \/ Expire
  PROVE  ExportInv'
<1>1. CASE SetTtl
  BY <1>1, RecordKeeps DEF SetTtl, Unsent, ExportInv, SentFirst
<1>2. CASE CommitAudit
  BY <1>2, RecordKeeps DEF CommitAudit, Unsent
<1>3. CASE Send
  <2>1. job' \in {job, [Current EXCEPT !.status = "failed"]}
    BY <1>3 DEF Send, ReportFailure, Write
  <2>2. /\ request' \in {"answered", "raised"} /\ (message' = message \/ message' = 0)
        /\ UNCHANGED <<zip, locked, exporter>>
    BY <1>3 DEF Send
  <2>. QED
    BY <2>1, <2>2, RecordKeeps DEF Unsent
<1>4. CASE RaiseRequest
  BY <1>4, RecordKeeps DEF RaiseRequest, Unsent
<1>5. CASE Expire
  <2>1. request # "expire"
    BY <1>5 DEF Expire, ExportInv, SentFirst
  <2>. QED
    BY <1>5, <2>1, RecordKeeps DEF Expire
<1>. QED
  BY <1>1, <1>2, <1>3, <1>4, <1>5

---------------------------------------------------------------------------
(* The task *)

LEMMA StartKeeps ==
  ASSUME ExportInv, StartExport
  PROVE  ExportInv'
<1>. DEFINE new == [Current EXCEPT !.status = "processing", !.complete = 0, !.total = 0]
            run == [NoRun EXCEPT !.pc = "load", !.retries = message]
<1>0. Types /\ message \in 0 .. MaxExportRetries /\ request \notin Unsent /\ exporter.pc = "idle"
  BY DEF ExportInv, Types, StartExport, SentFirst, Running
<1>1. new \in Job /\ new.status = "processing" /\ new.complete = 0
  BY <1>0, CurrentType DEF Job
<1>2. /\ run \in Exporter /\ run.pc = "load" /\ run.fit = 0 /\ run.unfit = 0
      /\ run.complete = 0 /\ run.skipped = 0
  BY <1>0 DEF NoRun, Exporter, ExportSteps
<1>3. job' = new /\ exporter' = run /\ message' = NoTask /\ UNCHANGED <<zip, locked, request>>
  BY DEF StartExport, Write
<1>. HIDE DEF new, run
<1>4. Types'
  BY <1>0, <1>1, <1>2, <1>3 DEF Types
<1>5. SentFirst' /\ RunCounts' /\ RecordCounts' /\ CompleteIsDownloadable'
  BY <1>0, <1>1, <1>2, <1>3 DEF SentFirst, RunCounts, RecordCounts, CompleteIsDownloadable, Unsent
<1>. QED
  BY <1>4, <1>5 DEF ExportInv

LEMMA LoadKeeps ==
  ASSUME ExportInv, LoadEssays, locked.fit + locked.unfit # 0
  PROVE  ExportInv'
<1>. DEFINE new == [Current EXCEPT !.total = locked.fit + locked.unfit]
            run == [exporter EXCEPT !.pc = "pdf", !.fit = locked.fit, !.unfit = locked.unfit]
<1>0. Types /\ request \notin Unsent /\ exporter.pc = "load"
  BY DEF ExportInv, Types, LoadEssays, SentFirst, Running
<1>1. /\ new \in Job /\ new.total = locked.fit + locked.unfit
      /\ new.complete = Current.complete /\ new.status = Current.status /\ new.owned = Current.owned
  <2>1. locked.fit + locked.unfit \in Nat
    BY <1>0 DEF Types
  <2>. QED
    BY <1>0, <2>1, CurrentType DEF Job
<1>2. /\ run \in Exporter /\ run.pc = "pdf" /\ run.fit = locked.fit /\ run.unfit = locked.unfit
      /\ run.complete = 0 /\ run.skipped = 0
  BY <1>0 DEF ExportInv, RunCounts, Types, Exporter, ExportSteps
<1>3. job' = new /\ exporter' = run /\ UNCHANGED <<message, zip, locked, request>>
  BY DEF LoadEssays, Write
<1>. HIDE DEF new, run
<1>4. Types'
  BY <1>0, <1>1, <1>2, <1>3 DEF Types
<1>5. SentFirst' /\ RunCounts'
  BY <1>0, <1>2, <1>3 DEF SentFirst, RunCounts, Unsent, Types
<1>6. new.owned => new.status # "complete" /\ new.complete = 0
  BY <1>0, <1>1, CurrentType DEF ExportInv, RecordCounts
<1>7. RecordCounts' /\ CompleteIsDownloadable'
  BY <1>1, <1>2, <1>3, <1>6 DEF RecordCounts, CompleteIsDownloadable
<1>. QED
  BY <1>4, <1>5, <1>7 DEF ExportInv

LEMMA AddKeeps ==
  ASSUME ExportInv, AddPdf
  PROVE  ExportInv'
<1>. DEFINE new == [Current EXCEPT !.complete = exporter.complete + 1]
            run == [exporter EXCEPT !.fit = exporter.fit - 1, !.complete = exporter.complete + 1]
<1>0. /\ Types /\ request \notin Unsent /\ exporter.pc = "pdf"
      /\ exporter.fit \in Nat /\ exporter.complete \in Nat /\ exporter.fit > 0
  BY DEF ExportInv, Types, AddPdf, SentFirst, Running, Exporter
<1>1. /\ new \in Job /\ new.total = Current.total /\ new.complete = exporter.complete + 1
      /\ new.status = Current.status /\ new.owned = Current.owned
  BY <1>0, CurrentType DEF Job
<1>2. /\ run \in Exporter /\ run.pc = "pdf" /\ run.fit = exporter.fit - 1
      /\ run.unfit = exporter.unfit /\ run.skipped = exporter.skipped
      /\ run.complete = exporter.complete + 1
  <2>1. exporter.fit - 1 \in Nat /\ exporter.complete + 1 \in Nat /\ exporter \in Exporter
    BY <1>0 DEF Types
  <2>. QED
    BY <1>0, <2>1 DEF Exporter
<1>3. job' = new /\ exporter' = run /\ UNCHANGED <<message, zip, locked, request>>
  BY DEF AddPdf, Write
<1>. HIDE DEF new, run
<1>4. Types'
  BY <1>0, <1>1, <1>2, <1>3 DEF Types
<1>5. SentFirst' /\ RunCounts'
  BY <1>0, <1>2, <1>3 DEF SentFirst, RunCounts, Unsent, Types, ExportInv
<1>6. new.owned => new.status # "complete" /\ new.total = locked.fit + locked.unfit
  BY <1>0, <1>1, CurrentType DEF ExportInv, RecordCounts
<1>7. RecordCounts' /\ CompleteIsDownloadable'
  BY <1>1, <1>2, <1>3, <1>6 DEF RecordCounts, CompleteIsDownloadable
<1>. QED
  BY <1>4, <1>5, <1>7 DEF ExportInv

LEMMA SkipKeeps ==
  ASSUME ExportInv, SkipEssay
  PROVE  ExportInv'
<1>. DEFINE run == [exporter EXCEPT !.unfit = exporter.unfit - 1, !.skipped = exporter.skipped + 1]
<1>0. /\ Types /\ request \notin Unsent /\ exporter.pc = "pdf"
      /\ exporter.unfit \in Nat /\ exporter.skipped \in Nat /\ exporter.unfit > 0
  BY DEF ExportInv, Types, SkipEssay, SentFirst, Running, Exporter
<1>1. /\ run \in Exporter /\ run.pc = "pdf" /\ run.fit = exporter.fit
      /\ run.unfit = exporter.unfit - 1 /\ run.skipped = exporter.skipped + 1
      /\ run.complete = exporter.complete
  <2>1. exporter.unfit - 1 \in Nat /\ exporter.skipped + 1 \in Nat /\ exporter \in Exporter
    BY <1>0 DEF Types
  <2>. QED
    BY <1>0, <2>1 DEF Exporter
<1>2. exporter' = run /\ UNCHANGED <<job, message, zip, locked, request>>
  BY DEF SkipEssay
<1>. HIDE DEF run
<1>3. Types'
  BY <1>0, <1>1, <1>2 DEF Types
<1>4. SentFirst' /\ RunCounts'
  BY <1>0, <1>1, <1>2 DEF SentFirst, RunCounts, Unsent, Types, ExportInv
<1>5. RecordCounts' /\ CompleteIsDownloadable'
  BY <1>0, <1>1, <1>2 DEF ExportInv, RecordCounts, CompleteIsDownloadable
<1>. QED
  BY <1>3, <1>4, <1>5 DEF ExportInv

LEMMA CloseKeeps ==
  ASSUME ExportInv, CloseZip
  PROVE  ExportInv'
<1>. DEFINE new == [Current EXCEPT !.total = exporter.complete]
            run == [exporter EXCEPT !.pc = "zipped"]
<1>0. /\ Types /\ request \notin Unsent /\ exporter.pc = "pdf"
      /\ exporter.complete \in Nat /\ exporter.skipped \in Nat
      /\ exporter.fit = 0 /\ exporter.unfit = 0
      /\ locked.fit \in Nat /\ locked.unfit \in Nat
  BY DEF ExportInv, Types, CloseZip, SentFirst, Running, Exporter
<1>1. exporter.complete = locked.fit /\ exporter.skipped = locked.unfit
  BY <1>0 DEF ExportInv, RunCounts
<1>2. /\ new \in Job /\ new.total = exporter.complete /\ new.complete = Current.complete
      /\ new.status = Current.status /\ new.owned = Current.owned
  BY <1>0, CurrentType DEF Job
<1>3. /\ run \in Exporter /\ run.pc = "zipped" /\ run.fit = exporter.fit
      /\ run.complete = exporter.complete
  BY <1>0 DEF Types, Exporter, ExportSteps
<1>4. /\ job' = IF exporter.skipped > 0 THEN new ELSE job
      /\ exporter' = run /\ UNCHANGED <<message, zip, locked, request>>
  BY DEF CloseZip, Write
<1>. HIDE DEF new, run
<1>5. Types'
  BY <1>0, <1>2, <1>3, <1>4 DEF Types
<1>6. SentFirst' /\ RunCounts'
  BY <1>0, <1>1, <1>3, <1>4 DEF SentFirst, RunCounts, Unsent
<1>7. RecordCounts' /\ CompleteIsDownloadable'
  <2>1. CASE exporter.skipped > 0
    <3>1. new.owned => new.status # "complete" /\ new.complete = exporter.complete
      BY <1>0, <1>2, CurrentType DEF ExportInv, RecordCounts
    <3>. QED
      BY <1>1, <1>2, <1>3, <1>4, <2>1, <3>1 DEF RecordCounts, CompleteIsDownloadable
  <2>2. CASE ~ (exporter.skipped > 0)
    BY <1>0, <1>1, <1>3, <1>4, <2>2 DEF ExportInv, RecordCounts, CompleteIsDownloadable
  <2>. QED
    BY <2>1, <2>2
<1>. QED
  BY <1>5, <1>6, <1>7 DEF ExportInv

LEMMA UploadZipKeeps ==
  ASSUME ExportInv, exporter.pc = "zipped", zip' = TRUE,
         exporter' = [exporter EXCEPT !.pc = "report"],
         UNCHANGED <<job, locked, request, message>>
  PROVE  ExportInv'
<1>1. Types /\ request \notin Unsent
  BY DEF ExportInv, SentFirst
<1>2. /\ exporter' \in Exporter /\ exporter'.pc = "report" /\ exporter'.fit = exporter.fit
      /\ exporter'.complete = exporter.complete
  BY <1>1 DEF Types, Exporter, ExportSteps
<1>3. Types'
  BY <1>1, <1>2 DEF Types
<1>4. SentFirst' /\ RunCounts'
  BY <1>1, <1>2 DEF ExportInv, SentFirst, RunCounts, Unsent
<1>5. RecordCounts' /\ CompleteIsDownloadable'
  BY <1>2 DEF ExportInv, RecordCounts, CompleteIsDownloadable
<1>. QED
  BY <1>3, <1>4, <1>5 DEF ExportInv

LEMMA MarkKeeps ==
  ASSUME ExportInv, MarkComplete
  PROVE  ExportInv'
<1>. DEFINE new == [Current EXCEPT !.status = "complete", !.file = TRUE]
<1>0. Types /\ request \notin Unsent /\ exporter.pc = "report" /\ zip
  BY DEF ExportInv, Types, MarkComplete, SentFirst, Running, RunCounts
<1>1. /\ new \in Job /\ new.total = Current.total /\ new.complete = Current.complete
      /\ new.file = TRUE /\ new.owned = Current.owned
  BY <1>0, CurrentType DEF Job
<1>2. job' = new /\ exporter' = [exporter EXCEPT !.pc = "extend"] /\ UNCHANGED <<message, zip, locked, request>>
  BY DEF MarkComplete, Write
<1>3. /\ exporter' \in Exporter /\ exporter'.pc = "extend" /\ exporter'.fit = exporter.fit
      /\ exporter'.complete = exporter.complete
  BY <1>0, <1>2 DEF Types, Exporter, ExportSteps
<1>. HIDE DEF new
<1>4. Types'
  BY <1>0, <1>1, <1>2, <1>3 DEF Types
<1>5. SentFirst' /\ RunCounts' /\ RecordCounts'
  BY <1>0, <1>2, <1>3 DEF ExportInv, SentFirst, RunCounts, RecordCounts, Unsent
<1>6. new.owned => new.total = locked.fit /\ new.complete = locked.fit
  BY <1>0, <1>1, CurrentType DEF ExportInv, RecordCounts
<1>7. CompleteIsDownloadable'
  BY <1>0, <1>1, <1>2, <1>6 DEF CompleteIsDownloadable
<1>. QED
  BY <1>4, <1>5, <1>7 DEF ExportInv

LEMMA ExtendKeeps ==
  ASSUME ExportInv, ExtendTtl
  PROVE  ExportInv'
<1>. DEFINE timed == [job EXCEPT !.expires = TRUE]
<1>0. Types /\ request \notin Unsent /\ exporter.pc = "extend"
  BY DEF ExportInv, ExtendTtl, SentFirst, Running
<1>1. exporter' = NoRun /\ UNCHANGED <<message, zip, locked, request>>
  BY DEF ExtendTtl
<1>2. job # NoJob => /\ timed \in Job /\ timed.status = job.status /\ timed.owned = job.owned
                     /\ timed.complete = job.complete /\ timed.total = job.total
                     /\ timed.file = job.file
  BY <1>0 DEF Types, Job
<1>3. job' = IF job = NoJob THEN job ELSE timed
  BY DEF ExtendTtl, Write
<1>. HIDE DEF timed
<1>4. Types'
  BY <1>0, <1>1, <1>2, <1>3, NoRunFacts DEF Types
<1>5. SentFirst' /\ RunCounts' /\ RecordCounts'
  BY <1>0, <1>1, NoRunFacts DEF SentFirst, RunCounts, RecordCounts, Unsent
<1>6. CompleteIsDownloadable'
  BY <1>1, <1>2, <1>3 DEF ExportInv, CompleteIsDownloadable
<1>. QED
  BY <1>4, <1>5, <1>6 DEF ExportInv

---------------------------------------------------------------------------

LEMMA ExportInitInv == ExportInit => ExportInv
<1>. SUFFICES ASSUME ExportInit PROVE ExportInv
  OBVIOUS
<1>1. Types
  BY NoRunFacts, ExportAssumption DEF ExportInit, Types
<1>2. SentFirst /\ RunCounts /\ RecordCounts /\ CompleteIsDownloadable
  BY NoRunFacts DEF ExportInit, SentFirst, RunCounts, RecordCounts, CompleteIsDownloadable
<1>. QED
  BY <1>1, <1>2 DEF ExportInv

LEMMA ExportStepKeeps == ExportInv /\ [ExportNext]_exportVars => ExportInv'
<1>. SUFFICES ASSUME ExportInv, [ExportNext]_exportVars PROVE ExportInv'
  OBVIOUS
<1>0. Types
  BY DEF ExportInv
<1>1. CASE LoadEssays
  <2>1. CASE locked.fit + locked.unfit = 0
    BY <1>0, <1>1, <2>1, EndExportKeeps DEF LoadEssays, Write, Running, Types
  <2>. QED
    BY <1>1, <2>1, LoadKeeps
<1>2. CASE RefuseEmptyZip
  BY <1>0, <1>2, EndExportKeeps DEF RefuseEmptyZip, Write, Running, Types
<1>3. CASE UploadZip
  <2>1. CASE zip' = TRUE /\ exporter' = [exporter EXCEPT !.pc = "report"] /\ UNCHANGED <<job, trouble>>
    BY <1>3, <2>1, UploadZipKeeps DEF UploadZip, Running
  <2>2. CASE Write([Current EXCEPT !.status = "failed"]) /\ exporter' = NoRun /\ UNCHANGED zip
    BY <1>0, <1>3, <2>2, EndExportKeeps DEF UploadZip, Write, Running, Types
  <2>. QED
    BY <1>3, <2>1, <2>2 DEF UploadZip
<1>4. CASE RaiseExport
  <2>1. job' \in {job, [Current EXCEPT !.status = "failed"]}
    BY <1>4 DEF RaiseExport, ReportFailure, Write
  <2>2. message' \in 0 .. MaxExportRetries \union {NoTask}
    <3>1. exporter.retries \in 0 .. MaxExportRetries
      BY <1>0 DEF Types, Exporter
    <3>2. exporter.retries < MaxExportRetries => exporter.retries + 1 \in 0 .. MaxExportRetries
      BY <3>1, ExportAssumption
    <3>. QED
      BY <1>4, <3>2 DEF RaiseExport
  <2>. QED
    BY <1>4, <2>1, <2>2, EndExportKeeps DEF RaiseExport, Running
<1>5. CASE ExporterDies
  BY <1>0, <1>5, EndExportKeeps DEF ExporterDies, Running, Types
<1>6. CASE UNCHANGED exportVars
  <2>1. UNCHANGED <<job, zip, locked, request, message, exporter>>
    BY <1>6 DEF exportVars
  <2>. QED
    BY <2>1 DEF ExportInv, Types, SentFirst, RunCounts, RecordCounts, CompleteIsDownloadable
<1>. QED
  BY <1>1, <1>2, <1>3, <1>4, <1>5, <1>6, CreateKeeps, RequestExportKeeps, StartKeeps, AddKeeps,
     SkipKeeps, CloseKeeps, MarkKeeps, ExtendKeeps
     DEF ExportNext, RequestStep, ExportStep

LEMMA ExportInvHolds == ExportSpec => []ExportInv
BY ExportInitInv, ExportStepKeeps, PTL DEF ExportSpec

LEMMA ExportTyped == ExportInv => ExportTypeOK
<1>. SUFFICES ASSUME ExportInv PROVE ExportTypeOK
  OBVIOUS
<1>1. exporter.pc \in ExportSteps /\ locked.fit \in Nat
  BY DEF ExportInv, Types, Exporter
<1>2. exporter.fit + exporter.complete <= locked.fit
  BY <1>1 DEF ExportInv, RunCounts, ExportSteps
<1>. QED
  BY <1>2 DEF ExportInv, Types, ExportTypeOK

\* The record, the message and the run of an export have their types, and a run
\* never counts more PDFs than there are essays (_run_export).
THEOREM ExportTypesHold == ExportSpec => []ExportTypeOK
BY ExportTyped, ExportInvHolds, PTL

\* An export shown as complete has its ZIP and counts all essays that could be
\* exported, for every number of essays, of retries and of failures
\* (trigger_export, _run_export).
THEOREM CompleteIsAlwaysDownloadable == ExportSpec => []CompleteIsDownloadable
<1>1. ExportInv => CompleteIsDownloadable
  BY DEF ExportInv
<1>. QED
  BY <1>1, ExportInvHolds, PTL

---------------------------------------------------------------------------
(* The rows at some positions *)

\* Counting the smaller ones numbers the elements of a finite set.
LEMMA NthIsThere ==
  ASSUME NEW S \in SUBSET Int, IsFiniteSet(S), NEW k \in 1 .. Cardinality(S)
  PROVE  Nth(S, k) \in S /\ Cardinality({j \in S : j <= Nth(S, k)}) = k
<1>. DEFINE below(i) == {j \in S : j <= i}
            n == Cardinality(S)
            rank == [i \in S |-> Cardinality(below(i))]
<1>1. n \in Nat
  BY FS_CardinalityType
<1>2. \A i \in S : /\ IsFiniteSet(below(i)) /\ below(i) \subseteq S
                   /\ Cardinality(below(i)) \in Nat /\ Cardinality(below(i)) <= n
  <2>. SUFFICES ASSUME NEW i \in S
                PROVE  /\ IsFiniteSet(below(i)) /\ below(i) \subseteq S
                       /\ Cardinality(below(i)) \in Nat /\ Cardinality(below(i)) <= n
    OBVIOUS
  <2>1. below(i) \in SUBSET S
    OBVIOUS
  <2>2. IsFiniteSet(below(i)) /\ Cardinality(below(i)) <= n
    BY <2>1, FS_Subset
  <2>. QED
    BY <2>1, <2>2, FS_CardinalityType
<1>3. \A i \in S : Cardinality(below(i)) >= 1
  <2>. SUFFICES ASSUME NEW i \in S PROVE Cardinality(below(i)) # 0
    BY <1>2
  <2>1. i \in below(i)
    OBVIOUS
  <2>. QED
    BY <1>2, <2>1, FS_EmptySet
<1>4. \A i, j \in S : i < j => Cardinality(below(i)) # Cardinality(below(j))
  <2>. SUFFICES ASSUME NEW i \in S, NEW j \in S, i < j
                PROVE  Cardinality(below(i)) # Cardinality(below(j))
    OBVIOUS
  <2>1. below(i) \in SUBSET below(j) /\ j \in below(j) /\ j \notin below(i)
    <3>1. \A x \in S : x \in Int /\ (x <= i => x <= j)
      OBVIOUS
    <3>2. j <= j /\ ~ (j <= i)
      OBVIOUS
    <3>. QED
      BY <3>1, <3>2
  <2>. HIDE DEF below
  <2>. QED
    BY <1>2, <2>1, FS_Subset
<1>5. rank \in [S -> 1 .. n]
  <2>1. \A i \in S : Cardinality(below(i)) \in 1 .. n
    BY <1>1, <1>2, <1>3
  <2>. HIDE DEF below, n
  <2>. QED
    BY <2>1
<1>6. rank \in Injection(S, 1 .. n)
  <2>1. \A i, j \in S : rank[i] = rank[j] => i = j
    <3>. SUFFICES ASSUME NEW i \in S, NEW j \in S, i # j PROVE rank[i] # rank[j]
      OBVIOUS
    <3>1. i < j \/ j < i
      OBVIOUS
    <3>2. rank[i] = Cardinality(below(i)) /\ rank[j] = Cardinality(below(j))
      OBVIOUS
    <3>. HIDE DEF rank, below
    <3>. QED
      BY <1>4, <3>1, <3>2
  <2>. HIDE DEF rank
  <2>. QED
    BY <1>5, <2>1 DEF Injection, IsInjective
<1>7. IsFiniteSet(1 .. n) /\ Cardinality(1 .. n) = n
  BY <1>1, FS_Interval
<1>8. rank \in Surjection(S, 1 .. n)
  <2>. HIDE DEF rank
  <2>. QED
    BY <1>6, <1>7, FS_Injection
<1>9. \E i \in S : Cardinality(below(i)) = k
  <2>1. PICK i \in S : rank[i] = k
    BY <1>8 DEF Surjection
  <2>2. rank[i] = Cardinality(below(i))
    OBVIOUS
  <2>. QED
    BY <2>1, <2>2
<1>. QED
  BY <1>9 DEF Nth

LEMMA RowsAtPositions ==
  ASSUME NEW rows, NEW S \in SUBSET Int, IsFiniteSet(S)
  PROVE  /\ Cardinality(S) \in Nat
         /\ DOMAIN RowsAt(rows, S) = 1 .. Cardinality(S)
         /\ \A k \in 1 .. Cardinality(S) :
              RowsAt(rows, S)[k] = rows[Nth(S, k)] /\ Nth(S, k) \in S
         /\ \A k, l \in 1 .. Cardinality(S) : k # l => Nth(S, k) # Nth(S, l)
         /\ \A i \in S : \E k \in 1 .. Cardinality(S) : Nth(S, k) = i
<1>. DEFINE n == Cardinality(S)
<1>1. n \in Nat
  BY FS_CardinalityType
<1>2. \A k \in 1 .. n : Nth(S, k) \in S /\ Cardinality({j \in S : j <= Nth(S, k)}) = k
  BY NthIsThere
<1>3. \A k, l \in 1 .. n : k # l => Nth(S, k) # Nth(S, l)
  BY <1>2
<1>4. \A i \in S : \E k \in 1 .. n : Nth(S, k) = i
  <2>. DEFINE nth == [k \in 1 .. n |-> Nth(S, k)]
  <2>1. nth \in [1 .. n -> S]
    BY <1>2
  <2>2. nth \in Injection(1 .. n, S)
    BY <1>3, <2>1 DEF Injection, IsInjective
  <2>3. Cardinality(1 .. n) = Cardinality(S)
    BY <1>1, FS_Interval
  <2>4. nth \in Surjection(1 .. n, S)
    <3>. HIDE DEF nth
    <3>. QED
      BY <2>2, <2>3, FS_Injection
  <2>. QED
    BY <2>4 DEF Surjection
<1>. QED
  BY <1>1, <1>2, <1>3, <1>4 DEF RowsAt

LEMMA PositionsAreFinite ==
  ASSUME NEW T, NEW rows \in Seq(T), NEW S \in SUBSET DOMAIN rows
  PROVE  S \in SUBSET Int /\ IsFiniteSet(S)
<1>1. Len(rows) \in Nat /\ DOMAIN rows = 1 .. Len(rows)
  OBVIOUS
<1>2. IsFiniteSet(1 .. Len(rows))
  BY <1>1, FS_Interval
<1>. QED
  BY <1>1, <1>2, FS_Subset

LEMMA RowsAtAreRows ==
  ASSUME NEW T, NEW U, NEW rows \in Seq(T), NEW S \in SUBSET DOMAIN rows,
         \A i \in S : rows[i] \in U
  PROVE  RowsAt(rows, S) \in Seq(U) /\ Len(RowsAt(rows, S)) = Cardinality(S)
<1>1. S \in SUBSET Int /\ IsFiniteSet(S)
  BY PositionsAreFinite
<1>. DEFINE n == Cardinality(S)
<1>2. /\ n \in Nat
      /\ DOMAIN RowsAt(rows, S) = 1 .. n
      /\ \A k \in 1 .. n : RowsAt(rows, S)[k] \in U
  BY <1>1, RowsAtPositions
<1>. HIDE DEF n
<1>3. RowsAt(rows, S) = [k \in 1 .. n |-> RowsAt(rows, S)[k]]
  BY DEF RowsAt, n
<1>. DEFINE at == RowsAt(rows, S)
<1>. HIDE DEF at
<1>4. at \in [1 .. n -> U]
  BY <1>2, <1>3 DEF at
<1>5. at \in Seq(U) /\ Len(at) = n
  BY <1>2, <1>4
<1>. QED
  BY <1>5 DEF at, n

---------------------------------------------------------------------------
(* The inductive invariant *)

RequestSteps == {"idle", "import", "match", "commit", "enroll"}

RequestRecord(r) ==
  /\ DOMAIN r = DOMAIN NoRequest
  /\ r.pc \in RequestSteps
  /\ r.rows \in Seq(StudentRow)
  /\ r.student \in 0 .. MaxStudents
  /\ r.pc = "enroll" => r.student \in DOMAIN students

RosterTypes ==
  /\ students \in Seq(StudentRow) /\ Number <= MaxStudents
  /\ enrolled \subseteq DOMAIN students
  /\ clerk = [c \in Clerks |-> clerk[c]] /\ \A c \in Clerks : RequestRecord(clerk[c])
  /\ imported \subseteq Seq(StudentRow) /\ crossed \in BOOLEAN

HasNumber(s, ext) == students[s].ext # NoExternalId /\ students[s].ext = ext

\* What makes a row be skipped: by an earlier row of its file, by a student in the
\* class who has its number, or by a name there if nobody has its number.
Covered(rows, i) ==
  \/ rows[i].ext # NoExternalId /\ Repeated(rows, i)
  \/ \E s \in enrolled : HasNumber(s, rows[i].ext)
  \/ /\ \A s \in DOMAIN students : ~ HasNumber(s, rows[i].ext)
     /\ \E s \in enrolled : <<rows[i].name, students[s].name>> \in Alike

\* What an undisturbed import has read still holds when it commits.
ReadsHold(r) ==
  r.undisturbed =>
    /\ r.pc \in {"match", "commit"} =>
         \A k \in r.roster : /\ k.id \in enrolled
                             /\ k.name = students[k.id].name /\ k.ext = students[k.id].ext
    /\ r.pc = "commit" =>
         /\ \A k \in r.known : k.id \in DOMAIN students /\ k.ext = students[k.id].ext
         /\ \A s \in DOMAIN students : s \in enrolled \/ \E k \in r.known : k.id = s

\* As long as nothing else adds students, an import knows the numbers of all.
KnowsAll(r) ==
  r.pc = "commit" => \A s \in DOMAIN students : \E k \in r.known : k.ext = students[s].ext

RosterInv ==
  /\ RosterTypes
  /\ \A rows \in imported : \A i \in DOMAIN rows : Covered(rows, i)
  /\ \A c \in Clerks : ReadsHold(clerk[c])
  /\ ~ crossed => NumbersAreUnique(students) /\ \A c \in Clerks : KnowsAll(clerk[c])

\* Every student in the class stays there under the same name, nobody's number changes,
\* and who is new is in the class.
Grows ==
  /\ \A s \in DOMAIN students : s \in DOMAIN students' /\ students'[s].ext = students[s].ext
  /\ \A s \in enrolled : s \in enrolled' /\ students'[s].name = students[s].name
  /\ \A s \in DOMAIN students' \ DOMAIN students : s \in enrolled'

LEMMA CoveredIsSkipped ==
  ASSUME RosterTypes, NEW rows, NEW i \in DOMAIN rows
  PROVE  ImportDiff(rows)[i] = "skipped" <=> Covered(rows, i)
<1>. DEFINE seen(s) == [id |-> s, name |-> students[s].name, ext |-> students[s].ext]
            roster == Seen(enrolled)
            known == Seen(DOMAIN students)
<1>1. roster = {seen(s) : s \in enrolled} /\ known = {seen(s) : s \in DOMAIN students}
  BY DEF Seen
<1>2. \A s : seen(s).name = students[s].name /\ seen(s).ext = students[s].ext
  OBVIOUS
<1>. HIDE DEF seen, roster, known
<1>3. Matching(rows[i], roster) # {} <=> \E s \in enrolled : HasNumber(s, rows[i].ext)
  BY <1>1, <1>2 DEF Matching, HasNumber
<1>4. Matching(rows[i], known) # {} <=> \E s \in DOMAIN students : HasNumber(s, rows[i].ext)
  BY <1>1, <1>2 DEF Matching, HasNumber
<1>5. FuzzyNameMatch(rows[i].name, roster)
        <=> \E s \in enrolled : <<rows[i].name, students[s].name>> \in Alike
  BY <1>1, <1>2 DEF FuzzyNameMatch
<1>6. ImportDiff(rows)[i] = RowStatus(rows, i, roster, known)
  BY DEF ImportDiff, roster, known
<1>. QED
  BY <1>3, <1>4, <1>5, <1>6 DEF RowStatus, Covered

LEMMA GrowingKeepsCovered ==
  ASSUME RosterTypes, Grows, NEW rows, NEW i, Covered(rows, i)
  PROVE  Covered(rows, i)'
<1>1. \A s \in DOMAIN students : \A ext : HasNumber(s, ext)' <=> HasNumber(s, ext)
  BY DEF Grows, HasNumber
<1>2. enrolled \subseteq DOMAIN students
  BY DEF RosterTypes
<1>3. CASE rows[i].ext # NoExternalId /\ Repeated(rows, i)
  BY <1>3 DEF Covered, Repeated
<1>4. CASE \E s \in enrolled : HasNumber(s, rows[i].ext)
  BY <1>1, <1>2, <1>4 DEF Covered, Grows
<1>5. CASE /\ \A s \in DOMAIN students : ~ HasNumber(s, rows[i].ext)
           /\ \E s \in enrolled : <<rows[i].name, students[s].name>> \in Alike
  <2>1. CASE \E s \in DOMAIN students' : HasNumber(s, rows[i].ext)'
    BY <1>1, <1>5, <2>1 DEF Covered, Grows
  <2>2. CASE \A s \in DOMAIN students' : ~ HasNumber(s, rows[i].ext)'
    BY <1>5, <2>2 DEF Covered, Grows
  <2>. QED
    BY <2>1, <2>2
<1>. QED
  BY <1>3, <1>4, <1>5 DEF Covered

LEMMA GrowingKeepsReads ==
  ASSUME RosterTypes, Grows, NEW c, ReadsHold(clerk[c]), clerk'[c] = clerk[c]
  PROVE  ReadsHold(clerk[c])'
<1>1. enrolled \subseteq DOMAIN students
  BY DEF RosterTypes
<1>2. /\ \A s \in DOMAIN students : s \in DOMAIN students' /\ students'[s].ext = students[s].ext
      /\ \A s \in enrolled : s \in enrolled' /\ students'[s].name = students[s].name
      /\ \A s \in DOMAIN students' : s \in DOMAIN students \/ s \in enrolled'
  BY DEF Grows
<1>. SUFFICES ASSUME clerk[c].undisturbed PROVE ReadsHold(clerk[c])'
  BY DEF ReadsHold
<1>3. ASSUME clerk[c].pc \in {"match", "commit"}, NEW k \in clerk[c].roster
      PROVE  /\ k.id \in enrolled'
             /\ k.name = students'[k.id].name /\ k.ext = students'[k.id].ext
  BY <1>1, <1>2, <1>3 DEF ReadsHold
<1>4. ASSUME clerk[c].pc = "commit"
      PROVE  /\ \A k \in clerk[c].known : k.id \in DOMAIN students' /\ k.ext = students'[k.id].ext
             /\ \A s \in DOMAIN students' : s \in enrolled' \/ \E k \in clerk[c].known : k.id = s
  <2>1. /\ \A k \in clerk[c].known : k.id \in DOMAIN students /\ k.ext = students[k.id].ext
        /\ \A s \in DOMAIN students : s \in enrolled \/ \E k \in clerk[c].known : k.id = s
    BY <1>4 DEF ReadsHold
  <2>. QED
    BY <1>1, <1>2, <2>1
<1>. QED
  BY <1>3, <1>4 DEF ReadsHold

---------------------------------------------------------------------------
(* The steps *)

LEMMA RequestMoves ==
  ASSUME RosterTypes, NEW c \in Clerks, NEW new, clerk' = [clerk EXCEPT ![c] = new]
  PROVE  /\ clerk'[c] = new /\ \A d \in Clerks \ {c} : clerk'[d] = clerk[d]
         /\ clerk' = [d \in Clerks |-> clerk'[d]]
BY DEF RosterTypes

\* A step of one request that changes no row.
LEMMA RequestKeepsInv ==
  ASSUME RosterInv, NEW c \in Clerks, NEW new, clerk' = [clerk EXCEPT ![c] = new],
         RequestRecord(new), ReadsHold(new), KnowsAll(new),
         UNCHANGED <<students, enrolled, imported, crossed>>
  PROVE  RosterInv'
<1>. USE DEF RosterInv
<1>1. /\ clerk'[c] = new /\ \A d \in Clerks \ {c} : clerk'[d] = clerk[d]
      /\ clerk' = [d \in Clerks |-> clerk'[d]]
  BY RequestMoves
<1>2. \A d \in Clerks : RequestRecord(clerk'[d]) /\ ReadsHold(clerk'[d])
  BY <1>1 DEF RosterTypes
<1>3. RosterTypes'
  BY <1>1, <1>2 DEF RosterTypes, RequestRecord, Number
<1>4. \A rows \in imported' : \A i \in DOMAIN rows : Covered(rows, i)'
  BY DEF Covered, HasNumber, Repeated
<1>5. \A d \in Clerks : ReadsHold(clerk[d])'
  BY <1>2 DEF ReadsHold
<1>6. ~ crossed' => NumbersAreUnique(students)' /\ \A d \in Clerks : KnowsAll(clerk[d])'
  <2>1. ~ crossed => \A d \in Clerks : KnowsAll(clerk'[d])
    BY <1>1
  <2>. QED
    BY <2>1 DEF KnowsAll, NumbersAreUnique
<1>. QED
  BY <1>3, <1>4, <1>5, <1>6

\* A step that adds to the class, at the end of a request or of none.
LEMMA GrowthKeepsInv ==
  ASSUME RosterInv, Grows, RosterTypes',
         \A rows \in imported' : rows \in imported \/ \A i \in DOMAIN rows : Covered(rows, i)',
         \A d \in Clerks : clerk'[d] = clerk[d] \/ clerk'[d].pc \in {"idle", "import", "enroll"},
         ~ crossed' => NumbersAreUnique(students)' /\ \A d \in Clerks : KnowsAll(clerk[d])'
  PROVE  RosterInv'
<1>. USE DEF RosterInv
<1>1. \A rows \in imported' : \A i \in DOMAIN rows : Covered(rows, i)'
  BY GrowingKeepsCovered
<1>2. \A d \in Clerks : ReadsHold(clerk[d])'
  <2>. SUFFICES ASSUME NEW d \in Clerks PROVE ReadsHold(clerk[d])'
    OBVIOUS
  <2>1. CASE clerk'[d] = clerk[d]
    BY <2>1, GrowingKeepsReads
  <2>2. CASE clerk'[d].pc \in {"idle", "import", "enroll"}
    BY <2>2 DEF ReadsHold
  <2>. QED
    BY <2>1, <2>2
<1>. QED
  BY <1>1, <1>2

LEMMA StartImportKeepsInv ==
  ASSUME RosterInv, NEW c \in Clerks, NEW csv \in Rosters, StartImport(c, csv)
  PROVE  RosterInv'
<1>1. PICK kept \in SUBSET ParseRoster(csv) :
        clerk' = [clerk EXCEPT ![c] = [NoRequest EXCEPT !.pc = "import", !.rows = RowsAt(csv, kept)]]
  BY DEF StartImport
<1>2. csv \in Seq(CsvRow) /\ kept \in SUBSET DOMAIN csv /\ \A i \in kept : csv[i] \in StudentRow
  <2>1. csv \in Seq(CsvRow) /\ kept \in SUBSET DOMAIN csv /\ \A i \in kept : csv[i].name # NoName
    BY <1>1, RowsAssumption DEF ParseRoster
  <2>2. \A i \in kept : csv[i] \in CsvRow
    BY <2>1
  <2>. QED
    BY <2>1, <2>2 DEF CsvRow, StudentRow
<1>. DEFINE chosen == RowsAt(csv, kept)
<1>3. chosen \in Seq(StudentRow)
  BY <1>2, RowsAtAreRows
<1>. HIDE DEF chosen
<1>. DEFINE new == [NoRequest EXCEPT !.pc = "import", !.rows = chosen]
<1>4. /\ DOMAIN new = DOMAIN NoRequest /\ new.pc = "import" /\ new.rows = chosen
      /\ new.student = 0
  BY DEF NoRequest
<1>5. clerk' = [clerk EXCEPT ![c] = new]
  BY <1>1 DEF chosen
<1>. HIDE DEF new
<1>6. RequestRecord(new) /\ ReadsHold(new) /\ KnowsAll(new)
  BY <1>3, <1>4, RosterAssumption DEF RequestRecord, RequestSteps, ReadsHold, KnowsAll
<1>. QED
  BY <1>5, <1>6, RequestKeepsInv DEF StartImport

LEMMA ReadRosterKeepsInv ==
  ASSUME RosterInv, NEW c \in Clerks, ReadRoster(c)
  PROVE  RosterInv'
<1>. DEFINE roster == Seen(enrolled)
            new == [clerk[c] EXCEPT !.pc = "match", !.roster = roster]
<1>1. RequestRecord(clerk[c]) /\ clerk[c].pc = "import"
  BY DEF ReadRoster, RosterInv, RosterTypes
<1>2. clerk' = [clerk EXCEPT ![c] = new]
  BY DEF ReadRoster, RosterInv, RosterTypes
<1>3. \A k \in roster : /\ k.id \in enrolled
                        /\ k.name = students[k.id].name /\ k.ext = students[k.id].ext
  BY DEF Seen
<1>. HIDE DEF roster
<1>4. /\ DOMAIN new = DOMAIN NoRequest /\ new.pc = "match" /\ new.roster = roster
      /\ new.rows = clerk[c].rows /\ new.student = clerk[c].student
  BY <1>1 DEF RequestRecord, NoRequest
<1>. HIDE DEF new
<1>5. RequestRecord(new) /\ ReadsHold(new) /\ KnowsAll(new)
  BY <1>1, <1>3, <1>4 DEF RequestRecord, RequestSteps, ReadsHold, KnowsAll
<1>. QED
  BY <1>2, <1>5, RequestKeepsInv DEF ReadRoster

LEMMA ReadKnownKeepsInv ==
  ASSUME RosterInv, NEW c \in Clerks, ReadKnown(c)
  PROVE  RosterInv'
<1>. DEFINE known == Seen(DOMAIN students)
            new == [clerk[c] EXCEPT !.pc = "commit", !.known = known]
<1>1. RequestRecord(clerk[c]) /\ clerk[c].pc = "match" /\ ReadsHold(clerk[c])
  BY DEF ReadKnown, RosterInv, RosterTypes
<1>2. clerk' = [clerk EXCEPT ![c] = new]
  BY DEF ReadKnown, RosterInv, RosterTypes
<1>3. /\ \A k \in known : k.id \in DOMAIN students /\ k.ext = students[k.id].ext
      /\ \A s \in DOMAIN students : \E k \in known : k.id = s /\ k.ext = students[s].ext
  <2>. DEFINE seen(s) == [id |-> s, name |-> students[s].name, ext |-> students[s].ext]
  <2>1. known = {seen(s) : s \in DOMAIN students}
    BY DEF Seen
  <2>2. \A s : seen(s).id = s /\ seen(s).ext = students[s].ext
    OBVIOUS
  <2>. HIDE DEF seen, known
  <2>. QED
    BY <2>1, <2>2
<1>. HIDE DEF known
<1>4. /\ DOMAIN new = DOMAIN NoRequest /\ new.pc = "commit" /\ new.known = known
      /\ new.rows = clerk[c].rows /\ new.student = clerk[c].student
      /\ new.roster = clerk[c].roster /\ new.undisturbed = clerk[c].undisturbed
  BY <1>1 DEF RequestRecord, NoRequest
<1>. HIDE DEF new
<1>5. RequestRecord(new) /\ KnowsAll(new)
  BY <1>1, <1>3, <1>4 DEF RequestRecord, RequestSteps, KnowsAll
<1>6. ReadsHold(new)
  BY <1>1, <1>3, <1>4 DEF ReadsHold
<1>. QED
  BY <1>2, <1>5, <1>6, RequestKeepsInv DEF ReadKnown

LEMMA StartEnrollKeepsInv ==
  ASSUME RosterInv, NEW c \in Clerks, NEW s \in DOMAIN students, StartEnroll(c, s)
  PROVE  RosterInv'
<1>. DEFINE new == [NoRequest EXCEPT !.pc = "enroll", !.student = s]
<1>1. clerk' = [clerk EXCEPT ![c] = new]
  BY DEF StartEnroll
<1>2. /\ DOMAIN new = DOMAIN NoRequest /\ new.pc = "enroll" /\ new.rows = <<>> /\ new.student = s
  BY DEF NoRequest
<1>3. s \in 0 .. MaxStudents /\ <<>> \in Seq(StudentRow)
  BY RosterAssumption DEF RosterInv, RosterTypes, Number
<1>. HIDE DEF new
<1>4. RequestRecord(new) /\ ReadsHold(new) /\ KnowsAll(new)
  BY <1>2, <1>3 DEF RequestRecord, RequestSteps, ReadsHold, KnowsAll
<1>. QED
  BY <1>1, <1>4, RequestKeepsInv DEF StartEnroll

LEMMA NoRequestRecord == RequestRecord(NoRequest)
BY RosterAssumption DEF RequestRecord, RequestSteps, NoRequest

LEMMA CommitEnrollKeepsInv ==
  ASSUME RosterInv, NEW c \in Clerks, CommitEnroll(c)
  PROVE  RosterInv'
<1>. USE DEF RosterInv
<1>1. clerk' = [clerk EXCEPT ![c] = NoRequest] /\ UNCHANGED <<students, imported, crossed>>
  BY DEF CommitEnroll
<1>2. /\ clerk'[c] = NoRequest /\ \A d \in Clerks \ {c} : clerk'[d] = clerk[d]
      /\ clerk' = [d \in Clerks |-> clerk'[d]]
  BY <1>1, RequestMoves
<1>3. clerk[c].student \in DOMAIN students
  BY DEF CommitEnroll, RosterTypes, RequestRecord
<1>4. \A d \in Clerks : RequestRecord(clerk'[d])
  BY <1>2, NoRequestRecord DEF RosterTypes
<1>5. RosterTypes'
  BY <1>1, <1>2, <1>3, <1>4 DEF RosterTypes, RequestRecord, Number, CommitEnroll
<1>6. Grows
  BY <1>1 DEF Grows, CommitEnroll, RosterTypes
<1>7. NoRequest.pc = "idle"
  BY DEF NoRequest
<1>8. ~ crossed => NumbersAreUnique(students)' /\ \A d \in Clerks : KnowsAll(clerk[d])'
  BY <1>1, <1>2, <1>7 DEF NumbersAreUnique, KnowsAll
<1>. QED
  BY <1>1, <1>2, <1>5, <1>6, <1>7, <1>8, GrowthKeepsInv

LEMMA CreateStudentKeepsInv ==
  ASSUME RosterInv, NEW row \in HandRows, CreateStudent(row)
  PROVE  RosterInv'
<1>. USE DEF RosterInv
<1>1. row \in StudentRow /\ students \in Seq(StudentRow) /\ MaxStudents \in Nat
  BY RowsAssumption, RosterAssumption DEF RosterTypes
<1>2. /\ students' = Append(students, row) /\ enrolled' = enrolled \union {Len(students) + 1}
      /\ Len(students) < MaxStudents /\ crossed' = TRUE /\ UNCHANGED <<clerk, imported>>
  BY DEF CreateStudent, Number
<1>3. /\ students' \in Seq(StudentRow) /\ Len(students') = Len(students) + 1
      /\ Len(students) \in Nat
      /\ DOMAIN students' = DOMAIN students \union {Len(students) + 1}
      /\ \A s \in DOMAIN students : students'[s] = students[s]
  BY <1>1, <1>2
<1>4. RosterTypes'
  BY <1>1, <1>2, <1>3 DEF RosterTypes, RequestRecord, Number
<1>5. Grows
  BY <1>2, <1>3 DEF Grows, RosterTypes
<1>. QED
  BY <1>2, <1>4, <1>5, GrowthKeepsInv

\* A removal or an edit ends what imports under way may rely on.
LEMMA DisturbedRequests ==
  ASSUME RosterTypes, Disturb(clerk)
  PROVE  /\ clerk' = [c \in Clerks |-> clerk'[c]]
         /\ \A c \in Clerks : /\ DOMAIN clerk'[c] = DOMAIN NoRequest
                              /\ clerk'[c].pc = clerk[c].pc /\ clerk'[c].rows = clerk[c].rows
                              /\ clerk'[c].student = clerk[c].student
                              /\ clerk'[c].known = clerk[c].known
                              /\ clerk'[c].undisturbed => clerk[c].pc = "idle"
<1>1. clerk' = [c \in Clerks |-> [clerk[c] EXCEPT !.undisturbed = (clerk[c].pc = "idle")]]
  BY DEF Disturb
<1>2. ASSUME NEW c \in Clerks
      PROVE  /\ DOMAIN clerk'[c] = DOMAIN NoRequest
             /\ clerk'[c].pc = clerk[c].pc /\ clerk'[c].rows = clerk[c].rows
             /\ clerk'[c].student = clerk[c].student
             /\ clerk'[c].known = clerk[c].known
             /\ clerk'[c].undisturbed => clerk[c].pc = "idle"
  <2>1. DOMAIN clerk[c] = DOMAIN NoRequest
    BY DEF RosterTypes, RequestRecord
  <2>. QED
    BY <1>1, <2>1 DEF NoRequest
<1>. QED
  BY <1>1, <1>2

LEMMA DisturbingKeepsInv ==
  ASSUME RosterInv, Disturb(clerk), NEW s, NEW row,
         RemoveEnrollment(s) \/ (row \in HandRows /\ UpdateStudent(s, row))
  PROVE  RosterInv'
<1>. USE DEF RosterInv
<1>1. imported' = {}
  BY DEF Disturb
<1>2. /\ clerk' = [c \in Clerks |-> clerk'[c]]
      /\ \A c \in Clerks : /\ DOMAIN clerk'[c] = DOMAIN NoRequest
                           /\ clerk'[c].pc = clerk[c].pc /\ clerk'[c].rows = clerk[c].rows
                           /\ clerk'[c].student = clerk[c].student
                           /\ clerk'[c].known = clerk[c].known
                           /\ clerk'[c].undisturbed => clerk[c].pc = "idle"
  BY DisturbedRequests
<1>3. /\ students' \in Seq(StudentRow) /\ Len(students') = Len(students)
      /\ DOMAIN students' = DOMAIN students /\ enrolled' \subseteq enrolled
      /\ crossed' \in BOOLEAN /\ (~ crossed' => students' = students /\ ~ crossed)
  <2>1. CASE RemoveEnrollment(s)
    BY <2>1 DEF RemoveEnrollment, RosterTypes
  <2>2. CASE row \in HandRows /\ UpdateStudent(s, row)
    <3>1. row \in StudentRow
      BY <2>2, RowsAssumption
    <3>2. /\ students' = [students EXCEPT ![s] = row] /\ s \in DOMAIN students
          /\ enrolled' = enrolled /\ crossed' = TRUE
      BY <2>2 DEF UpdateStudent
    <3>. QED
      BY <3>1, <3>2 DEF RosterTypes
  <2>. QED
    BY <2>1, <2>2
<1>4. RosterTypes'
  BY <1>1, <1>2, <1>3 DEF RosterTypes, RequestRecord, Number
<1>5. \A c \in Clerks : ReadsHold(clerk[c])'
  BY <1>2 DEF ReadsHold
<1>6. ~ crossed' => NumbersAreUnique(students)' /\ \A c \in Clerks : KnowsAll(clerk[c])'
  BY <1>2, <1>3 DEF NumbersAreUnique, KnowsAll
<1>. QED
  BY <1>1, <1>4, <1>5, <1>6

---------------------------------------------------------------------------
(* The commit of an import *)

NewRows(r) == RowsWith("new", r.rows, r.roster, r.known)

KnownRows(r) == RowsWith("updated", r.rows, r.roster, r.known)

LEMMA ImportedRows ==
  ASSUME NEW r, RequestRecord(r), students \in Seq(StudentRow)
  PROVE  /\ NewRows(r) \in SUBSET DOMAIN r.rows /\ KnownRows(r) \in SUBSET DOMAIN r.rows
         /\ RowsAt(r.rows, NewRows(r)) \in Seq(StudentRow)
         /\ Len(RowsAt(r.rows, NewRows(r))) \in Nat
<1>1. r.rows \in Seq(StudentRow) /\ \A i \in DOMAIN r.rows : r.rows[i] \in StudentRow
  BY DEF RequestRecord
<1>2. NewRows(r) \in SUBSET DOMAIN r.rows /\ KnownRows(r) \in SUBSET DOMAIN r.rows
  BY DEF NewRows, KnownRows, RowsWith
<1>3. RowsAt(r.rows, NewRows(r)) \in Seq(StudentRow)
  BY <1>1, <1>2, RowsAtAreRows
<1>. QED
  BY <1>2, <1>3

\* How the class is after a commit that is not refused: target names the student
\* each row of a known one renames.
Committed(r, target) ==
  LET added == RowsAt(r.rows, NewRows(r))
      found == {target[i] : i \in KnownRows(r)}
      nameOf(s) == IF s \in found
                   THEN r.rows[CHOOSE i \in KnownRows(r) : target[i] = s].name
                   ELSE students[s].name
  IN /\ Number + Len(added) <= MaxStudents
     /\ found \intersect enrolled = {}
     /\ students' = [s \in DOMAIN students |-> [students[s] EXCEPT !.name = nameOf(s)]] \o added
     /\ enrolled' = enrolled \union found \union (Number + 1 .. Number + Len(added))

Targets(r) ==
  {target \in [KnownRows(r) -> DOMAIN students] :
     \A i \in KnownRows(r) : \E s \in Matching(r.rows[i], r.known) : target[i] = s.id}

LEMMA CommitCases ==
  ASSUME NEW c \in Clerks, CommitImport(c)
  PROVE  \/ UNCHANGED <<students, enrolled, imported, crossed>>
         \/ /\ \E target \in Targets(clerk[c]) : Committed(clerk[c], target)
            /\ imported' = IF clerk[c].undisturbed THEN imported \union {clerk[c].rows}
                           ELSE imported
            /\ crossed' = (crossed \/ OthersImport(c))
<1>. DEFINE r == clerk[c]
<1>1. PICK target \in [KnownRows(r) -> DOMAIN students] :
        /\ \A i \in KnownRows(r) : \E s \in Matching(r.rows[i], r.known) : target[i] = s.id
        /\ \/ UNCHANGED <<students, enrolled, imported, crossed>>
           \/ /\ Committed(r, target)
              /\ imported' = IF r.undisturbed THEN imported \union {r.rows} ELSE imported
              /\ crossed' = (crossed \/ OthersImport(c))
  BY DEF CommitImport, KnownRows, NewRows, Committed
<1>. QED
  BY <1>1 DEF Targets

LEMMA CommitMoves ==
  ASSUME RosterTypes, NEW r, RequestRecord(r), NEW target \in Targets(r), Committed(r, target)
  PROVE  /\ students' \in Seq(StudentRow) /\ Len(students') <= MaxStudents
         /\ DOMAIN students \subseteq DOMAIN students'
         /\ enrolled' \subseteq DOMAIN students'
         /\ Grows
         /\ \A i \in KnownRows(r) : target[i] \in enrolled'
         /\ \A k \in 1 .. Cardinality(NewRows(r)) :
              /\ Len(students) + k \in enrolled'
              /\ students'[Len(students) + k] = r.rows[Nth(NewRows(r), k)]
         /\ Len(students') = Len(students) + Cardinality(NewRows(r))
<1>. DEFINE added == RowsAt(r.rows, NewRows(r))
            found == {target[i] : i \in KnownRows(r)}
            nameOf(s) == IF s \in found
                         THEN r.rows[CHOOSE i \in KnownRows(r) : target[i] = s].name
                         ELSE students[s].name
            renamed == [s \in DOMAIN students |-> [students[s] EXCEPT !.name = nameOf(s)]]
            n == Len(students)
<1>1. /\ n + Len(added) <= MaxStudents /\ found \intersect enrolled = {}
      /\ students' = renamed \o added
      /\ enrolled' = enrolled \union found \union (n + 1 .. n + Len(added))
  BY DEF Committed, Number
<1>2. students \in Seq(StudentRow) /\ n \in Nat /\ DOMAIN students = 1 .. n
  BY DEF RosterTypes
<1>3. /\ KnownRows(r) \in SUBSET DOMAIN r.rows /\ NewRows(r) \in SUBSET DOMAIN r.rows
      /\ added \in Seq(StudentRow) /\ r.rows \in Seq(StudentRow)
  BY <1>2, ImportedRows DEF RequestRecord
<1>4. /\ Cardinality(NewRows(r)) = Len(added)
      /\ \A k \in 1 .. Len(added) : added[k] = r.rows[Nth(NewRows(r), k)]
  BY <1>3, PositionsAreFinite, RowsAtPositions, RowsAtAreRows
<1>5. target \in [KnownRows(r) -> DOMAIN students] /\ found \subseteq DOMAIN students
  BY DEF Targets
<1>6. \A s \in DOMAIN students : nameOf(s) \in Names
  <2>. SUFFICES ASSUME NEW s \in DOMAIN students PROVE nameOf(s) \in Names
    OBVIOUS
  <2>1. CASE s \in found
    <3>. DEFINE i == CHOOSE j \in KnownRows(r) : target[j] = s
    <3>1. i \in KnownRows(r)
      BY <2>1
    <3>. HIDE DEF i
    <3>2. r.rows[i] \in StudentRow
      BY <1>3, <3>1
    <3>3. r.rows[i].name \in Names
      BY <3>2 DEF StudentRow
    <3>. QED
      BY <2>1, <3>3 DEF i
  <2>2. CASE s \notin found
    <3>1. students[s] \in StudentRow
      BY <1>2
    <3>2. students[s].name \in Names
      BY <3>1 DEF StudentRow
    <3>. QED
      BY <2>2, <3>2
  <2>. QED
    BY <2>1, <2>2
<1>7. \A s \in enrolled : nameOf(s) = students[s].name
  BY <1>1
<1>. HIDE DEF nameOf
<1>8. \A s \in DOMAIN students : /\ renamed[s] \in StudentRow
                                 /\ renamed[s].ext = students[s].ext
                                 /\ renamed[s].name = nameOf(s)
  <2>. SUFFICES ASSUME NEW s \in DOMAIN students
                PROVE  /\ renamed[s] \in StudentRow
                       /\ renamed[s].ext = students[s].ext
                       /\ renamed[s].name = nameOf(s)
    OBVIOUS
  <2>1. students[s] \in StudentRow /\ nameOf(s) \in Names
    BY <1>2, <1>6
  <2>2. renamed[s] = [students[s] EXCEPT !.name = nameOf(s)]
    OBVIOUS
  <2>. HIDE DEF renamed
  <2>. QED
    BY <2>1, <2>2 DEF StudentRow
<1>9. renamed \in Seq(StudentRow) /\ Len(renamed) = n
  <2>1. renamed = [s \in DOMAIN students |-> renamed[s]]
    OBVIOUS
  <2>. HIDE DEF renamed
  <2>2. renamed \in [1 .. n -> StudentRow]
    BY <1>2, <1>8, <2>1
  <2>. QED
    BY <1>2, <2>2
<1>. HIDE DEF renamed, added, found, n
<1>10. /\ students' \in Seq(StudentRow) /\ Len(students') = n + Len(added)
       /\ Len(added) \in Nat
       /\ DOMAIN students' = 1 .. n + Len(added)
       /\ \A s \in 1 .. n : students'[s] = renamed[s]
       /\ \A k \in 1 .. Len(added) : students'[n + k] = added[k]
  <2>1. Len(added) \in Nat /\ students' \in Seq(StudentRow) /\ Len(students') = n + Len(added)
    BY <1>1, <1>3, <1>9
  <2>2. DOMAIN students' = 1 .. n + Len(added)
    BY <2>1
  <2>3. \A s \in 1 .. n : students'[s] = renamed[s]
    BY <1>1, <1>2, <1>3, <1>9
  <2>4. \A k \in 1 .. Len(added) : students'[n + k] = added[k]
    BY <1>1, <1>2, <1>3, <1>9
  <2>. QED
    BY <2>1, <2>2, <2>3, <2>4
<1>11. Grows
  <2>1. \A s \in DOMAIN students : s \in DOMAIN students' /\ students'[s].ext = students[s].ext
    BY <1>2, <1>8, <1>10
  <2>2. \A s \in enrolled : s \in enrolled' /\ students'[s].name = students[s].name
    BY <1>1, <1>2, <1>7, <1>8, <1>10 DEF RosterTypes
  <2>3. \A s \in DOMAIN students' \ DOMAIN students : s \in enrolled'
    BY <1>1, <1>2, <1>10
  <2>. QED
    BY <2>1, <2>2, <2>3 DEF Grows
<1>12. enrolled' \subseteq DOMAIN students' /\ DOMAIN students \subseteq DOMAIN students'
  BY <1>1, <1>2, <1>5, <1>10 DEF RosterTypes
<1>13. \A i \in KnownRows(r) : target[i] \in enrolled'
  BY <1>1 DEF found
<1>14. \A k \in 1 .. Len(added) : /\ n + k \in enrolled'
                                  /\ students'[n + k] = r.rows[Nth(NewRows(r), k)]
  BY <1>1, <1>2, <1>4, <1>10
<1>. QED
  BY <1>1, <1>4, <1>10, <1>11, <1>12, <1>13, <1>14 DEF n

LEMMA ImportedIsCovered ==
  ASSUME RosterTypes, NEW r, RequestRecord(r), r.pc = "commit", r.undisturbed, ReadsHold(r),
         NEW target \in Targets(r), Committed(r, target), NEW i \in DOMAIN r.rows
  PROVE  Covered(r.rows, i)'
<1>. DEFINE ext == r.rows[i].ext
            n == Len(students)
<1>1. /\ Grows
      /\ \A j \in KnownRows(r) : target[j] \in enrolled'
      /\ \A k \in 1 .. Cardinality(NewRows(r)) :
           n + k \in enrolled' /\ students'[n + k] = r.rows[Nth(NewRows(r), k)]
  BY CommitMoves
<1>2. /\ \A k \in r.roster : k.id \in enrolled /\ k.ext = students[k.id].ext
                             /\ k.name = students[k.id].name
      /\ \A k \in r.known : k.id \in DOMAIN students /\ k.ext = students[k.id].ext
      /\ \A s \in DOMAIN students : s \in enrolled \/ \E k \in r.known : k.id = s
  BY DEF ReadsHold
<1>3. /\ \A s \in enrolled : /\ s \in DOMAIN students /\ s \in enrolled'
                             /\ students'[s].ext = students[s].ext
                             /\ students'[s].name = students[s].name
      /\ \A s \in DOMAIN students : students'[s].ext = students[s].ext
  BY <1>1 DEF Grows, RosterTypes
<1>4. r.rows \in Seq(StudentRow) /\ r.rows[i] \in StudentRow
  BY DEF RequestRecord
<1>5. CASE ext # NoExternalId /\ Repeated(r.rows, i)
  BY <1>5 DEF Covered, Repeated
<1>6. CASE Matching(r.rows[i], r.roster) # {}
  <2>1. PICK k \in r.roster : k.ext # NoExternalId /\ k.ext = ext
    BY <1>6 DEF Matching
  <2>2. k.id \in enrolled' /\ HasNumber(k.id, ext)'
    BY <1>2, <1>3, <2>1 DEF HasNumber
  <2>. QED
    BY <2>2 DEF Covered
<1>7. CASE i \in KnownRows(r)
  <2>1. PICK s \in Matching(r.rows[i], r.known) : target[i] = s.id
    BY <1>7 DEF Targets
  <2>2. s \in r.known /\ s.ext # NoExternalId /\ s.ext = ext
    BY <2>1 DEF Matching
  <2>3. target[i] \in enrolled' /\ HasNumber(target[i], ext)'
    BY <1>1, <1>2, <1>3, <1>7, <2>1, <2>2 DEF HasNumber
  <2>. QED
    BY <2>3 DEF Covered
<1>8. CASE Matching(r.rows[i], r.known) = {} /\ FuzzyNameMatch(r.rows[i].name, r.roster)
  <2>1. PICK k \in r.roster : <<r.rows[i].name, k.name>> \in Alike
    BY <1>8 DEF FuzzyNameMatch
  <2>2. k.id \in enrolled' /\ <<r.rows[i].name, students'[k.id].name>> \in Alike
    BY <1>2, <1>3, <2>1
  <2>3. ASSUME NEW t \in DOMAIN students', HasNumber(t, ext)' PROVE t \in enrolled'
    <3>1. CASE t \in DOMAIN students
      <4>1. students[t].ext # NoExternalId /\ students[t].ext = ext
        BY <1>3, <2>3, <3>1 DEF HasNumber
      <4>2. ~ \E x \in r.known : x.id = t
        BY <1>2, <1>8, <4>1 DEF Matching
      <4>. QED
        BY <1>2, <1>3, <3>1, <4>2
    <3>2. CASE t \notin DOMAIN students
      BY <1>1, <3>2 DEF Grows
    <3>. QED
      BY <3>1, <3>2
  <2>. QED
    BY <2>2, <2>3 DEF Covered
<1>9. CASE i \in NewRows(r)
  <2>1. NewRows(r) \in SUBSET Int /\ IsFiniteSet(NewRows(r))
    BY <1>4, ImportedRows, PositionsAreFinite DEF RosterTypes
  <2>2. PICK k \in 1 .. Cardinality(NewRows(r)) : Nth(NewRows(r), k) = i
    BY <1>9, <2>1, RowsAtPositions
  <2>3. n + k \in enrolled' /\ students'[n + k] = r.rows[i]
    BY <1>1, <2>2
  <2>4. CASE ext # NoExternalId
    BY <2>3, <2>4 DEF Covered, HasNumber
  <2>5. CASE ext = NoExternalId
    <3>1. \A s : ~ HasNumber(s, ext)'
      BY <2>5 DEF HasNumber
    <3>2. <<r.rows[i].name, students'[n + k].name>> \in Alike
      <4>1. r.rows[i].name \in Names
        BY <1>4 DEF StudentRow
      <4>. QED
        BY <2>3, <4>1, RosterAssumption
    <3>. QED
      BY <2>3, <3>1, <3>2 DEF Covered
  <2>. QED
    BY <2>4, <2>5
<1>. QED
  BY <1>5, <1>6, <1>7, <1>8, <1>9 DEF NewRows, KnownRows, RowsWith, RowStatus

LEMMA NumbersStayUnique ==
  ASSUME RosterTypes, NEW r, RequestRecord(r), r.pc = "commit", NumbersAreUnique(students),
         KnowsAll(r), NEW target \in Targets(r), Committed(r, target)
  PROVE  NumbersAreUnique(students)'
<1>. DEFINE n == Len(students)
            new == NewRows(r)
            m == Cardinality(new)
            ext(i) == r.rows[i].ext
<1>1. /\ Grows
      /\ \A k \in 1 .. m : students'[n + k] = r.rows[Nth(new, k)]
      /\ Len(students') = n + m /\ students' \in Seq(StudentRow)
  BY CommitMoves
<1>2. students \in Seq(StudentRow) /\ n \in Nat /\ DOMAIN students = 1 .. n
  BY DEF RosterTypes
<1>3. new \in SUBSET DOMAIN r.rows /\ new \in SUBSET Int /\ IsFiniteSet(new)
  BY <1>2, ImportedRows, PositionsAreFinite DEF RequestRecord
<1>4. /\ m \in Nat
      /\ \A k \in 1 .. m : Nth(new, k) \in new
      /\ \A k, l \in 1 .. m : k # l => Nth(new, k) # Nth(new, l)
  BY <1>3, RowsAtPositions
<1>5. \A i \in new : /\ Matching(r.rows[i], r.known) = {}
                     /\ ext(i) # NoExternalId => ~ Repeated(r.rows, i)
  BY DEF NewRows, RowsWith, RowStatus
<1>6. \A i \in new : i \in 1 .. Len(r.rows)
  BY <1>3 DEF RequestRecord
<1>. HIDE DEF n, new, m, ext
<1>7. ASSUME NEW i \in new, NEW j \in new, i # j, ext(i) = ext(j), ext(i) # NoExternalId PROVE FALSE
  <2>1. CASE i < j
    <3>1. i \in 1 .. j - 1
      BY <1>6, <2>1
    <3>. QED
      BY <1>5, <1>7, <3>1 DEF Repeated, ext
  <2>2. CASE j < i
    <3>1. j \in 1 .. i - 1
      BY <1>6, <2>2
    <3>. QED
      BY <1>5, <1>7, <3>1 DEF Repeated, ext
  <2>. QED
    BY <1>6, <1>7, <2>1, <2>2
<1>8. ASSUME NEW s \in DOMAIN students, NEW i \in new, students[s].ext = ext(i), ext(i) # NoExternalId
      PROVE  FALSE
  <2>1. PICK k \in r.known : k.ext = students[s].ext
    BY DEF KnowsAll
  <2>. QED
    BY <1>5, <1>8, <2>1 DEF Matching, ext
<1>9. \A s \in 1 .. n : students'[s].ext = students[s].ext
  BY <1>1, <1>2 DEF Grows
<1>10. \A s \in 1 .. n + m : s \in 1 .. n \/
         \E k \in 1 .. m : s = n + k /\ students'[s].ext = ext(Nth(new, k)) /\ Nth(new, k) \in new
  <2>. SUFFICES ASSUME NEW s \in 1 .. n + m, s \notin 1 .. n
                PROVE  \E k \in 1 .. m : /\ s = n + k /\ students'[s].ext = ext(Nth(new, k))
                                         /\ Nth(new, k) \in new
    OBVIOUS
  <2>. DEFINE k == s - n
  <2>1. k \in 1 .. m /\ s = n + k
    BY <1>2, <1>4
  <2>. HIDE DEF k
  <2>. QED
    BY <1>1, <1>4, <2>1 DEF ext
<1>11. ASSUME NEW s \in 1 .. n + m, NEW t \in 1 .. n + m,
              students'[s].ext = students'[t].ext, students'[s].ext # NoExternalId
       PROVE  s = t
  <2>1. CASE s \in 1 .. n /\ t \in 1 .. n
    BY <1>2, <1>9, <1>11, <2>1 DEF NumbersAreUnique
  <2>2. CASE s \in 1 .. n /\ t \notin 1 .. n
    BY <1>2, <1>8, <1>9, <1>10, <1>11, <2>2
  <2>3. CASE s \notin 1 .. n /\ t \in 1 .. n
    BY <1>2, <1>8, <1>9, <1>10, <1>11, <2>3
  <2>4. CASE s \notin 1 .. n /\ t \notin 1 .. n
    <3>1. PICK k \in 1 .. m : /\ s = n + k /\ students'[s].ext = ext(Nth(new, k))
                              /\ Nth(new, k) \in new
      BY <1>10, <2>4
    <3>2. PICK l \in 1 .. m : /\ t = n + l /\ students'[t].ext = ext(Nth(new, l))
                              /\ Nth(new, l) \in new
      BY <1>10, <2>4
    <3>3. k = l
      BY <1>4, <1>7, <1>11, <3>1, <3>2
    <3>. QED
      BY <3>1, <3>2, <3>3
  <2>. QED
    BY <2>1, <2>2, <2>3, <2>4
<1>12. DOMAIN students' = 1 .. n + m
  BY <1>1
<1>. QED
  BY <1>11, <1>12 DEF NumbersAreUnique

LEMMA CommitImportKeepsInv ==
  ASSUME RosterInv, NEW c \in Clerks, CommitImport(c)
  PROVE  RosterInv'
<1>. USE DEF RosterInv
<1>. PICK r : r = clerk[c]
  OBVIOUS
<1>1. r.pc = "commit" /\ RequestRecord(r) /\ ReadsHold(r)
  BY DEF CommitImport, RosterTypes
<1>2. clerk' = [clerk EXCEPT ![c] = NoRequest]
  BY DEF CommitImport
<1>3. /\ clerk'[c] = NoRequest /\ \A d \in Clerks \ {c} : clerk'[d] = clerk[d]
      /\ clerk' = [d \in Clerks |-> clerk'[d]]
  BY <1>2, RequestMoves
<1>4. NoRequest.pc = "idle"
  BY DEF NoRequest
<1>5. CASE UNCHANGED <<students, enrolled, imported, crossed>>
  <2>1. ReadsHold(NoRequest) /\ KnowsAll(NoRequest)
    BY <1>4 DEF ReadsHold, KnowsAll
  <2>. QED
    BY <1>2, <1>5, <2>1, NoRequestRecord, RequestKeepsInv
<1>6. CASE /\ \E target \in Targets(r) : Committed(r, target)
           /\ imported' = IF r.undisturbed THEN imported \union {r.rows} ELSE imported
           /\ crossed' = (crossed \/ OthersImport(c))
  <2>1. PICK target \in Targets(r) : Committed(r, target)
    BY <1>6
  <2>2. /\ students' \in Seq(StudentRow) /\ Len(students') <= MaxStudents
        /\ DOMAIN students \subseteq DOMAIN students'
        /\ enrolled' \subseteq DOMAIN students'
        /\ Grows
    BY <1>1, <2>1, CommitMoves
  <2>3. \A d \in Clerks : RequestRecord(clerk'[d])
    BY <1>3, NoRequestRecord DEF RosterTypes
  <2>4. \A d \in Clerks : RequestRecord(clerk[d])'
    BY <2>2, <2>3 DEF RequestRecord
  <2>5. imported' \subseteq Seq(StudentRow) /\ crossed' \in BOOLEAN
    <3>1. r.rows \in Seq(StudentRow)
      BY <1>1 DEF RequestRecord
    <3>. QED
      BY <1>6, <3>1 DEF RosterTypes, OthersImport
  <2>6. RosterTypes'
    BY <1>3, <2>2, <2>4, <2>5 DEF RosterTypes, Number
  <2>7. \A rows \in imported' : rows \in imported \/ \A i \in DOMAIN rows : Covered(rows, i)'
    <3>1. r.undisturbed => \A i \in DOMAIN r.rows : Covered(r.rows, i)'
      BY <1>1, <2>1, ImportedIsCovered
    <3>. QED
      BY <1>6, <3>1
  <2>8. ~ crossed' => NumbersAreUnique(students)' /\ \A d \in Clerks : KnowsAll(clerk[d])'
    <3>. SUFFICES ASSUME ~ crossed'
                  PROVE  NumbersAreUnique(students)' /\ \A d \in Clerks : KnowsAll(clerk[d])'
      OBVIOUS
    <3>1. ~ crossed /\ ~ OthersImport(c)
      BY <1>6
    <3>2. NumbersAreUnique(students)'
      BY <1>1, <2>1, <3>1, NumbersStayUnique
    <3>3. \A d \in Clerks : clerk'[d].pc # "commit"
      BY <1>3, <1>4, <3>1 DEF OthersImport
    <3>. QED
      BY <3>2, <3>3 DEF KnowsAll
  <2>. QED
    BY <1>3, <1>4, <2>2, <2>6, <2>7, <2>8, GrowthKeepsInv
<1>. QED
  BY <1>5, <1>6, CommitCases

LEMMA RosterInitInv == RosterInit => RosterInv
<1>. SUFFICES ASSUME RosterInit PROVE RosterInv
  OBVIOUS
<1>. USE DEF RosterInit
<1>1. /\ \A c \in Clerks : clerk[c] = NoRequest
      /\ clerk = [c \in Clerks |-> clerk[c]] /\ NoRequest.pc = "idle"
  BY DEF NoRequest
<1>2. RosterTypes
  BY <1>1, RowsAssumption, NoRequestRecord DEF RosterTypes, Number
<1>. QED
  BY <1>1, <1>2, RowsAssumption DEF RosterInv, ReadsHold, KnowsAll

LEMMA RosterNextKeepsInv == RosterInv /\ [RosterNext]_rosterVars => RosterInv'
<1>. SUFFICES ASSUME RosterInv, [RosterNext]_rosterVars PROVE RosterInv'
  OBVIOUS
<1>1. ASSUME NEW s, NEW row \in HandRows, RemoveEnrollment(s) \/ UpdateStudent(s, row)
      PROVE  RosterInv'
  BY <1>1, DisturbingKeepsInv DEF RemoveEnrollment, UpdateStudent
<1>2. ASSUME NEW s, RemoveEnrollment(s)
      PROVE  RosterInv'
  BY <1>2, DisturbingKeepsInv DEF RemoveEnrollment
<1>3. CASE UNCHANGED rosterVars
  BY <1>3 DEF rosterVars, RosterInv, RosterTypes, RequestRecord, Number, Covered, HasNumber,
              ReadsHold, KnowsAll, NumbersAreUnique
<1>. QED
  BY <1>1, <1>2, <1>3, StartImportKeepsInv, ReadRosterKeepsInv, ReadKnownKeepsInv,
     CommitImportKeepsInv, StartEnrollKeepsInv, CommitEnrollKeepsInv, CreateStudentKeepsInv
     DEF RosterNext

\* Rows, enrollments and requests keep their types, and imports what they rely on.
THEOREM RosterIsConsistent == RosterSpec => []RosterInv
BY RosterInitInv, RosterNextKeepsInv, PTL DEF RosterSpec

\* Rows that were imported are skipped when they are imported again unless a student was
\* removed or edited meanwhile, and imports one at a time give no number to two students,
\* for any files, names and number of requests (build_import_diff, commit_roster_import).
THEOREM ReimportNeverAdds == RosterSpec => []ReimportAddsNothing
<1>1. RosterInv => ReimportAddsNothing
  BY CoveredIsSkipped DEF RosterInv, ReimportAddsNothing
<1>. QED
  BY <1>1, RosterIsConsistent, PTL

\* Students, enrollments and requests keep their types.
THEOREM RosterTypesHold == RosterSpec => []RosterTypeOK
<1>1. RosterInv => RosterTypeOK
  BY DEF RosterInv, RosterTypes, RequestRecord, RequestSteps, RosterTypeOK
<1>. QED
  BY <1>1, RosterIsConsistent, PTL

---------------------------------------------------------------------------
(* LlmAnswer: the parsers *)

Confidences == {"high", "medium", "low"}

ParsedCriterion == [score : MinScore .. MaxScore \union {0}, missing : BOOLEAN,
                    clamped : BOOLEAN, confidence : Confidences, review : BOOLEAN]

\* Of the entries for a criterion the last one is taken.
LEMMA ReturnedIsEntry ==
  ASSUME NEW items \in Seq(Item), NEW c \in Criteria, Entries(items, c) # {}
  PROVE  Returned(items, c) \in Item
<1>. DEFINE S == Entries(items, c)
<1>1. S \subseteq 1 .. Len(items) /\ Len(items) \in Nat /\ S \subseteq Int
  BY DEF Entries
<1>2. \A i \in S : i <= Len(items)
  BY <1>1
<1>3. \E i \in S : \A j \in S : j <= i
  <2>. DEFINE above == {Len(items) - i : i \in S}
  <2>1. above \subseteq Nat /\ above # {}
    BY <1>1
  <2>. HIDE DEF above, S
  <2>2. PICK n \in above : \A m \in above : n <= m
    BY <2>1, LeastNumber
  <2>3. PICK i \in S : n = Len(items) - i
    BY <2>2 DEF above
  <2>4. \A j \in S : Len(items) - j \in above
    BY DEF above
  <2>5. \A j \in S : j <= i
    BY <1>1, <2>2, <2>3, <2>4
  <2>. QED
    BY <2>5
<1>4. (CHOOSE i \in S : \A j \in S : j <= i) \in S
  <2>. HIDE DEF S
  <2>. QED
    BY <1>3
<1>. QED
  BY <1>1, <1>4 DEF Returned

LEMMA CriterionIsParsed ==
  ASSUME NEW item \in Item
  PROVE  /\ ParseCriterion(item) \in ParsedCriterion
         /\ ParseCriterion(item).score \in MinScore .. MaxScore
         /\ ~ ParseCriterion(item).missing
         /\ ParseCriterion(item).clamped =>
              ParseCriterion(item).review /\ ParseCriterion(item).confidence = "low"
<1>1. MinScore \in Nat \ {0} /\ MaxScore \in Nat /\ MinScore < MaxScore
  BY LlmAssumption
<1>2. ScoreOf(item) \in MinScore .. MaxScore
  BY <1>1 DEF ScoreOf, Clamp, Item
<1>3. ConfidenceOf(item) \in Confidences
  BY DEF ConfidenceOf, Confidences, Item
<1>4. IsClamped(item) \in BOOLEAN /\ item.long \in BOOLEAN
  BY DEF IsClamped, Item
<1>5. IsClamped(item) => ConfidenceOf(item) = "low"
  BY DEF ConfidenceOf
<1>. QED
  BY <1>2, <1>3, <1>4, <1>5 DEF ParseCriterion, ParsedCriterion

\* A parsed reply has an entry for each criterion; what was missing or out of range is
\* marked and lowers the confidence.
LEMMA GradingIsParsed ==
  ASSUME NEW items \in Seq(Item)
  PROVE  /\ ParseGrading(items) \in [Criteria -> ParsedCriterion]
         /\ \A c \in Criteria :
              LET row == ParseGrading(items)[c]
              IN  /\ row.missing <=> \A i \in DOMAIN items : items[i].criterion # c
                  /\ row.score \in MinScore .. MaxScore \/ (row.missing /\ row.score = 0)
                  /\ row.missing \/ row.clamped => row.review /\ row.confidence = "low"
<1>1. MissingCriterion \in ParsedCriterion
  BY DEF MissingCriterion, ParsedCriterion, Confidences
<1>2. ASSUME NEW c \in Criteria
      PROVE  LET row == ParseGrading(items)[c]
             IN  /\ row \in ParsedCriterion
                 /\ row.missing <=> \A i \in DOMAIN items : items[i].criterion # c
                 /\ row.score \in MinScore .. MaxScore \/ (row.missing /\ row.score = 0)
                 /\ row.missing \/ row.clamped => row.review /\ row.confidence = "low"
  <2>1. CASE Entries(items, c) = {}
    <3>1. ParseGrading(items)[c] = MissingCriterion
      BY <2>1 DEF ParseGrading
    <3>2. \A i \in DOMAIN items : items[i].criterion # c
      BY <2>1 DEF Entries
    <3>. QED
      BY <1>1, <3>1, <3>2 DEF MissingCriterion
  <2>2. CASE Entries(items, c) # {}
    <3>1. ParseGrading(items)[c] = ParseCriterion(Returned(items, c))
      BY <2>2 DEF ParseGrading
    <3>2. \E i \in DOMAIN items : items[i].criterion = c
      BY <2>2 DEF Entries
    <3>3. Returned(items, c) \in Item
      BY <2>2, ReturnedIsEntry
    <3>. HIDE DEF ParsedCriterion
    <3>. QED
      BY <3>1, <3>2, <3>3, CriterionIsParsed
  <2>. QED
    BY <2>1, <2>2
<1>3. ParseGrading(items) = [c \in Criteria |-> ParseGrading(items)[c]]
  BY DEF ParseGrading
<1>. QED
  BY <1>2, <1>3

LEMMA CopilotIsParsed ==
  ASSUME NEW items \in Seq(Item)
  PROVE  /\ Len(ParseCopilot(items)) <= MaxRankedItems
         /\ \A i \in DOMAIN ParseCopilot(items) :
              ParseCopilot(items)[i].value \in {Unreadable, 0, 1}
<1>. DEFINE S == {i \in DOMAIN items : items[i].long}
            labelled == RowsAt(items, S)
            n == Clamp(Len(labelled), 0, MaxRankedItems)
            value(item) == IF item.score = Unreadable THEN Unreadable ELSE Clamp(item.score, 0, 1)
<1>1. labelled \in Seq(Item)
  <2>1. S \in SUBSET DOMAIN items /\ \A i \in S : items[i] \in Item
    OBVIOUS
  <2>. HIDE DEF S
  <2>. QED
    BY <2>1, RowsAtAreRows
<1>. HIDE DEF labelled
<1>2. Len(labelled) \in Nat /\ MaxRankedItems \in Nat
  BY <1>1, LlmAssumption
<1>3. n \in Nat /\ n <= MaxRankedItems /\ n <= Len(labelled)
  BY <1>2 DEF Clamp
<1>4. ParseCopilot(items) = [i \in 1 .. n |-> [value |-> value(labelled[i])]]
  BY DEF ParseCopilot, labelled
<1>. HIDE DEF n
<1>5. \A i \in 1 .. n : labelled[i] \in Item
  BY <1>1, <1>2, <1>3
<1>6. \A item \in Item : value(item) \in {Unreadable, 0, 1}
  BY DEF Item, Clamp
<1>. HIDE DEF value
<1>. QED
  BY <1>3, <1>4, <1>5, <1>6

---------------------------------------------------------------------------
(* LlmAnswer: the inductive invariant *)

Scores == [Criteria -> Int]

ModelCall == [kind : {"grading", "revision", "instruction", "copilot"},
         pc : {"ask", "parsed", "totals", "scores", "compare", "done", "error", "escaped", "dead"},
         attempt : 0 .. LlmMaxRetries, corrective : BOOLEAN, sent : Nat, items : Seq(Item)]

GradeRow == [scores : Scores \union {NoGrade.scores}, total : Int, confidence : Confidences,
             clamps : SUBSET Criteria]

LlmTypes ==
  /\ llm \in ModelCall
  /\ grade \in [base : GradeRow, revised : GradeRow]
  /\ grade.base.scores \in Scores
  /\ revision \in [baseTotal : Int, total : Int, deltas : Scores \union {NoRevision.deltas}]
  /\ trials \in [faults : 0 .. LlmFaults, overrides : 0 .. Overrides]

\* The model has been asked as often as the attempts tell.
AsksFit ==
  /\ llm.pc = "ask" /\ ~ llm.corrective => llm.sent <= llm.attempt
  /\ llm.pc = "ask" /\ llm.corrective => llm.sent <= llm.attempt + LlmMaxRetries + 1
  /\ llm.sent <= 2 * (LlmMaxRetries + 1)

\* A parsed answer is that of the reply.
AnswerIsParsed ==
  llm.pc = "parsed" /\ llm.kind \in {"grading", "copilot"} =>
    answer = ParsedReply(llm.kind, llm.items)

\* Nobody has changed a score.
Untouched == trials.overrides = Overrides

GradeStored == llm.kind = "revision" \/ (llm.kind = "grading" /\ llm.pc \in {"totals", "scores"})

GradesFit ==
  /\ GradeStored => grade.revised.scores \in Scores
  /\ grade.revised.clamps # {} => grade.revised.confidence = "low"
  /\ Untouched =>
       /\ grade.base.total = SumOver(grade.base.scores)
       /\ Graded => /\ grade.revised.total = SumOver(grade.revised.scores)
                    /\ (\E c \in Criteria : grade.revised.scores[c] = 0)
                         => grade.revised.confidence = "low"
       /\ GradeStored => grade.revised.total = SumOver(grade.revised.scores)

\* What the comparison has read, statement by statement.
RevisionFits ==
  /\ llm.pc \in {"totals", "scores"} => llm.kind = "grading"
  /\ llm.pc = "compare" => llm.kind = "revision"
  /\ llm.kind = "grading" /\ llm.pc = "scores" /\ Untouched =>
       revision.baseTotal = grade.base.total /\ revision.total = grade.revised.total
  /\ llm.kind = "revision" =>
       /\ revision.deltas \in Scores
       /\ Untouched => SumOver(revision.deltas) = revision.total - revision.baseTotal

ComparisonsFit ==
  /\ llm.pc # "done" => comparisons = <<>>
  /\ comparisons # <<>> =>
       \E row : /\ comparisons = <<row>>
                /\ row.deltas \in Scores
                /\ Untouched => SumOver(row.deltas) = row.total

LlmInv == LlmTypes /\ AsksFit /\ AnswerIsParsed /\ GradesFit /\ RevisionFits /\ ComparisonsFit

---------------------------------------------------------------------------

LEMMA ScoresSum ==
  ASSUME NEW scores \in Scores
  PROVE  SumOver(scores) \in Int /\ SumOver(scores) = SumFunctionOnSet(scores, Criteria)
BY SumIsInt, LlmAssumption DEF SumOver, SumFunction, Scores

\* The deltas of the criteria sum to the delta of the sums.
LEMMA DeltasSum ==
  ASSUME NEW base \in Scores, NEW revised \in Scores
  PROVE  /\ Deltas(base, revised) \in Scores
         /\ SumOver(Deltas(base, revised)) = SumOver(revised) - SumOver(base)
<1>. DEFINE deltas == Deltas(base, revised)
<1>1. /\ deltas \in Scores /\ IsFiniteSet(Criteria)
      /\ \A c \in Criteria : base[c] \in Int /\ deltas[c] \in Int /\ revised[c] = base[c] + deltas[c]
  BY LlmAssumption DEF Deltas, Scores
<1>. HIDE DEF deltas
<1>2. SumFunctionOnSet(revised, Criteria)
        = SumFunctionOnSet(base, Criteria) + SumFunctionOnSet(deltas, Criteria)
  BY <1>1, SumIsLinear
<1>3. /\ SumOver(revised) = SumOver(base) + SumOver(deltas)
      /\ SumOver(base) \in Int /\ SumOver(deltas) \in Int
  BY <1>1, <1>2, ScoresSum
<1>4. SumOver(deltas) = SumOver(revised) - SumOver(base)
  BY <1>3
<1>. QED
  BY <1>1, <1>4 DEF deltas

LEMMA LlmStarts == LlmInit => LlmInv
<1>. SUFFICES ASSUME LlmInit PROVE LlmInv
  OBVIOUS
<1>1. PICK kind \in LlmKinds : llm = NewCall(kind)
  BY DEF LlmInit
<1>2. PICK scores \in BaseScores :
        grade = [base |-> [NoGrade EXCEPT !.scores = scores, !.total = SumOver(scores),
                                          !.confidence = "high"],
                 revised |-> NoGrade]
  BY DEF LlmInit
<1>3. scores \in Scores /\ SumOver(scores) \in Int
  BY LlmAssumption, ScoresSum DEF Scores
<1>4. /\ grade.base = [scores |-> scores, total |-> SumOver(scores), confidence |-> "high",
                       clamps |-> {}]
      /\ grade.revised = NoGrade /\ grade = [base |-> grade.base, revised |-> grade.revised]
  BY <1>2 DEF NoGrade
<1>5. llm \in ModelCall /\ llm.kind \in {"grading", "instruction", "copilot"} /\ llm.pc = "ask"
      /\ llm.sent = 0 /\ llm.attempt = 0
  <2>1. llm = [kind |-> kind, pc |-> "ask", attempt |-> 0, corrective |-> FALSE,
               sent |-> 0, items |-> <<>>]
    BY <1>1 DEF NewCall
  <2>2. 0 \in 0 .. LlmMaxRetries /\ kind \in {"grading", "instruction", "copilot"}
    BY LlmAssumption
  <2>. QED
    BY <2>1, <2>2 DEF ModelCall
<1>6. grade \in [base : GradeRow, revised : GradeRow]
  <2>1. grade.base \in GradeRow
    BY <1>3, <1>4 DEF GradeRow, Confidences
  <2>2. NoGrade \in GradeRow
    BY DEF GradeRow, NoGrade, Confidences
  <2>. QED
    BY <1>4, <2>1, <2>2
<1>7. /\ revision \in [baseTotal : Int, total : Int, deltas : Scores \union {NoRevision.deltas}]
      /\ trials \in [faults : 0 .. LlmFaults, overrides : 0 .. Overrides]
  BY LlmAssumption DEF LlmInit, NoRevision
<1>8. LlmTypes
  BY <1>3, <1>4, <1>5, <1>6, <1>7 DEF LlmTypes
<1>9. AsksFit
  BY <1>5, LlmAssumption DEF AsksFit, LlmTypes, ModelCall
<1>10. AnswerIsParsed /\ ~ GradeStored /\ ~ Graded
  BY <1>4, <1>5 DEF AnswerIsParsed, GradeStored, Graded, NoGrade
<1>11. GradesFit
  BY <1>4, <1>10 DEF GradesFit, NoGrade
<1>12. RevisionFits /\ ComparisonsFit
  BY <1>5 DEF RevisionFits, ComparisonsFit, LlmInit
<1>. QED
  BY <1>8, <1>9, <1>10, <1>11, <1>12 DEF LlmInv

\* A step of the call itself: grades and comparisons are left alone.
LEMMA CallKeeps ==
  ASSUME LlmInv, UNCHANGED <<grade, revision, comparisons>>, llm' \in ModelCall,
         llm'.kind = llm.kind, llm.pc # "done", llm'.pc # "done",
         llm'.pc \notin {"totals", "scores"}, llm'.pc = "compare" => llm'.kind = "revision",
         trials' \in [faults : 0 .. LlmFaults, overrides : 0 .. Overrides],
         trials'.overrides = trials.overrides
  PROVE  LlmTypes' /\ GradesFit' /\ RevisionFits' /\ ComparisonsFit'
<1>1. LlmTypes'
  BY DEF LlmInv, LlmTypes
<1>2. (GradeStored' => GradeStored) /\ (Graded' <=> Graded) /\ (Untouched' <=> Untouched)
  BY DEF GradeStored, Graded, Untouched
<1>3. GradesFit'
  BY <1>2 DEF LlmInv, GradesFit
<1>4. RevisionFits'
  BY <1>2 DEF LlmInv, RevisionFits
<1>5. ComparisonsFit'
  BY <1>2 DEF LlmInv, ComparisonsFit
<1>. QED
  BY <1>1, <1>3, <1>4, <1>5

LEMMA FaultFits ==
  ASSUME LlmInv, LlmFault
  PROVE  /\ trials' \in [faults : 0 .. LlmFaults, overrides : 0 .. Overrides]
         /\ trials'.overrides = trials.overrides
BY LlmAssumption DEF LlmInv, LlmTypes, LlmFault

\* A failed call is not asked again.
LEMMA FailKeepsCall ==
  ASSUME LlmInv, NEW reason \in {"error", "escaped"}, Fail(reason), llm.pc = "ask",
         UNCHANGED <<grade, revision, comparisons>>,
         trials' \in [faults : 0 .. LlmFaults, overrides : 0 .. Overrides],
         trials'.overrides = trials.overrides
  PROVE  LlmInv'
<1>1. /\ llm' \in ModelCall /\ llm'.kind = llm.kind /\ llm'.sent = llm.sent
      /\ llm'.pc = IF llm.kind = "revision" THEN "compare" ELSE reason
  BY DEF LlmInv, LlmTypes, Fail, ModelCall
<1>2. LlmTypes' /\ GradesFit' /\ RevisionFits' /\ ComparisonsFit'
  <2>1. llm'.pc \in {"compare", "error", "escaped"}
    BY <1>1
  <2>. QED
    BY <1>1, <2>1, CallKeeps
<1>3. AsksFit' /\ AnswerIsParsed'
  BY <1>1 DEF LlmInv, AsksFit, AnswerIsParsed
<1>. QED
  BY <1>2, <1>3 DEF LlmInv

\* A call is its fields.
LEMMA CallFields ==
  ASSUME NEW call \in ModelCall
  PROVE  /\ call = [kind |-> call.kind, pc |-> call.pc, attempt |-> call.attempt,
                    corrective |-> call.corrective, sent |-> call.sent, items |-> call.items]
         /\ call.sent \in Nat /\ call.sent + 1 \in Nat /\ call.attempt \in 0 .. LlmMaxRetries
         /\ call.attempt < LlmMaxRetries => call.attempt + 1 \in 0 .. LlmMaxRetries
         /\ 0 \in 0 .. LlmMaxRetries
<1>1. /\ call.sent \in Nat /\ call.attempt \in 0 .. LlmMaxRetries /\ LlmMaxRetries \in Nat
      /\ call = [kind |-> call.kind, pc |-> call.pc, attempt |-> call.attempt,
                 corrective |-> call.corrective, sent |-> call.sent, items |-> call.items]
  BY LlmAssumption DEF ModelCall
<1>. QED
  BY <1>1

LEMMA CallChanges ==
  ASSUME NEW call \in ModelCall, NEW s \in Nat, NEW a \in 0 .. LlmMaxRetries
  PROVE  /\ [call EXCEPT !.attempt = a, !.sent = s] \in ModelCall
         /\ \A rows \in Seq(Item) : [call EXCEPT !.pc = "parsed", !.sent = s, !.items = rows] \in ModelCall
         /\ [call EXCEPT !.corrective = TRUE, !.attempt = a, !.sent = s] \in ModelCall
<1>1. [call EXCEPT !.attempt = a, !.sent = s] \in ModelCall
  BY DEF ModelCall
<1>2. ASSUME NEW rows \in Seq(Item)
      PROVE  [call EXCEPT !.pc = "parsed", !.sent = s, !.items = rows] \in ModelCall
  BY DEF ModelCall
<1>3. [call EXCEPT !.corrective = TRUE, !.attempt = a, !.sent = s] \in ModelCall
  BY DEF ModelCall
<1>. QED
  BY <1>1, <1>2, <1>3

LEMMA TransportErrorKeeps == ASSUME LlmInv, TransportError PROVE LlmInv'
<1>1. /\ trials' \in [faults : 0 .. LlmFaults, overrides : 0 .. Overrides]
      /\ trials'.overrides = trials.overrides
  BY FaultFits DEF TransportError
<1>2. CASE llm.attempt < LlmMaxRetries
  <2>1. llm' = [llm EXCEPT !.attempt = @ + 1, !.sent = @ + 1]
    BY <1>2 DEF TransportError
  <2>2. llm \in ModelCall /\ LlmMaxRetries \in Nat
    BY LlmAssumption DEF LlmInv, LlmTypes
  <2>3. /\ llm' \in ModelCall /\ llm'.kind = llm.kind /\ llm'.pc = "ask" /\ llm.pc = "ask"
        /\ llm'.sent = llm.sent + 1 /\ llm'.attempt = llm.attempt + 1
        /\ llm'.corrective = llm.corrective
    <3>1. PICK a \in 0 .. LlmMaxRetries, s \in Nat :
            a = llm.attempt + 1 /\ s = llm.sent + 1
      BY <1>2, <2>2, CallFields
    <3>2. llm' = [llm EXCEPT !.attempt = a, !.sent = s]
      BY <2>1, <3>1
    <3>3. llm' \in ModelCall
      BY <2>2, <3>1, <3>2, CallChanges
    <3>4. /\ llm'.kind = llm.kind /\ llm'.pc = llm.pc /\ llm'.sent = s /\ llm'.attempt = a
          /\ llm'.corrective = llm.corrective
      BY <2>2, <3>2 DEF ModelCall
    <3>. QED
      BY <3>1, <3>3, <3>4 DEF TransportError
  <2>4. LlmTypes' /\ GradesFit' /\ RevisionFits' /\ ComparisonsFit'
    BY <1>1, <2>3, CallKeeps DEF TransportError
  <2>5. AsksFit'
    <3>1. PICK a \in Nat, s \in Nat, m \in Nat :
            a = llm.attempt /\ s = llm.sent /\ m = LlmMaxRetries
      BY <2>2 DEF ModelCall
    <3>2. llm.corrective \in BOOLEAN
      BY <2>2 DEF ModelCall
    <3>. QED
      BY <1>2, <2>3, <3>1, <3>2 DEF LlmInv, AsksFit
  <2>6. AnswerIsParsed'
    BY <2>3 DEF AnswerIsParsed
  <2>. QED
    BY <2>4, <2>5, <2>6 DEF LlmInv
<1>3. CASE ~ (llm.attempt < LlmMaxRetries)
  <2>1. Fail("error")
    BY <1>3 DEF TransportError
  <2>2. llm.pc = "ask" /\ UNCHANGED <<grade, revision, comparisons>>
    BY DEF TransportError
  <2>. QED
    BY <1>1, <2>1, <2>2, FailKeepsCall
<1>. QED
  BY <1>2, <1>3

LEMMA GoodReplyKeeps ==
  ASSUME LlmInv, NEW reply \in LlmReplies, GoodReply(reply)
  PROVE  LlmInv'
<1>1. llm \in ModelCall /\ LlmMaxRetries \in Nat /\ reply.items \in Seq(Item)
  BY LlmAssumption, RepliesAssumption DEF LlmInv, LlmTypes
<1>2. /\ trials' \in [faults : 0 .. LlmFaults, overrides : 0 .. Overrides]
      /\ trials'.overrides = trials.overrides
  BY DEF LlmInv, LlmTypes, GoodReply
<1>3. llm.pc = "ask" /\ UNCHANGED <<grade, revision, comparisons>>
  BY DEF GoodReply
<1>4. CASE Overflows(llm.kind, reply.items)
  <2>1. Fail("escaped")
    BY <1>4 DEF GoodReply
  <2>. QED
    BY <1>2, <1>3, <2>1, FailKeepsCall
<1>5. CASE ~ Overflows(llm.kind, reply.items)
  <2>1. /\ answer' = ParsedReply(llm.kind, reply.items)
        /\ llm' = [llm EXCEPT !.pc = "parsed", !.sent = @ + 1, !.items = reply.items]
    BY <1>5 DEF GoodReply
  <2>2. /\ llm' \in ModelCall /\ llm'.kind = llm.kind /\ llm'.pc = "parsed"
        /\ llm'.sent = llm.sent + 1 /\ llm'.items = reply.items
    <3>1. PICK s \in Nat, rows \in Seq(Item) : s = llm.sent + 1 /\ rows = reply.items
      BY <1>1, CallFields
    <3>2. llm' = [llm EXCEPT !.pc = "parsed", !.sent = s, !.items = rows]
      BY <2>1, <3>1
    <3>3. llm' \in ModelCall
      BY <1>1, <3>1, <3>2, CallFields, CallChanges
    <3>4. llm'.kind = llm.kind /\ llm'.pc = "parsed" /\ llm'.sent = s /\ llm'.items = rows
      BY <1>1, <3>2 DEF ModelCall
    <3>. QED
      BY <3>1, <3>3, <3>4
  <2>3. LlmTypes' /\ GradesFit' /\ RevisionFits' /\ ComparisonsFit'
    BY <1>2, <1>3, <2>2, CallKeeps
  <2>4. AsksFit'
    <3>1. PICK a \in Nat, s \in Nat, m \in Nat :
            a = llm.attempt /\ s = llm.sent /\ m = LlmMaxRetries /\ a <= m
      BY <1>1 DEF ModelCall
    <3>2. llm.corrective \in BOOLEAN
      BY <1>1 DEF ModelCall
    <3>3. s <= a + m + 1
      BY <1>3, <3>1, <3>2 DEF LlmInv, AsksFit
    <3>. QED
      BY <2>2, <3>1, <3>3 DEF AsksFit
  <2>5. AnswerIsParsed'
    BY <2>1, <2>2 DEF AnswerIsParsed, ParsedReply, ParseGrading, ParseCopilot
  <2>. QED
    BY <2>3, <2>4, <2>5 DEF LlmInv
<1>. QED
  BY <1>4, <1>5

LEMMA BrokenReplyKeeps ==
  ASSUME LlmInv, NEW reply \in LlmReplies, BrokenReply(reply)
  PROVE  LlmInv'
<1>1. llm \in ModelCall /\ LlmMaxRetries \in Nat
  BY LlmAssumption DEF LlmInv, LlmTypes
<1>2. /\ trials' \in [faults : 0 .. LlmFaults, overrides : 0 .. Overrides]
      /\ trials'.overrides = trials.overrides
  BY DEF LlmInv, LlmTypes, BrokenReply
<1>3. llm.pc = "ask" /\ UNCHANGED <<grade, revision, comparisons>>
  BY DEF BrokenReply
<1>4. CASE llm.corrective
  <2>1. Fail("error")
    BY <1>4 DEF BrokenReply
  <2>. QED
    BY <1>2, <1>3, <2>1, FailKeepsCall
<1>5. CASE ~ llm.corrective
  <2>1. llm' = [llm EXCEPT !.corrective = TRUE, !.attempt = 0, !.sent = @ + 1]
    BY <1>5 DEF BrokenReply
  <2>2. 0 \in 0 .. LlmMaxRetries
    BY <1>1
  <2>3. /\ llm' \in ModelCall /\ llm'.kind = llm.kind /\ llm'.pc = "ask"
        /\ llm'.sent = llm.sent + 1 /\ llm'.attempt = 0 /\ llm'.corrective = TRUE
    <3>1. PICK a \in 0 .. LlmMaxRetries, s \in Nat : a = 0 /\ s = llm.sent + 1
      BY <1>1, CallFields
    <3>2. llm' = [llm EXCEPT !.corrective = TRUE, !.attempt = a, !.sent = s]
      BY <2>1, <3>1
    <3>3. llm' \in ModelCall
      BY <1>1, <3>1, <3>2, CallChanges
    <3>4. /\ llm'.kind = llm.kind /\ llm'.pc = llm.pc /\ llm'.sent = s /\ llm'.attempt = a
          /\ llm'.corrective = TRUE
      BY <1>1, <3>2 DEF ModelCall
    <3>. QED
      BY <1>3, <3>1, <3>3, <3>4
  <2>4. LlmTypes' /\ GradesFit' /\ RevisionFits' /\ ComparisonsFit'
    BY <1>2, <1>3, <2>3, CallKeeps
  <2>5. AsksFit'
    <3>1. PICK a \in Nat, s \in Nat, m \in Nat :
            a = llm.attempt /\ s = llm.sent /\ m = LlmMaxRetries /\ a <= m
      BY <1>1 DEF ModelCall
    <3>2. s <= a
      BY <1>3, <1>5, <3>1 DEF LlmInv, AsksFit
    <3>. QED
      BY <2>3, <3>1, <3>2 DEF AsksFit
  <2>6. AnswerIsParsed'
    BY <2>3 DEF AnswerIsParsed
  <2>. QED
    BY <2>4, <2>5, <2>6 DEF LlmInv
<1>. QED
  BY <1>4, <1>5

LEMMA FeedbackAddressedKeeps == ASSUME LlmInv, FeedbackAddressed PROVE LlmInv'
<1>1. /\ llm \in ModelCall /\ llm' = [llm EXCEPT !.pc = "compare"]
      /\ trials' \in [faults : 0 .. LlmFaults, overrides : 0 .. Overrides]
      /\ trials'.overrides = trials.overrides /\ llm.kind = "revision" /\ llm.pc = "parsed"
  BY DEF LlmInv, LlmTypes, FeedbackAddressed
<1>2. llm' \in ModelCall /\ llm'.kind = llm.kind /\ llm'.pc = "compare" /\ llm'.sent = llm.sent
  BY <1>1 DEF ModelCall
<1>3. LlmTypes' /\ GradesFit' /\ RevisionFits' /\ ComparisonsFit'
  BY <1>1, <1>2, CallKeeps DEF FeedbackAddressed
<1>4. AsksFit' /\ AnswerIsParsed'
  BY <1>2 DEF LlmInv, AsksFit, AnswerIsParsed
<1>. QED
  BY <1>3, <1>4 DEF LlmInv

LEMMA GraderDiesKeeps == ASSUME LlmInv, GraderDies PROVE LlmInv'
<1>1. /\ llm \in ModelCall /\ llm' = [llm EXCEPT !.pc = "dead"] /\ llm.pc # "done"
      /\ UNCHANGED <<grade, revision, comparisons>> /\ LlmFault
  BY DEF LlmInv, LlmTypes, GraderDies
<1>2. llm' \in ModelCall /\ llm'.kind = llm.kind /\ llm'.pc = "dead" /\ llm'.sent = llm.sent
  BY <1>1 DEF ModelCall
<1>3. LlmTypes' /\ GradesFit' /\ RevisionFits' /\ ComparisonsFit'
  BY <1>1, <1>2, FaultFits, CallKeeps
<1>4. AsksFit' /\ AnswerIsParsed'
  BY <1>2 DEF LlmInv, AsksFit, AnswerIsParsed
<1>. QED
  BY <1>3, <1>4 DEF LlmInv

\* A call begins, or its place in the task: nothing has been asked.
LEMMA NewCallFits ==
  ASSUME NEW kind \in {"grading", "revision"}, NEW pc \in {"ask", "totals", "compare"},
         llm' = [NewCall(kind) EXCEPT !.pc = pc]
  PROVE  /\ llm' \in ModelCall /\ llm'.kind = kind /\ llm'.pc = pc
         /\ AsksFit' /\ AnswerIsParsed'
<1>1. llm' = [kind |-> kind, pc |-> pc, attempt |-> 0, corrective |-> FALSE,
              sent |-> 0, items |-> <<>>]
  BY DEF NewCall
<1>2. 0 \in 0 .. LlmMaxRetries /\ LlmMaxRetries \in Nat /\ <<>> \in Seq(Item)
  BY LlmAssumption
<1>3. llm' \in ModelCall
  <2>1. [kind |-> kind, pc |-> pc, attempt |-> 0, corrective |-> FALSE, sent |-> 0,
         items |-> <<>>] \in ModelCall
    BY <1>2 DEF ModelCall
  <2>. QED
    BY <1>1, <2>1
<1>4. AsksFit' /\ AnswerIsParsed'
  BY <1>1, <1>2 DEF AsksFit, AnswerIsParsed
<1>. QED
  BY <1>1, <1>3, <1>4

LEMMA StoreGradeKeeps == ASSUME LlmInv, StoreGrade PROVE LlmInv'
<1>. DEFINE scores == [c \in Criteria |-> answer[c].score]
            clamps == {c \in Criteria : answer[c].clamped}
            row == [scores |-> scores, total |-> SumOver(scores),
                    confidence |-> OverallConfidence(answer), clamps |-> clamps]
<1>1. /\ llm \in ModelCall /\ llm.kind = "grading" /\ llm.pc = "parsed"
      /\ grade \in [base : GradeRow, revised : GradeRow]
      /\ grade' = [grade EXCEPT !.revised = row]
      /\ llm' = [NewCall("grading") EXCEPT !.pc = "totals"]
      /\ UNCHANGED <<revision, comparisons, trials>>
  BY DEF LlmInv, LlmTypes, StoreGrade
<1>2. PICK items \in Seq(Item) : items = llm.items
  BY <1>1 DEF ModelCall
<1>3. answer = ParseGrading(items)
  BY <1>1, <1>2 DEF LlmInv, AnswerIsParsed, ParsedReply
<1>4. answer \in [Criteria -> ParsedCriterion]
  BY <1>3, GradingIsParsed
<1>5. \A c \in Criteria :
        /\ answer[c].score \in MinScore .. MaxScore \/ (answer[c].missing /\ answer[c].score = 0)
        /\ answer[c].missing \/ answer[c].clamped => answer[c].confidence = "low"
  BY <1>3, GradingIsParsed
<1>6. MinScore \in Nat \ {0} /\ MaxScore \in Nat
  BY LlmAssumption
<1>7. scores \in Scores
  BY <1>4, <1>6 DEF Scores, ParsedCriterion
<1>8. OverallConfidence(answer) \in Confidences
  BY DEF OverallConfidence, Confidences
<1>9. \A c \in Criteria : answer[c].confidence = "low" => OverallConfidence(answer) = "low"
  BY <1>4 DEF OverallConfidence
<1>10. row \in GradeRow /\ clamps \in SUBSET Criteria
  <2>1. scores \in Scores /\ SumOver(scores) \in Int
    BY <1>7, ScoresSum
  <2>. HIDE DEF scores
  <2>. QED
    BY <2>1, <1>8 DEF GradeRow
<1>11. clamps # {} => OverallConfidence(answer) = "low"
  BY <1>5, <1>9
<1>12. \A c \in Criteria : scores[c] = 0 => OverallConfidence(answer) = "low"
  BY <1>5, <1>6, <1>9
<1>. HIDE DEF scores, clamps
<1>13. /\ grade'.base = grade.base /\ grade'.revised = row
       /\ grade' \in [base : GradeRow, revised : GradeRow]
  <2>. HIDE DEF row
  <2>. QED
    BY <1>1, <1>10
<1>14. /\ grade'.revised.scores = scores /\ grade'.revised.total = SumOver(scores)
       /\ grade'.revised.confidence = OverallConfidence(answer) /\ grade'.revised.clamps = clamps
  BY <1>13
<1>15. /\ llm' \in ModelCall /\ llm'.kind = "grading" /\ llm'.pc = "totals"
       /\ AsksFit' /\ AnswerIsParsed'
  BY <1>1, NewCallFits
<1>16. LlmTypes'
  BY <1>1, <1>13, <1>15 DEF LlmInv, LlmTypes
<1>17. GradesFit'
  BY <1>1, <1>7, <1>11, <1>12, <1>13, <1>14 DEF LlmInv, GradesFit, Untouched
<1>18. RevisionFits' /\ ComparisonsFit'
  BY <1>1, <1>15 DEF LlmInv, RevisionFits, ComparisonsFit, Untouched
<1>. QED
  BY <1>15, <1>16, <1>17, <1>18 DEF LlmInv

LEMMA ReadTotalsKeeps == ASSUME LlmInv, ReadTotals PROVE LlmInv'
<1>1. /\ llm \in ModelCall /\ llm.pc = "totals" /\ llm' = [llm EXCEPT !.pc = "scores"]
      /\ revision' = [revision EXCEPT !.baseTotal = grade.base.total,
                                      !.total = grade.revised.total]
      /\ revision \in [baseTotal : Int, total : Int, deltas : Scores \union {NoRevision.deltas}]
      /\ UNCHANGED <<answer, grade, comparisons, trials>>
  BY DEF LlmInv, LlmTypes, ReadTotals
<1>2. grade.base.total \in Int /\ grade.revised.total \in Int
  BY DEF LlmInv, LlmTypes, GradeRow
<1>3. /\ llm' \in ModelCall /\ llm'.kind = llm.kind /\ llm'.pc = "scores" /\ llm'.sent = llm.sent
  BY <1>1 DEF ModelCall
<1>4. /\ revision' \in [baseTotal : Int, total : Int, deltas : Scores \union {NoRevision.deltas}]
      /\ revision'.baseTotal = grade.base.total /\ revision'.total = grade.revised.total
      /\ revision'.deltas = revision.deltas
  BY <1>1, <1>2
<1>5. LlmTypes'
  BY <1>1, <1>3, <1>4 DEF LlmInv, LlmTypes
<1>6. AsksFit' /\ AnswerIsParsed'
  BY <1>3 DEF LlmInv, AsksFit, AnswerIsParsed
<1>7. GradesFit'
  BY <1>1, <1>3 DEF LlmInv, GradesFit, GradeStored, Untouched, Graded
<1>8. RevisionFits'
  BY <1>1, <1>2, <1>3, <1>4 DEF LlmInv, RevisionFits, GradesFit, GradeStored, Untouched
<1>9. ComparisonsFit'
  BY <1>1, <1>3 DEF LlmInv, ComparisonsFit
<1>. QED
  BY <1>5, <1>6, <1>7, <1>8, <1>9 DEF LlmInv

LEMMA ReadScoresKeeps ==
  ASSUME LlmInv, NEW hasFeedback \in BOOLEAN, ReadScores(hasFeedback)
  PROVE  LlmInv'
<1>. DEFINE deltas == Deltas(grade.base.scores, grade.revised.scores)
<1>1. /\ llm.pc = "scores" /\ llm.kind = "grading"
      /\ revision' = [revision EXCEPT !.deltas = deltas]
      /\ revision \in [baseTotal : Int, total : Int, deltas : Scores \union {NoRevision.deltas}]
      /\ UNCHANGED <<answer, grade, comparisons, trials>>
  BY DEF LlmInv, LlmTypes, ReadScores, RevisionFits
<1>2. /\ grade.base.scores \in Scores /\ grade.revised.scores \in Scores
  BY <1>1 DEF LlmInv, LlmTypes, GradesFit, GradeStored
<1>3. /\ deltas \in Scores
      /\ SumOver(deltas) = SumOver(grade.revised.scores) - SumOver(grade.base.scores)
  BY <1>2, DeltasSum
<1>. HIDE DEF deltas
<1>4. /\ revision' \in [baseTotal : Int, total : Int, deltas : Scores \union {NoRevision.deltas}]
      /\ revision'.baseTotal = revision.baseTotal /\ revision'.total = revision.total
      /\ revision'.deltas = deltas
  BY <1>1, <1>3
<1>5. \/ llm' = [NewCall("revision") EXCEPT !.pc = "ask"]
      \/ llm' = [NewCall("revision") EXCEPT !.pc = "compare"]
  BY DEF ReadScores, NewCall
<1>6. /\ llm' \in ModelCall /\ llm'.kind = "revision" /\ llm'.pc \in {"ask", "compare"}
      /\ AsksFit' /\ AnswerIsParsed'
  BY <1>5, NewCallFits
<1>7. LlmTypes'
  BY <1>1, <1>4, <1>6 DEF LlmInv, LlmTypes
<1>8. GradesFit'
  BY <1>1, <1>6 DEF LlmInv, GradesFit, GradeStored, Untouched, Graded
<1>9. RevisionFits'
  BY <1>1, <1>3, <1>4, <1>6 DEF LlmInv, RevisionFits, GradesFit, GradeStored, Untouched
<1>10. ComparisonsFit'
  BY <1>1, <1>6 DEF LlmInv, ComparisonsFit
<1>. QED
  BY <1>6, <1>7, <1>8, <1>9, <1>10 DEF LlmInv

LEMMA PersistComparisonKeeps ==
  ASSUME LlmInv, NEW effort \in Efforts, PersistComparison(effort)
  PROVE  LlmInv'
<1>1. /\ llm \in ModelCall /\ llm.pc = "compare" /\ llm' = [llm EXCEPT !.pc = "done"]
      /\ llm.kind = "revision" /\ comparisons = <<>>
      /\ UNCHANGED <<answer, grade, revision, trials>>
  BY DEF LlmInv, LlmTypes, PersistComparison, RevisionFits, ComparisonsFit
<1>2. /\ llm' \in ModelCall /\ llm'.kind = "revision" /\ llm'.pc = "done" /\ llm'.sent = llm.sent
  BY <1>1 DEF ModelCall
<1>3. PICK row : /\ row = [total |-> revision.total - revision.baseTotal,
                           deltas |-> revision.deltas, lowEffort |-> LowEffort(effort),
                           addressed |-> answer]
                 /\ comparisons' = Append(comparisons, row)
  BY DEF PersistComparison
<1>4. comparisons' = <<row>>
  BY <1>1, <1>3
<1>5. row.deltas \in Scores /\ (Untouched => SumOver(row.deltas) = row.total)
  BY <1>1, <1>3 DEF LlmInv, RevisionFits
<1>6. LlmTypes'
  BY <1>1, <1>2 DEF LlmInv, LlmTypes
<1>7. AsksFit' /\ AnswerIsParsed'
  BY <1>2 DEF LlmInv, AsksFit, AnswerIsParsed
<1>8. GradesFit' /\ RevisionFits'
  BY <1>1, <1>2 DEF LlmInv, GradesFit, RevisionFits, GradeStored, Untouched, Graded
<1>9. ComparisonsFit'
  BY <1>1, <1>2, <1>4, <1>5 DEF ComparisonsFit, Untouched
<1>. QED
  BY <1>6, <1>7, <1>8, <1>9 DEF LlmInv

LEMMA OverrideMeanwhileKeeps ==
  ASSUME LlmInv, NEW version \in {"base", "revised"}, NEW c \in Criteria,
         OverrideMeanwhile(version, c)
  PROVE  LlmInv'
<1>1. /\ trials.overrides > 0 /\ Graded
      /\ trials' = [trials EXCEPT !.overrides = @ - 1]
      /\ grade' = [grade EXCEPT ![version].scores[c] = MaxScore]
      /\ UNCHANGED <<llm, answer, revision, comparisons>>
      /\ trials \in [faults : 0 .. LlmFaults, overrides : 0 .. Overrides]
      /\ grade \in [base : GradeRow, revised : GradeRow]
      /\ grade.base.scores \in Scores
  BY DEF LlmInv, LlmTypes, OverrideMeanwhile
<1>2. /\ trials' \in [faults : 0 .. LlmFaults, overrides : 0 .. Overrides]
      /\ ~ Untouched'
  BY <1>1, LlmAssumption DEF Untouched
<1>3. grade.revised.scores \in Scores
  BY <1>1 DEF Graded, GradeRow, NoGrade
<1>4. /\ grade' \in [base : GradeRow, revised : GradeRow]
      /\ grade'.base.scores \in Scores /\ grade'.revised.scores \in Scores
      /\ grade'.revised.clamps = grade.revised.clamps
      /\ grade'.revised.confidence = grade.revised.confidence
  <2>1. PICK row \in GradeRow : row = grade[version] /\ row.scores \in Scores
    BY <1>1, <1>3
  <2>2. PICK scores \in Scores : scores = [row.scores EXCEPT ![c] = MaxScore]
    <3>1. MaxScore \in Int
      BY LlmAssumption
    <3>2. [row.scores EXCEPT ![c] = MaxScore] \in Scores
      BY <2>1, <3>1 DEF Scores
    <3>. QED
      BY <3>2
  <2>3. PICK row2 \in GradeRow :
          /\ row2 = [row EXCEPT !.scores = scores] /\ row2.scores = scores
          /\ row2.clamps = row.clamps /\ row2.confidence = row.confidence
    <3>1. /\ [row EXCEPT !.scores = scores].scores = scores
          /\ [row EXCEPT !.scores = scores].clamps = row.clamps
          /\ [row EXCEPT !.scores = scores].confidence = row.confidence
      BY <2>1 DEF GradeRow
    <3>2. [row EXCEPT !.scores = scores] \in GradeRow
      <4>. HIDE DEF Scores, Confidences
      <4>. QED
        BY <2>1, <2>2 DEF GradeRow
    <3>. QED
      BY <3>1, <3>2
  <2>4. grade' = [grade EXCEPT ![version] = row2]
    BY <1>1, <2>1, <2>2, <2>3
  <2>. HIDE DEF GradeRow
  <2>. QED
    BY <1>1, <1>3, <2>1, <2>2, <2>3, <2>4
<1>5. LlmTypes'
  BY <1>1, <1>2, <1>4 DEF LlmInv, LlmTypes
<1>6. AsksFit' /\ AnswerIsParsed'
  BY <1>1 DEF LlmInv, AsksFit, AnswerIsParsed
<1>7. GradesFit'
  BY <1>1, <1>2, <1>4 DEF LlmInv, GradesFit
<1>8. RevisionFits' /\ ComparisonsFit'
  BY <1>1, <1>2 DEF LlmInv, RevisionFits, ComparisonsFit
<1>. QED
  BY <1>5, <1>6, <1>7, <1>8 DEF LlmInv

LEMMA LlmNextKeeps == LlmInv /\ [LlmNext]_llmVars => LlmInv'
<1>. SUFFICES ASSUME LlmInv, [LlmNext]_llmVars PROVE LlmInv'
  OBVIOUS
<1>1. CASE UNCHANGED llmVars
  <2>1. UNCHANGED llm /\ UNCHANGED answer /\ UNCHANGED grade /\ UNCHANGED revision
        /\ UNCHANGED comparisons /\ UNCHANGED trials
    BY <1>1 DEF llmVars
  <2>2. LlmTypes' /\ AsksFit' /\ AnswerIsParsed'
    BY <2>1 DEF LlmInv, LlmTypes, AsksFit, AnswerIsParsed
  <2>3. GradesFit' /\ RevisionFits' /\ ComparisonsFit'
    BY <2>1 DEF LlmInv, GradesFit, RevisionFits, ComparisonsFit, GradeStored, Untouched, Graded
  <2>. QED
    BY <2>2, <2>3 DEF LlmInv
<1>2. CASE LlmNext
  BY <1>2, TransportErrorKeeps, GoodReplyKeeps, BrokenReplyKeeps, StoreGradeKeeps,
     ReadTotalsKeeps, ReadScoresKeeps, FeedbackAddressedKeeps, PersistComparisonKeeps,
     OverrideMeanwhileKeeps, GraderDiesKeeps DEF LlmNext
<1>. QED
  BY <1>1, <1>2

LEMMA LlmInvHolds == LlmSpec => []LlmInv
BY LlmStarts, LlmNextKeeps, PTL DEF LlmSpec

\* Calls, answers and grades have their types (llm/client.py, services/grading.py).
THEOREM LlmTypesHold == LlmSpec => []LlmTypeOK
<1>1. LlmInv => LlmTypeOK
  <2>. SUFFICES ASSUME LlmInv PROVE LlmTypeOK
    OBVIOUS
  <2>1. /\ llm.kind \in {"grading", "revision", "instruction", "copilot"}
        /\ llm.pc \in {"ask", "parsed", "totals", "scores", "compare", "done", "error",
                       "escaped", "dead"}
        /\ llm.attempt \in 0 .. LlmMaxRetries
    BY DEF LlmInv, LlmTypes, ModelCall
  <2>2. grade.base.scores \in [Criteria -> Int]
    BY DEF LlmInv, LlmTypes, Scores
  <2>3. Graded => grade.revised.scores \in [Criteria -> Int]
    BY DEF LlmInv, LlmTypes, Scores, Graded, GradeRow, NoGrade
  <2>4. Len(comparisons) <= 1
    <3>1. comparisons = <<>> \/ \E row : comparisons = <<row>>
      BY DEF LlmInv, ComparisonsFit
    <3>2. ASSUME comparisons = <<>>
          PROVE  Len(comparisons) <= 1
      BY <3>2
    <3>3. ASSUME NEW row, comparisons = <<row>>
          PROVE  Len(comparisons) <= 1
      <4>1. Len(comparisons) = 1
        BY <3>3
      <4>. QED
        BY <4>1
    <3>. QED
      BY <3>1, <3>2, <3>3
  <2>. QED
    BY <2>1, <2>2, <2>3, <2>4 DEF LlmTypeOK
<1>. QED
  BY <1>1, LlmInvHolds, PTL

\* What the parser makes of a reply fits the rubric, whatever the reply holds: every
\* criterion has its entry, in range or marked, a mark lowers the confidence of the
\* essay, and a model that fails is asked no more often than the retries allow
\* (llm/parsers.py, llm/client.py, services/grading.py).
THEOREM AnswersAlwaysFitTheRubric == LlmSpec => []AnswersFitTheRubric
<1>1. LlmInv => AnswersFitTheRubric
  <2>. SUFFICES ASSUME LlmInv PROVE AnswersFitTheRubric
    OBVIOUS
  <2>1. PICK items \in Seq(Item) : items = llm.items
    BY DEF LlmInv, LlmTypes, ModelCall
  <2>2. ASSUME llm.kind = "grading", llm.pc = "parsed"
        PROVE  /\ DOMAIN answer = Criteria
               /\ \A c \in Criteria :
                    /\ answer[c].missing <=> \A i \in DOMAIN llm.items : llm.items[i].criterion # c
                    /\ \/ answer[c].score \in MinScore .. MaxScore
                       \/ answer[c].missing /\ answer[c].score = 0
                    /\ answer[c].missing \/ answer[c].clamped => answer[c].review
    <3>1. answer = ParseGrading(items)
      BY <2>1, <2>2 DEF LlmInv, AnswerIsParsed, ParsedReply
    <3>. QED
      BY <2>1, <3>1, GradingIsParsed
  <2>3. ASSUME Graded
        PROVE  /\ grade.revised.clamps # {} => grade.revised.confidence = "low"
               /\ trials.overrides = Overrides =>
                    /\ (\E c \in Criteria : grade.revised.scores[c] = 0)
                         => grade.revised.confidence = "low"
                    /\ grade.revised.total = SumOver(grade.revised.scores)
    BY <2>3 DEF LlmInv, GradesFit, Untouched
  <2>4. ASSUME llm.kind = "copilot", llm.pc = "parsed"
        PROVE  /\ Len(answer) <= MaxRankedItems
               /\ \A i \in DOMAIN answer : answer[i].value \in {Unreadable, 0, 1}
    <3>1. answer = ParseCopilot(items)
      BY <2>1, <2>4 DEF LlmInv, AnswerIsParsed, ParsedReply
    <3>. QED
      BY <3>1, CopilotIsParsed
  <2>5. llm.sent <= 2 * (LlmMaxRetries + 1)
    BY DEF LlmInv, AsksFit
  <2>. QED
    BY <2>2, <2>3, <2>4, <2>5 DEF AnswersFitTheRubric
<1>. QED
  BY <1>1, LlmInvHolds, PTL

\* The deltas of the criteria sum to the delta of the totals, although grades and
\* criteria are read one after the other (compute_revision_comparison).
THEOREM ComparisonsAlwaysAddUp == LlmSpec => []ComparisonAddsUp
<1>1. LlmInv => ComparisonAddsUp
  <2>. SUFFICES ASSUME LlmInv PROVE ComparisonAddsUp
    OBVIOUS
  <2>. SUFFICES ASSUME NEW i \in DOMAIN comparisons
                PROVE  /\ DOMAIN comparisons[i].deltas = Criteria
                       /\ trials.overrides = Overrides
                            => SumOver(comparisons[i].deltas) = comparisons[i].total
    BY DEF ComparisonAddsUp
  <2>1. comparisons # <<>>
    OBVIOUS
  <2>2. PICK row : /\ comparisons = <<row>>
                   /\ row.deltas \in Scores
                   /\ Untouched => SumOver(row.deltas) = row.total
    BY <2>1 DEF LlmInv, ComparisonsFit
  <2>3. comparisons[i] = row
    BY <2>2
  <2>. QED
    BY <2>2, <2>3 DEF Untouched, Scores
<1>. QED
  BY <1>1, LlmInvHolds, PTL

---------------------------------------------------------------------------
(* RubricBook: the weights of a save *)

\* The column and the validation round a weight apart by a hundredth at most.
LEMMA RoundingsDiffer ==
  ASSUME NEW w \in Nat
  PROVE  /\ Quantized(w) \in Int /\ ColumnValue(w) \in Int
         /\ Quantized(w) <= ColumnValue(w) /\ ColumnValue(w) <= Quantized(w) + 1
<1>1. PICK q \in Int, r \in Int : q = w \div 10 /\ r = w % 10
  OBVIOUS
<1>2. w = 10 * q + r /\ 0 <= r /\ r <= 9
  BY <1>1
<1>3. ColumnValue(w) = IF r >= 5 THEN q + 1 ELSE q
  BY <1>2 DEF ColumnValue
<1>4. Quantized(w) \in {q, q + 1} /\ (Quantized(w) = q + 1 => r >= 5) /\ (r > 5 => Quantized(w) = q + 1)
  BY <1>1, <1>2 DEF Quantized
<1>. QED
  BY <1>1, <1>2, <1>3, <1>4

\* The criteria of a validated draft sum to 100, but for the roundings.
LEMMA SavedWeightsSum ==
  ASSUME NEW draft \in Seq(Nat \ {0}), ValidateWeightSum(draft), NEW save
  PROVE  /\ WeightSum(BuildCriteria(draft, save)) >= 10000
         /\ WeightSum(BuildCriteria(draft, save))
              <= 10000 + Cardinality(BuildCriteria(draft, save))
<1>. DEFINE T == DOMAIN draft
            C == BuildCriteria(draft, save)
            h == [i \in T |-> [save |-> save, display_order |-> i, weight |-> ColumnValue(draft[i])]]
            w == [c \in C |-> c.weight]
            f == [i \in T |-> Quantized(draft[i])]
            q == [c \in C |-> Quantized(draft[c.display_order])]
            one == [c \in C |-> 1]
            above == [c \in C |-> q[c] + one[c]]
<1>1. T = 1 .. Len(draft) /\ Len(draft) \in Nat /\ IsFiniteSet(T)
  <2>1. T = 1 .. Len(draft) /\ Len(draft) \in Nat
    OBVIOUS
  <2>. QED
    BY <2>1, FS_Interval
<1>2. \A i \in T : draft[i] \in Nat
  OBVIOUS
<1>3. C = {h[i] : i \in T}
  BY DEF BuildCriteria
<1>4. \A i \in T : h[i].display_order = i /\ h[i].weight = ColumnValue(draft[i]) /\ h[i] \in C
  BY <1>3
<1>5. \A i, j \in T : h[i] = h[j] => i = j
  BY <1>4
<1>6. IsFiniteSet(C)
  <2>. HIDE DEF h, C, T
  <2>. QED
    BY <1>1, <1>3, ImageIsFinite
<1>7. \A i \in T : f[i] \in Int /\ q[h[i]] = f[i]
  BY <1>2, <1>4, RoundingsDiffer
<1>8. \A c \in C : /\ w[c] \in Int /\ q[c] \in Int /\ one[c] \in Int /\ above[c] \in Int
                   /\ q[c] <= w[c] /\ w[c] <= above[c] /\ above[c] = q[c] + one[c]
                   /\ one[c] = 1
  <2>. TAKE c \in C
  <2>1. PICK i \in T : c = h[i]
    BY <1>3
  <2>2. /\ w[c] = ColumnValue(draft[i]) /\ q[c] = Quantized(draft[i]) /\ one[c] = 1
        /\ above[c] = q[c] + one[c]
    BY <1>4, <2>1
  <2>. HIDE DEF w, q, one, above
  <2>. QED
    BY <1>2, <2>2, RoundingsDiffer
<1>9. SumFunctionOnSet(f, T) = 10000 /\ DOMAIN w = C
  BY DEF ValidateWeightSum, SumFunction
<1>10. WeightSum(C) = SumFunctionOnSet(w, C)
  BY DEF WeightSum, SumFunction
<1>. HIDE DEF T, C, h, w, f, q, one, above
<1>11. SumFunctionOnSet(q, C) = 10000
  <2>1. SumFunctionOnSet(q, C) = SumFunctionOnSet(f, T)
    <3>1. IsFiniteSet(T) /\ (\A i \in T : f[i] \in Int /\ q[h[i]] = f[i])
      BY <1>1, <1>7
    <3>2. \A i, j \in T : h[i] = h[j] => i = j
      BY <1>5
    <3>3. C = {h[i] : i \in T}
      BY <1>3
    <3>. QED
      BY ONLY <3>1, <3>2, <3>3, SumOverImage
  <2>. QED
    BY <1>9, <2>1
<1>12. SumFunctionOnSet(one, C) = Cardinality(C) /\ Cardinality(C) \in Nat
  <2>1. SumFunctionOnSet(one, C) = 1 * Cardinality(C)
    BY <1>6, <1>8, SumOfSame
  <2>. QED
    BY <1>6, <2>1, FS_CardinalityType
<1>13. SumFunctionOnSet(above, C) = SumFunctionOnSet(q, C) + SumFunctionOnSet(one, C)
  BY <1>6, <1>8, SumIsLinear
<1>14. /\ SumFunctionOnSet(q, C) <= SumFunctionOnSet(w, C)
       /\ SumFunctionOnSet(w, C) <= SumFunctionOnSet(above, C)
  BY <1>6, <1>8, SumIsMonotone
<1>15. SumFunctionOnSet(w, C) \in Int
  BY <1>6, <1>8, SumIsInt
<1>. QED
  BY <1>10, <1>11, <1>12, <1>13, <1>14, <1>15 DEF C

---------------------------------------------------------------------------
(* RubricBook: the inductive invariant *)

Criterion == [save : Nat, display_order : Nat, weight : Int]

SavedAt(criteria, save) == {c \in criteria : c.save = save}

\* What a set of criteria holds of one of the first n saves is all that was saved.
Whole(criteria, n) ==
  /\ criteria \in SUBSET Criterion
  /\ \A save \in SavesIn(criteria) :
       /\ save <= n
       /\ \E draft \in Drafts :
            ValidateWeightSum(draft) /\ SavedAt(criteria, save) = BuildCriteria(draft, save)

\* Rows of rubrics and of assignments after n saves, of m rubrics.
RubricRows(n) ==
  {row \in [criteria : SUBSET Criterion, template : BOOLEAN, deleted : BOOLEAN] :
     Whole(row.criteria, n)}

RubricIds(m) == 1 .. m

UseRows(m, n) ==
  {row \in [rubric : RubricIds(m), status : {"draft", "complete"} \union BlockingStatuses,
            snapshot : SUBSET Criterion] :
     Whole(row.snapshot, n)}

EditPcs == {"idle", "update", "delete", "duplicating", "duplicate", "templating", "template",
            "assigning", "assign"}

Edits(m, n) ==
  {edit \in [pc : EditPcs, rubric : Nat, draft : Seq(Nat \ {0}), read : SUBSET Criterion] :
     /\ edit.pc # "idle" => edit.rubric \in RubricIds(m)
     /\ edit.pc = "update" => edit.draft \in Drafts /\ ValidateWeightSum(edit.draft)
     /\ Whole(edit.read, n)}

Updating == {e \in Editors : editor[e].pc = "update"}

RubricsAreWhole ==
  /\ saves \in Nat
  /\ rubrics \in Seq(RubricRows(saves))
  /\ uses \in Seq(UseRows(Len(rubrics), saves))
  /\ editor \in [Editors -> Edits(Len(rubrics), saves)]

\* An update that is under way has not saved yet.
SavesAreAsked == requests \in Nat /\ saves + Cardinality(Updating) <= requests

RubricInv == RubricsAreWhole /\ SavesAreAsked

---------------------------------------------------------------------------

LEMMA WholeStays ==
  ASSUME NEW n \in Nat, NEW m \in Nat, n <= m, NEW criteria, Whole(criteria, n)
  PROVE  Whole(criteria, m)
<1>1. \A save \in SavesIn(criteria) : save \in Nat
  BY DEF Whole, SavesIn, Criterion
<1>. QED
  BY <1>1 DEF Whole

LEMMA NothingIsWhole == ASSUME NEW n \in Nat PROVE Whole({}, n)
BY DEF Whole, SavesIn

LEMMA DraftIsSaved ==
  ASSUME NEW draft \in Drafts, NEW save \in Nat
  PROVE  /\ BuildCriteria(draft, save) \in SUBSET Criterion
         /\ \A c \in BuildCriteria(draft, save) : c.save = save
<1>1. draft \in Seq(Nat \ {0})
  BY RubricAssumption
<1>2. DOMAIN draft \subseteq Nat /\ \A i \in DOMAIN draft : draft[i] \in Nat
  BY <1>1
<1>3. \A i \in DOMAIN draft : ColumnValue(draft[i]) \in Int
  BY <1>2, RoundingsDiffer
<1>4. \A i \in DOMAIN draft :
        LET c == [save |-> save, display_order |-> i, weight |-> ColumnValue(draft[i])]
        IN c \in Criterion /\ c.save = save
  BY <1>2, <1>3 DEF Criterion
<1>. QED
  BY <1>4 DEF BuildCriteria

\* The criteria of a new save are beside those there were.
LEMMA WholeGrows ==
  ASSUME NEW n \in Nat, NEW criteria, Whole(criteria, n), NEW draft \in Drafts,
         ValidateWeightSum(draft), NEW m \in Nat, m = n + 1, NEW all,
         all = criteria \union BuildCriteria(draft, m)
  PROVE  Whole(all, m)
<1>1. /\ BuildCriteria(draft, m) \in SUBSET Criterion
      /\ \A c \in BuildCriteria(draft, m) : c.save = m
  BY DraftIsSaved
<1>2. criteria \in SUBSET Criterion /\ \A c \in criteria : c.save \in Nat /\ c.save <= n
  BY DEF Whole, SavesIn, Criterion
<1>3. all \in SUBSET Criterion
  BY <1>1, <1>2
<1>4. ASSUME NEW save \in SavesIn(all)
      PROVE  /\ save <= m
             /\ \E d \in Drafts :
                  ValidateWeightSum(d) /\ SavedAt(all, save) = BuildCriteria(d, save)
  <2>1. CASE save = m
    <3>1. SavedAt(all, save) = BuildCriteria(draft, save)
      BY <1>1, <1>2, <2>1 DEF SavedAt
    <3>. QED
      BY <2>1, <3>1
  <2>2. CASE save # m
    <3>1. SavedAt(all, save) = SavedAt(criteria, save) /\ save \in SavesIn(criteria)
      BY <1>1, <2>2 DEF SavedAt, SavesIn
    <3>2. save \in Nat /\ save <= n
      BY <1>2, <3>1 DEF SavesIn
    <3>. QED
      BY <3>1, <3>2 DEF Whole
  <2>. QED
    BY <2>1, <2>2
<1>. QED
  BY <1>3, <1>4 DEF Whole

LEMMA SnapshotIsCopy ==
  ASSUME NEW n, NEW criteria, Whole(criteria, n)
  PROVE  RubricSnapshot(criteria) = criteria
<1>1. \A c \in criteria : [display_order |-> c.display_order, weight |-> c.weight,
                            save |-> c.save] = c
  BY DEF Whole, Criterion
<1>. QED
  BY <1>1 DEF RubricSnapshot

\* More saves and more rubrics change nothing of what there is.
LEMMA RowsStay ==
  ASSUME NEW n \in Nat, NEW n2 \in Nat, n <= n2, NEW m \in Nat, NEW m2 \in Nat, m <= m2
  PROVE  /\ RubricRows(n) \subseteq RubricRows(n2)
         /\ UseRows(m, n) \subseteq UseRows(m2, n2)
         /\ Edits(m, n) \subseteq Edits(m2, n2)
<1>1. RubricRows(n) \subseteq RubricRows(n2)
  BY WholeStays DEF RubricRows
<1>2. RubricIds(m) \subseteq RubricIds(m2)
  BY DEF RubricIds
<1>3. UseRows(m, n) \subseteq UseRows(m2, n2)
  <2>. HIDE DEF BlockingStatuses
  <2>. QED
    BY <1>2, WholeStays DEF UseRows
<1>4. Edits(m, n) \subseteq Edits(m2, n2)
  BY <1>2, WholeStays DEF Edits
<1>. QED
  BY <1>1, <1>3, <1>4

LEMMA SequencesStay ==
  ASSUME RubricsAreWhole, NEW n2 \in Nat, saves <= n2, NEW m2 \in Nat, Len(rubrics) <= m2
  PROVE  /\ rubrics \in Seq(RubricRows(n2)) /\ uses \in Seq(UseRows(m2, n2))
         /\ editor \in [Editors -> Edits(m2, n2)]
<1>1. saves \in Nat /\ Len(rubrics) \in Nat
  BY DEF RubricsAreWhole
<1>2. PICK n \in Nat, m \in Nat : n = saves /\ m = Len(rubrics)
  BY <1>1
<1>3. /\ RubricRows(n) \subseteq RubricRows(n2)
      /\ UseRows(m, n) \subseteq UseRows(m2, n2)
      /\ Edits(m, n) \subseteq Edits(m2, n2)
  BY <1>2, RowsStay
<1>4. /\ Seq(RubricRows(n)) \subseteq Seq(RubricRows(n2))
      /\ Seq(UseRows(m, n)) \subseteq Seq(UseRows(m2, n2))
  BY <1>3
<1>5. [Editors -> Edits(m, n)] \subseteq [Editors -> Edits(m2, n2)]
  BY <1>3
<1>. QED
  BY <1>2, <1>4, <1>5 DEF RubricsAreWhole

LEMMA RubricStarts == RubricInit => RubricInv
<1>. SUFFICES ASSUME RubricInit PROVE RubricInv
  OBVIOUS
<1>1. saves = 0 /\ requests = 0 /\ rubrics = <<>> /\ uses = <<>> /\ editor = [e \in Editors |-> NoEdit]
  BY DEF RubricInit
<1>2. NoEdit \in Edits(Len(rubrics), saves)
  <2>1. Whole({}, saves)
    BY <1>1, NothingIsWhole
  <2>2. NoEdit.pc = "idle" /\ NoEdit.read = {}
    BY DEF NoEdit
  <2>3. NoEdit \in [pc : EditPcs, rubric : Nat, draft : Seq(Nat \ {0}), read : SUBSET Criterion]
    <3>1. "idle" \in EditPcs /\ <<>> \in Seq(Nat \ {0}) /\ {} \in SUBSET Criterion
      BY DEF EditPcs
    <3>. HIDE DEF EditPcs, Criterion
    <3>. QED
      BY <3>1 DEF NoEdit
  <2>. QED
    BY <2>1, <2>2, <2>3 DEF Edits
<1>3. RubricsAreWhole
  BY <1>1, <1>2 DEF RubricsAreWhole
<1>4. Updating = {}
  BY <1>1 DEF Updating, NoEdit
<1>5. SavesAreAsked
  BY <1>1, <1>4, FS_EmptySet DEF SavesAreAsked
<1>. QED
  BY <1>3, <1>5 DEF RubricInv

LEMMA UpdatingIsFinite ==
  ASSUME RubricInv
  PROVE  IsFiniteSet(Updating) /\ Cardinality(Updating) \in Nat /\ saves \in Nat /\ requests \in Nat
<1>1. Updating \subseteq Editors /\ IsFiniteSet(Editors)
  BY RubricAssumption DEF Updating
<1>2. IsFiniteSet(Updating)
  BY <1>1, FS_Subset
<1>. QED
  BY <1>2, FS_CardinalityType DEF RubricInv, RubricsAreWhole, SavesAreAsked

\* A request that is not an update moves on.
LEMMA OthersMove ==
  ASSUME RubricInv, NEW e \in Editors, NEW edit, editor' = [editor EXCEPT ![e] = edit],
         editor[e].pc # "update", edit.pc # "update"
  PROVE  Updating' = Updating
<1>1. DOMAIN editor = Editors
  BY DEF RubricInv, RubricsAreWhole
<1>. QED
  BY <1>1 DEF Updating

\* What a step leaves: rubrics, assignments and requests that hold whole saves.
LEMMA EditorMoves ==
  ASSUME RubricsAreWhole, NEW n2 \in Nat, saves <= n2, NEW m2 \in Nat, Len(rubrics) <= m2,
         NEW e \in Editors, NEW edit \in Edits(m2, n2), editor' = [editor EXCEPT ![e] = edit]
  PROVE  editor' \in [Editors -> Edits(m2, n2)]
<1>1. editor \in [Editors -> Edits(m2, n2)]
  BY SequencesStay
<1>. QED
  BY <1>1

LEMMA IdleIsEdit ==
  ASSUME NEW m, NEW n \in Nat
  PROVE  NoEdit \in Edits(m, n) /\ NoEdit.pc = "idle"
<1>1. Whole({}, n) /\ NoEdit.pc = "idle" /\ NoEdit.read = {}
  BY NothingIsWhole DEF NoEdit
<1>2. "idle" \in EditPcs /\ <<>> \in Seq(Nat \ {0}) /\ {} \in SUBSET Criterion
  BY DEF EditPcs
<1>. HIDE DEF EditPcs, Criterion
<1>3. NoEdit \in [pc : EditPcs, rubric : Nat, draft : Seq(Nat \ {0}), read : SUBSET Criterion]
  BY <1>2 DEF NoEdit
<1>. QED
  BY <1>1, <1>3 DEF Edits

LEMMA SequenceGrows ==
  ASSUME NEW S, NEW s \in Seq(S), NEW x \in S
  PROVE  Append(s, x) \in Seq(S) /\ Len(Append(s, x)) = Len(s) + 1 /\ Len(s) \in Nat
OBVIOUS

LEMMA CreateRubricKeeps ==
  ASSUME RubricInv, NEW draft \in Drafts, CreateRubric(draft)
  PROVE  RubricInv'
<1>1. PICK n \in Nat, m \in Nat, k \in Nat : n = saves /\ m = Len(rubrics) /\ k = n + 1
  <2>1. saves \in Nat /\ saves + 1 \in Nat /\ Len(rubrics) \in Nat
    BY DEF RubricInv, RubricsAreWhole
  <2>. QED
    BY <2>1
<1>2. PICK row : /\ row = Rubric(BuildCriteria(draft, k), FALSE)
                 /\ rubrics' = Append(rubrics, row)
  BY <1>1 DEF CreateRubric
<1>3. saves' = k /\ UNCHANGED <<uses, editor>> /\ requests' = requests + 1 /\ ValidateWeightSum(draft)
  BY <1>1 DEF CreateRubric, Request
<1>4. Whole(BuildCriteria(draft, k), k)
  <2>1. Whole({}, n)
    BY NothingIsWhole
  <2>2. BuildCriteria(draft, k) = {} \union BuildCriteria(draft, k)
    OBVIOUS
  <2>. QED
    BY <1>1, <1>3, <2>1, <2>2, WholeGrows
<1>5. row \in RubricRows(k)
  <2>1. BuildCriteria(draft, k) \in SUBSET Criterion
    BY <1>4 DEF Whole
  <2>2. row \in [criteria : SUBSET Criterion, template : BOOLEAN, deleted : BOOLEAN]
    BY <1>2, <2>1 DEF Rubric
  <2>3. row.criteria = BuildCriteria(draft, k)
    BY <1>2 DEF Rubric
  <2>. QED
    BY <1>4, <2>2, <2>3 DEF RubricRows
<1>6. rubrics \in Seq(RubricRows(k))
  BY <1>1, SequencesStay DEF RubricInv
<1>7. rubrics' \in Seq(RubricRows(k)) /\ Len(rubrics') = m + 1
  <2>1. PICK rows \in Seq(RubricRows(k)) : rows = rubrics
    BY <1>6
  <2>2. Append(rows, row) \in Seq(RubricRows(k)) /\ Len(Append(rows, row)) = Len(rows) + 1
    BY <1>5, SequenceGrows
  <2>. QED
    BY <1>1, <1>2, <2>1, <2>2
<1>8. uses \in Seq(UseRows(m + 1, k)) /\ editor \in [Editors -> Edits(m + 1, k)]
  BY <1>1, SequencesStay DEF RubricInv
<1>9. RubricsAreWhole'
  BY <1>3, <1>7, <1>8 DEF RubricsAreWhole
<1>10. Updating' = Updating
  BY <1>3 DEF Updating
<1>11. SavesAreAsked'
  BY <1>1, <1>3, <1>10, UpdatingIsFinite DEF RubricInv, SavesAreAsked
<1>. QED
  BY <1>9, <1>11 DEF RubricInv

\* A step of a request that neither begins nor ends an update.
LEMMA AskedSaveKeeps ==
  ASSUME RubricInv, saves' = saves, rubrics' \in Seq(RubricRows(saves)),
         Len(rubrics) <= Len(rubrics'), uses' \in Seq(UseRows(Len(rubrics'), saves)),
         requests' \in Nat, requests <= requests',
         NEW e \in Editors, NEW edit \in Edits(Len(rubrics'), saves),
         editor' = [editor EXCEPT ![e] = edit], editor[e].pc # "update", edit.pc # "update"
  PROVE  RubricInv'
<1>1. saves \in Nat /\ Len(rubrics') \in Nat
  BY DEF RubricInv, RubricsAreWhole
<1>2. editor' \in [Editors -> Edits(Len(rubrics'), saves)]
  <2>1. PICK n \in Nat, m \in Nat : n = saves /\ m = Len(rubrics')
    BY <1>1
  <2>2. saves <= n /\ Len(rubrics) <= m /\ edit \in Edits(m, n) /\ RubricsAreWhole
    BY <1>1, <2>1 DEF RubricInv
  <2>3. editor' \in [Editors -> Edits(m, n)]
    BY <2>2, EditorMoves
  <2>. QED
    BY <2>1, <2>3
<1>3. RubricsAreWhole'
  BY <1>1, <1>2 DEF RubricsAreWhole
<1>4. Updating' = Updating
  BY OthersMove
<1>5. SavesAreAsked'
  BY <1>4, UpdatingIsFinite DEF RubricInv, SavesAreAsked
<1>. QED
  BY <1>3, <1>5 DEF RubricInv

LEMMA EditIsTyped ==
  ASSUME RubricInv, NEW e \in Editors
  PROVE  /\ editor[e] \in Edits(Len(rubrics), saves)
         /\ editor[e].pc # "idle" => editor[e].rubric \in DOMAIN rubrics
         /\ Whole(editor[e].read, saves)
         /\ DOMAIN rubrics = RubricIds(Len(rubrics)) /\ Len(rubrics) \in Nat
         /\ \A r \in DOMAIN rubrics : rubrics[r] \in RubricRows(saves)
<1>1. editor[e] \in Edits(Len(rubrics), saves) /\ rubrics \in Seq(RubricRows(saves))
  BY DEF RubricInv, RubricsAreWhole
<1>2. DOMAIN rubrics = RubricIds(Len(rubrics))
  BY <1>1 DEF RubricIds
<1>3. Len(rubrics) \in Nat /\ \A r \in DOMAIN rubrics : rubrics[r] \in RubricRows(saves)
  BY <1>1
<1>. QED
  BY <1>1, <1>2, <1>3 DEF Edits

\* A request for a rubric there is.
LEMMA BeginMakesEdit ==
  ASSUME NEW e, NEW pc, NEW r, NEW draft, Begin(e, pc, r, draft)
  PROVE  /\ editor' = [editor EXCEPT ![e] = [pc |-> pc, rubric |-> r, draft |-> draft, read |-> {}]]
         /\ editor[e].pc = "idle" /\ requests' = requests + 1
<1>1. [NoEdit EXCEPT !.pc = pc, !.rubric = r, !.draft = draft]
        = [pc |-> pc, rubric |-> r, draft |-> draft, read |-> {}]
  <2>1. PICK edit : edit = [NoEdit EXCEPT !.pc = pc, !.rubric = r, !.draft = draft]
    OBVIOUS
  <2>2. /\ edit.pc = pc /\ edit.rubric = r /\ edit.draft = draft /\ edit.read = {}
        /\ edit = [x \in {"pc", "rubric", "draft", "read"} |-> edit[x]]
    BY <2>1 DEF NoEdit
  <2>3. edit = [pc |-> pc, rubric |-> r, draft |-> draft, read |-> {}]
    BY <2>2
  <2>. QED
    BY <2>1, <2>3
<1>. QED
  BY <1>1 DEF Begin, Request

LEMMA BeginIsEdit ==
  ASSUME NEW m \in Nat, NEW n \in Nat, NEW pc \in EditPcs, NEW r \in RubricIds(m),
         NEW draft \in Seq(Nat \ {0}),
         pc = "update" => draft \in Drafts /\ ValidateWeightSum(draft),
         NEW edit, edit = [pc |-> pc, rubric |-> r, draft |-> draft, read |-> {}]
  PROVE  edit \in Edits(m, n) /\ edit.pc = pc
<1>1. edit = [pc |-> pc, rubric |-> r, draft |-> draft, read |-> {}]
  OBVIOUS
<1>2. Whole({}, n) /\ r \in Nat
  BY NothingIsWhole DEF RubricIds
<1>. HIDE DEF EditPcs, Criterion
<1>3. edit \in [pc : EditPcs, rubric : Nat, draft : Seq(Nat \ {0}), read : SUBSET Criterion]
  BY <1>1, <1>2
<1>4. edit.pc = pc /\ edit.rubric = r /\ edit.draft = draft /\ edit.read = {}
  BY <1>1
<1>5. edit \in Edits(m, n)
  BY <1>2, <1>3, <1>4 DEF Edits
<1>. QED
  BY <1>4, <1>5

LEMMA StartsKeep ==
  ASSUME RubricInv, NEW e \in Editors, NEW r \in DOMAIN rubrics,
         \/ StartDelete(e, r)
         \/ \E pc \in {"duplicating", "templating", "assigning"} : StartCopy(e, r, pc)
  PROVE  RubricInv'
<1>1. PICK pc \in {"delete", "duplicating", "templating", "assigning"} : Begin(e, pc, r, <<>>)
  BY DEF StartDelete, StartCopy
<1>2. UNCHANGED rubrics /\ UNCHANGED uses /\ UNCHANGED saves
  BY DEF StartDelete, StartCopy
<1>3. PICK m \in Nat, n \in Nat : m = Len(rubrics) /\ n = saves
  BY EditIsTyped, UpdatingIsFinite
<1>4. PICK draft \in Seq(Nat \ {0}) : draft = <<>>
  <2>1. <<>> \in Seq(Nat \ {0})
    OBVIOUS
  <2>. QED
    BY <2>1
<1>5. r \in RubricIds(m) /\ pc \in EditPcs /\ pc # "update"
  BY <1>3, EditIsTyped DEF EditPcs
<1>6. PICK edit : edit = [pc |-> pc, rubric |-> r, draft |-> draft, read |-> {}]
  OBVIOUS
<1>7. edit \in Edits(m, n) /\ edit.pc # "update"
  <2>1. pc \in EditPcs /\ (pc = "update" => draft \in Drafts /\ ValidateWeightSum(draft))
    BY <1>5
  <2>2. draft \in Seq(Nat \ {0}) /\ m \in Nat /\ n \in Nat
    BY <1>3, <1>4
  <2>3. edit \in Edits(m, n) /\ edit.pc = pc
    BY <1>5, <1>6, <2>1, <2>2, BeginIsEdit
  <2>. QED
    BY <1>5, <2>3
<1>8. editor' = [editor EXCEPT ![e] = edit] /\ editor[e].pc = "idle" /\ requests' = requests + 1
  BY <1>1, <1>4, <1>6, BeginMakesEdit
<1>9. /\ rubrics' \in Seq(RubricRows(saves)) /\ uses' \in Seq(UseRows(Len(rubrics'), saves))
      /\ Len(rubrics) <= Len(rubrics') /\ requests' \in Nat /\ requests <= requests'
      /\ edit \in Edits(Len(rubrics'), saves) /\ saves' = saves
  BY <1>2, <1>3, <1>7, <1>8 DEF RubricInv, RubricsAreWhole, SavesAreAsked
<1>10. editor[e].pc # "update"
  BY <1>8
<1>. QED
  BY <1>7, <1>8, <1>9, <1>10, AskedSaveKeeps

LEMMA StartUpdateKeeps ==
  ASSUME RubricInv, NEW e \in Editors, NEW r \in DOMAIN rubrics, NEW draft \in Drafts,
         StartUpdate(e, r, draft)
  PROVE  RubricInv'
<1>1. ValidateWeightSum(draft) /\ Begin(e, "update", r, draft)
      /\ UNCHANGED rubrics /\ UNCHANGED uses /\ UNCHANGED saves
  BY DEF StartUpdate
<1>2. PICK m \in Nat, n \in Nat : m = Len(rubrics) /\ n = saves
  BY EditIsTyped, UpdatingIsFinite
<1>3. r \in RubricIds(m) /\ draft \in Seq(Nat \ {0}) /\ "update" \in EditPcs
  BY <1>2, RubricAssumption, EditIsTyped DEF EditPcs
<1>4. PICK edit : edit = [pc |-> "update", rubric |-> r, draft |-> draft, read |-> {}]
  OBVIOUS
<1>5. edit \in Edits(m, n) /\ edit.pc = "update"
  <2>1. PICK pc \in EditPcs : pc = "update"
    BY <1>3
  <2>2. edit = [pc |-> pc, rubric |-> r, draft |-> draft, read |-> {}]
    BY <1>4, <2>1
  <2>3. edit \in Edits(m, n) /\ edit.pc = pc
    BY <1>1, <1>3, <2>2, BeginIsEdit
  <2>. QED
    BY <2>1, <2>3
<1>6. editor' = [editor EXCEPT ![e] = edit] /\ editor[e].pc = "idle" /\ requests' = requests + 1
  BY <1>1, <1>4, BeginMakesEdit
<1>7. editor' \in [Editors -> Edits(m, n)]
  BY <1>2, <1>5, <1>6 DEF RubricInv, RubricsAreWhole
<1>8. RubricsAreWhole'
  BY <1>1, <1>2, <1>7 DEF RubricInv, RubricsAreWhole
<1>9. Updating' = Updating \union {e} /\ e \notin Updating
  <2>1. DOMAIN editor = Editors
    BY DEF RubricInv, RubricsAreWhole
  <2>. QED
    BY <1>5, <1>6, <2>1 DEF Updating
<1>10. Cardinality(Updating') = Cardinality(Updating) + 1
  BY <1>9, UpdatingIsFinite, FS_AddElement
<1>11. SavesAreAsked'
  BY <1>1, <1>6, <1>10, UpdatingIsFinite DEF RubricInv, SavesAreAsked
<1>. QED
  BY <1>8, <1>11 DEF RubricInv

\* What an update leaves of a rubric, the criteria there were and the new ones.
LEMMA CommitUpdateKeeps ==
  ASSUME RubricInv, NEW e \in Editors, CommitUpdate(e)
  PROVE  RubricInv'
<1>1. PICK m \in Nat, n \in Nat, k \in Nat : m = Len(rubrics) /\ n = saves /\ k = n + 1
  <2>1. Len(rubrics) \in Nat /\ saves \in Nat /\ saves + 1 \in Nat
    BY EditIsTyped, UpdatingIsFinite
  <2>. QED
    BY <2>1
<1>2. PICK edit : edit = editor[e]
  OBVIOUS
<1>3. /\ edit.pc = "update" /\ edit \in Edits(m, n) /\ edit.rubric \in DOMAIN rubrics
      /\ edit.draft \in Drafts /\ ValidateWeightSum(edit.draft)
  <2>1. edit.pc = "update" /\ edit \in Edits(m, n) /\ edit.rubric \in DOMAIN rubrics
    BY <1>1, <1>2, EditIsTyped DEF CommitUpdate
  <2>. QED
    BY <2>1 DEF Edits
<1>4. PICK row \in RubricRows(n) : row = rubrics[edit.rubric]
  BY <1>1, <1>3, EditIsTyped
<1>5. PICK all : all = row.criteria \union BuildCriteria(edit.draft, k)
  OBVIOUS
<1>6. Whole(all, k)
  <2>1. Whole(row.criteria, n)
    BY DEF RubricRows
  <2>. QED
    BY <1>1, <1>3, <1>5, <2>1, WholeGrows
<1>7. PICK row2 : row2 = [row EXCEPT !.criteria = all]
  OBVIOUS
<1>8. row2 \in RubricRows(k)
  <2>1. all \in SUBSET Criterion
    BY <1>6 DEF Whole
  <2>2. row \in [criteria : SUBSET Criterion, template : BOOLEAN, deleted : BOOLEAN]
    BY DEF RubricRows
  <2>. HIDE DEF Criterion
  <2>3. row2 \in [criteria : SUBSET Criterion, template : BOOLEAN, deleted : BOOLEAN]
        /\ row2.criteria = all
    BY <1>7, <2>1, <2>2
  <2>. QED
    BY <1>6, <2>3 DEF RubricRows
<1>9. /\ saves' = k /\ rubrics' = [rubrics EXCEPT ![edit.rubric] = row2]
      /\ editor' = [editor EXCEPT ![e] = NoEdit] /\ UNCHANGED <<uses, requests>>
  BY <1>1, <1>2, <1>4, <1>5, <1>7 DEF CommitUpdate, Finish
<1>10. /\ rubrics \in Seq(RubricRows(k)) /\ uses \in Seq(UseRows(m, k))
  BY <1>1, SequencesStay DEF RubricInv
<1>11. rubrics' \in Seq(RubricRows(k)) /\ Len(rubrics') = m
  <2>1. PICK rows \in Seq(RubricRows(k)) : rows = rubrics
    BY <1>10
  <2>. QED
    BY <1>1, <1>3, <1>8, <1>9, <2>1
<1>12. editor' \in [Editors -> Edits(m, k)]
  <2>1. NoEdit \in Edits(m, k)
    BY IdleIsEdit
  <2>. QED
    BY <1>1, <1>9, <2>1, SequencesStay DEF RubricInv
<1>13. RubricsAreWhole'
  BY <1>9, <1>10, <1>11, <1>12 DEF RubricsAreWhole
<1>14. Updating' = Updating \ {e} /\ e \in Updating
  <2>1. DOMAIN editor = Editors
    BY DEF RubricInv, RubricsAreWhole
  <2>. QED
    BY <1>2, <1>3, <1>9, <2>1 DEF Updating, NoEdit
<1>15. Cardinality(Updating') = Cardinality(Updating) - 1
  BY <1>14, UpdatingIsFinite, FS_RemoveElement
<1>16. SavesAreAsked'
  BY <1>1, <1>9, <1>15, UpdatingIsFinite DEF RubricInv, SavesAreAsked
<1>. QED
  BY <1>13, <1>16 DEF RubricInv

LEMMA CommitDeleteKeeps ==
  ASSUME RubricInv, NEW e \in Editors, CommitDelete(e)
  PROVE  RubricInv'
<1>1. PICK r : r = editor[e].rubric
  OBVIOUS
<1>2. editor[e].pc = "delete" /\ r \in DOMAIN rubrics
  BY <1>1, EditIsTyped DEF CommitDelete
<1>3. PICK row \in RubricRows(saves) : row = rubrics[r]
  BY <1>2, EditIsTyped
<1>4. PICK row2 : row2 = [row EXCEPT !.deleted = TRUE]
  OBVIOUS
<1>5. row2 \in RubricRows(saves)
  <2>1. row \in [criteria : SUBSET Criterion, template : BOOLEAN, deleted : BOOLEAN]
        /\ Whole(row.criteria, saves)
    BY <1>3 DEF RubricRows
  <2>. HIDE DEF Criterion
  <2>2. row2 \in [criteria : SUBSET Criterion, template : BOOLEAN, deleted : BOOLEAN]
        /\ row2.criteria = row.criteria
    BY <1>4, <2>1
  <2>. QED
    BY <2>1, <2>2 DEF RubricRows
<1>6. /\ rubrics' = [rubrics EXCEPT ![r] = row2]
      /\ editor' = [editor EXCEPT ![e] = NoEdit]
      /\ uses' = uses /\ saves' = saves /\ requests' = requests
  BY <1>1, <1>3, <1>4 DEF CommitDelete, Finish
<1>7. rubrics' \in Seq(RubricRows(saves)) /\ Len(rubrics') = Len(rubrics) /\ Len(rubrics) \in Nat
  <2>1. PICK rows \in Seq(RubricRows(saves)) : rows = rubrics
    BY DEF RubricInv, RubricsAreWhole
  <2>. QED
    BY <1>2, <1>5, <1>6, <2>1
<1>8. /\ NoEdit \in Edits(Len(rubrics'), saves) /\ NoEdit.pc # "update"
      /\ uses' \in Seq(UseRows(Len(rubrics'), saves)) /\ requests \in Nat
  <2>1. NoEdit \in Edits(Len(rubrics'), saves) /\ NoEdit.pc = "idle"
    BY IdleIsEdit, UpdatingIsFinite
  <2>. QED
    BY <1>6, <1>7, <2>1 DEF RubricInv, RubricsAreWhole, SavesAreAsked
<1>9. Len(rubrics) <= Len(rubrics') /\ requests' \in Nat /\ requests <= requests' /\ saves' = saves
      /\ editor[e].pc # "update"
  BY <1>2, <1>6, <1>7, <1>8
<1>. QED
  BY <1>6, <1>7, <1>8, <1>9, AskedSaveKeeps

LEMMA CopiesKeep ==
  ASSUME RubricInv, NEW e \in Editors, DuplicateRubric(e) \/ SaveAsTemplate(e)
  PROVE  RubricInv'
<1>0. \E template \in BOOLEAN : rubrics' = Append(rubrics, Rubric(editor[e].read, template))
  BY DEF DuplicateRubric, SaveAsTemplate
<1>1. PICK row : \E template \in BOOLEAN : /\ row = Rubric(editor[e].read, template)
                                          /\ rubrics' = Append(rubrics, row)
  BY <1>0
<1>2. /\ editor[e].pc # "update" /\ editor' = [editor EXCEPT ![e] = NoEdit]
      /\ uses' = uses /\ saves' = saves /\ requests' = requests
  BY DEF DuplicateRubric, SaveAsTemplate, Finish
<1>3. row \in RubricRows(saves)
  <2>1. PICK read : read = editor[e].read
    OBVIOUS
  <2>2. Whole(read, saves) /\ read \in SUBSET Criterion
    BY <2>1, EditIsTyped DEF Whole
  <2>. HIDE DEF Criterion
  <2>3. row \in [criteria : SUBSET Criterion, template : BOOLEAN, deleted : BOOLEAN]
        /\ row.criteria = read
    BY <1>1, <2>1, <2>2 DEF Rubric
  <2>. QED
    BY <2>2, <2>3 DEF RubricRows
<1>4. rubrics' \in Seq(RubricRows(saves)) /\ Len(rubrics) \in Nat /\ Len(rubrics') = Len(rubrics) + 1
  <2>1. PICK S : S = RubricRows(saves)
    OBVIOUS
  <2>2. PICK rows \in Seq(S) : rows = rubrics
    BY <2>1 DEF RubricInv, RubricsAreWhole
  <2>3. /\ Append(rows, row) \in Seq(S) /\ Len(Append(rows, row)) = Len(rows) + 1
        /\ Len(rows) \in Nat
    BY <1>3, <2>1, SequenceGrows
  <2>. QED
    BY <1>1, <2>1, <2>2, <2>3
<1>5. PICK n \in Nat, m \in Nat : n = saves /\ m = Len(rubrics')
  BY <1>4, UpdatingIsFinite
<1>6. uses \in Seq(UseRows(m, n))
  <2>1. saves <= n /\ Len(rubrics) <= m /\ RubricsAreWhole
    BY <1>4, <1>5 DEF RubricInv
  <2>. QED
    BY <2>1, SequencesStay
<1>7. NoEdit \in Edits(m, n) /\ NoEdit.pc # "update"
  <2>1. NoEdit.pc = "idle"
    BY DEF NoEdit
  <2>. QED
    BY <2>1, IdleIsEdit
<1>8. /\ NoEdit \in Edits(Len(rubrics'), saves) /\ uses' \in Seq(UseRows(Len(rubrics'), saves))
      /\ Len(rubrics) <= Len(rubrics') /\ requests' \in Nat /\ requests <= requests'
      /\ saves' = saves
  BY <1>2, <1>4, <1>5, <1>6, <1>7, UpdatingIsFinite
<1>. QED
  BY <1>2, <1>4, <1>7, <1>8, AskedSaveKeeps

LEMMA ReadCriteriaKeeps ==
  ASSUME RubricInv, NEW e \in Editors, NEW pc \in EditPcs \ {"idle", "update"},
         NEW next \in EditPcs \ {"idle", "update"}, ReadCriteria(e, pc, next)
  PROVE  RubricInv'
<1>1. PICK edit : edit = editor[e]
  OBVIOUS
<1>2. PICK row : row = rubrics[edit.rubric]
  OBVIOUS
<1>3. PICK edit2 : edit2 = [edit EXCEPT !.pc = next, !.read = row.criteria]
  OBVIOUS
<1>4. /\ editor' = [editor EXCEPT ![e] = edit2] /\ edit.pc = pc /\ rubrics' = rubrics
      /\ uses' = uses /\ saves' = saves /\ requests' = requests
  BY <1>1, <1>2, <1>3 DEF ReadCriteria
<1>5. PICK n, m : n = saves /\ m = Len(rubrics)
  OBVIOUS
<1>6. edit \in Edits(m, n) /\ edit.pc # "idle" /\ edit.pc # "update" /\ row \in RubricRows(n)
  BY <1>1, <1>2, <1>4, <1>5, EditIsTyped
<1>7. edit2 \in Edits(m, n) /\ edit2.pc # "update"
  <2>1. Whole(row.criteria, n) /\ row.criteria \in SUBSET Criterion
    BY <1>6 DEF RubricRows
  <2>2. edit \in [pc : EditPcs, rubric : Nat, draft : Seq(Nat \ {0}), read : SUBSET Criterion]
        /\ edit.rubric \in RubricIds(m)
    BY <1>6 DEF Edits
  <2>. HIDE DEF Criterion, EditPcs
  <2>3. /\ edit2 \in [pc : EditPcs, rubric : Nat, draft : Seq(Nat \ {0}), read : SUBSET Criterion]
        /\ edit2.pc = next /\ edit2.rubric = edit.rubric /\ edit2.read = row.criteria
    BY <1>3, <2>1, <2>2
  <2>. QED
    BY <2>1, <2>2, <2>3 DEF Edits
<1>8. /\ rubrics' \in Seq(RubricRows(saves)) /\ uses' \in Seq(UseRows(Len(rubrics'), saves))
      /\ Len(rubrics) <= Len(rubrics') /\ requests' \in Nat /\ requests <= requests'
      /\ edit2 \in Edits(Len(rubrics'), saves)
  <2>1. Len(rubrics) \in Nat /\ requests \in Nat
    BY EditIsTyped, UpdatingIsFinite
  <2>. QED
    BY <1>4, <1>5, <1>7, <2>1 DEF RubricInv, RubricsAreWhole
<1>9. editor[e].pc # "update" /\ saves' = saves
  BY <1>1, <1>4
<1>. QED
  BY <1>4, <1>7, <1>8, <1>9, AskedSaveKeeps

LEMMA CreateAssignmentKeeps ==
  ASSUME RubricInv, NEW e \in Editors, CreateAssignment(e)
  PROVE  RubricInv'
<1>1. PICK edit, m, n : edit = editor[e] /\ m = Len(rubrics) /\ n = saves
  OBVIOUS
<1>2. edit \in Edits(m, n) /\ edit.pc = "assign"
  BY <1>1, EditIsTyped DEF CreateAssignment
<1>3. Whole(edit.read, n) /\ edit.rubric \in RubricIds(m) /\ edit.read \in SUBSET Criterion
  BY <1>2 DEF Edits
<1>4. PICK row : /\ row = [rubric |-> edit.rubric, status |-> "draft",
                           snapshot |-> RubricSnapshot(edit.read)]
                 /\ uses' = Append(uses, row)
  BY <1>1 DEF CreateAssignment
<1>5. row \in UseRows(m, n)
  <2>1. RubricSnapshot(edit.read) = edit.read
    BY <1>3, SnapshotIsCopy
  <2>. HIDE DEF Criterion
  <2>2. row \in [rubric : RubricIds(m), status : {"draft", "complete"} \union BlockingStatuses,
                 snapshot : SUBSET Criterion]
        /\ row.snapshot = edit.read
    BY <1>3, <1>4, <2>1
  <2>. QED
    BY <1>3, <2>2 DEF UseRows
<1>6. /\ editor' = [editor EXCEPT ![e] = NoEdit] /\ rubrics' = rubrics
      /\ saves' = saves /\ requests' = requests
  BY DEF CreateAssignment, Finish
<1>7. uses' \in Seq(UseRows(m, n))
  <2>1. PICK rows \in Seq(UseRows(m, n)) : rows = uses
    BY <1>1 DEF RubricInv, RubricsAreWhole
  <2>2. Append(rows, row) \in Seq(UseRows(m, n))
    BY <1>5, SequenceGrows
  <2>. QED
    BY <1>4, <2>1, <2>2
<1>8. NoEdit \in Edits(m, n) /\ NoEdit.pc # "update"
  <2>1. NoEdit.pc = "idle" /\ n \in Nat
    BY <1>1, UpdatingIsFinite DEF NoEdit
  <2>. QED
    BY <2>1, IdleIsEdit
<1>9. /\ rubrics' \in Seq(RubricRows(saves)) /\ uses' \in Seq(UseRows(Len(rubrics'), saves))
      /\ Len(rubrics) <= Len(rubrics') /\ requests' \in Nat /\ requests <= requests'
      /\ NoEdit \in Edits(Len(rubrics'), saves)
  <2>1. Len(rubrics) \in Nat /\ requests \in Nat
    BY EditIsTyped, UpdatingIsFinite
  <2>. QED
    BY <1>1, <1>6, <1>7, <1>8, <2>1 DEF RubricInv, RubricsAreWhole
<1>10. editor[e].pc # "update" /\ saves' = saves
  BY <1>1, <1>2, <1>6
<1>. QED
  BY <1>6, <1>8, <1>9, <1>10, AskedSaveKeeps

LEMMA MoveAssignmentKeeps ==
  ASSUME RubricInv, NEW use \in DOMAIN uses, MoveAssignment(use)
  PROVE  RubricInv'
<1>1. PICK row, m, n : row = uses[use] /\ m = Len(rubrics) /\ n = saves
  OBVIOUS
<1>2. PICK rows \in Seq(UseRows(m, n)) : rows = uses
  BY <1>1 DEF RubricInv, RubricsAreWhole
<1>3. row \in UseRows(m, n)
  BY <1>1, <1>2
<1>4. PICK status \in {"draft", "complete"} \union BlockingStatuses :
        uses' = [uses EXCEPT ![use].status = status]
  BY DEF MoveAssignment, BlockingStatuses
<1>5. PICK row2 : row2 = [row EXCEPT !.status = status]
  OBVIOUS
<1>6. row2 \in UseRows(m, n)
  <2>1. row \in [rubric : RubricIds(m), status : {"draft", "complete"} \union BlockingStatuses,
                 snapshot : SUBSET Criterion]
        /\ Whole(row.snapshot, n)
    BY <1>3 DEF UseRows
  <2>. HIDE DEF Criterion
  <2>2. row2 \in [rubric : RubricIds(m), status : {"draft", "complete"} \union BlockingStatuses,
                  snapshot : SUBSET Criterion]
        /\ row2.snapshot = row.snapshot
    BY <1>5, <2>1
  <2>. QED
    BY <2>1, <2>2 DEF UseRows
<1>7. uses' = [uses EXCEPT ![use] = row2]
  BY <1>1, <1>4, <1>5
<1>8. uses' \in Seq(UseRows(m, n))
  BY <1>2, <1>6, <1>7
<1>9. rubrics' = rubrics /\ saves' = saves /\ editor' = editor /\ requests' = requests
  BY DEF MoveAssignment
<1>10. RubricsAreWhole'
  BY <1>1, <1>8, <1>9 DEF RubricInv, RubricsAreWhole
<1>11. SavesAreAsked'
  BY <1>9 DEF RubricInv, SavesAreAsked, Updating
<1>. QED
  BY <1>10, <1>11 DEF RubricInv

LEMMA RubricNextKeeps == RubricInv /\ [RubricNext]_rubricVars => RubricInv'
<1>. SUFFICES ASSUME RubricInv, [RubricNext]_rubricVars PROVE RubricInv'
  OBVIOUS
<1>1. CASE UNCHANGED rubricVars
  <2>1. UNCHANGED rubrics /\ UNCHANGED uses /\ UNCHANGED saves /\ UNCHANGED editor
        /\ UNCHANGED requests
    BY <1>1 DEF rubricVars
  <2>. QED
    BY <2>1 DEF RubricInv, RubricsAreWhole, SavesAreAsked, Updating
<1>2. ASSUME NEW e \in Editors,
             \/ ReadCriteria(e, "duplicating", "duplicate")
             \/ ReadCriteria(e, "templating", "template")
             \/ ReadCriteria(e, "assigning", "assign")
      PROVE  RubricInv'
  BY <1>2, ReadCriteriaKeeps DEF EditPcs
<1>3. CASE RubricNext
  BY <1>2, <1>3, CreateRubricKeeps, StartUpdateKeeps, StartsKeep, CommitUpdateKeeps,
     CommitDeleteKeeps, CopiesKeep, CreateAssignmentKeeps, MoveAssignmentKeeps DEF RubricNext
<1>. QED
  BY <1>1, <1>3

LEMMA RubricInvHolds == RubricSpec => []RubricInv
BY RubricStarts, RubricNextKeeps, PTL DEF RubricSpec

\* Rubrics, assignments and requests have their types (services/rubric.py).
THEOREM RubricTypesHold == RubricSpec => []RubricTypeOK
<1>1. RubricInv => RubricTypeOK
  <2>. SUFFICES ASSUME RubricInv PROVE RubricTypeOK
    OBVIOUS
  <2>1. \A r \in DOMAIN rubrics : rubrics[r].template \in BOOLEAN /\ rubrics[r].deleted \in BOOLEAN
    <3>1. rubrics \in Seq(RubricRows(saves))
      BY DEF RubricInv, RubricsAreWhole
    <3>2. \A r \in DOMAIN rubrics : rubrics[r] \in RubricRows(saves)
      BY <3>1
    <3>. QED
      BY <3>2 DEF RubricRows
  <2>2. \A use \in DOMAIN uses :
          /\ uses[use].rubric \in DOMAIN rubrics
          /\ uses[use].status \in {"draft", "complete"} \union BlockingStatuses
    <3>1. uses \in Seq(UseRows(Len(rubrics), saves)) /\ rubrics \in Seq(RubricRows(saves))
      BY DEF RubricInv, RubricsAreWhole
    <3>2. \A use \in DOMAIN uses : uses[use] \in UseRows(Len(rubrics), saves)
      BY <3>1
    <3>3. DOMAIN rubrics = RubricIds(Len(rubrics))
      BY <3>1 DEF RubricIds
    <3>. QED
      BY <3>2, <3>3 DEF UseRows
  <2>3. saves \in 0 .. requests
    BY UpdatingIsFinite DEF RubricInv, SavesAreAsked
  <2>. QED
    BY <2>1, <2>2, <2>3, EditIsTyped DEF RubricTypeOK
<1>. QED
  BY <1>1, RubricInvHolds, PTL

\* Whatever is copied or updated meanwhile, and however often, a rubric, a copy and a
\* snapshot hold whole saves, and the weights of each sum to 100 but for the rounding
\* of the column (services/rubric.py, rubric_template.py, assignment.py).
THEOREM WeightsAreAlwaysWhole == RubricSpec => []WeightsAreWhole
<1>1. RubricInv => WeightsAreWhole
  <2>. SUFFICES ASSUME RubricInv PROVE WeightsAreWhole
    OBVIOUS
  <2>1. \A criteria \in CriteriaSets : Whole(criteria, saves)
    <3>1. rubrics \in Seq(RubricRows(saves)) /\ uses \in Seq(UseRows(Len(rubrics), saves))
      BY DEF RubricInv, RubricsAreWhole
    <3>2. /\ \A r \in DOMAIN rubrics : rubrics[r] \in RubricRows(saves)
          /\ \A use \in DOMAIN uses : uses[use] \in UseRows(Len(rubrics), saves)
      BY <3>1
    <3>. QED
      BY <3>2 DEF CriteriaSets, RubricRows, UseRows
  <2>. SUFFICES ASSUME NEW criteria \in CriteriaSets, NEW save \in SavesIn(criteria), NEW saved,
                       saved = {c \in criteria : c.save = save}
                PROVE  /\ WeightSum(saved) >= 10000
                       /\ WeightSum(saved) <= 10000 + Cardinality(saved)
    BY DEF WeightsAreWhole
  <2>2. PICK draft \in Drafts :
          ValidateWeightSum(draft) /\ SavedAt(criteria, save) = BuildCriteria(draft, save)
    BY <2>1 DEF Whole
  <2>3. saved = BuildCriteria(draft, save) /\ draft \in Seq(Nat \ {0})
    BY <2>2, RubricAssumption DEF SavedAt
  <2>4. /\ WeightSum(BuildCriteria(draft, save)) >= 10000
        /\ WeightSum(BuildCriteria(draft, save))
             <= 10000 + Cardinality(BuildCriteria(draft, save))
    BY <2>2, <2>3, SavedWeightsSum
  <2>5. saved = BuildCriteria(draft, save)
    BY <2>3
  <2>. QED
    BY ONLY <2>4, <2>5
<1>. QED
  BY <1>1, RubricInvHolds, PTL

---------------------------------------------------------------------------
(* ClassInsights: the rows of a screen *)

Skilled == DOMAIN SkillOf

ScoreRow == [mark : Marks, criterion : Skilled, score : LeastScore .. TopScore]

Shares == [r \in ScoreRow |-> NormaliseScore(r.score)]

LEMMA FifthIsInt == Fifth \in Nat /\ Fifth > 0
BY InsightsAssumption DEF Fifth

LEMMA FifthTimes ==
  ASSUME NEW n \in Nat
  PROVE  /\ 3 * Fifth * n \in Int /\ Fifth * n \in Int
         /\ n = 0 => 3 * Fifth * n = 0
<1>1. PICK w \in Int : w = Fifth
  BY FifthIsInt
<1>. QED
  BY <1>1

LEMMA SharesFit == \A r \in ScoreRow : Shares[r] \in 0 .. 5 * Fifth
<1>1. ASSUME NEW score \in LeastScore .. TopScore
      PROVE  NormaliseScore(score) \in 0 .. 5 * Fifth
  BY InsightsAssumption DEF NormaliseScore, Fifth
<1>. QED
  BY <1>1 DEF Shares, ScoreRow

LEMMA BucketsFit ==
  ASSUME NEW share \in 0 .. 5 * Fifth
  PROVE  /\ BucketIndex(share) \in 0 .. 4
         /\ Fifth * BucketIndex(share) <= share
         /\ share <= Fifth * BucketIndex(share) + Fifth
<1>1. CASE share = 5 * Fifth
  BY <1>1, FifthIsInt DEF BucketIndex
<1>2. CASE share # 5 * Fifth
  <2>. DEFINE Fits(b) == b * Fifth <= share /\ share < (b + 1) * Fifth
  <2>1. Fits(0) \/ Fits(1) \/ Fits(2) \/ Fits(3) \/ Fits(4)
    BY <1>2, FifthIsInt
  <2>2. \E b \in 0 .. 4 : Fits(b)
    <3>. HIDE DEF Fits
    <3>. QED
      BY <2>1
  <2>3. BucketIndex(share) = CHOOSE b \in 0 .. 4 : Fits(b)
    BY <1>2 DEF BucketIndex
  <2>4. BucketIndex(share) \in 0 .. 4 /\ Fits(BucketIndex(share))
    <3>. HIDE DEF Fits
    <3>. QED
      BY <2>2, <2>3
  <2>5. PICK b \in 0 .. 4 : b = BucketIndex(share)
    BY <2>4
  <2>6. b * Fifth <= share /\ share < (b + 1) * Fifth
    BY <2>4, <2>5
  <2>7. b = 0 \/ b = 1 \/ b = 2 \/ b = 3 \/ b = 4
    OBVIOUS
  <2>8. Fifth * b <= share /\ share <= Fifth * b + Fifth
    BY <2>6, <2>7, FifthIsInt
  <2>. QED
    BY <2>5, <2>8
<1>. QED
  BY <1>1, <1>2

LEMMA ScoreRowsAreFinite == ASSUME NEW rows \in SUBSET ScoreRow PROVE IsFiniteSet(rows)
<1>. DEFINE T == (Marks \X Skilled) \X (LeastScore .. TopScore)
            h == [x \in T |-> [mark |-> x[1][1], criterion |-> x[1][2], score |-> x[2]]]
<1>1. IsFiniteSet(Marks) /\ IsFiniteSet(Skilled) /\ IsFiniteSet(LeastScore .. TopScore)
  <2>1. LeastScore \in Int /\ TopScore \in Int
    BY InsightsAssumption
  <2>. QED
    BY <2>1, InsightsAssumption, FS_Interval DEF Skilled
<1>2. IsFiniteSet(Marks \X Skilled)
  BY <1>1, FS_Product
<1>3. IsFiniteSet(T)
  BY <1>1, <1>2, FS_Product
<1>4. rows \subseteq {h[x] : x \in T}
  <2>. SUFFICES ASSUME NEW r \in rows PROVE \E x \in T : r = h[x]
    OBVIOUS
  <2>1. r \in ScoreRow
    OBVIOUS
  <2>2. <<<<r.mark, r.criterion>>, r.score>> \in T
    BY <2>1 DEF ScoreRow
  <2>3. r = [mark |-> r.mark, criterion |-> r.criterion, score |-> r.score]
    BY <2>1 DEF ScoreRow
  <2>4. h[<<<<r.mark, r.criterion>>, r.score>>] = r
    BY <2>2, <2>3
  <2>. HIDE DEF h, T
  <2>. QED
    BY <2>2, <2>4
<1>5. IsFiniteSet({h[x] : x \in T})
  <2>. HIDE DEF h, T
  <2>. QED
    BY <1>3, ImageIsFinite
<1>. QED
  BY <1>4, <1>5, FS_Subset

LEMMA SharesSum ==
  ASSUME NEW rows \in SUBSET ScoreRow
  PROVE  /\ SumOfShares(rows) = SumFunctionOnSet(Shares, rows) /\ SumOfShares(rows) \in Int
         /\ IsFiniteSet(rows) /\ Cardinality(rows) \in Nat
         /\ \A r \in rows : Shares[r] \in Int
<1>. DEFINE f == [r \in rows |-> NormaliseScore(r.score)]
<1>1. IsFiniteSet(rows) /\ Cardinality(rows) \in Nat
  BY ScoreRowsAreFinite, FS_CardinalityType
<1>2. \A r \in rows : Shares[r] \in Int /\ Shares[r] = f[r]
  BY SharesFit DEF Shares
<1>3. SumOfShares(rows) = SumFunctionOnSet(f, rows)
  BY DEF SumOfShares, SumFunction
<1>. HIDE DEF f
<1>4. SumFunctionOnSet(Shares, rows) = SumFunctionOnSet(f, rows)
  BY <1>1, <1>2, SumsAreEqual
<1>5. SumFunctionOnSet(Shares, rows) \in Int
  BY <1>1, <1>2, SumIsInt
<1>. QED
  BY <1>1, <1>2, <1>3, <1>4, <1>5

\* Where the average of a skill is a concern, somebody's is.
LEMMA SomebodyIsConcerned ==
  ASSUME NEW own \in SUBSET ScoreRow, Concern(own), NEW K, IsFiniteSet(K),
         \A r \in own : PupilOf[EssayOfMark[r.mark]] \in K
  PROVE  \E s \in K : Concern(OfPupil(own, s))
<1>. SUFFICES ASSUME \A s \in K : ~ Concern(OfPupil(own, s)) PROVE FALSE
  OBVIOUS
<1>. DEFINE h == [r \in own |-> PupilOf[EssayOfMark[r.mark]]]
            border == [r \in own |-> 3 * Fifth]
            scores == [s \in K |-> SumOfShares(OfPupil(own, s))]
            borders == [s \in K |-> 3 * Fifth * Cardinality(OfPupil(own, s))]
<1>1. ASSUME NEW s \in K
      PROVE  /\ OfPupil(own, s) = {r \in own : h[r] = s}
             /\ OfPupil(own, s) \in SUBSET ScoreRow
             /\ IsFiniteSet(OfPupil(own, s))
             /\ scores[s] = SumFunctionOnSet(Shares, {r \in own : h[r] = s})
             /\ borders[s] = SumFunctionOnSet(border, {r \in own : h[r] = s})
             /\ scores[s] \in Int /\ borders[s] \in Int /\ borders[s] <= scores[s]
  <2>1. OfPupil(own, s) = {r \in own : h[r] = s} /\ OfPupil(own, s) \in SUBSET ScoreRow
    BY DEF OfPupil
  <2>2. PICK U : U = OfPupil(own, s)
    OBVIOUS
  <2>3. /\ SumOfShares(U) = SumFunctionOnSet(Shares, U) /\ SumOfShares(U) \in Int
        /\ IsFiniteSet(U) /\ Cardinality(U) \in Nat
    BY <2>1, <2>2, SharesSum
  <2>4. \A r \in U : border[r] = 3 * Fifth
    BY <2>1, <2>2
  <2>5. SumFunctionOnSet(border, U) = 3 * Fifth * Cardinality(U)
    <3>. HIDE DEF border
    <3>1. 3 * Fifth \in Int
      BY FifthIsInt
    <3>. QED
      BY <2>3, <2>4, <3>1, SumOfSame
  <2>6. /\ 3 * Fifth * Cardinality(U) <= SumOfShares(U)
        /\ 3 * Fifth * Cardinality(U) \in Int
    <3>0. PICK n \in Nat, limit \in Int :
            n = Cardinality(U) /\ limit = 3 * Fifth * n /\ (n = 0 => limit = 0)
      BY <2>3, FifthTimes
    <3>1. CASE U = {}
      <4>1. SumOfShares(U) = 0 /\ n = 0
        BY <2>3, <3>0, <3>1, SumOfNone, FS_EmptySet
      <4>2. limit = 0 /\ limit = 3 * Fifth * Cardinality(U)
        BY <3>0, <4>1
      <4>. QED
        BY <4>1, <4>2
    <3>2. CASE U # {}
      <4>1. ~ (SumOfShares(U) < 3 * Fifth * Cardinality(U))
        BY <2>2, <3>2 DEF Concern
      <4>2. ~ (SumOfShares(U) < limit) /\ limit = 3 * Fifth * Cardinality(U)
        BY <3>0, <4>1
      <4>3. limit <= SumOfShares(U)
        BY <2>3, <3>0, <4>2
      <4>. QED
        BY <4>2, <4>3
    <3>. QED
      BY <3>1, <3>2
  <2>7. scores[s] = SumOfShares(U) /\ borders[s] = 3 * Fifth * Cardinality(U)
    BY <2>2
  <2>. HIDE DEF scores, borders, h, border
  <2>. QED
    BY <2>1, <2>2, <2>3, <2>5, <2>6, <2>7
<1>2. /\ SumOfShares(own) = SumFunctionOnSet(Shares, own) /\ IsFiniteSet(own)
      /\ Cardinality(own) \in Nat /\ \A r \in own : Shares[r] \in Int
  BY SharesSum
<1>3. \A r \in own : h[r] \in K /\ border[r] = 3 * Fifth /\ border[r] \in Int
  BY FifthIsInt
<1>. HIDE DEF h, border, scores, borders
<1>4. /\ SumFunctionOnSet(scores, K) = SumFunctionOnSet(Shares, own)
      /\ SumFunctionOnSet(borders, K) = SumFunctionOnSet(border, own)
  <2>1. IsFiniteSet(K) /\ IsFiniteSet(own)
    BY <1>2
  <2>2. /\ \A r \in own : Shares[r] \in Int /\ h[r] \in K
        /\ \A r \in own : border[r] \in Int /\ h[r] \in K
    BY <1>2, <1>3
  <2>3. \A s \in K : \E U : /\ scores[s] = SumFunctionOnSet(Shares, U)
                           /\ \A r : r \in U <=> r \in own /\ h[r] = s
    BY <1>1
  <2>4. \A s \in K : \E U : /\ borders[s] = SumFunctionOnSet(border, U)
                           /\ \A r : r \in U <=> r \in own /\ h[r] = s
    BY <1>1
  <2>5. SumFunctionOnSet(scores, K) = SumFunctionOnSet(Shares, own)
    <3>1. PICK f : f = Shares
      OBVIOUS
    <3>2. \A r \in own : f[r] \in Int /\ h[r] \in K
      BY <2>2, <3>1
    <3>3. \A s \in K : \E U : /\ scores[s] = SumFunctionOnSet(f, U)
                             /\ \A r : r \in U <=> r \in own /\ h[r] = s
      BY <2>3, <3>1
    <3>4. SumFunctionOnSet(scores, K) = SumFunctionOnSet(f, own)
      BY ONLY <2>1, <3>2, <3>3, SumByClass
    <3>. QED
      BY <3>1, <3>4
  <2>6. SumFunctionOnSet(borders, K) = SumFunctionOnSet(border, own)
    BY ONLY <2>1, <2>2, <2>4, SumByClass
  <2>. QED
    BY <2>5, <2>6
<1>6. SumFunctionOnSet(border, own) = 3 * Fifth * Cardinality(own)
  <2>1. 3 * Fifth \in Int
    BY FifthIsInt
  <2>. QED
    BY <1>2, <1>3, <2>1, SumOfSame
<1>7. SumFunctionOnSet(borders, K) <= SumFunctionOnSet(scores, K)
  BY <1>1, SumIsMonotone
<1>8. SumFunctionOnSet(Shares, own) \in Int
  BY <1>2, SumIsInt
<1>9. SumFunctionOnSet(Shares, own) < 3 * Fifth * Cardinality(own)
  BY <1>2 DEF Concern
<1>10. PICK a \in Int, b \in Int : a = SumFunctionOnSet(Shares, own) /\ b = 3 * Fifth * Cardinality(own)
  BY <1>2, <1>8, FifthTimes
<1>11. b <= a
  BY <1>4, <1>6, <1>7, <1>10
<1>12. a < b
  BY <1>9, <1>10
<1>. QED
  BY <1>10, <1>11, <1>12

\* The buckets hold each row once, and the sum of the shares lies between the borders.
LEMMA BucketsHold ==
  ASSUME NEW own \in SUBSET ScoreRow, NEW buckets, buckets = Distribution(own), NEW low,
         low = SumFunction([b \in 0 .. 4 |-> Fifth * b * buckets[b]])
  PROVE  /\ SumFunction(buckets) = Cardinality(own)
         /\ low <= SumOfShares(own) /\ SumOfShares(own) <= low + Fifth * Cardinality(own)
<1>. DEFINE K == 0 .. 4
            h == [r \in own |-> BucketIndex(Shares[r])]
            one == [r \in own |-> 1]
            width == [r \in own |-> Fifth]
            border == [r \in own |-> Fifth * h[r]]
            next == [r \in own |-> border[r] + width[r]]
            borders == [b \in K |-> Fifth * b * buckets[b]]
<1>1. /\ SumOfShares(own) = SumFunctionOnSet(Shares, own) /\ IsFiniteSet(own)
      /\ Cardinality(own) \in Nat /\ \A r \in own : Shares[r] \in Int
  BY SharesSum
<1>2. IsFiniteSet(K)
  <2>1. 0 \in Int /\ 4 \in Int
    OBVIOUS
  <2>. QED
    BY <2>1, FS_Interval
<1>3. ASSUME NEW r \in own
      PROVE  /\ h[r] \in K /\ one[r] = 1 /\ one[r] \in Int /\ width[r] = Fifth /\ width[r] \in Int
             /\ border[r] \in Int /\ next[r] \in Int /\ next[r] = border[r] + width[r]
             /\ border[r] <= Shares[r] /\ Shares[r] <= next[r] /\ border[r] = Fifth * h[r]
  <2>1. PICK share \in 0 .. 5 * Fifth : share = Shares[r]
    BY SharesFit
  <2>2. /\ BucketIndex(share) \in 0 .. 4
        /\ Fifth * BucketIndex(share) <= share /\ share <= Fifth * BucketIndex(share) + Fifth
    BY BucketsFit
  <2>3. h[r] = BucketIndex(share)
    BY <2>1
  <2>4. PICK b \in 0 .. 4 : b = h[r] /\ Fifth * b <= share /\ share <= Fifth * b + Fifth
    BY <2>2, <2>3
  <2>6. Fifth \in Int /\ Fifth * b \in Int
    BY FifthIsInt, FifthTimes
  <2>5. border[r] = Fifth * b /\ next[r] = Fifth * b + Fifth /\ one[r] = 1 /\ width[r] = Fifth
    BY <2>4
  <2>7. PICK low2 \in Int, w \in Int : low2 = Fifth * b /\ w = Fifth
    BY <2>6
  <2>8. border[r] = low2 /\ next[r] = low2 + w /\ low2 <= share /\ share <= low2 + w
    BY <2>4, <2>5, <2>7
  <2>9. border[r] = Fifth * h[r] /\ width[r] = w
    BY <2>4, <2>5, <2>7
  <2>. HIDE DEF h, one, width, border, next
  <2>. QED
    BY ONLY <2>1, <2>4, <2>5, <2>7, <2>8, <2>9
<1>4. ASSUME NEW b \in K
      PROVE  /\ buckets[b] = SumFunctionOnSet(one, {r \in own : h[r] = b})
             /\ borders[b] = SumFunctionOnSet(border, {r \in own : h[r] = b})
  <2>1. PICK U : U = {r \in own : h[r] = b}
    OBVIOUS
  <2>2. IsFiniteSet(U) /\ Cardinality(U) \in Nat
    BY <1>1, <2>1, FS_Subset, FS_CardinalityType
  <2>3. buckets[b] = Cardinality(U)
    <3>1. buckets[b] = Cardinality({r \in own : BucketIndex(NormaliseScore(r.score)) = b})
      BY DEF Distribution
    <3>2. {r \in own : BucketIndex(NormaliseScore(r.score)) = b} = U
      BY <2>1 DEF Shares
    <3>. QED
      BY <3>1, <3>2
  <2>4. /\ \A r \in U : one[r] = 1
        /\ \A r \in U : border[r] = Fifth * b
    BY <2>1
  <2>. HIDE DEF h, one, border
  <2>5. SumFunctionOnSet(one, U) = 1 * Cardinality(U)
    <3>1. 1 \in Int
      OBVIOUS
    <3>. QED
      BY <2>2, <2>4, <3>1, SumOfSame
  <2>6. SumFunctionOnSet(border, U) = (Fifth * b) * Cardinality(U)
    <3>1. PICK k \in Int : k = Fifth * b
      BY FifthIsInt
    <3>2. \A r \in U : border[r] = k
      BY <2>4, <3>1
    <3>3. SumFunctionOnSet(border, U) = k * Cardinality(U)
      BY <2>2, <3>2, SumOfSame
    <3>. QED
      BY <3>1, <3>3
  <2>. QED
    BY <2>1, <2>2, <2>3, <2>5, <2>6
<1>5. SumFunction(buckets) = SumFunctionOnSet(buckets, K) /\ low = SumFunctionOnSet(borders, K)
  BY DEF SumFunction, Distribution
<1>. HIDE DEF K, h, one, width, border, next, borders
<1>6. SumFunctionOnSet(buckets, K) = SumFunctionOnSet(one, own)
  <2>1. IsFiniteSet(K) /\ IsFiniteSet(own) /\ \A r \in own : one[r] \in Int /\ h[r] \in K
    BY <1>1, <1>2, <1>3
  <2>2. \A b \in K : \E U : /\ buckets[b] = SumFunctionOnSet(one, U)
                           /\ \A r : r \in U <=> r \in own /\ h[r] = b
    BY <1>4
  <2>. QED
    BY ONLY <2>1, <2>2, SumByClass
<1>7. SumFunctionOnSet(one, own) = 1 * Cardinality(own)
  <2>1. 1 \in Int
    OBVIOUS
  <2>. QED
    BY <1>1, <1>3, <2>1, SumOfSame
<1>8. SumFunctionOnSet(borders, K) = SumFunctionOnSet(border, own)
  <2>1. IsFiniteSet(K) /\ IsFiniteSet(own) /\ \A r \in own : border[r] \in Int /\ h[r] \in K
    BY <1>1, <1>2, <1>3
  <2>2. \A b \in K : \E U : /\ borders[b] = SumFunctionOnSet(border, U)
                           /\ \A r : r \in U <=> r \in own /\ h[r] = b
    BY <1>4
  <2>. QED
    BY ONLY <2>1, <2>2, SumByClass
<1>9. SumFunctionOnSet(width, own) = Fifth * Cardinality(own)
  <2>1. Fifth \in Int
    BY FifthIsInt
  <2>. QED
    BY <1>1, <1>3, <2>1, SumOfSame
<1>10. SumFunctionOnSet(next, own) = SumFunctionOnSet(border, own) + SumFunctionOnSet(width, own)
  BY <1>1, <1>3, SumIsLinear
<1>11. /\ SumFunctionOnSet(border, own) <= SumFunctionOnSet(Shares, own)
       /\ SumFunctionOnSet(Shares, own) <= SumFunctionOnSet(next, own)
  BY <1>1, <1>3, SumIsMonotone
<1>12. SumFunctionOnSet(border, own) \in Int /\ SumFunctionOnSet(Shares, own) \in Int
  BY <1>1, <1>3, SumIsInt
<1>. QED
  BY <1>1, <1>5, <1>6, <1>7, <1>8, <1>9, <1>10, <1>11, <1>12

\* The criteria of a skill sum up to the skill.
LEMMA CriteriaSumUp ==
  ASSUME NEW rows \in SUBSET ScoreRow, NEW k, NEW own, own = {c \in Skilled : SkillOf[c] = k}
  PROVE  SumFunction([c \in own |-> CriterionAnalytics(rows, c).sum]) = SkillAverage(rows, k).sum
<1>. DEFINE T == InSkill(rows, k)
            h == [r \in T |-> r.criterion]
            sums == [c \in own |-> CriterionAnalytics(rows, c).sum]
<1>1. IsFiniteSet(own)
  BY InsightsAssumption, FS_Subset DEF Skilled
<1>2. T \in SUBSET ScoreRow /\ \A r \in T : h[r] \in own
  BY DEF InSkill, ScoreRow
<1>3. ASSUME NEW c \in own
      PROVE  \E U : /\ sums[c] = SumFunctionOnSet(Shares, U)
                   /\ \A r : r \in U <=> r \in T /\ h[r] = c
  <2>1. PICK U : U = {r \in rows : r.criterion = c}
    OBVIOUS
  <2>2. U \in SUBSET ScoreRow /\ sums[c] = SumOfShares(U)
    BY <2>1 DEF CriterionAnalytics
  <2>3. SumOfShares(U) = SumFunctionOnSet(Shares, U)
    BY <2>2, SharesSum
  <2>4. \A r : r \in U <=> r \in T /\ h[r] = c
    BY <2>1 DEF InSkill
  <2>. QED
    BY <2>2, <2>3, <2>4
<1>4. SumFunction(sums) = SumFunctionOnSet(sums, own) /\ SkillAverage(rows, k).sum = SumOfShares(T)
  BY DEF SumFunction, SkillAverage
<1>. HIDE DEF T, h, sums
<1>5. /\ SumOfShares(T) = SumFunctionOnSet(Shares, T) /\ IsFiniteSet(T)
      /\ \A r \in T : Shares[r] \in Int
  BY <1>2, SharesSum
<1>6. SumFunctionOnSet(sums, own) = SumFunctionOnSet(Shares, T)
  <2>1. PICK f : f = Shares
    OBVIOUS
  <2>2. \A r \in T : f[r] \in Int /\ h[r] \in own
    BY <1>2, <1>5, <2>1
  <2>3. \A c \in own : \E U : /\ sums[c] = SumFunctionOnSet(f, U)
                             /\ \A r : r \in U <=> r \in T /\ h[r] = c
    BY <1>3, <2>1
  <2>4. IsFiniteSet(T)
    BY <1>5
  <2>5. SumFunctionOnSet(sums, own) = SumFunctionOnSet(f, T)
    BY ONLY <1>1, <2>2, <2>3, <2>4, SumByClass
  <2>. QED
    BY <2>1, <2>5
<1>. QED
  BY <1>4, <1>5, <1>6 DEF sums

---------------------------------------------------------------------------
(* ClassInsights: the inductive invariant *)

Mark == [locked : BOOLEAN, settled : BOOLEAN, total : Int,
         scores : [Skilled -> LeastScore .. TopScore]]

Pending == [mark : Marks, criterion : Skilled, score : LeastScore .. TopScore, loaded : Mark]

ViewTypes == [op : {"none", "insights", "analytics", "csv"},
              pc : {"idle", "counted", "totals", "shown"}, lockedEssays : Nat,
              rows : SUBSET ScoreRow, totals : SUBSET [mark : Marks, total : Int]]

LockedMarks == {m \in Marks : marks[m].locked}

LockedOnes == {EssayOfMark[m] : m \in LockedMarks}

InsightsTypes ==
  /\ marks \in [Marks -> Mark]
  /\ overrides \in SUBSET Pending
  /\ view \in ViewTypes
  /\ budget \in [regrades : Nat, views : Nat]
  /\ downloads \in Nat
  /\ downloads + budget.views + (IF view.pc = "totals" THEN 1 ELSE 0) <= Views

\* What was counted is still locked, and its scores are among those read since.
CountsFit ==
  /\ view.pc = "counted" => view.op = "analytics" /\ view.lockedEssays <= Cardinality(LockedOnes)
  /\ view.op = "analytics" /\ view.pc = "shown"
       => view.lockedEssays <= Cardinality({EssayOfMark[r.mark] : r \in view.rows})

\* No override under way is of a grade that was locked without one.
SettledRest ==
  \A m \in Marks : marks[m].settled => marks[m].locked /\ \A e \in overrides : e.mark # m

\* What is exported was locked when it was read, and stands if it was settled.
ExportsFit ==
  /\ view.pc = "totals" => view.op = "csv"
  /\ view.op = "csv" =>
       \A r \in view.totals : /\ marks[r.mark].locked
                              /\ marks[r.mark].settled => r.total = marks[r.mark].total
  /\ view.op = "csv" /\ view.pc = "shown" =>
       \A r \in view.rows :
         /\ marks[r.mark].locked
         /\ marks[r.mark].settled => r.score = marks[r.mark].scores[r.criterion]

InsightsInv == InsightsTypes /\ CountsFit /\ SettledRest /\ ExportsFit

---------------------------------------------------------------------------

LEMMA MarksSum ==
  ASSUME NEW scores \in [Skilled -> LeastScore .. TopScore]
  PROVE  SumOfScores(scores) \in Int
<1>1. IsFiniteSet(Skilled) /\ DOMAIN scores = Skilled /\ \A c \in Skilled : scores[c] \in Int
  BY InsightsAssumption DEF Skilled
<1>. QED
  BY <1>1, SumIsInt DEF SumOfScores, SumFunction

LEMMA InsightsStart == InsightsInit => InsightsInv
<1>. SUFFICES ASSUME InsightsInit PROVE InsightsInv
  OBVIOUS
<1>1. PICK scores \in MarkScores, before \in MarkScores :
        marks = [m \in Marks |-> [locked |-> FALSE, settled |-> FALSE,
                                  total |-> SumOfScores(before[m]), scores |-> scores[m]]]
  BY DEF InsightsInit
<1>2. /\ scores \in [Marks -> [Skilled -> LeastScore .. TopScore]]
      /\ before \in [Marks -> [Skilled -> LeastScore .. TopScore]]
  BY InsightsAssumption DEF Skilled
<1>3. marks \in [Marks -> Mark] /\ \A m \in Marks : ~ marks[m].settled
  <2>. SUFFICES ASSUME NEW m \in Marks
                PROVE  [locked |-> FALSE, settled |-> FALSE, total |-> SumOfScores(before[m]),
                        scores |-> scores[m]] \in Mark
    BY <1>1
  <2>1. SumOfScores(before[m]) \in Int /\ scores[m] \in [Skilled -> LeastScore .. TopScore]
    BY <1>2, MarksSum
  <2>. QED
    BY <2>1 DEF Mark
<1>4. view = NoView /\ overrides = {} /\ downloads = 0 /\ budget = [regrades |-> Regrades, views |-> Views]
  BY DEF InsightsInit
<1>5. view \in ViewTypes /\ view.pc = "idle" /\ view.op = "none"
  BY <1>4 DEF NoView, ViewTypes
<1>6. Regrades \in Nat /\ Views \in Nat
  BY InsightsAssumption
<1>7. InsightsTypes
  BY <1>3, <1>4, <1>5, <1>6 DEF InsightsTypes
<1>. QED
  BY <1>3, <1>5, <1>7 DEF InsightsInv, CountsFit, SettledRest, ExportsFit

LEMMA LockedAreFinite ==
  ASSUME NEW S \in SUBSET Marks
  PROVE  /\ IsFiniteSet({EssayOfMark[m] : m \in S})
         /\ Cardinality({EssayOfMark[m] : m \in S}) \in Nat
<1>1. IsFiniteSet(S)
  BY InsightsAssumption, FS_Subset
<1>2. IsFiniteSet({EssayOfMark[m] : m \in S})
  BY <1>1, ImageIsFinite
<1>. QED
  BY <1>2, FS_CardinalityType

\* The rows that are read are score rows of the locked grades; there are some for each.
LEMMA RowsAreRead ==
  ASSUME InsightsInv
  PROVE  /\ ScoreRows \in SUBSET ScoreRow
         /\ {EssayOfMark[r.mark] : r \in ScoreRows} = LockedOnes
<1>1. \A m \in Marks : marks[m].scores \in [Skilled -> LeastScore .. TopScore]
  BY DEF InsightsInv, InsightsTypes, Mark
<1>2. ASSUME NEW m \in Marks, NEW c \in Skilled
      PROVE  [mark |-> m, criterion |-> c, score |-> marks[m].scores[c]] \in ScoreRow
  BY <1>1 DEF ScoreRow
<1>3. ScoreRows \in SUBSET ScoreRow
  BY <1>2 DEF ScoreRows, Skilled
<1>4. PICK c \in Skilled : TRUE
  BY InsightsAssumption DEF Skilled
<1>5. \A r \in ScoreRows : r.mark \in LockedMarks
  BY DEF ScoreRows, LockedMarks
<1>6. \A m \in LockedMarks : \E r \in ScoreRows : r.mark = m
  <2>. SUFFICES ASSUME NEW m \in LockedMarks PROVE \E r \in ScoreRows : r.mark = m
    OBVIOUS
  <2>1. PICK r : r = [mark |-> m, criterion |-> c, score |-> marks[m].scores[c]]
    OBVIOUS
  <2>2. r \in ScoreRows
    BY <1>4, <2>1 DEF ScoreRows, LockedMarks, Skilled
  <2>. QED
    BY <2>1, <2>2
<1>. QED
  BY <1>3, <1>5, <1>6 DEF LockedOnes

LEMMA StartOverrideMarkKeeps ==
  ASSUME InsightsInv, NEW m \in Marks, NEW c \in Skilled, NEW score \in LeastScore .. TopScore,
         StartOverrideMark(m, c, score)
  PROVE  InsightsInv'
<1>1. /\ marks \in [Marks -> Mark] /\ overrides \in SUBSET Pending
      /\ marks' = marks /\ view' = view /\ downloads' = downloads
      /\ budget \in [regrades : Nat, views : Nat]
      /\ budget' = [budget EXCEPT !.regrades = @ - 1] /\ budget.regrades > 0
      /\ ~ marks[m].locked
  BY DEF InsightsInv, InsightsTypes, StartOverrideMark
<1>2. PICK e : e = [mark |-> m, criterion |-> c, score |-> score, loaded |-> marks[m]]
  OBVIOUS
<1>3. overrides' = overrides \union {e} /\ e.mark = m
  BY <1>2 DEF StartOverrideMark
<1>4. e \in Pending
  <2>1. marks[m] \in Mark
    BY <1>1
  <2>. HIDE DEF Mark
  <2>. QED
    BY <1>2, <2>1 DEF Pending
<1>5. budget' \in [regrades : Nat, views : Nat] /\ budget'.views = budget.views
  BY <1>1
<1>6. InsightsTypes'
  BY <1>1, <1>3, <1>4, <1>5 DEF InsightsInv, InsightsTypes
<1>7. SettledRest'
  BY <1>1, <1>3 DEF InsightsInv, SettledRest
<1>8. CountsFit' /\ ExportsFit'
  BY <1>1 DEF InsightsInv, CountsFit, ExportsFit, LockedOnes, LockedMarks
<1>. QED
  BY <1>6, <1>7, <1>8 DEF InsightsInv

LEMMA CommitOverrideMarkKeeps ==
  ASSUME InsightsInv, NEW e \in overrides, CommitOverrideMark(e)
  PROVE  InsightsInv'
<1>1. /\ marks \in [Marks -> Mark] /\ overrides \in SUBSET Pending /\ e \in Pending
      /\ view' = view /\ downloads' = downloads /\ budget' = budget
      /\ overrides' = overrides \ {e}
  BY DEF InsightsInv, InsightsTypes, CommitOverrideMark
<1>2. /\ e.mark \in Marks /\ e.criterion \in Skilled /\ e.score \in LeastScore .. TopScore
      /\ e.loaded.scores \in [Skilled -> LeastScore .. TopScore]
  BY <1>1 DEF Pending, Mark
<1>3. PICK m \in Marks, c \in Skilled : m = e.mark /\ c = e.criterion
  BY <1>2
<1>4. PICK mark \in Mark : mark = marks[m]
  BY <1>1
<1>5. PICK score \in LeastScore .. TopScore :
        score = IF e.score = e.loaded.scores[c] THEN mark.scores[c] ELSE e.score
  <2>1. mark.scores[c] \in LeastScore .. TopScore
    BY DEF Mark
  <2>. QED
    BY <1>2, <2>1
<1>6. PICK scores \in [Skilled -> LeastScore .. TopScore] : scores = [mark.scores EXCEPT ![c] = score]
  <2>1. mark.scores \in [Skilled -> LeastScore .. TopScore]
    BY DEF Mark
  <2>2. [mark.scores EXCEPT ![c] = score] \in [Skilled -> LeastScore .. TopScore]
    BY <2>1
  <2>. QED
    BY <2>2
<1>7. PICK sum \in Int : sum = SumOfScores(e.loaded.scores)
  BY <1>2, MarksSum
<1>8. PICK total \in Int : total = IF sum = e.loaded.total THEN mark.total ELSE sum
  <2>1. mark.total \in Int
    BY DEF Mark
  <2>. QED
    BY <2>1
<1>9. PICK mark2 : mark2 = [mark EXCEPT !.scores = scores, !.total = total]
  OBVIOUS
<1>10. mark2 \in Mark /\ mark2.locked = mark.locked /\ mark2.settled = mark.settled
  BY <1>6, <1>8, <1>9 DEF Mark
<1>11. marks' = [marks EXCEPT ![m] = mark2]
  <2>1. marks' = [marks EXCEPT ![m].scores[c] = score, ![m].total = total]
    BY <1>1, <1>3, <1>4, <1>5, <1>7, <1>8 DEF CommitOverrideMark
  <2>. QED
    BY <1>1, <1>4, <1>6, <1>9, <2>1
<1>12. /\ marks' \in [Marks -> Mark]
       /\ marks'[m].locked = marks[m].locked /\ marks'[m].settled = marks[m].settled
       /\ \A n \in Marks : n # m => marks'[n] = marks[n]
  <2>. HIDE DEF Mark
  <2>. QED
    BY <1>1, <1>4, <1>10, <1>11
<1>13. ~ marks[m].settled
  BY <1>3 DEF InsightsInv, SettledRest
<1>14. InsightsTypes'
  BY <1>1, <1>12 DEF InsightsInv, InsightsTypes
<1>15. CountsFit'
  <2>1. LockedMarks' = LockedMarks
    BY <1>12 DEF LockedMarks
  <2>. QED
    BY <1>1, <2>1 DEF InsightsInv, CountsFit, LockedOnes
<1>16. SettledRest'
  BY <1>1, <1>12 DEF InsightsInv, SettledRest
<1>17. ExportsFit'
  <2>1. \A r \in view.totals \union view.rows : r.mark \in Marks
    BY DEF InsightsInv, InsightsTypes, ViewTypes, ScoreRow
  <2>. QED
    BY <1>1, <1>12, <1>13, <2>1 DEF InsightsInv, ExportsFit
<1>. QED
  BY <1>14, <1>15, <1>16, <1>17 DEF InsightsInv

LEMMA DropOverrideMarkKeeps ==
  ASSUME InsightsInv, NEW e \in overrides, DropOverrideMark(e)
  PROVE  InsightsInv'
<1>1. /\ marks' = marks /\ view' = view /\ downloads' = downloads /\ budget' = budget
      /\ overrides' = overrides \ {e}
  BY DEF DropOverrideMark
<1>2. InsightsTypes' /\ SettledRest'
  BY <1>1 DEF InsightsInv, InsightsTypes, SettledRest
<1>3. CountsFit' /\ ExportsFit'
  BY <1>1 DEF InsightsInv, CountsFit, ExportsFit, LockedOnes, LockedMarks
<1>. QED
  BY <1>2, <1>3 DEF InsightsInv

LEMMA LockMarkKeeps ==
  ASSUME InsightsInv, NEW m \in Marks, LockMark(m)
  PROVE  InsightsInv'
<1>1. /\ marks \in [Marks -> Mark] /\ view' = view /\ downloads' = downloads /\ budget' = budget
      /\ overrides' = overrides /\ ~ marks[m].locked
      /\ marks' = [marks EXCEPT ![m].locked = TRUE,
                               ![m].settled = \A e \in overrides : e.mark # m]
  BY DEF InsightsInv, InsightsTypes, LockMark
<1>2. /\ marks' \in [Marks -> Mark]
      /\ \A n \in Marks : /\ marks'[n].total = marks[n].total /\ marks'[n].scores = marks[n].scores
                          /\ marks[n].locked => marks'[n].locked
                          /\ n # m => marks'[n] = marks[n]
      /\ marks'[m].locked /\ (marks'[m].settled <=> \A e \in overrides : e.mark # m)
  <2>1. PICK settled \in BOOLEAN : settled <=> \A e \in overrides : e.mark # m
    OBVIOUS
  <2>2. marks' = [marks EXCEPT ![m].locked = TRUE, ![m].settled = settled]
    BY <1>1, <2>1
  <2>3. PICK mark, mark2 : /\ mark \in Mark /\ mark = marks[m]
                           /\ mark2 = [mark EXCEPT !.locked = TRUE, !.settled = settled]
    BY <1>1
  <2>4. /\ mark2 \in Mark /\ mark2.locked /\ mark2.settled = settled
        /\ mark2.total = mark.total /\ mark2.scores = mark.scores
    BY <2>3 DEF Mark
  <2>5. marks' = [marks EXCEPT ![m] = mark2] /\ marks \in [Marks -> Mark] /\ m \in Marks
    BY <1>1, <2>2, <2>3
  <2>. HIDE DEF Mark
  <2>6. /\ marks' \in [Marks -> Mark] /\ marks'[m] = mark2
        /\ \A n \in Marks : n # m => marks'[n] = marks[n]
    BY ONLY <2>4, <2>5
  <2>7. marks'[m].locked /\ marks'[m].settled = settled
    BY <2>4, <2>6
  <2>9. marks'[m].settled <=> \A e \in overrides : e.mark # m
    BY ONLY <2>1, <2>7, Zenon
  <2>8. ASSUME NEW n \in Marks
        PROVE  /\ marks'[n].total = marks[n].total /\ marks'[n].scores = marks[n].scores
               /\ marks[n].locked => marks'[n].locked
               /\ n # m => marks'[n] = marks[n]
    <3>1. CASE n = m
      BY <1>1, <2>3, <2>4, <2>6, <3>1
    <3>2. CASE n # m
      BY <2>6, <3>2
    <3>. QED
      BY <3>1, <3>2
  <2>. QED
    BY <2>6, <2>7, <2>8, <2>9
<1>3. InsightsTypes'
  BY <1>1, <1>2 DEF InsightsInv, InsightsTypes
<1>4. LockedMarks \subseteq LockedMarks'
  BY <1>2 DEF LockedMarks
<1>5. PICK S \in SUBSET Marks, S2 \in SUBSET Marks : S = LockedMarks /\ S2 = LockedMarks'
  BY DEF LockedMarks
<1>6. /\ Cardinality({EssayOfMark[n] : n \in S}) <= Cardinality({EssayOfMark[n] : n \in S2})
      /\ Cardinality({EssayOfMark[n] : n \in S}) \in Nat
      /\ Cardinality({EssayOfMark[n] : n \in S2}) \in Nat
  <2>1. {EssayOfMark[n] : n \in S} \subseteq {EssayOfMark[n] : n \in S2}
    BY <1>4, <1>5
  <2>. QED
    BY <2>1, LockedAreFinite, FS_Subset
<1>7. CountsFit'
  <2>1. Cardinality(LockedOnes) <= Cardinality(LockedOnes')
        /\ Cardinality(LockedOnes) \in Nat /\ Cardinality(LockedOnes') \in Nat
    BY <1>5, <1>6 DEF LockedOnes
  <2>2. view.lockedEssays \in Nat
    BY DEF InsightsInv, InsightsTypes, ViewTypes
  <2>. QED
    BY <1>1, <2>1, <2>2 DEF InsightsInv, CountsFit
<1>8. \A r \in view.totals \union view.rows : r.mark \in Marks
  BY DEF InsightsInv, InsightsTypes, ViewTypes, ScoreRow
<1>9. ExportsFit'
  BY <1>1, <1>2, <1>8 DEF InsightsInv, ExportsFit
<1>10. SettledRest'
  BY <1>1, <1>2 DEF InsightsInv, SettledRest
<1>. QED
  BY <1>3, <1>7, <1>9, <1>10 DEF InsightsInv

LEMMA AskKeeps ==
  ASSUME InsightsInv, NEW state, state \in ViewTypes, state.pc # "totals" \/ state.op = "csv",
         AskView(state)
  PROVE  InsightsTypes' /\ SettledRest' /\ UNCHANGED <<marks, overrides>> /\ view' = state
<1>1. /\ marks' = marks /\ overrides' = overrides /\ downloads' = downloads /\ view' = state /\ view.pc # "totals"
      /\ budget.views > 0 /\ budget' = [budget EXCEPT !.views = @ - 1]
      /\ budget \in [regrades : Nat, views : Nat] /\ downloads \in Nat /\ Views \in Nat
      /\ downloads + budget.views <= Views
  BY InsightsAssumption DEF InsightsInv, InsightsTypes, AskView
<1>2. /\ budget' \in [regrades : Nat, views : Nat] /\ budget'.views = budget.views - 1
      /\ budget.views \in Nat
  BY <1>1
<1>. QED
  BY <1>1, <1>2 DEF InsightsInv, InsightsTypes, SettledRest

LEMMA ViewFields ==
  ASSUME NEW op, NEW pc, NEW essays, NEW rows, NEW totals
  PROVE  /\ [NoView EXCEPT !.op = op, !.pc = pc, !.rows = rows]
              = [op |-> op, pc |-> pc, lockedEssays |-> 0, rows |-> rows, totals |-> {}]
         /\ [NoView EXCEPT !.op = op, !.pc = pc, !.lockedEssays = essays]
              = [op |-> op, pc |-> pc, lockedEssays |-> essays, rows |-> {}, totals |-> {}]
         /\ [NoView EXCEPT !.op = op, !.pc = pc, !.totals = totals]
              = [op |-> op, pc |-> pc, lockedEssays |-> 0, rows |-> {}, totals |-> totals]
<1>. DEFINE fields == {"op", "pc", "lockedEssays", "rows", "totals"}
<1>1. PICK v : v = [NoView EXCEPT !.op = op, !.pc = pc, !.rows = rows]
  OBVIOUS
<1>2. /\ v.op = op /\ v.pc = pc /\ v.lockedEssays = 0 /\ v.rows = rows /\ v.totals = {}
      /\ v = [x \in fields |-> v[x]]
  BY <1>1 DEF NoView
<1>3. v = [op |-> op, pc |-> pc, lockedEssays |-> 0, rows |-> rows, totals |-> {}]
  BY <1>2
<1>4. PICK w : w = [NoView EXCEPT !.op = op, !.pc = pc, !.lockedEssays = essays]
  OBVIOUS
<1>5. /\ w.op = op /\ w.pc = pc /\ w.lockedEssays = essays /\ w.rows = {} /\ w.totals = {}
      /\ w = [x \in fields |-> w[x]]
  BY <1>4 DEF NoView
<1>6. w = [op |-> op, pc |-> pc, lockedEssays |-> essays, rows |-> {}, totals |-> {}]
  BY <1>5
<1>7. PICK u : u = [NoView EXCEPT !.op = op, !.pc = pc, !.totals = totals]
  OBVIOUS
<1>8. /\ u.op = op /\ u.pc = pc /\ u.lockedEssays = 0 /\ u.rows = {} /\ u.totals = totals
      /\ u = [x \in fields |-> u[x]]
  BY <1>7 DEF NoView
<1>9. u = [op |-> op, pc |-> pc, lockedEssays |-> 0, rows |-> {}, totals |-> totals]
  BY <1>8
<1>. QED
  BY <1>1, <1>3, <1>4, <1>6, <1>7, <1>9

LEMMA GetClassInsightsKeeps == ASSUME InsightsInv, GetClassInsights PROVE InsightsInv'
<1>1. PICK rows : rows = ScoreRows
  OBVIOUS
<1>2. rows \in SUBSET ScoreRow
  BY <1>1, RowsAreRead
<1>3. PICK state : state = [op |-> "insights", pc |-> "shown", lockedEssays |-> 0, rows |-> rows,
                           totals |-> {}]
  OBVIOUS
<1>4. AskView(state)
  BY <1>1, <1>3, ViewFields DEF GetClassInsights
<1>5. state \in ViewTypes /\ state.pc = "shown" /\ state.op = "insights"
  <2>. HIDE DEF ScoreRow
  <2>. QED
    BY <1>2, <1>3 DEF ViewTypes
<1>6. InsightsTypes' /\ SettledRest' /\ view' = state
  BY <1>4, <1>5, AskKeeps
<1>. QED
  BY <1>5, <1>6 DEF InsightsInv, CountsFit, ExportsFit

LEMMA CountLockedEssaysKeeps == ASSUME InsightsInv, CountLockedEssays PROVE InsightsInv'
<1>1. PICK n \in Nat : n = Cardinality(LockedOnes)
  <2>1. PICK S \in SUBSET Marks : S = LockedMarks
    BY DEF LockedMarks
  <2>. QED
    BY <2>1, LockedAreFinite DEF LockedOnes
<1>2. PICK state : state = [op |-> "analytics", pc |-> "counted", lockedEssays |-> n, rows |-> {},
                           totals |-> {}]
  OBVIOUS
<1>3. AskView(state)
  BY <1>1, <1>2, ViewFields DEF CountLockedEssays, LockedOnes, LockedMarks
<1>4. state \in ViewTypes /\ state.pc = "counted" /\ state.op = "analytics" /\ state.lockedEssays = n
  BY <1>2 DEF ViewTypes
<1>5. InsightsTypes' /\ SettledRest' /\ view' = state /\ marks' = marks
  BY <1>3, <1>4, AskKeeps
<1>. QED
  BY <1>1, <1>4, <1>5 DEF InsightsInv, CountsFit, ExportsFit, LockedOnes, LockedMarks

LEMMA ReadMarksKeeps == ASSUME InsightsInv, ReadMarks PROVE InsightsInv'
<1>1. PICK totals : totals = {[mark |-> m, total |-> marks[m].total] : m \in LockedMarks}
  OBVIOUS
<1>2. /\ totals \in SUBSET [mark : Marks, total : Int]
      /\ \A r \in totals : marks[r.mark].locked /\ r.total = marks[r.mark].total
  BY <1>1 DEF InsightsInv, InsightsTypes, Mark, LockedMarks
<1>3. PICK state : state = [op |-> "csv", pc |-> "totals", lockedEssays |-> 0, rows |-> {},
                           totals |-> totals]
  OBVIOUS
<1>4. AskView(state)
  BY <1>1, <1>3, ViewFields DEF ReadMarks, LockedMarks
<1>5. state \in ViewTypes /\ state.pc = "totals" /\ state.op = "csv" /\ state.totals = totals
  BY <1>2, <1>3 DEF ViewTypes
<1>6. InsightsTypes' /\ SettledRest' /\ view' = state /\ marks' = marks
  BY <1>4, <1>5, AskKeeps
<1>. QED
  BY <1>2, <1>5, <1>6 DEF InsightsInv, CountsFit, ExportsFit

LEMMA ReadScoreRowsKeeps == ASSUME InsightsInv, ReadScoreRows PROVE InsightsInv'
<1>1. PICK rows : rows = ScoreRows
  OBVIOUS
<1>2. rows \in SUBSET ScoreRow /\ {EssayOfMark[r.mark] : r \in rows} = LockedOnes
  BY <1>1, RowsAreRead
<1>3. /\ view.pc = "counted" /\ view.op = "analytics" /\ view \in ViewTypes
      /\ view.lockedEssays <= Cardinality(LockedOnes)
      /\ view' = [view EXCEPT !.pc = "shown", !.rows = rows]
      /\ marks' = marks /\ overrides' = overrides
      /\ downloads' = downloads /\ budget' = budget
  BY <1>1 DEF InsightsInv, InsightsTypes, CountsFit, ReadScoreRows
<1>4. /\ view' \in ViewTypes /\ view'.pc = "shown" /\ view'.op = "analytics"
      /\ view'.rows = rows /\ view'.lockedEssays = view.lockedEssays
  <2>. HIDE DEF ScoreRow
  <2>. QED
    BY <1>2, <1>3 DEF ViewTypes
<1>5. InsightsTypes'
  BY <1>3, <1>4 DEF InsightsInv, InsightsTypes
<1>6. CountsFit'
  BY <1>2, <1>3, <1>4 DEF CountsFit
<1>. QED
  BY <1>3, <1>4, <1>5, <1>6 DEF InsightsInv, ExportsFit, SettledRest

LEMMA ReadColumnsKeeps == ASSUME InsightsInv, ReadColumns PROVE InsightsInv'
<1>1. PICK totals : totals = view.totals
  OBVIOUS
<1>. DEFINE rows == {[mark |-> r.mark, criterion |-> c, score |-> marks[r.mark].scores[c]] :
                       r \in totals, c \in Skilled}
<1>2. view.pc = "totals" /\ view \in ViewTypes /\ view.op = "csv"
  BY DEF InsightsInv, InsightsTypes, ReadColumns, ExportsFit
<1>8. /\ view' = [view EXCEPT !.pc = "shown", !.rows = rows]
      /\ downloads' = downloads + 1 /\ marks' = marks /\ overrides' = overrides
      /\ budget' = budget
  BY <1>1 DEF ReadColumns, Skilled
<1>3. \A r \in totals : r.mark \in Marks
  BY <1>1, <1>2 DEF ViewTypes
<1>9. \A r \in totals : marks[r.mark].locked
  BY <1>1, <1>2 DEF InsightsInv, ExportsFit
<1>10. \A r \in totals : marks[r.mark].settled => r.total = marks[r.mark].total
  BY <1>1, <1>2 DEF InsightsInv, ExportsFit
<1>4. ASSUME NEW r \in totals, NEW c \in Skilled, NEW row,
             row = [mark |-> r.mark, criterion |-> c, score |-> marks[r.mark].scores[c]]
      PROVE  /\ row \in ScoreRow /\ marks[row.mark].locked
             /\ row.score = marks[row.mark].scores[row.criterion]
  <2>1. r.mark \in Marks /\ marks[r.mark].locked
    BY <1>3, <1>9
  <2>2. marks[r.mark].scores \in [Skilled -> LeastScore .. TopScore]
    BY <2>1 DEF InsightsInv, InsightsTypes, Mark
  <2>3. marks[r.mark].scores[c] \in LeastScore .. TopScore
    BY <2>2
  <2>. QED
    BY <1>4, <2>1, <2>3 DEF ScoreRow
<1>5. /\ rows \in SUBSET ScoreRow
      /\ \A r \in rows : marks[r.mark].locked /\ r.score = marks[r.mark].scores[r.criterion]
  <2>. SUFFICES ASSUME NEW row \in rows
                PROVE  /\ row \in ScoreRow /\ marks[row.mark].locked
                       /\ row.score = marks[row.mark].scores[row.criterion]
    OBVIOUS
  <2>1. PICK r \in totals, c \in Skilled :
          row = [mark |-> r.mark, criterion |-> c, score |-> marks[r.mark].scores[c]]
    OBVIOUS
  <2>. QED
    BY <1>4, <2>1
<1>. HIDE DEF rows
<1>6. /\ view' \in ViewTypes /\ view'.pc = "shown" /\ view'.op = "csv"
      /\ view'.rows = rows /\ view'.totals = totals
  <2>. HIDE DEF ScoreRow
  <2>. QED
    BY <1>1, <1>2, <1>5, <1>8 DEF ViewTypes
<1>7. InsightsTypes'
  <2>1. downloads \in Nat /\ budget \in [regrades : Nat, views : Nat] /\ Views \in Nat
    BY InsightsAssumption DEF InsightsInv, InsightsTypes
  <2>2. downloads + budget.views + 1 <= Views
    BY <1>2 DEF InsightsInv, InsightsTypes
  <2>. QED
    BY <1>6, <1>8, <2>1, <2>2 DEF InsightsInv, InsightsTypes
<1>. QED
  BY <1>3, <1>9, <1>10, <1>5, <1>6, <1>7, <1>8 DEF InsightsInv, CountsFit, SettledRest, ExportsFit

LEMMA InsightsNextKeeps == InsightsInv /\ [InsightsNext]_insightsVars => InsightsInv'
<1>. SUFFICES ASSUME InsightsInv, [InsightsNext]_insightsVars PROVE InsightsInv'
  OBVIOUS
<1>1. CASE UNCHANGED insightsVars
  <2>1. UNCHANGED marks /\ UNCHANGED overrides /\ UNCHANGED view /\ UNCHANGED downloads /\ UNCHANGED budget
    BY <1>1 DEF insightsVars
  <2>2. InsightsTypes' /\ SettledRest' /\ ExportsFit'
    BY <2>1 DEF InsightsInv, InsightsTypes, SettledRest, ExportsFit
  <2>3. CountsFit'
    BY <2>1 DEF InsightsInv, CountsFit, LockedOnes, LockedMarks
  <2>. QED
    BY <2>2, <2>3 DEF InsightsInv
<1>2. CASE InsightsNext
  BY <1>2, StartOverrideMarkKeeps, CommitOverrideMarkKeeps, DropOverrideMarkKeeps, LockMarkKeeps, GetClassInsightsKeeps, CountLockedEssaysKeeps,
     ReadScoreRowsKeeps, ReadMarksKeeps, ReadColumnsKeeps DEF InsightsNext, Skilled
<1>. QED
  BY <1>1, <1>2

LEMMA InsightsInvHolds == InsightsSpec => []InsightsInv
BY InsightsStart, InsightsNextKeeps, PTL DEF InsightsSpec

\* Grades and requests have their types (services/class_insights.py).
THEOREM InsightsTypesHold == InsightsSpec => []InsightsTypeOK
<1>1. InsightsInv => InsightsTypeOK
  <2>. SUFFICES ASSUME InsightsInv PROVE InsightsTypeOK
    OBVIOUS
  <2>1. \A m \in Marks : marks[m].scores \in [DOMAIN SkillOf -> LeastScore .. TopScore]
    BY DEF InsightsInv, InsightsTypes, Mark, Skilled
  <2>4. \A e \in overrides : e.mark \in Marks /\ e.criterion \in DOMAIN SkillOf
    BY DEF InsightsInv, InsightsTypes, Pending, Skilled
  <2>2. /\ view.op \in {"none", "insights", "analytics", "csv"}
        /\ view.pc \in {"idle", "counted", "totals", "shown"}
    BY DEF InsightsInv, InsightsTypes, ViewTypes
  <2>3. downloads \in 0 .. Views
    BY InsightsAssumption DEF InsightsInv, InsightsTypes
  <2>. QED
    BY <2>1, <2>2, <2>3, <2>4 DEF InsightsTypeOK
<1>. QED
  BY <1>1, InsightsInvHolds, PTL

\* Whatever is overridden or locked between the statements, a common issue is somebody's,
\* the buckets hold each score once and bound the average, the analytics count no essay
\* whose scores they do not show and sum up to the insights, and a line of the CSV is of a
\* locked grade and is what the grade still says, unless an override of it was under way when
\* it was locked (services/class_insights.py, assignment_analytics.py, export.py).
THEOREM ScreensAlwaysAgree == InsightsSpec => []ScreensAgree
<1>1. InsightsInv => ScreensAgree
  <2>. SUFFICES ASSUME InsightsInv PROVE ScreensAgree
    OBVIOUS
  <2>1. PICK rows \in SUBSET ScoreRow : rows = view.rows
    BY DEF InsightsInv, InsightsTypes, ViewTypes
  <2>2. ASSUME NEW issue \in CommonIssues(rows)
        PROVE  issue.affected > 0
    <3>. DEFINE K == {PupilOf[EssayOfMark[r.mark]] : r \in rows}
                Affected(k) == {s \in K : Concern(OfPupil(InSkill(rows, k), s))}
    <3>1. PICK k : Concern(InSkill(rows, k)) /\ issue.affected = Cardinality(Affected(k))
      BY DEF CommonIssues
    <3>2. PICK own : own = InSkill(rows, k)
      OBVIOUS
    <3>3. own \in SUBSET ScoreRow /\ \A r \in own : PupilOf[EssayOfMark[r.mark]] \in K
      BY <3>2 DEF InSkill
    <3>4. IsFiniteSet(K)
      <4>. DEFINE h == [r \in rows |-> PupilOf[EssayOfMark[r.mark]]]
      <4>1. K = {h[r] : r \in rows} /\ IsFiniteSet(rows)
        BY ScoreRowsAreFinite
      <4>. HIDE DEF h, K
      <4>. QED
        BY <4>1, ImageIsFinite
    <3>. HIDE DEF K
    <3>5. PICK s \in K : Concern(OfPupil(own, s))
      BY <3>1, <3>2, <3>3, <3>4, SomebodyIsConcerned
    <3>6. s \in Affected(k) /\ IsFiniteSet(Affected(k))
      BY <3>2, <3>4, <3>5, FS_Subset
    <3>. HIDE DEF Affected
    <3>7. Cardinality(Affected(k)) \in Nat /\ Cardinality(Affected(k)) # 0
      BY <3>6, FS_CardinalityType, FS_EmptySet
    <3>. QED
      BY <3>1, <3>7
  <2>3. ASSUME NEW k, NEW average, average = SkillAverage(rows, k), NEW low,
               low = SumFunction([b \in 0 .. 4 |-> Fifth * b * average.buckets[b]])
        PROVE  /\ SumFunction(average.buckets) = average.points
               /\ low <= average.sum /\ average.sum <= low + Fifth * average.points
    <3>1. PICK own : own = InSkill(rows, k)
      OBVIOUS
    <3>2. own \in SUBSET ScoreRow
      BY <3>1 DEF InSkill
    <3>3. PICK buckets : buckets = Distribution(own)
      OBVIOUS
    <3>4. /\ average.buckets = buckets /\ average.points = Cardinality(own)
          /\ average.sum = SumOfShares(own)
      BY <2>3, <3>1, <3>3 DEF SkillAverage
    <3>5. low = SumFunction([b \in 0 .. 4 |-> Fifth * b * buckets[b]])
      BY <2>3, <3>4
    <3>6. /\ SumFunction(buckets) = Cardinality(own)
          /\ low <= SumOfShares(own) /\ SumOfShares(own) <= low + Fifth * Cardinality(own)
      BY <3>2, <3>3, <3>5, BucketsHold
    <3>. QED
      BY <3>4, <3>6
  <2>4. IssuesAreSomeones
    BY <2>1, <2>2, <2>3 DEF IssuesAreSomeones
  <2>5. \A k : LET own == {c \in DOMAIN SkillOf : SkillOf[c] = k}
               IN SumFunction([c \in own |-> CriterionAnalytics(rows, c).sum])
                    = SkillAverage(rows, k).sum
    BY CriteriaSumUp DEF Skilled
  <2>6. AnalyticsMatchInsights
    BY <2>1, <2>5 DEF InsightsInv, CountsFit, AnalyticsMatchInsights
  <2>7. ExportedGradesAreFinal
    BY DEF InsightsInv, ExportsFit, ExportedGradesAreFinal
  <2>. QED
    BY <2>4, <2>6, <2>7 DEF ScreensAgree
<1>. QED
  BY <1>1, InsightsInvHolds, PTL
===========================================================================
