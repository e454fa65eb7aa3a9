--------------------------- MODULE MediaComments ---------------------------
(***************************************************************************)
(* Recorded comments on grades: rows of media_comments and the recordings  *)
(* in S3 they name, recorded, banked, applied to other grades and deleted  *)
(* (services/media_comment.py).                                            *)
(*                                                                         *)
(* Keys of recordings are numbered as they are made up. Rows are numbered  *)
(* as they are committed.                                                  *)
(***************************************************************************)
EXTENDS Integers, Sequences, FiniteSets

CONSTANTS
  Recorders,   \* request handlers
  MediaCalls,  \* bound: requests
  MediaFaults  \* bound: failures of S3 or the database, handlers that die

ASSUME MediaAssumption == MediaCalls \in Nat /\ MediaFaults \in Nat

VARIABLES
  comments,   \* rows of media_comments
  recordings, \* keys that exist in S3
  keys,       \* keys made up so far
  recorder,   \* handler -> where its request is
  unwanted,   \* history: comments whose deletion was asked for
  leftover,   \* history: keys of requests that failed half way
  chances     \* what remains of the bounds

mediaVars == <<comments, recordings, keys, recorder, unwanted, leftover, chances>>

---------------------------------------------------------------------------

Comment(key) == [key |-> key, banked |-> FALSE]

NoRecording == [pc |-> "idle", key |-> 0, source |-> 0]

MediaInit ==
  /\ comments = <<>>
  /\ recordings = {} /\ unwanted = {} /\ leftover = {}
  /\ keys = 0
  /\ recorder = [r \in Recorders |-> NoRecording]
  /\ chances = [calls |-> MediaCalls, faults |-> MediaFaults]

Call ==
  /\ chances.calls > 0
  /\ chances' = [chances EXCEPT !.calls = @ - 1]

Mishap ==
  /\ chances.faults > 0
  /\ chances' = [chances EXCEPT !.faults = @ - 1]

EndCall(r) == recorder' = [recorder EXCEPT ![r] = NoRecording]

\* A request that fails leaves the object it has made, if it has made one.
GiveUp(r) ==
  /\ EndCall(r)
  /\ leftover' = leftover \union {recorder[r].key}

---------------------------------------------------------------------------
(* Recording, and applying a banked comment to another grade *)

StartRecording(r) ==
  /\ recorder[r].pc = "idle" /\ Call
  /\ keys' = keys + 1
  /\ recorder' = [recorder EXCEPT ![r] = [pc |-> "upload", key |-> keys', source |-> 0]]
  /\ UNCHANGED <<comments, recordings, unwanted, leftover>>

UploadFile(r) ==
  /\ recorder[r].pc = "upload"
  /\ recorder' = [recorder EXCEPT ![r].pc = "commit"]
  /\ recordings' = recordings \union {recorder[r].key}
  /\ UNCHANGED <<comments, keys, unwanted, leftover, chances>>

\* Mutant: the new row names the object of the source.
StartApplyShared(r, c) ==
  /\ recorder[r].pc = "idle" /\ Call
  /\ comments[c].banked
  /\ recorder' = [recorder EXCEPT ![r] = [pc |-> "copy", key |-> comments[c].key,
                                          source |-> comments[c].key]]
  /\ UNCHANGED <<comments, recordings, keys, unwanted, leftover>>

StartApply(r, c) ==
  /\ recorder[r].pc = "idle" /\ Call
  /\ comments[c].banked
  /\ keys' = keys + 1
  /\ recorder' = [recorder EXCEPT ![r] = [pc |-> "copy", key |-> keys',
                                          source |-> comments[c].key]]
  /\ UNCHANGED <<comments, recordings, unwanted, leftover>>

\* The object of the source may be gone: 500.
CopyFile(r) ==
  /\ recorder[r].pc = "copy"
  /\ IF recorder[r].source \in recordings
     THEN /\ recorder' = [recorder EXCEPT ![r].pc = "commit"]
          /\ recordings' = recordings \union {recorder[r].key}
     ELSE EndCall(r) /\ UNCHANGED recordings
  /\ UNCHANGED <<comments, keys, unwanted, leftover, chances>>

CommitComment(r) ==
  /\ recorder[r].pc = "commit"
  /\ comments' = Append(comments, Comment(recorder[r].key))
  /\ EndCall(r)
  /\ UNCHANGED <<recordings, keys, unwanted, leftover, chances>>

\* The database refuses the row, and the object is removed again.
CommitFails(r) ==
  /\ recorder[r].pc = "commit"
  /\ Mishap
  /\ recorder' = [recorder EXCEPT ![r].pc = "cleanup"]
  /\ UNCHANGED <<comments, recordings, keys, unwanted, leftover>>

CleanUpRecording(r) ==
  /\ recorder[r].pc = "cleanup"
  /\ recordings' = recordings \ {recorder[r].key}
  /\ EndCall(r)
  /\ UNCHANGED <<comments, keys, unwanted, leftover, chances>>

---------------------------------------------------------------------------
(* Other requests *)

SaveToBank(c) ==
  /\ ~comments[c].banked /\ Call
  /\ comments' = [comments EXCEPT ![c].banked = TRUE]
  /\ UNCHANGED <<recordings, keys, recorder, unwanted, leftover>>

\* db.delete of an AsyncSession is a coroutine that nothing awaits: the commit
\* deletes nothing, the row stays, and the object goes.
StartDeleteComment(r, c) ==
  /\ recorder[r].pc = "idle" /\ Call
  /\ recorder' = [recorder EXCEPT ![r] = [pc |-> "delete", key |-> comments[c].key, source |-> 0]]
  /\ unwanted' = unwanted \union {c}
  /\ UNCHANGED <<comments, recordings, keys, leftover>>

DeleteFile(r) ==
  /\ recorder[r].pc = "delete"
  /\ recordings' = recordings \ {recorder[r].key}
  /\ EndCall(r)
  /\ UNCHANGED <<comments, keys, unwanted, leftover, chances>>

\* S3 fails, or the handler dies: the request ends where it is.
RecorderFails(r) ==
  /\ recorder[r].pc # "idle"
  /\ Mishap
  /\ GiveUp(r)
  /\ UNCHANGED <<comments, recordings, keys, unwanted>>

MediaNext ==
  \/ \E r \in Recorders :
       \/ StartRecording(r) \/ UploadFile(r)
       \/ CopyFile(r) \/ CommitComment(r) \/ CommitFails(r) \/ CleanUpRecording(r)
       \/ DeleteFile(r)
       \/ \E c \in DOMAIN comments : StartApply(r, c) \/ StartDeleteComment(r, c)
       \/ RecorderFails(r)
  \/ \E c \in DOMAIN comments : SaveToBank(c)

MediaSpec == MediaInit /\ [][MediaNext]_mediaVars

---------------------------------------------------------------------------
(* Properties *)

\* Rows, keys and requests have their types.
MediaTypeOK ==
  /\ keys \in Nat
  /\ comments \in Seq([key : 1 .. keys, banked : BOOLEAN])
  /\ recordings \union leftover \subseteq 1 .. keys
  /\ unwanted \subseteq DOMAIN comments
  /\ \A r \in Recorders :
       /\ recorder[r].pc \in {"idle", "upload", "copy", "commit", "cleanup", "delete"}
       /\ recorder[r].key \in 0 .. keys

\* A comment can be played until its own deletion is asked for, whatever
\* happens to the comment it was copied from; and an object no comment names is
\* in the hands of a request, or was left by one that failed.
CommentsCanBePlayed ==
  /\ \A c \in DOMAIN comments \ unwanted : comments[c].key \in recordings
  /\ \A key \in recordings \ leftover :
       \/ \E c \in DOMAIN comments : comments[c].key = key
       \/ \E r \in Recorders : recorder[r].key = key
=============================================================================
