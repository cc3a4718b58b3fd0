------------------------------ MODULE MediaStore ------------------------------
(***************************************************************************)
(* Uploaded objects and the rows that refer to them: messages with media,  *)
(* and avatars of users and groups (services/storage_service.py, router/   *)
(* attachments.py, and their callers).  Nothing counts the references: a   *)
(* deletion of messages erases the objects first and then commits, a new   *)
(* avatar is committed first and the old one erased afterwards, and the    *)
(* deletion of a direct conversation erases nothing.                       *)
(* Uploads here have the random name that upload_file makes up; those with *)
(* a name of the client's choice are left out.                             *)
(***************************************************************************)
EXTENDS FiniteSets

CONSTANTS
  Objects,
  Letters,  \* messages of one conversation
  Avatars,  \* users and groups, each with its avatar
  Jobs      \* requests ever made

ASSUME MediaAssumption == "none" \notin Objects /\ Letters \cap Avatars = {}

VARIABLES
  bucket,    \* the objects in the bucket
  media,     \* Letters \cup Avatars -> the object it refers to, or "none"
  letter,    \* Letters -> "absent", "live", "deleted" for everyone, or "cleared"
  job,       \* Jobs -> what a request does, and what it has read
  uploaded,  \* history: the objects ever uploaded,
  used,      \* history: those ever referred to,
  reused,    \* history: and those a second row was made to refer to
  undone,    \* history: objects erased by a request that failed to commit
  leaked     \* history: objects that were not erased when their row went: the storage
             \* failed, the request was cut, the row changed behind its back, or delete_dm

mediaVars == <<bucket, media, letter, job, uploaded, used, reused, undone, leaked>>

JobStates ==
  [step : {"new", "erase", "commit", "refresh", "cleanup", "done"},
   op : {"none", "delete", "clear", "avatar"},
   rows : SUBSET (Letters \cup Avatars),
   list : SUBSET Objects,     \* to be erased, as read
   erased : SUBSET Objects,
   new : Objects \cup {"none"}]

NewJob == [step |-> "new", op |-> "none", rows |-> {}, list |-> {}, erased |-> {}, new |-> "none"]

MediaInit ==
  /\ bucket = {}
  /\ media = [h \in Letters \cup Avatars |-> "none"]
  /\ letter = [m \in Letters |-> "absent"]
  /\ job = [j \in Jobs |-> NewJob]
  /\ uploaded = {} /\ used = {} /\ reused = {} /\ undone = {} /\ leaked = {}

\* The objects the rows refer to.
MediaOf(rows) == {media[h] : h \in rows} \ {"none"}

Live == {m \in Letters : letter[m] = "live"}

Use(O) ==
  /\ used' = used \cup O
  /\ reused' = reused \cup (O \cap used)

Become(j, step) == job' = [job EXCEPT ![j].step = step]
Conclude(j) == job' = [job EXCEPT ![j] = [NewJob EXCEPT !.step = "done"]]

-----------------------------------------------------------------------------

Upload(o) ==
  /\ o \notin uploaded
  /\ bucket' = bucket \cup {o}
  /\ uploaded' = uploaded \cup {o}
  /\ UNCHANGED <<media, letter, job, used, reused, undone, leaked>>

\* create_message takes any URL; bulk_forward_messages the one of the original.
Post(m, o) ==
  /\ letter[m] = "absent"
  /\ o \in uploaded
  /\ letter' = [letter EXCEPT ![m] = "live"]
  /\ media' = [media EXCEPT ![m] = o]
  /\ Use({o})
  /\ UNCHANGED <<bucket, job, uploaded, undone, leaked>>

\* message_deleted_for_everyone of one, bulk_delete_messages of several.
ReadDelete(j, M) ==
  /\ job[j].step = "new"
  /\ M # {} /\ M \subseteq Live
  /\ job' = [job EXCEPT ![j] = [NewJob EXCEPT !.op = "delete", !.step = "erase",
                                              !.rows = M, !.list = MediaOf(M)]]
  /\ UNCHANGED <<bucket, media, letter, uploaded, used, reused, undone, leaked>>

ReadClear(j) ==
  /\ job[j].step = "new"
  /\ job' = [job EXCEPT ![j] = [NewJob EXCEPT !.op = "clear", !.step = "erase",
                                              !.list = MediaOf(Letters)]]
  /\ UNCHANGED <<bucket, media, letter, uploaded, used, reused, undone, leaked>>

\* delete_media_by_url; an error of the storage is swallowed by delete_file.
Erase(j) ==
  /\ job[j].step = "erase" /\ job[j].list # {}
  /\ \E o \in job[j].list :
       /\ \/ bucket' = bucket \ {o} /\ UNCHANGED leaked
          \/ o \in bucket /\ leaked' = leaked \cup {o} /\ UNCHANGED bucket
       /\ job' = [job EXCEPT ![j].list = @ \ {o}, ![j].erased = @ \cup {o}]
  /\ UNCHANGED <<media, letter, uploaded, used, reused, undone>>

\* clear_chat deletes every row there is by now, also those it did not read; the
\* update of a row that is gone fails (UndoDeletion).
CommitDeletion(j) ==
  LET there == {m \in Letters : letter[m] \in {"live", "deleted"}}
      rows == IF job[j].op = "delete" THEN job[j].rows ELSE there
  IN /\ job[j].step = "erase" /\ job[j].list = {}
     /\ rows \subseteq there
     /\ letter' = [m \in Letters |-> IF m \notin rows THEN letter[m]
                                     ELSE IF job[j].op = "delete" THEN "deleted" ELSE "cleared"]
     /\ media' = [h \in DOMAIN media |-> IF h \in rows THEN "none" ELSE media[h]]
     /\ leaked' = leaked \cup (MediaOf(rows) \ job[j].erased)
     /\ Conclude(j)
     /\ UNCHANGED <<bucket, uploaded, used, reused, undone>>

\* The commit fails, or the process dies before it: the rows stay.
UndoDeletion(j) ==
  /\ job[j].step = "erase"
  /\ undone' = undone \cup job[j].erased
  /\ Conclude(j)
  /\ UNCHANGED <<bucket, media, letter, uploaded, used, reused, leaked>>

\* delete_dm: the messages go with their conversation, for good, and nobody reads which
\* objects they refer to.
DeleteDirect ==
  /\ letter' = [m \in Letters |-> "cleared"]
  /\ media' = [h \in DOMAIN media |-> IF h \in Letters THEN "none" ELSE media[h]]
  /\ leaked' = leaked \cup MediaOf(Letters)
  /\ UNCHANGED <<bucket, job, uploaded, used, reused, undone>>

-----------------------------------------------------------------------------
(* update_my_profile and patch_conversation.                               *)

ReadAvatar(j, a, o) ==
  /\ job[j].step = "new"
  /\ o \in uploaded \cup {"none"}
  /\ job' = [job EXCEPT ![j] = [NewJob EXCEPT !.op = "avatar", !.step = "commit", !.rows = {a},
                                              !.list = MediaOf({a}), !.new = o]]
  /\ UNCHANGED <<bucket, media, letter, uploaded, used, reused, undone, leaked>>

\* The column is written only if the new value is not the one that was read.
CommitAvatar(j) ==
  /\ job[j].step = "commit"
  /\ IF job[j].list = {job[j].new} \ {"none"}
     THEN UNCHANGED <<media, used, reused, leaked>>
     ELSE /\ media' = [h \in DOMAIN media |-> IF h \in job[j].rows THEN job[j].new ELSE media[h]]
          /\ Use({job[j].new} \ {"none"})
          /\ leaked' = leaked \cup (MediaOf(job[j].rows) \ job[j].list)
  /\ Become(j, "refresh")
  /\ UNCHANGED <<bucket, letter, uploaded, undone>>

\* MUTANT of Refresh: what was read is erased whatever the row says.
RefreshBlindly(j) ==
  /\ job[j].step = "refresh"
  /\ Become(j, "cleanup")
  /\ UNCHANGED <<bucket, media, letter, uploaded, used, reused, undone, leaked>>

\* The row is read again; its old object is erased if it has another by now.
Refresh(j) ==
  /\ job[j].step = "refresh"
  /\ IF job[j].list \subseteq MediaOf(job[j].rows) THEN Conclude(j) ELSE Become(j, "cleanup")
  /\ UNCHANGED <<bucket, media, letter, uploaded, used, reused, undone, leaked>>

\* The background task, after the reply.
Cleanup(j) ==
  /\ job[j].step = "cleanup"
  /\ \/ bucket' = bucket \ job[j].list /\ UNCHANGED leaked
     \/ leaked' = leaked \cup job[j].list /\ UNCHANGED bucket
  /\ Conclude(j)
  /\ UNCHANGED <<media, letter, uploaded, used, reused, undone>>

\* The request fails, or the process dies before the background task runs.
LoseAvatar(j) ==
  /\ job[j].step \in {"commit", "refresh", "cleanup"}
  /\ leaked' = IF job[j].step = "commit" THEN leaked ELSE leaked \cup job[j].list
  /\ Conclude(j)
  /\ UNCHANGED <<bucket, media, letter, uploaded, used, reused, undone>>

MediaNext ==
  \/ \E o \in Objects : Upload(o) \/ \E m \in Letters : Post(m, o)
  \/ \E j \in Jobs :
       \/ \E M \in SUBSET Letters : ReadDelete(j, M)
       \/ \E a \in Avatars, o \in Objects \cup {"none"} : ReadAvatar(j, a, o)
       \/ ReadClear(j) \/ Erase(j) \/ CommitDeletion(j) \/ UndoDeletion(j)
       \/ CommitAvatar(j) \/ Refresh(j) \/ Cleanup(j) \/ LoseAvatar(j)
  \/ DeleteDirect

MediaSpec == MediaInit /\ [][MediaNext]_mediaVars

-----------------------------------------------------------------------------

\* Every variable holds a value of its type.
MediaTypeOK ==
  /\ bucket \subseteq uploaded /\ uploaded \subseteq Objects /\ used \subseteq uploaded
  /\ media \in [Letters \cup Avatars -> Objects \cup {"none"}]
  /\ letter \in [Letters -> {"absent", "live", "deleted", "cleared"}]
  /\ job \in [Jobs -> JobStates]
  /\ reused \cup undone \cup leaked \subseteq used

\* Bucket and rows agree, whatever deletions and new avatars overlap.  A row
\* refers to an erased object only if a second row was made to refer to it (a
\* forward, an avatar set back), or the deletion that erased it is still to
\* commit or failed to.  An object no row refers to any more is erased or will
\* be, unless the storage failed, the request was cut, another request changed
\* the row after this one had read it, or the row went with its conversation:
\* delete_dm erases none of the objects, and this is the property's one exception
\* that needs neither a failure nor a race.
MediaMatchesRows ==
  /\ \A h \in Letters \cup Avatars :
       \/ media[h] \in bucket \cup {"none"}
       \/ media[h] \in reused \cup undone
       \/ \E j \in Jobs : media[h] \in job[j].erased
  /\ \A o \in (used \cap bucket) \ MediaOf(Letters \cup Avatars) :
       \/ o \in leaked
       \/ \E j \in Jobs : o \in job[j].list
===============================================================================
