------------------------------- MODULE Media -------------------------------
(***************************************************************************)
(* The attachments of the media module.  A presign draws an id, inserts a  *)
(* pending row under it and returns an upload URL for the object whose key *)
(* contains the id; a commit reads the row and saves it as committed.      *)
(* Requests are served by any of the processes.  Whether an object has     *)
(* been uploaded is never asked, so that uploads are no part of the model. *)
(***************************************************************************)
EXTENDS Ids

CONSTANTS
  Requests,   \* one presigns or commits an attachment
  Uploaders,  \* users
  None

ASSUME MediaAssumption == None \notin Requests \cup Uploaders

VARIABLES
  rows,    \* the attachment rows by id: the presign that made them, uploader,
           \* status
  stage,   \* how far each request is
  job,     \* what it does, and for which user
  target   \* the id it drew or was told; -1: none

mediaVars == <<rows, stage, job, target>>

NoJob  == [op |-> "none", user |-> None]
Stored == DOMAIN rows

MediaInit ==
  /\ rows = [id \in {} |-> None]
  /\ stage = [r \in Requests |-> "idle"]
  /\ job = [r \in Requests |-> NoJob]
  /\ target = [r \in Requests |-> -1]

MoveTo(r, s)    == stage' = [stage EXCEPT ![r] = s]

\* An error: what the request knew is gone.
Refuse(r) ==
  /\ MoveTo(r, "failed")
  /\ job' = [job EXCEPT ![r] = NoJob]
  /\ target' = [target EXCEPT ![r] = -1]

Doing(r, op, s) == job[r].op = op /\ stage[r] = s

-----------------------------------------------------------------------------
(* AttachmentService.Presign                                               *)

NewestId(p) == Encode(lastMs[p], NodeOf[p], sequence[p])

\* NextID gives an id, or an error when the clock has been set back.
PresignDraw(r) == \E u \in Uploaders, p \in Processes :
  /\ stage[r] = "idle"
  /\ \/ /\ NextID(p)
        /\ job' = [job EXCEPT ![r] = [op |-> "presign", user |-> u]]
        /\ target' = [target EXCEPT ![r] = NewestId(p)']
        /\ MoveTo(r, "drawn")
     \/ Refuses(p) /\ Refuse(r) /\ UNCHANGED idVars
  /\ UNCHANGED rows

WithRow(r) ==
  [id \in Stored \cup {target[r]} |->
     IF id = target[r] THEN [by |-> r, uploader |-> job[r].user,
                             status |-> "pending"]
     ELSE rows[id]]

\* Mutation: biz_id has no unique index.
PresignCreateAgain(r) ==
  /\ Doing(r, "presign", "drawn")
  /\ rows' = WithRow(r) /\ MoveTo(r, "created")
  /\ UNCHANGED <<idVars, job, target>>

\* Create: the unique index refuses an id that is in use.
PresignCreate(r) ==
  /\ Doing(r, "presign", "drawn")
  /\ IF target[r] \in Stored
       THEN Refuse(r) /\ UNCHANGED rows
       ELSE rows' = WithRow(r) /\ MoveTo(r, "created") /\ UNCHANGED <<job, target>>
  /\ UNCHANGED idVars

\* PresignPut, and the answer with id and URL.
PresignSign(r) ==
  /\ Doing(r, "presign", "created")
  /\ MoveTo(r, "ok")
  /\ UNCHANGED <<idVars, rows, job, target>>

-----------------------------------------------------------------------------
(* AttachmentService.Commit                                                *)

\* FindByID: the row must be there and be the user's; a committed one is done.
CommitLoad(r) == \E u \in Uploaders, id \in Stored :
  /\ stage[r] = "idle"
  /\ \/ rows[id].uploader # u /\ Refuse(r)
     \/ /\ rows[id].uploader = u
        /\ job' = [job EXCEPT ![r] = [op |-> "commit", user |-> u]]
        /\ target' = [target EXCEPT ![r] = id]
        /\ MoveTo(r, IF rows[id].status = "committed" THEN "ok" ELSE "found")
  /\ UNCHANGED <<idVars, rows>>

\* The UPDATE, and the answer; which is lost when the process stops, or an error
\* when the database applies the UPDATE and its own answer is lost.
CommitSave(r) ==
  /\ Doing(r, "commit", "found")
  /\ rows' = [rows EXCEPT ![target[r]].status = "committed"]
  /\ MoveTo(r, "ok") \/ MoveTo(r, "lost")
  /\ UNCHANGED <<idVars, job, target>>

\* The input is refused after the id has been drawn, the object store does not
\* sign, or the process stops: a row that has been inserted stays pending.
Abort(r) ==
  /\ stage[r] \in {"drawn", "created", "found"}
  /\ Refuse(r)
  /\ UNCHANGED <<idVars, rows>>

\* What the generators do on their own.
Surroundings ==
  /\ \E p \in Processes : Exhausted(p) \/ TickClock(p) \/ SetBack(p)
                            \/ RestartGenerator(p)
  /\ UNCHANGED mediaVars

MediaNext ==
  \/ \E r \in Requests : \/ PresignDraw(r) \/ PresignCreate(r) \/ PresignSign(r)
                         \/ CommitLoad(r) \/ CommitSave(r) \/ Abort(r)
  \/ Surroundings

MediaSpec == IdsInit /\ MediaInit /\ [][MediaNext]_<<idVars, mediaVars>>
-----------------------------------------------------------------------------
(* Properties.                                                             *)

\* An id that a presign has answered with names the attachment of that presign
\* and of its user for ever, also when a generator hands the id out again; and
\* an attachment is committed by its uploader only, whether or not the commit was
\* answered.
AttachmentsKeepOwner ==
  /\ \A r \in Requests : Doing(r, "presign", "ok") =>
       /\ target[r] \in Stored
       /\ rows[target[r]].by = r
       /\ rows[target[r]].uploader = job[r].user
  /\ \A id \in Stored : rows[id].status = "committed" =>
       \E r \in Requests : /\ Doing(r, "commit", "ok") \/ Doing(r, "commit", "lost")
                           /\ target[r] = id /\ job[r].user = rows[id].uploader
=============================================================================
