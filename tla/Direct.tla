------------------------------- MODULE Direct -------------------------------
(***************************************************************************)
(* The direct conversation of two users from its creation on.  Either user *)
(* may ask for it, on several devices at once: createDM looks for the row  *)
(* with the dm_key of the pair, and if there is none inserts it with both  *)
(* members in one transaction, which only the unique index on dm_key keeps *)
(* apart.  Once the row is committed the conversation is the one Timeline  *)
(* describes.                                                              *)
(***************************************************************************)
EXTENDS Timeline

CONSTANT Creators  \* requests that create the conversation of the pair

ASSUME CreatorsAssumption == ConvType = "dm" /\ None \notin Creators

VARIABLES
  dm,      \* the creator of the committed row with the dm_key of the pair
  dmLock,  \* the creator whose uncommitted row holds that key in the index
  step,    \* how far each creator is
  answer   \* how it was answered, and with which conversation

create     == <<dm, dmLock, step, answer>>
directVars == <<vars, create>>

Unanswered == [code |-> "none", dm |-> None]

DirectInit ==
  /\ members = [u \in Users |-> NoRow]
  /\ conv = NewConv(0)
  /\ Quiet
  /\ dm = None /\ dmLock = None
  /\ step = [c \in Creators |-> "idle"]
  /\ answer = [c \in Creators |-> Unanswered]

GoOn(c, stage) == step' = [step EXCEPT ![c] = stage]

AnswerCreator(c, code, id) ==
  /\ GoOn(c, "done")
  /\ answer' = [answer EXCEPT ![c] = [code |-> code, dm |-> id]]

\* FindByDMKey, outside the transaction: a row that exists is the answer.  The
\* client asks again after a conflict or an error.
FindByDMKey(c) ==
  /\ step[c] = "idle" \/ answer[c].code \in {"conflict", "error"}
  /\ IF dm = None
       THEN GoOn(c, "missing") /\ answer' = [answer EXCEPT ![c] = Unanswered]
       ELSE AnswerCreator(c, "ok", dm)
  /\ UNCHANGED <<vars, dm, dmLock>>

\* Mutation: there is no unique index on dm_key.
InsertConversationTwice(c) ==
  /\ step[c] = "missing"
  /\ GoOn(c, "inserted") /\ dmLock' = c /\ UNCHANGED <<answer, vars, dm>>

\* The INSERT waits for an uncommitted row with the same key; a committed one
\* makes it a conflict.
InsertConversation(c) ==
  /\ step[c] = "missing"
  /\ dmLock = None
  /\ IF dm = None
       THEN GoOn(c, "inserted") /\ dmLock' = c /\ UNCHANGED answer
       ELSE AnswerCreator(c, "conflict", None) /\ UNCHANGED dmLock
  /\ UNCHANGED <<vars, dm>>

\* The rows of both members, then COMMIT.  The process may die before it has
\* answered: the client hears of a failure although the conversation is there.
CommitConversation(c) ==
  /\ step[c] = "inserted"
  /\ dm' = c /\ dmLock' = None
  /\ conv' = NewConv(2)
  /\ members' = [u \in Users |-> NewMember("member")]
  /\ AnswerCreator(c, "ok", c) \/ AnswerCreator(c, "error", None)
  /\ UNCHANGED <<messages, rowLock, pc, arg, proc, outcome, published>>

\* Mutation: the transaction of a failed creation stays open.
FailCreateKeepsLock(c) ==
  /\ step[c] \in {"missing", "inserted"}
  /\ AnswerCreator(c, "error", None)
  /\ UNCHANGED <<vars, dm, dmLock>>

\* An error before the commit: an open transaction rolls back.
FailCreate(c) ==
  /\ step[c] \in {"missing", "inserted"}
  /\ dmLock' = IF dmLock = c THEN None ELSE dmLock
  /\ AnswerCreator(c, "error", None)
  /\ UNCHANGED <<vars, dm>>

CreateDM(c) == FindByDMKey(c) \/ InsertConversation(c) \/ CommitConversation(c)

DirectNext ==
  \/ \E c \in Creators : CreateDM(c) \/ FailCreate(c)
  \/ dm # None /\ Next /\ UNCHANGED create

DirectSpec == DirectInit /\ [][DirectNext]_directVars

\* A goroutine that serves a request keeps running, as in Timeline.  The lock
\* queue of the database is first come, first served: an INSERT that waits is
\* not overtaken for ever by those that come after it.
FairDirectSpec ==
  /\ DirectSpec
  /\ \A r \in Requests : WF_directVars(Serve(r) /\ dm # None /\ UNCHANGED create)
  /\ \A c \in Creators : /\ WF_directVars(CommitConversation(c))
                         /\ SF_directVars(InsertConversation(c))
-----------------------------------------------------------------------------
(* Properties.                                                             *)

\* However many creations overlap, fail and are repeated, the pair has one
\* conversation: every creator that is told of one is told of that one, a
\* conflict is only reported when the conversation exists, so that asking again
\* finds it, and nobody meets it before both users are its members.
PairHasOneConversation ==
  /\ \A c \in Creators : answer[c].code = "ok" => answer[c].dm = dm /\ dm # None
  /\ \A c \in Creators : answer[c].code = "conflict" => dm # None
  /\ dm # None => Active = Users /\ conv.memberCount = 2
  /\ dm = None => Active = {} /\ Seqs = {}

\* A creator that waits for another one's row is answered, also when that
\* creation fails.
CreatorsAnswered == \A c \in Creators : step[c] = "missing" ~> step[c] = "done"
=============================================================================
