------------------------------ MODULE Timeline ------------------------------
(***************************************************************************)
(* One conversation of the messaging module: its row in `conversations`,   *)
(* its rows in `conversation_members` and its timeline in `messages`,      *)
(* written by concurrent HTTP requests.                                    *)
(*                                                                         *)
(* A request is a sequence of database calls.  What MessageService and     *)
(* ConversationService read OUTSIDE their transaction is kept as a         *)
(* snapshot (`loaded`, `member`) and written back, column by column, by    *)
(* conversations.Save and SaveMember inside it.  The transaction of a send *)
(* or a recall is two steps: seqAllocator.Next, which takes the lock of    *)
(* the conversation row, and the rest up to COMMIT.  The transactions of   *)
(* AddMember and RemoveMember reach the conversation row last and are one  *)
(* step, taken when that row is not locked.                                *)
(***************************************************************************)
EXTENDS Integers, FiniteSets

CONSTANTS
  Requests,    \* requests; one creates at most one message and is its biz_id
  Users,       \* the user members the conversation may have
  Owner,       \* its creator
  Moderators,  \* users whose workspace role grants message.recall
  ClientIds,   \* values of client_msg_id
  ConvType,    \* "dm" or "group" (a channel behaves as a group)
  Ops,         \* the operations the clients ask for
  MaxRead,     \* bound: the largest read_seq a client reports
  None         \* no message, no user, no key

AllOps == {"send", "recall", "read", "add", "remove"}

ASSUME UsersAssumption == IsFiniteSet(Users)
ASSUME OwnerAssumption == Owner \in Users
ASSUME TypeAssumption  == ConvType \in {"dm", "group"}
ASSUME PairAssumption  == ConvType = "dm" => Cardinality(Users) = 2
ASSUME OpsAssumption   == Ops \subseteq AllOps
ASSUME ReadAssumption  == MaxRead \in Nat
ASSUME NoneAssumption  == None \notin Requests \cup ClientIds \cup Users

VARIABLES
  conv,       \* the row of conversations: last_seq, last_msg_id, member_count
  members,    \* the rows of conversation_members, by user
  messages,   \* the committed rows of messages, by seq
  rowLock,    \* the transaction that holds the lock of the conversation row
  pc,         \* how far each request is
  arg,        \* what each request asks for
  loaded,     \* the conversation each request read before its transaction
  member,     \* the member row each request will write back
  txSeq,      \* the seq allocated in the open transaction of a request
  outcome,    \* how each request was answered
  published   \* events handed to the event bus

db   == <<conv, members, messages>>
proc == <<loaded, member, txSeq>>
vars == <<db, rowLock, pc, arg, proc, outcome, published>>

Ids     == Requests \cup {None}
ConvRow == [lastSeq : Nat, lastMsg : Ids, memberCount : Nat]
MemRow  == [role : {"owner", "admin", "member"}, readSeq : 0..MaxRead,
            status : {"none", "active", "left"}]
MsgRow  == [id : Requests, kind : {"user", "recall"}, by : Users,
            key : ClientIds \cup {None}, ref : Ids,
            status : {"normal", "recalled"}]

SendCommand   == [op : {"send"}, user : Users, key : ClientIds, reply : Ids]
RecallCommand == [op : {"recall"}, user : Users, msg : Requests]
ReadCommand   == [op : {"read"}, user : Users, readSeq : 1..MaxRead]
AddCommand    == [op : {"add"}, user : Users, peer : Users,
                  role : {"admin", "member"}]
RemoveCommand == [op : {"remove"}, user : Users, peer : Users]
Command == SendCommand \cup RecallCommand \cup ReadCommand
             \cup AddCommand \cup RemoveCommand

NoCommand == [op |-> "none"]
Stages    == {"idle", "loaded", "member", "checked", "ready", "tx",
              "committed", "done"}
InFlight  == Stages \ {"idle", "done"}
Outcome   == [code : {"none", "ok", "rejected", "conflict", "error"},
              msg : Ids]

NoRow       == [role |-> "member", readSeq |-> 0, status |-> "none"]
NewMember(role) == [role |-> role, readSeq |-> 0, status |-> "active"]
NewConv(n)  == [lastSeq |-> 0, lastMsg |-> None, memberCount |-> n]
MaxCount(n) == IF n < 0 THEN 0 ELSE n
Seqs        == DOMAIN messages
Events      == [type : {"created"}, seq : Nat]
                 \cup [type : {"read"}, user : Users, readSeq : 0..MaxRead]

-----------------------------------------------------------------------------
(* A conversation as createDM, or createGroupOrChannel and any number of   *)
(* AddMember calls that did not overlap, leave it.                         *)

InitMembers ==
  IF ConvType = "dm"
    THEN {[u \in Users |-> NewMember("member")]}
    ELSE {[u \in Users |-> IF u = Owner THEN NewMember("owner")
                           ELSE IF u \in S THEN NewMember("member")
                           ELSE NoRow] : S \in SUBSET Users}

Active == {u \in Users : members[u].status = "active"}

\* Nothing has been sent and no request is under way.
Quiet ==
  /\ messages = [s \in {} |-> None]
  /\ rowLock = None
  /\ pc = [r \in Requests |-> "idle"]
  /\ arg = [r \in Requests |-> NoCommand]
  /\ loaded = [r \in Requests |-> NewConv(0)]
  /\ member = [r \in Requests |-> NoRow]
  /\ txSeq = [r \in Requests |-> 0]
  /\ outcome = [r \in Requests |-> [code |-> "none", msg |-> None]]
  /\ published = {}

Init ==
  /\ members \in InitMembers
  /\ conv = NewConv(Cardinality(Active))
  /\ Quiet

-----------------------------------------------------------------------------
(* Steps shared by the handlers.                                           *)

Goto(r, stage) == pc' = [pc EXCEPT ![r] = stage]

\* The handler returns to its client.
Answer(r, code, msg) ==
  /\ Goto(r, "done")
  /\ outcome' = [outcome EXCEPT ![r] = [code |-> code, msg |-> msg]]

Reject(r) ==
  /\ Answer(r, "rejected", None)
  /\ UNCHANGED <<db, rowLock, arg, proc, published>>

\* The handler goes on without having written anything.
Proceed(r, stage) ==
  /\ Goto(r, stage)
  /\ UNCHANGED <<db, rowLock, arg, proc, outcome, published>>

Begin(r, cmd) ==
  /\ pc[r] = "idle"
  /\ cmd.op \in Ops
  /\ arg' = [arg EXCEPT ![r] = cmd]

LoadConv(r) == loaded' = [loaded EXCEPT ![r] = conv]

IsActive(u)  == members[u].status = "active"
IsManager(u) == IsActive(u) /\ members[u].role \in {"owner", "admin"}
At(r, op, stage) == arg[r].op = op /\ pc[r] = stage

HasMessage(id) == \E s \in Seqs : messages[s].id = id
HasKey(k)      == \E s \in Seqs : messages[s].key = k

\* Mutation: the row is read without waiting for its lock.
AllocateSeqUnlocked(r) ==
  /\ pc[r] = "ready"
  /\ arg[r].op \in {"send", "recall"}
  /\ rowLock' = r
  /\ txSeq' = [txSeq EXCEPT ![r] = conv.lastSeq + 1]
  /\ Goto(r, "tx")
  /\ UNCHANGED <<db, arg, loaded, member, outcome, published>>

\* seqAllocator.Next: the UPDATE waits for the row lock and keeps it.
AllocateSeq(r) ==
  /\ pc[r] = "ready"
  /\ arg[r].op \in {"send", "recall"}
  /\ rowLock = None
  /\ rowLock' = r
  /\ txSeq' = [txSeq EXCEPT ![r] = conv.lastSeq + 1]
  /\ Goto(r, "tx")
  /\ UNCHANGED <<db, arg, loaded, member, outcome, published>>

\* Mutation: ApplyMessage is forgotten.
CommitMessageUnapplied(r, row, timeline) ==
  /\ messages' = [s \in Seqs \cup {txSeq[r]} |->
                    IF s = txSeq[r] THEN row ELSE timeline[s]]
  /\ conv' = loaded[r]
  /\ rowLock' = None
  /\ Goto(r, "committed")
  /\ UNCHANGED <<members, arg, proc, outcome, published>>

\* messages.Create, conv.ApplyMessage and conversations.Save, then COMMIT.
\* Save writes every mutable column of the conversation read beforehand.
CommitMessage(r, row, timeline) ==
  /\ messages' = [s \in Seqs \cup {txSeq[r]} |->
                    IF s = txSeq[r] THEN row ELSE timeline[s]]
  /\ conv' = [loaded[r] EXCEPT !.lastSeq = txSeq[r], !.lastMsg = r]
  /\ rowLock' = None
  /\ Goto(r, "committed")
  /\ UNCHANGED <<members, arg, proc, outcome, published>>

\* A unique index refuses the INSERT and the transaction rolls back.
RollBack(r) ==
  /\ rowLock' = None
  /\ Answer(r, "conflict", None)
  /\ UNCHANGED <<db, arg, proc, published>>

\* publishCreated hands the event over after the commit; then the answer.
Publish(r) ==
  /\ pc[r] = "committed"
  /\ arg[r].op \in {"send", "recall"}
  /\ published' = published \cup {[type |-> "created", seq |-> txSeq[r]]}
  /\ Answer(r, "ok", r)
  /\ UNCHANGED <<db, rowLock, arg, proc>>

\* Mutation: a failing transaction is left open.
FailKeepsLock(r) ==
  /\ pc[r] \in InFlight
  /\ Answer(r, "error", None)
  /\ UNCHANGED <<db, rowLock, arg, proc, published>>

\* A database error, a cancelled context or a crash of the process.  An open
\* transaction rolls back; after the commit only the answer and the event are
\* lost, so that the client cannot tell whether its request took effect.
Fail(r) ==
  /\ pc[r] \in InFlight
  /\ rowLock' = IF rowLock = r THEN None ELSE rowLock
  /\ Answer(r, "error", None)
  /\ UNCHANGED <<db, arg, proc, published>>

-----------------------------------------------------------------------------
(* MessageService.SendMessage                                              *)

\* The handler looks at reply_to_msg_id only in SendReply: it is chosen there.
SendLoad(r) == \E cmd \in SendCommand :
  /\ cmd.reply = None
  /\ Begin(r, cmd)
  /\ LoadConv(r)
  /\ Goto(r, "loaded")
  /\ UNCHANGED <<db, rowLock, member, txSeq, outcome, published>>

SendMember(r) ==
  /\ At(r, "send", "loaded")
  /\ IF IsActive(arg[r].user) THEN Proceed(r, "member") ELSE Reject(r)

\* Mutation: any reply_to_msg_id is accepted.
SendReplyUnchecked(r) ==
  /\ At(r, "send", "member")
  /\ \E reply \in Ids : arg' = [arg EXCEPT ![r].reply = reply]
  /\ Goto(r, "checked")
  /\ UNCHANGED <<db, rowLock, proc, outcome, published>>

\* The quoted message, if any, must exist.
SendReply(r) ==
  /\ At(r, "send", "member")
  /\ \/ \E reply \in {None} \cup {messages[s].id : s \in Seqs} :
          /\ arg' = [arg EXCEPT ![r].reply = reply]
          /\ Goto(r, "checked")
          /\ UNCHANGED <<db, rowLock, proc, outcome, published>>
     \/ Reject(r)

\* A known client_msg_id is answered with the message it named.
SendIdempotent(r) ==
  /\ At(r, "send", "checked")
  /\ \/ /\ ~ HasKey(arg[r].key)
        /\ Proceed(r, "ready")
     \/ \E s \in Seqs :
          /\ messages[s].key = arg[r].key
          /\ Answer(r, "ok", messages[s].id)
          /\ UNCHANGED <<db, rowLock, arg, proc, published>>

UserMessage(r) ==
  [id |-> r, kind |-> "user", by |-> arg[r].user, key |-> arg[r].key,
   ref |-> arg[r].reply, status |-> "normal"]

\* Mutation: the unique index of the idempotency key is missing.
SendCommitDuplicate(r) ==
  /\ At(r, "send", "tx")
  /\ IF txSeq[r] \in Seqs THEN RollBack(r)
     ELSE CommitMessage(r, UserMessage(r), messages)

SendCommit(r) ==
  /\ At(r, "send", "tx")
  /\ IF txSeq[r] \in Seqs \/ HasKey(arg[r].key)
       THEN RollBack(r)
       ELSE CommitMessage(r, UserMessage(r), messages)

-----------------------------------------------------------------------------
(* MessageService.RecallMessage                                            *)

\* The message must exist and be Normal in the copy the handler read.
RecallLoad(r) == \E cmd \in RecallCommand :
  /\ Begin(r, cmd)
  /\ IF \E s \in Seqs : messages[s].id = cmd.msg /\ messages[s].status = "normal"
       THEN Goto(r, "loaded") /\ UNCHANGED outcome
       ELSE Answer(r, "rejected", None)
  /\ UNCHANGED <<db, rowLock, proc, published>>

OwnMessage(id, u) ==
  \E s \in Seqs : messages[s].id = id /\ messages[s].kind = "user"
                    /\ messages[s].by = u

\* Mutation: every active member may recall every message.
RecallMemberAnyone(r) ==
  /\ At(r, "recall", "loaded")
  /\ IF IsActive(arg[r].user) THEN Proceed(r, "member") ELSE Reject(r)

\* Active member, sender or moderator; the recall window may have expired.
RecallMember(r) ==
  /\ At(r, "recall", "loaded")
  /\ \/ /\ IsActive(arg[r].user)
        /\ OwnMessage(arg[r].msg, arg[r].user) \/ arg[r].user \in Moderators
        /\ Proceed(r, "member")
     \/ Reject(r)

RecallConv(r) ==
  /\ At(r, "recall", "member")
  /\ LoadConv(r)
  /\ Goto(r, "ready")
  /\ UNCHANGED <<db, rowLock, arg, member, txSeq, outcome, published>>

RecallEntry(r) ==
  [id |-> r, kind |-> "recall", by |-> arg[r].user, key |-> None,
   ref |-> arg[r].msg, status |-> "normal"]

MarkRecalled(id) ==
  [s \in Seqs |-> IF messages[s].id = id
                    THEN [messages[s] EXCEPT !.status = "recalled"]
                    ELSE messages[s]]

\* Mutation: the recalled message is not saved.
RecallCommitUnmarked(r) ==
  /\ At(r, "recall", "tx")
  /\ IF txSeq[r] \in Seqs
       THEN RollBack(r)
       ELSE CommitMessage(r, RecallEntry(r), messages)

\* messages.Save writes the status without looking at the stored one.
RecallCommit(r) ==
  /\ At(r, "recall", "tx")
  /\ IF txSeq[r] \in Seqs
       THEN RollBack(r)
       ELSE CommitMessage(r, RecallEntry(r), MarkRecalled(arg[r].msg))

-----------------------------------------------------------------------------
(* MessageService.ReportRead                                               *)

MarkRead(row, seq) == [row EXCEPT !.readSeq = seq]

ReadLoad(r) == \E cmd \in ReadCommand :
  /\ Begin(r, cmd)
  /\ \/ /\ IsActive(cmd.user)
        /\ cmd.readSeq > members[cmd.user].readSeq
        /\ member' = [member EXCEPT
                        ![r] = MarkRead(members[cmd.user], cmd.readSeq)]
        /\ Goto(r, "ready")
        /\ UNCHANGED outcome
     \/ /\ IsActive(cmd.user)
        /\ cmd.readSeq <= members[cmd.user].readSeq
        /\ Answer(r, "ok", None)
        /\ UNCHANGED member
     \/ /\ ~ IsActive(cmd.user)
        /\ Answer(r, "rejected", None)
        /\ UNCHANGED member
  /\ UNCHANGED <<db, rowLock, loaded, txSeq, published>>

\* SaveMember writes role, read_seq and status of the copy read before.
ReadSave(r) ==
  /\ At(r, "read", "ready")
  /\ members' = [members EXCEPT ![arg[r].user] = member[r]]
  /\ Goto(r, "committed")
  /\ UNCHANGED <<conv, messages, rowLock, arg, proc, outcome, published>>

PublishRead(r) ==
  /\ At(r, "read", "committed")
  /\ published' = published \cup {[type |-> "read", user |-> arg[r].user,
                                   readSeq |-> member[r].readSeq]}
  /\ Answer(r, "ok", None)
  /\ UNCHANGED <<db, rowLock, arg, proc>>

-----------------------------------------------------------------------------
(* ConversationService.AddMember and RemoveMember                          *)

ManageLoad(r) == \E cmd \in AddCommand \cup RemoveCommand :
  /\ Begin(r, cmd)
  /\ IF ConvType = "dm"
       THEN Answer(r, "rejected", None) /\ UNCHANGED loaded
       ELSE Goto(r, "loaded") /\ LoadConv(r) /\ UNCHANGED outcome
  /\ UNCHANGED <<db, rowLock, member, txSeq, published>>

\* requireConvManager; a member may always remove itself.
ManageAuthorize(r) ==
  /\ pc[r] = "loaded"
  /\ arg[r].op \in {"add", "remove"}
  /\ IF \/ arg[r].op = "remove" /\ arg[r].peer = arg[r].user
        \/ IsManager(arg[r].user)
       THEN Proceed(r, "member")
       ELSE Reject(r)

AddTarget(r) ==
  /\ At(r, "add", "member")
  /\ IF IsActive(arg[r].peer) THEN Reject(r) ELSE Proceed(r, "ready")

\* The unique index on (conversation, member) refuses a second row, also for a
\* member that has left; else the row is inserted and the conversation saved.
AddCommit(r) ==
  /\ At(r, "add", "ready")
  /\ rowLock = None
  /\ IF members[arg[r].peer].status # "none"
       THEN RollBack(r)
       ELSE /\ members' = [members EXCEPT ![arg[r].peer] = NewMember(arg[r].role)]
            /\ conv' = [loaded[r] EXCEPT !.memberCount = @ + 1]
            /\ Answer(r, "ok", None)
            /\ UNCHANGED <<messages, rowLock, arg, proc, published>>

RemoveTarget(r) ==
  /\ At(r, "remove", "member")
  /\ \/ /\ members[arg[r].peer].status = "none"
        /\ Reject(r)
     \/ /\ members[arg[r].peer].status = "left"
        /\ Answer(r, "ok", None)
        /\ UNCHANGED <<db, rowLock, arg, proc, published>>
     \/ /\ IsActive(arg[r].peer)
        /\ member' = [member EXCEPT
                        ![r] = [members[arg[r].peer] EXCEPT !.status = "left"]]
        /\ Goto(r, "ready")
        /\ UNCHANGED <<db, rowLock, arg, loaded, txSeq, outcome, published>>

RemoveCommit(r) ==
  /\ At(r, "remove", "ready")
  /\ rowLock = None
  /\ members' = [members EXCEPT ![arg[r].peer] = member[r]]
  /\ conv' = [loaded[r] EXCEPT !.memberCount = MaxCount(@ - 1)]
  /\ Answer(r, "ok", None)
  /\ UNCHANGED <<messages, rowLock, arg, proc, published>>

-----------------------------------------------------------------------------
SendMessage(r)   == SendLoad(r) \/ SendMember(r) \/ SendReply(r)
                      \/ SendIdempotent(r) \/ SendCommit(r)
RecallMessage(r) == RecallLoad(r) \/ RecallMember(r) \/ RecallConv(r)
                      \/ RecallCommit(r)
ReportRead(r)    == ReadLoad(r) \/ ReadSave(r) \/ PublishRead(r)
Manage(r)        == ManageLoad(r) \/ ManageAuthorize(r)
AddMember(r)     == AddTarget(r) \/ AddCommit(r)
RemoveMember(r)  == RemoveTarget(r) \/ RemoveCommit(r)

Handle(r) == SendMessage(r) \/ RecallMessage(r) \/ AllocateSeq(r)
               \/ Publish(r) \/ ReportRead(r) \/ Manage(r) \/ AddMember(r)
               \/ RemoveMember(r)

Next == \E r \in Requests : Handle(r) \/ Fail(r)

Spec == Init /\ [][Next]_vars

\* The goroutine that serves a request keeps running; the requests themselves
\* are the clients' choice.
Serve(r) == pc[r] # "idle" /\ Handle(r)

FairSpec == Spec /\ \A r \in Requests : WF_vars(Serve(r))
-----------------------------------------------------------------------------
(* Properties.                                                             *)

\* Every variable holds values of its type; member_count never goes negative
\* although stale saves make it drift (IncrMemberCount stops at 0).
TypeOK ==
  /\ conv \in ConvRow
  /\ members \in [Users -> MemRow]
  /\ Seqs \subseteq Nat
  /\ messages \in [Seqs -> MsgRow]
  /\ rowLock \in Ids
  /\ pc \in [Requests -> Stages]
  /\ arg \in [Requests -> Command \cup {NoCommand}]
  /\ loaded \in [Requests -> ConvRow]
  /\ member \in [Requests -> MemRow]
  /\ txSeq \in [Requests -> Nat]
  /\ outcome \in [Requests -> Outcome]
  /\ published \subseteq Events

\* The timeline starts at 1 and has no hole, whatever stale copies of the
\* conversation AddMember, RemoveMember, SendMessage and RecallMessage save.
NoHoles == \A s \in Seqs : s >= 1 /\ 1..s \subseteq Seqs

\* last_seq and last_msg_id of a conversation name the same message.
PairedCursor(c) ==
  IF c.lastSeq = 0 THEN c.lastMsg = None
  ELSE c.lastSeq \in Seqs /\ messages[c.lastSeq].id = c.lastMsg

\* The two cursor columns, which four handlers overwrite from copies of
\* different age, never come apart.
CursorIsPaired == PairedCursor(conv)

\* At most one message per client_msg_id, and a send answered with success has
\* its message in the timeline, also when a retry or a second device sent it.
ExactlyOnce ==
  /\ \A s, t \in Seqs : messages[s].key = messages[t].key
                          /\ messages[s].kind = "user"
                          /\ messages[t].kind = "user" => s = t
  /\ \A r \in Requests : arg[r].op = "send" /\ outcome[r].code = "ok" =>
       \E s \in Seqs : messages[s].id = outcome[r].msg
                         /\ messages[s].key = arg[r].key

\* A message is marked recalled exactly when a recall entry after it says so:
\* status and entry are written by one transaction.
RecallIsTraced ==
  \A s \in Seqs : messages[s].status = "recalled" <=>
    \E t \in Seqs : t > s /\ messages[t].kind = "recall"
                      /\ messages[t].ref = messages[s].id

\* A message is recalled only by its sender or by a holder of message.recall.
RecallIsAuthorized ==
  \A s, t \in Seqs :
    messages[t].kind = "recall" /\ messages[t].ref = messages[s].id =>
      \/ messages[t].by \in Moderators
      \/ messages[s].kind = "user" /\ messages[s].by = messages[t].by

\* What a message quotes or recalls stands before it, so a client that pulls
\* in seq order never meets a reference it cannot resolve.
RefersBack ==
  \A s \in Seqs : messages[s].ref # None =>
    \E t \in Seqs : t < s /\ messages[t].id = messages[s].ref

\* A signal never runs ahead of the commit: its seq can already be pulled.
SignalAfterCommit == \A e \in published : e.type = "created" => e.seq \in Seqs

\* In a direct conversation, where membership is fixed, last_seq is the newest
\* seq and member_count is the number of members.
DirectRowIsExact ==
  ConvType = "dm" =>
    /\ Seqs = 1..conv.lastSeq
    /\ conv.memberCount = Cardinality(Active)

\* In a direct conversation a send is refused by a unique index only because
\* its client_msg_id has been used: the row lock never hands out a seq twice.
DirectConflictIsDuplicate ==
  ConvType = "dm" =>
    \A r \in Requests : arg[r].op = "send" /\ outcome[r].code = "conflict"
                          => HasKey(arg[r].key)

\* A committed message keeps its place and content for ever; its status goes
\* from normal to recalled and never back.
AppendOnly ==
  [][\A s \in Seqs :
       /\ s \in DOMAIN messages'
       /\ \/ messages'[s] = messages[s]
          \/ messages'[s] = [messages[s] EXCEPT !.status = "recalled"]]_vars

\* Every request is answered: no request waits for ever for the row lock,
\* whichever requests fail while they hold it.
RequestsAnswered ==
  \A r \in Requests : pc[r] = "loaded" ~> pc[r] = "done"

\* The row lock is held by the one request inside the transaction of a send or
\* a recall, and while it is held nobody moves last_seq under the allocated seq.
LockIsExclusive ==
  \A r \in Requests :
    /\ pc[r] = "tx" <=> rowLock = r
    /\ pc[r] = "tx" => txSeq[r] = conv.lastSeq + 1

\* A request past its commit has its message in the timeline.
CommittedIsStored ==
  \A r \in Requests : pc[r] = "committed" /\ arg[r].op \in {"send", "recall"}
                        => txSeq[r] \in Seqs

\* The strengthening of NoHoles, CursorIsPaired and SignalAfterCommit that every
\* step of every handler preserves: it adds the row lock and the stale copies of
\* the conversation row that handlers hold and will save.
TimelineInv ==
  /\ TypeOK
  /\ LockIsExclusive
  /\ NoHoles
  /\ CursorIsPaired
  /\ \A r \in Requests : PairedCursor(loaded[r])
  /\ CommittedIsStored
  /\ SignalAfterCommit

\* What the handlers of a send or a recall have found out about messages stays
\* true until they commit, and no two messages share an id: a request writes at
\* most one message.
MayRecall(u, id) == u \in Moderators \/ OwnMessage(id, u)

RequestKnows(r) ==
  /\ At(r, "send", "checked") \/ At(r, "send", "ready") \/ At(r, "send", "tx") =>
       arg[r].reply = None \/ HasMessage(arg[r].reply)
  /\ arg[r].op = "recall" /\ pc[r] \in InFlight \ {"committed"} =>
       HasMessage(arg[r].msg)
  /\ arg[r].op = "recall" /\ pc[r] \in {"member", "ready", "tx"} =>
       MayRecall(arg[r].user, arg[r].msg)
  /\ HasMessage(r) => pc[r] \in {"committed", "done"}

LogInv ==
  /\ TimelineInv
  /\ \A s, t \in Seqs : messages[s].id = messages[t].id => s = t
  /\ \A r \in Requests : RequestKnows(r)

\* All of the above at once: whatever requests overlap, the timeline behaves as
\* a log that is appended to by one writer at a time.  The status is not part of
\* an entry; the events are the announcements.
Body(m) == [id |-> m.id, kind |-> m.kind, by |-> m.by, key |-> m.key,
            ref |-> m.ref]

LogPromise == INSTANCE Log WITH
  log       <- [s \in Seqs |-> Body(messages[s])],
  recalled  <- {s \in Seqs : messages[s].status = "recalled"},
  announced <- {e.seq : e \in {x \in published : x.type = "created"}}

ImplementsLog == LogPromise!Spec

(* A statement of the repository that concurrent requests break.           *)

\* "last_seq: the greatest seq so far" (conversations, design document).
LastSeqIsGreatest == \A s \in Seqs : s <= conv.lastSeq
=============================================================================
