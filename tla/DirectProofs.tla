---------------------------- MODULE DirectProofs ----------------------------
(***************************************************************************)
(* Direct: the pair has one conversation, for any number of overlapping    *)
(* and failing creations, and its row stays exact for any number of        *)
(* requests that then use it; with its creation it still implements Log.   *)
(***************************************************************************)
EXTENDS Direct, TimelineProofs

(***************************************************************************)
(* The timeline of a direct conversation: nobody joins or leaves it, so    *)
(* that the copies its handlers hold and save cannot disagree about the    *)
(* members, and last_seq only moves under the row lock.                    *)
(***************************************************************************)

\* What a request has read, and how it was answered.
Held(r) ==
  /\ pc[r] \in InFlight => arg[r].op \in {"send", "recall", "read"}
  /\ At(r, "send", "loaded") \/ At(r, "send", "member") \/ At(r, "send", "checked")
       \/ At(r, "send", "ready") \/ At(r, "send", "tx")
       \/ At(r, "recall", "ready") \/ At(r, "recall", "tx")
     => loaded[r].memberCount = 2
  /\ At(r, "read", "ready") => member[r].status = "active"
  /\ pc[r] # "done" => outcome[r].code = "none"
  /\ arg[r].op = "send" /\ outcome[r].code = "conflict" => HasKey(arg[r].key)

AllActive == \A u \in Users : members[u].status = "active"
Newest    == \A s \in Seqs : s <= conv.lastSeq

PairInv ==
  /\ TimelineInv
  /\ AllActive
  /\ conv.memberCount = 2
  /\ Newest
  /\ \A r \in Requests : Held(r)

\* A step of r leaves the other requests alone and keeps all of that.
PairStep(r) ==
  /\ \A q \in Requests \ {r} :
       /\ pc'[q] = pc[q] /\ arg'[q] = arg[q] /\ loaded'[q] = loaded[q]
       /\ member'[q] = member[q] /\ outcome'[q] = outcome[q]
  /\ \A s \in Seqs : s \in Seqs' /\ messages'[s].key = messages[s].key
  /\ AllActive'
  /\ conv'.memberCount = 2
  /\ Newest'
  /\ Held(r)'

\* A request that answers without having written anything.
LEMMA AnswerPair ==
  ASSUME PairInv, NEW r \in Requests, NEW code, NEW msg, code # "conflict",
         Answer(r, code, msg), UNCHANGED <<db, arg, proc>>
  PROVE  PairStep(r)
<1>1. TypeOK /\ Held(r) /\ Seqs' = Seqs
  BY DEF PairInv, TimelineInv, Seqs, db
<1>2. pc'[r] = "done" /\ outcome'[r].code = code
  BY <1>1 DEF TypeOK, Answer, Goto
<1>3. Held(r)'
  BY <1>2 DEF Held, At, InFlight
<1> QED
  BY <1>1, <1>3 DEF PairInv, PairStep, AllActive, Newest, Answer, Goto, TypeOK, db,
                    proc

\* A request that goes on without having written or read anything.
LEMMA ProceedPair ==
  ASSUME PairInv, NEW r \in Requests, NEW stage \in Stages, Proceed(r, stage),
         pc[r] \in InFlight,
         \/ /\ arg[r].op = "send" /\ pc[r] \in {"loaded", "checked"}
            /\ stage \in {"member", "ready"}
         \/ arg[r].op = "recall" /\ stage = "member"
  PROVE  PairStep(r)
<1>1. TypeOK /\ Held(r) /\ Seqs' = Seqs
  BY DEF PairInv, TimelineInv, Seqs, Proceed, db
<1>2. pc'[r] = stage /\ UNCHANGED <<arg, loaded, member, outcome, messages>>
  BY <1>1 DEF TypeOK, Proceed, Goto, proc, db
<1>3. Held(r)'
  BY <1>1, <1>2 DEF Held, At, InFlight, HasKey
<1> QED
  BY <1>1, <1>3 DEF PairInv, PairStep, AllActive, Newest, Proceed, Goto, TypeOK, db,
                    proc

\* A commit writes its row at the seq its transaction was given, which is one
\* past last_seq.
LEMMA CommitPair ==
  ASSUME PairInv, NEW r \in Requests, NEW row, NEW timeline,
         pc[r] = "tx", arg[r].op \in {"send", "recall"},
         CommitMessage(r, row, timeline),
         \A s \in Seqs : timeline[s].key = messages[s].key
  PROVE  PairStep(r)
<1>1. TypeOK /\ Held(r) /\ txSeq[r] = conv.lastSeq + 1 /\ conv.lastSeq \in Nat
  BY DEF PairInv, TimelineInv, LockIsExclusive, TypeOK, ConvRow
<1>2. /\ Seqs' = Seqs \cup {txSeq[r]}
      /\ txSeq[r] \notin Seqs
      /\ \A s \in Seqs : messages'[s].key = messages[s].key
  <2>1. Seqs \subseteq Nat /\ Newest
    BY <1>1 DEF PairInv, TypeOK
  <2>2. txSeq[r] \notin Seqs
    BY <1>1, <2>1 DEF Newest
  <2> QED
    BY <2>2 DEF CommitMessage, Seqs
<1>3. conv'.lastSeq = txSeq[r] /\ conv'.memberCount = 2
  BY <1>1 DEF CommitMessage, Held, At, TypeOK, ConvRow
<1>4. Newest'
  BY <1>1, <1>2, <1>3 DEF PairInv, Newest, TypeOK
<1>5. Held(r)'
  <2>1. pc'[r] = "committed" /\ UNCHANGED <<arg, loaded, member, outcome>>
    BY <1>1 DEF CommitMessage, Goto, TypeOK, proc
  <2>2. outcome[r].code = "none"
    BY <1>1 DEF Held
  <2> QED
    BY <2>1, <2>2 DEF Held, At, InFlight
<1> QED
  BY <1>1, <1>2, <1>3, <1>4, <1>5
     DEF PairInv, PairStep, AllActive, CommitMessage, Goto, TypeOK, proc

\* In a direct conversation a transaction only rolls back because its
\* client_msg_id is stored: the seq it was given is free.
LEMMA RollBackPair ==
  ASSUME PairInv, NEW r \in Requests, RollBack(r),
         arg[r].op = "send" => HasKey(arg[r].key)
  PROVE  PairStep(r)
<1>1. TypeOK /\ Held(r) /\ Seqs' = Seqs
  BY DEF PairInv, TimelineInv, Seqs, RollBack, db
<1>2. pc'[r] = "done" /\ UNCHANGED <<arg, messages>>
  BY <1>1 DEF TypeOK, RollBack, Answer, Goto, db
<1>3. Held(r)'
  BY <1>1, <1>2 DEF Held, At, InFlight, HasKey
<1> QED
  BY <1>1, <1>3 DEF PairInv, PairStep, AllActive, Newest, RollBack, Answer, Goto,
                    TypeOK, db, proc

\* The seq of an open transaction is free.
LEMMA TxSeqIsFree ==
  ASSUME PairInv, NEW r \in Requests, pc[r] = "tx"
  PROVE  txSeq[r] \notin Seqs
BY DEF PairInv, TimelineInv, TypeOK, ConvRow, LockIsExclusive, Newest

\* Every step of every handler is such a step: AddMember and RemoveMember are
\* refused, and nothing else writes the members or their number.
LEMMA PairSteps ==
  ASSUME PairInv, ConvType = "dm", NEW r \in Requests, Handle(r) \/ Fail(r)
  PROVE  PairStep(r)
<1> USE DEF At
<1>1. TypeOK /\ Held(r)
  BY DEF PairInv, TimelineInv
<1>2. CASE SendLoad(r)
  <2> PICK cmd \in SendCommand :
        /\ cmd.reply = None
        /\ Begin(r, cmd)
        /\ LoadConv(r)
        /\ Goto(r, "loaded")
        /\ UNCHANGED <<db, rowLock, member, txSeq, outcome, published>>
    BY <1>2 DEF SendLoad
  <2>1. /\ pc'[r] = "loaded" /\ arg'[r] = cmd /\ cmd.op = "send"
        /\ loaded'[r].memberCount = 2 /\ outcome'[r].code = "none"
        /\ Seqs' = Seqs
    BY <1>1 DEF TypeOK, Begin, LoadConv, Goto, SendCommand, PairInv, Held, Seqs, db
  <2>2. Held(r)'
    BY <2>1 DEF Held, InFlight
  <2> QED
    BY <1>1, <2>1, <2>2 DEF PairInv, PairStep, AllActive, Newest, Begin, LoadConv,
                            Goto, TypeOK, db
<1>3. CASE SendMember(r)
  BY <1>3, ProceedPair, AnswerPair DEF SendMember, Reject, InFlight, Stages
<1>4. CASE SendReply(r)
  <2>1. ASSUME NEW reply, arg' = [arg EXCEPT ![r].reply = reply],
               Goto(r, "checked"),
               UNCHANGED <<db, rowLock, proc, outcome, published>>
        PROVE  PairStep(r)
    <3>1. arg[r] \in SendCommand
      BY <1>1, <1>4, CommandByOp DEF SendReply, TypeOK
    <3>2. /\ pc'[r] = "checked" /\ arg'[r].op = "send" /\ Seqs' = Seqs
          /\ UNCHANGED <<loaded, member, outcome, messages, members, conv>>
          /\ outcome[r].code = "none" /\ loaded[r].memberCount = 2
      BY <1>1, <1>4, <2>1, <3>1 DEF SendReply, TypeOK, Goto, SendCommand, Held,
                                    Seqs, proc, db
    <3>3. Held(r)'
      BY <3>2 DEF Held, InFlight
    <3> QED
      BY <1>1, <2>1, <3>2, <3>3 DEF PairInv, PairStep, AllActive, Newest, Goto,
                                    TypeOK
  <2> QED
    BY <1>4, <2>1, AnswerPair DEF SendReply, Reject
<1>5. CASE SendIdempotent(r)
  <2>1. CASE Proceed(r, "ready")
    BY <1>5, <2>1, ProceedPair DEF SendIdempotent, InFlight, Stages
  <2>2. ASSUME NEW s \in Seqs, Answer(r, "ok", messages[s].id),
               UNCHANGED <<db, rowLock, arg, proc, published>>
        PROVE  PairStep(r)
    BY <2>2, AnswerPair
  <2> QED
    BY <1>5, <2>1, <2>2 DEF SendIdempotent
<1>6. CASE SendCommit(r)
  <2>1. txSeq[r] \notin Seqs
    BY <1>6, TxSeqIsFree DEF SendCommit
  <2> QED
    BY <1>6, <2>1, CommitPair, RollBackPair DEF SendCommit
<1>7. CASE RecallLoad(r)
  <2> PICK cmd \in RecallCommand :
        /\ Begin(r, cmd)
        /\ \/ Goto(r, "loaded") /\ UNCHANGED outcome
           \/ Answer(r, "rejected", None)
        /\ UNCHANGED <<db, rowLock, proc, published>>
    BY <1>7 DEF RecallLoad
  <2>1. /\ pc[r] = "idle" /\ arg'[r] = cmd /\ cmd.op = "recall"
        /\ outcome[r].code = "none" /\ Seqs' = Seqs
        /\ (pc'[r] = "loaded" /\ UNCHANGED outcome) \/ pc'[r] = "done"
    BY <1>1 DEF TypeOK, Begin, Goto, RecallCommand, Answer, Held, Seqs, db
  <2>2. Held(r)'
    BY <2>1 DEF Held, InFlight
  <2> QED
    BY <1>1, <2>1, <2>2 DEF PairInv, PairStep, AllActive, Newest, Begin, Answer,
                            Goto, TypeOK, db, proc
<1>8. CASE RecallMember(r)
  BY <1>8, ProceedPair, AnswerPair DEF RecallMember, Reject, InFlight, Stages
<1>9. CASE RecallConv(r)
  <2>1. /\ pc'[r] = "ready" /\ arg[r].op = "recall" /\ Seqs' = Seqs
        /\ loaded'[r].memberCount = 2 /\ outcome[r].code = "none"
        /\ UNCHANGED <<arg, outcome>>
    BY <1>1, <1>9 DEF RecallConv, LoadConv, Goto, TypeOK, PairInv, Held, Seqs, db
  <2>2. Held(r)'
    BY <2>1 DEF Held, InFlight
  <2> QED
    BY <1>1, <1>9, <2>1, <2>2 DEF RecallConv, PairInv, PairStep, AllActive, Newest,
                                  LoadConv, Goto, TypeOK, db
<1>10. CASE RecallCommit(r)
  <2>1. txSeq[r] \notin Seqs
    BY <1>10, TxSeqIsFree DEF RecallCommit
  <2>2. \A s \in Seqs : MarkRecalled(arg[r].msg)[s].key = messages[s].key
    BY <1>1 DEF MarkRecalled, TypeOK, MsgRow
  <2> QED
    BY <1>10, <2>1, <2>2, CommitPair DEF RecallCommit
<1>11. CASE AllocateSeq(r)
  <2>1. /\ pc[r] = "ready" /\ pc'[r] = "tx" /\ Seqs' = Seqs
        /\ UNCHANGED <<arg, loaded, member, outcome, messages>>
    BY <1>1, <1>11 DEF AllocateSeq, Goto, TypeOK, Seqs, db
  <2>2. Held(r)'
    BY <1>1, <1>11, <2>1 DEF AllocateSeq, Held, InFlight, Stages, HasKey
  <2> QED
    BY <1>1, <1>11, <2>1, <2>2 DEF AllocateSeq, PairInv, PairStep, AllActive,
                                   Newest, Goto, TypeOK, db
<1>12. CASE Publish(r)
  BY <1>12, AnswerPair DEF Publish
<1>13. CASE ReadLoad(r)
  <2> PICK cmd \in ReadCommand :
        /\ Begin(r, cmd)
        /\ \/ /\ IsActive(cmd.user)
              /\ member' = [member EXCEPT
                              ![r] = MarkRead(members[cmd.user], cmd.readSeq)]
              /\ Goto(r, "ready")
              /\ UNCHANGED outcome
           \/ Answer(r, "ok", None) /\ UNCHANGED member
           \/ Answer(r, "rejected", None) /\ UNCHANGED member
        /\ UNCHANGED <<db, rowLock, loaded, txSeq, published>>
    BY <1>13 DEF ReadLoad
  <2>1. /\ pc[r] = "idle" /\ arg'[r] = cmd /\ cmd.op = "read"
        /\ outcome[r].code = "none" /\ Seqs' = Seqs
        /\ \A q \in Requests \ {r} : arg'[q] = arg[q]
    BY <1>1 DEF TypeOK, Begin, ReadCommand, Held, Seqs, db
  <2>2. \/ /\ pc'[r] = "ready" /\ UNCHANGED outcome
           /\ member'[r].status = "active"
        \/ pc'[r] = "done"
    <3>1. cmd.user \in Users
      BY DEF ReadCommand
    <3> QED
      BY <1>1, <3>1 DEF TypeOK, Goto, Answer, MarkRead, IsActive, MemRow
  <2>3. Held(r)'
    BY <2>1, <2>2 DEF Held, InFlight
  <2>4. \A q \in Requests \ {r} : /\ pc'[q] = pc[q] /\ outcome'[q] = outcome[q]
                                  /\ member'[q] = member[q]
    BY <1>1 DEF TypeOK, Goto, Answer
  <2> QED
    BY <2>1, <2>3, <2>4 DEF PairInv, PairStep, AllActive, Newest, db
<1>14. CASE ReadSave(r)
  <2>1. /\ pc'[r] = "committed" /\ arg[r].op = "read" /\ Seqs' = Seqs
        /\ UNCHANGED <<arg, outcome>> /\ outcome[r].code = "none"
    BY <1>1, <1>14 DEF ReadSave, Goto, TypeOK, Held, Seqs, proc
  <2>2. Held(r)'
    BY <2>1 DEF Held, InFlight
  <2>3. AllActive'
    BY <1>1, <1>14 DEF ReadSave, AllActive, Held, PairInv, TypeOK
  <2> QED
    BY <1>1, <1>14, <2>1, <2>2, <2>3 DEF ReadSave, PairInv, PairStep, Newest, Goto,
                                         TypeOK, proc
<1>15. CASE PublishRead(r)
  BY <1>15, AnswerPair DEF PublishRead
<1>16. CASE ManageLoad(r)
  <2> PICK cmd \in AddCommand \cup RemoveCommand :
        /\ Begin(r, cmd)
        /\ Answer(r, "rejected", None) /\ UNCHANGED loaded
        /\ UNCHANGED <<db, rowLock, member, txSeq, published>>
    BY <1>16 DEF ManageLoad
  <2>1. /\ arg'[r] = cmd /\ cmd.op # "send" /\ Seqs' = Seqs /\ pc'[r] = "done"
    BY <1>1 DEF TypeOK, Begin, Goto, AddCommand, RemoveCommand, Answer, Seqs, db
  <2>2. Held(r)'
    BY <2>1 DEF Held, InFlight
  <2> QED
    BY <1>1, <2>1, <2>2 DEF PairInv, PairStep, AllActive, Newest, Begin, Answer,
                            Goto, TypeOK, db
<1>17. ~ ManageAuthorize(r) /\ ~ AddMember(r) /\ ~ RemoveMember(r)
  BY <1>1 DEF Held, InFlight, Stages, ManageAuthorize, AddMember, AddTarget,
              AddCommit, RemoveMember, RemoveTarget, RemoveCommit
<1>18. CASE Fail(r)
  BY <1>18, AnswerPair DEF Fail
<1> QED
  BY <1>2, <1>3, <1>4, <1>5, <1>6, <1>7, <1>8, <1>9, <1>10, <1>11, <1>12, <1>13,
     <1>14, <1>15, <1>16, <1>17, <1>18
     DEF Handle, SendMessage, RecallMessage, ReportRead, Manage

\* Such steps preserve the invariant.
LEMMA PairNext ==
  ASSUME ConvType = "dm", PairInv, [Next]_vars
  PROVE  PairInv'
<1>1. TimelineInv'
  BY TimelineNext DEF PairInv
<1>2. CASE UNCHANGED vars
  BY <1>1, <1>2 DEF PairInv, AllActive, Newest, Held, At, HasKey, Seqs, vars, db,
                    proc
<1>3. ASSUME NEW r \in Requests, Handle(r) \/ Fail(r) PROVE PairInv'
  <2>1. PairStep(r)
    BY <1>3, PairSteps
  <2>2. ASSUME NEW q \in Requests, q # r PROVE Held(q)'
    <3>1. Held(q) /\ (HasKey(arg[q].key) => HasKey(arg[q].key)')
      BY <2>1, <2>2 DEF PairInv, PairStep, HasKey
    <3> QED
      BY <2>1, <2>2, <3>1 DEF PairStep, Held, At
  <2> QED
    BY <1>1, <2>1, <2>2 DEF PairInv, PairStep
<1> QED
  BY <1>2, <1>3 DEF Next

-----------------------------------------------------------------------------
(* The creation of the conversation.                                       *)

Codes == {"none", "ok", "conflict", "error"}

\* An open transaction of a creation holds the key, and an answer names the
\* conversation that is there.
CreatorsInv ==
  /\ step \in [Creators -> {"idle", "missing", "inserted", "done"}]
  /\ answer \in [Creators -> [code : Codes, dm : Creators \cup {None}]]
  /\ dm \in Creators \cup {None} /\ dmLock \in Creators \cup {None}
  /\ dmLock # None => dm = None
  /\ \A c \in Creators :
       /\ step[c] = "inserted" <=> dmLock = c
       /\ step[c] \in {"missing", "inserted"} => answer[c].code = "none"
       /\ answer[c].code = "ok" => answer[c].dm = dm /\ dm # None
       /\ answer[c].code = "conflict" => dm # None

\* Before the commit nobody is a member and nothing has been sent.
Untouched ==
  /\ members = [u \in Users |-> NoRow]
  /\ conv = NewConv(0)
  /\ Quiet

DirectInv ==
  /\ CreatorsInv
  /\ dm = None => Untouched
  /\ dm # None => PairInv

\* The steps of a creator.
LEMMA CreatorSteps ==
  ASSUME CreatorsInv, NEW c \in Creators, CreateDM(c) \/ FailCreate(c)
  PROVE  CreatorsInv' /\ (dm # None => UNCHANGED <<vars, dm>>)
<1>1. CASE FindByDMKey(c)
  BY <1>1, CreatorsAssumption
     DEF FindByDMKey, CreatorsInv, AnswerCreator, GoOn, Unanswered, Codes
<1>2. CASE InsertConversation(c)
  BY <1>2, CreatorsAssumption
     DEF InsertConversation, CreatorsInv, AnswerCreator, GoOn, Codes
<1>3. CASE CommitConversation(c)
  BY <1>3, CreatorsAssumption
     DEF CommitConversation, CreatorsInv, AnswerCreator, GoOn, Codes
<1>4. CASE FailCreate(c)
  BY <1>4, CreatorsAssumption
     DEF FailCreate, CreatorsInv, AnswerCreator, GoOn, Codes
<1> QED
  BY <1>1, <1>2, <1>3, <1>4 DEF CreateDM

\* The rows that createDM commits are a conversation of two members.
LEMMA CommitMakesPair ==
  ASSUME Untouched, NEW c \in Creators, CommitConversation(c)
  PROVE  PairInv'
<1>1. /\ conv' = NewConv(2) /\ members' = [u \in Users |-> NewMember("member")]
      /\ messages' = [s \in {} |-> None] /\ rowLock' = None
      /\ pc' = [r \in Requests |-> "idle"]
      /\ arg' = [r \in Requests |-> NoCommand]
      /\ loaded' = [r \in Requests |-> NewConv(0)]
      /\ member' = [r \in Requests |-> NoRow]
      /\ txSeq' = [r \in Requests |-> 0]
      /\ outcome' = [r \in Requests |-> [code |-> "none", msg |-> None]]
      /\ published' = {}
  BY DEF Untouched, Quiet, CommitConversation, proc
<1>2. Seqs' = {}
  BY <1>1 DEF Seqs
<1>3. TypeOK'
  <2>1. conv' \in ConvRow /\ loaded' \in [Requests -> ConvRow]
    BY <1>1 DEF NewConv, ConvRow, Ids
  <2>2. members' \in [Users -> MemRow] /\ member' \in [Requests -> MemRow]
    BY <1>1, ReadAssumption DEF NewMember, NoRow, MemRow
  <2>3. messages' \in [Seqs' -> MsgRow]
    BY <1>1, <1>2
  <2>4. /\ rowLock' \in Ids /\ pc' \in [Requests -> Stages]
        /\ arg' \in [Requests -> Command \cup {NoCommand}]
        /\ txSeq' \in [Requests -> Nat] /\ outcome' \in [Requests -> Outcome]
    BY <1>1 DEF Ids, Stages, Outcome
  <2> QED
    BY <1>1, <1>2, <2>1, <2>2, <2>3, <2>4 DEF TypeOK
<1>4. LockIsExclusive'
  BY <1>1, NoneAssumption DEF LockIsExclusive
<1>5. (NoHoles /\ CommittedIsStored /\ SignalAfterCommit /\ Newest)'
  BY <1>1, <1>2 DEF NoHoles, CommittedIsStored, SignalAfterCommit, Newest
<1>6. (CursorIsPaired /\ \A r \in Requests : PairedCursor(loaded[r]))'
  BY <1>1 DEF NewConv, CursorIsPaired, PairedCursor
<1>7. (AllActive /\ conv.memberCount = 2 /\ \A r \in Requests : Held(r))'
  BY <1>1 DEF AllActive, NewMember, NewConv, Held, At, InFlight, NoCommand
<1> QED
  BY <1>3, <1>4, <1>5, <1>6, <1>7 DEF PairInv, TimelineInv

\* The initial state satisfies the invariant.
LEMMA DirectStart == DirectInit => DirectInv
BY CreatorsAssumption
   DEF DirectInit, DirectInv, CreatorsInv, Untouched, Unanswered, Codes

\* Every step preserves it.
LEMMA DirectKeeps == DirectInv /\ [DirectNext]_directVars => DirectInv'
<1> SUFFICES ASSUME DirectInv, [DirectNext]_directVars PROVE DirectInv'
  OBVIOUS
<1>1. CASE UNCHANGED directVars
  <2>1. UNCHANGED <<dm, dmLock, step, answer>>
        /\ UNCHANGED vars
    BY <1>1 DEF directVars, create
  <2>2. dm # None => PairInv'
    BY <2>1, PairNext, CreatorsAssumption DEF DirectInv
  <2>3. dm = None => Untouched'
    BY <2>1 DEF DirectInv, Untouched, Quiet, vars, db, proc
  <2> QED
    BY <2>1, <2>2, <2>3 DEF DirectInv, CreatorsInv
<1>2. CASE dm # None /\ Next /\ UNCHANGED create
  BY <1>2, PairNext, CreatorsAssumption DEF DirectInv, CreatorsInv, create
<1>3. ASSUME NEW c \in Creators, CreateDM(c) \/ FailCreate(c) PROVE DirectInv'
  <2>1. CreatorsInv' /\ (dm # None => UNCHANGED <<vars, dm>>)
    BY <1>3, CreatorSteps DEF DirectInv
  <2>2. CASE dm # None
    BY <2>1, <2>2, PairNext, CreatorsAssumption DEF DirectInv
  <2>3. CASE dm = None /\ CommitConversation(c)
    BY <2>1, <2>3, CommitMakesPair, CreatorsAssumption
       DEF DirectInv, CommitConversation
  <2>4. CASE dm = None /\ ~ CommitConversation(c)
    <3>1. UNCHANGED <<vars, dm>>
      BY <1>3, <2>4 DEF CreateDM, FindByDMKey, InsertConversation, FailCreate
    <3>2. Untouched'
      BY <2>4, <3>1 DEF DirectInv, Untouched, Quiet, vars, db, proc
    <3> QED
      BY <2>1, <2>4, <3>1, <3>2 DEF DirectInv
  <2> QED
    BY <2>2, <2>3, <2>4
<1> QED
  BY <1>1, <1>2, <1>3 DEF DirectNext

\* The invariant of the conversation of a pair: before its row is committed
\* nobody is in it, afterwards it always has its two members.
THEOREM DirectInvariant == DirectSpec => []DirectInv
<1> QED
  BY DirectStart, DirectKeeps, PTL DEF DirectSpec

\* However many creations overlap, fail and are repeated, the pair has one
\* conversation, and nobody meets it before both users are its members.
THEOREM PairsAreOne == DirectSpec => []PairHasOneConversation
<1>1. DirectInv => PairHasOneConversation
  <2> SUFFICES ASSUME DirectInv PROVE PairHasOneConversation
    OBVIOUS
  <2>1. dm # None => Active = Users /\ conv.memberCount = 2
    BY DEF DirectInv, PairInv, AllActive, Active
  <2>2. dm = None => Active = {} /\ Seqs = {}
    BY DEF DirectInv, Untouched, Quiet, NoRow, Active, Seqs
  <2> QED
    BY <2>1, <2>2 DEF DirectInv, CreatorsInv, PairHasOneConversation
<1> QED
  BY <1>1, DirectInvariant, PTL

\* In a direct conversation last_seq is the newest seq and member_count the
\* number of members, from its creation on.
THEOREM DirectRowsAreExact == DirectSpec => []DirectRowIsExact
<1>1. DirectInv => DirectRowIsExact
  <2> SUFFICES ASSUME DirectInv PROVE /\ Seqs = 1..conv.lastSeq
                                      /\ conv.memberCount = Cardinality(Active)
    BY DEF DirectRowIsExact
  <2>1. CASE dm = None
    <3>1. Active = {} /\ Seqs = {} /\ conv.lastSeq = 0 /\ conv.memberCount = 0
      BY <2>1 DEF DirectInv, Untouched, Quiet, NoRow, NewConv, Active, Seqs
    <3> QED
      BY <3>1, FS_EmptySet
  <2>2. CASE dm # None
    <3>1. PairInv /\ TypeOK /\ NoHoles /\ CursorIsPaired
      BY <2>2 DEF DirectInv, PairInv, TimelineInv
    <3>2. Active = Users /\ conv.memberCount = 2
      BY <3>1 DEF PairInv, AllActive, Active
    <3>3. conv.lastSeq \in Nat /\ Seqs \subseteq Nat
      BY <3>1 DEF TypeOK, ConvRow
    <3>4. Seqs \subseteq 1..conv.lastSeq
      BY <3>1, <3>3 DEF PairInv, Newest, NoHoles
    <3>5. 1..conv.lastSeq \subseteq Seqs
      BY <3>1, <3>3 DEF NoHoles, CursorIsPaired, PairedCursor
    <3> QED
      BY <3>2, <3>4, <3>5, PairAssumption, CreatorsAssumption
  <2> QED
    BY <2>1, <2>2
<1> QED
  BY <1>1, DirectInvariant, PTL

\* In a direct conversation a send is refused by a unique index only because
\* its client_msg_id is stored.
THEOREM DirectConflictsAreDuplicates == DirectSpec => []DirectConflictIsDuplicate
<1>1. DirectInv => DirectConflictIsDuplicate
  <2>1. ASSUME DirectInv, dm = None PROVE DirectConflictIsDuplicate
    BY <2>1 DEF DirectInv, Untouched, Quiet, NoCommand, DirectConflictIsDuplicate
  <2>2. ASSUME DirectInv, dm # None PROVE DirectConflictIsDuplicate
    BY <2>2 DEF DirectInv, PairInv, Held, DirectConflictIsDuplicate
  <2> QED
    BY <2>1, <2>2
<1> QED
  BY <1>1, DirectInvariant, PTL

-----------------------------------------------------------------------------
(* A direct conversation implements Log from its creation on.              *)

DirectLogInv == DirectInv /\ (dm # None => LogInv)

\* The conversation starts with an empty timeline and idle requests.
LEMMA CommitStartsLog ==
  ASSUME Untouched, NEW c \in Creators, CommitConversation(c)
  PROVE  LogInv'
<1>1. TimelineInv'
  BY CommitMakesPair DEF PairInv
<1>2. Seqs' = {} /\ \A r \in Requests : pc'[r] = "idle"
  BY DEF Untouched, Quiet, CommitConversation, Seqs
<1> QED
  BY <1>1, <1>2 DEF LogInv, RequestKnows, At, InFlight, Stages, HasMessage

\* A step is one of the timeline that is there, or it writes no message and
\* announces nothing.
LEMMA DirectStep ==
  ASSUME DirectInv, [DirectNext]_directVars
  PROVE  \/ dm # None /\ dm' = dm /\ [Next]_vars
         \/ dm = None /\ dm' = None /\ UNCHANGED <<messages, published>>
         \/ dm = None /\ UNCHANGED <<messages, published>>
              /\ \E c \in Creators : CommitConversation(c)
<1>1. CASE UNCHANGED directVars
  BY <1>1 DEF directVars, create, vars, db
<1>2. CASE dm # None /\ Next /\ UNCHANGED create
  BY <1>2 DEF create
<1>3. ASSUME NEW c \in Creators, CreateDM(c) \/ FailCreate(c), dm # None
      PROVE  dm' = dm /\ [Next]_vars
  BY <1>3, CreatorSteps DEF DirectInv
<1>4. ASSUME NEW c \in Creators, CreateDM(c) \/ FailCreate(c), dm = None
      PROVE  /\ UNCHANGED <<messages, published>>
             /\ dm' = None \/ CommitConversation(c)
  BY <1>4 DEF CreateDM, FindByDMKey, InsertConversation, CommitConversation,
              FailCreate, vars, db
<1> QED
  BY <1>1, <1>2, <1>3, <1>4 DEF DirectNext

\* The refinement: from the moment the pair has a conversation its timeline is a
\* log that is written one entry at a time, each entry once; creating it, however
\* often that is tried, writes nothing.
THEOREM DirectImplementsLog == DirectSpec => ImplementsLog
<1>1. DirectInit => DirectLogInv
  BY DirectStart DEF DirectInit, DirectLogInv
<1>2. DirectLogInv /\ [DirectNext]_directVars => DirectLogInv'
  BY DirectKeeps, DirectStep, LogNext, CommitStartsLog DEF DirectLogInv, DirectInv
<1>3. DirectInit => LogPromise!Init
  <2> SUFFICES ASSUME DirectInit PROVE LogPromise!Init
    OBVIOUS
  <2>1. Seqs = {} /\ published = {}
    BY DEF DirectInit, Quiet, Seqs
  <2> QED
    BY <2>1 DEF LogPromise!Init
<1>4. DirectLogInv /\ [DirectNext]_directVars => [LogPromise!Next]_LogPromise!vars
  <2> SUFFICES ASSUME DirectLogInv, [DirectNext]_directVars
               PROVE  [LogPromise!Next]_LogPromise!vars
    OBVIOUS
  <2>1. CASE UNCHANGED <<messages, published>>
    BY <2>1 DEF LogPromise!vars, Seqs, Body
  <2>2. CASE LogInv /\ [Next]_vars
    BY <2>2, LogStepIsStep
  <2> QED
    BY <2>1, <2>2, DirectStep DEF DirectLogInv
<1> QED
  BY <1>1, <1>2, <1>3, <1>4, PTL DEF DirectSpec, ImplementsLog, LogPromise!Spec
=============================================================================
