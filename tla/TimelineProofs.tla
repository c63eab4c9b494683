--------------------------- MODULE TimelineProofs ---------------------------
(***************************************************************************)
(* Proofs about Timeline, for any number of requests, users and client     *)
(* ids, for both types of conversation: its invariants, that it implements *)
(* Log, and what that means for retries, quotes and recalls.               *)
(***************************************************************************)
EXTENDS Timeline, FiniteSetTheorems, TLAPS

\* The operation of a command tells its type.
LEMMA CommandByOp ==
  ASSUME NEW cmd \in Command \cup {NoCommand}
  PROVE  /\ cmd.op = "send" => cmd \in SendCommand
         /\ cmd.op = "recall" => cmd \in RecallCommand
         /\ cmd.op = "read" => cmd \in ReadCommand
         /\ cmd.op = "add" => cmd \in AddCommand
         /\ cmd.op = "remove" => cmd \in RemoveCommand
  BY DEF Command, NoCommand, SendCommand, RecallCommand, ReadCommand,
         AddCommand, RemoveCommand

\* The initial states are well typed.
LEMMA TypeInit == Init => TypeOK
<1> SUFFICES ASSUME Init PROVE TypeOK
  OBVIOUS
<1>1. members \in [Users -> MemRow]
  BY ReadAssumption DEF Init, InitMembers, NewMember, NoRow, MemRow
<1>2. conv \in ConvRow
  <2>1. Cardinality(Active) \in Nat
    BY UsersAssumption, FS_Subset, FS_CardinalityType DEF Active
  <2> QED
    BY <2>1 DEF Init, NewConv, ConvRow, Ids
<1>3. messages \in [Seqs -> MsgRow] /\ Seqs \subseteq Nat
  BY DEF Init, Quiet, Seqs
<1>4. loaded \in [Requests -> ConvRow] /\ member \in [Requests -> MemRow]
  BY ReadAssumption DEF Init, Quiet, NewConv, NoRow, ConvRow, MemRow, Ids
<1> QED
  BY <1>1, <1>2, <1>3, <1>4 DEF Init, Quiet, TypeOK, Ids, Stages, Outcome

\* Answering a request keeps the types of its stage and outcome.
LEMMA AnswerType ==
  ASSUME TypeOK, NEW r \in Requests,
         NEW code \in {"ok", "rejected", "conflict", "error"}, NEW msg \in Ids,
         Answer(r, code, msg)
  PROVE  pc' \in [Requests -> Stages] /\ outcome' \in [Requests -> Outcome]
  BY DEF Answer, Goto, TypeOK, Stages, Outcome

\* Moving a request to a stage keeps the type of pc.
LEMMA GotoType ==
  ASSUME TypeOK, NEW r \in Requests, NEW stage \in Stages, Goto(r, stage)
  PROVE  pc' \in [Requests -> Stages]
  BY DEF Goto, TypeOK

\* A request that begins with a command keeps the type of arg.
LEMMA BeginType ==
  ASSUME TypeOK, NEW r \in Requests, NEW c \in Command, Begin(r, c)
  PROVE  arg' \in [Requests -> Command \cup {NoCommand}]
  BY DEF Begin, TypeOK

\* A committed row keeps the types of the three tables.
LEMMA CommitType ==
  ASSUME TypeOK, NEW r \in Requests, NEW row \in MsgRow,
         NEW timeline \in [Seqs -> MsgRow], CommitMessage(r, row, timeline)
  PROVE  TypeOK'
<1>1. Seqs' \subseteq Nat /\ messages' \in [Seqs' -> MsgRow]
  BY DEF CommitMessage, Seqs, TypeOK
<1>2. conv' \in ConvRow
  BY DEF CommitMessage, TypeOK, ConvRow, Ids
<1> QED
  BY <1>1, <1>2 DEF CommitMessage, TypeOK, Goto, Stages, Ids, proc

\* Every step keeps the types; the case analysis over all handlers.
LEMMA TypeNext == TypeOK /\ [Next]_vars => TypeOK'
<1> SUFFICES ASSUME TypeOK, [Next]_vars PROVE TypeOK'
  OBVIOUS
<1>1. CASE UNCHANGED vars
  BY <1>1 DEF TypeOK, vars, db, proc, Seqs
<1>2. ASSUME NEW r \in Requests, Handle(r) \/ Fail(r) PROVE TypeOK'
  <2> DEFINE cmd == arg[r]
  <2>0. /\ cmd \in Command \cup {NoCommand}
        /\ r \in Ids /\ None \in Ids
    BY DEF TypeOK, Ids
  <2>c. /\ cmd.op = "send" => cmd \in SendCommand
        /\ cmd.op = "recall" => cmd \in RecallCommand
        /\ cmd.op = "read" => cmd \in ReadCommand
        /\ cmd.op = "add" => cmd \in AddCommand
        /\ cmd.op = "remove" => cmd \in RemoveCommand
    BY <2>0, CommandByOp
  <2> HIDE DEF cmd
  <2>r. ASSUME Reject(r) PROVE TypeOK'
    BY <2>r, <2>0 DEF Reject, Answer, Goto, TypeOK, db, proc, Seqs, Stages, Outcome
  <2>p. ASSUME NEW stage \in Stages, Proceed(r, stage) PROVE TypeOK'
    BY <2>p DEF Proceed, Goto, TypeOK, db, proc, Seqs
  <2>b. ASSUME RollBack(r) PROVE TypeOK'
    BY <2>b, <2>0 DEF RollBack, Answer, Goto, TypeOK, db, proc, Seqs, Stages, Outcome
  <2>1. CASE SendLoad(r)
    BY <2>1 DEF SendLoad, Begin, LoadConv, Goto, TypeOK, db, Seqs, Command, Stages
  <2>2. CASE SendMember(r)
    BY <2>2, <2>r, <2>p DEF SendMember, Stages
  <2>3. CASE SendReply(r)
    <3>1. ASSUME NEW reply \in {None} \cup {messages[s].id : s \in Seqs},
                 arg' = [arg EXCEPT ![r].reply = reply],
                 Goto(r, "checked"),
                 UNCHANGED <<db, rowLock, proc, outcome, published>>
          PROVE  TypeOK'
      <4>1. reply \in Ids
        BY DEF TypeOK, MsgRow, Ids
      <4>2. cmd \in SendCommand
        BY <2>3, <2>c DEF SendReply, At, cmd
      <4>3. [cmd EXCEPT !.reply = reply] \in SendCommand
        BY <4>1, <4>2 DEF SendCommand
      <4>4. arg' \in [Requests -> Command \cup {NoCommand}]
        BY <3>1, <4>3 DEF TypeOK, Command, cmd
      <4> QED
        BY <3>1, <4>4 DEF Goto, TypeOK, db, proc, Seqs, Stages
    <3> QED
      BY <2>3, <3>1, <2>r DEF SendReply
  <2>4. CASE SendIdempotent(r)
    <3>1. ASSUME NEW s \in Seqs, Answer(r, "ok", messages[s].id),
                 UNCHANGED <<db, rowLock, arg, proc, published>>
          PROVE  TypeOK'
      <4>1. messages[s].id \in Ids
        BY DEF TypeOK, MsgRow, Ids
      <4> QED
        BY <3>1, <4>1 DEF Answer, Goto, TypeOK, db, proc, Seqs, Stages, Outcome
    <3> QED
      BY <2>4, <3>1, <2>p DEF SendIdempotent, Stages
  <2>5. CASE SendCommit(r)
    <3>1. UserMessage(r) \in MsgRow
      BY <2>5, <2>c DEF SendCommit, At, UserMessage, MsgRow, SendCommand, cmd
    <3>2. messages \in [Seqs -> MsgRow]
      BY DEF TypeOK
    <3> QED
      BY <2>5, <2>b, <3>1, <3>2, CommitType DEF SendCommit
  <2>6. CASE RecallLoad(r)
    <3>1. PICK c \in RecallCommand :
            /\ Begin(r, c)
            /\ \/ Goto(r, "loaded") /\ UNCHANGED outcome
               \/ Answer(r, "rejected", None)
            /\ UNCHANGED <<db, rowLock, proc, published>>
      BY <2>6 DEF RecallLoad
    <3>2. arg' \in [Requests -> Command \cup {NoCommand}]
      BY <3>1, BeginType DEF Command
    <3>3. pc' \in [Requests -> Stages] /\ outcome' \in [Requests -> Outcome]
      BY <3>1, <2>0, GotoType, AnswerType DEF Stages, TypeOK
    <3> QED
      BY <3>1, <3>2, <3>3 DEF TypeOK, db, proc, Seqs
  <2>7. CASE RecallMember(r)
    BY <2>7, <2>r, <2>p DEF RecallMember, Stages
  <2>8. CASE RecallConv(r)
    BY <2>8 DEF RecallConv, LoadConv, Goto, TypeOK, db, Seqs, Stages
  <2>9. CASE RecallCommit(r)
    <3>1. RecallEntry(r) \in MsgRow
      BY <2>9, <2>c DEF RecallCommit, At, RecallEntry, MsgRow, RecallCommand, Ids, cmd
    <3>2. MarkRecalled(arg[r].msg) \in [Seqs -> MsgRow]
      BY DEF TypeOK, MarkRecalled, MsgRow
    <3> QED
      BY <2>9, <2>b, <3>1, <3>2, CommitType DEF RecallCommit
  <2>10. CASE AllocateSeq(r)
    BY <2>10, <2>0 DEF AllocateSeq, Goto, TypeOK, ConvRow, db, Seqs, Stages
  <2>11. CASE Publish(r)
    <3>1. [type |-> "created", seq |-> txSeq[r]] \in Events
      BY DEF TypeOK, Events
    <3> QED
      BY <2>11, <2>0, <3>1 DEF Publish, Answer, Goto, TypeOK, db, proc, Seqs, Stages, Outcome
  <2>12. CASE ReadLoad(r)
    <3>1. PICK c \in ReadCommand :
            /\ Begin(r, c)
            /\ \/ /\ member' = [member EXCEPT ![r] = MarkRead(members[c.user], c.readSeq)]
                  /\ Goto(r, "ready") /\ UNCHANGED outcome
               \/ Answer(r, "ok", None) /\ UNCHANGED member
               \/ Answer(r, "rejected", None) /\ UNCHANGED member
            /\ UNCHANGED <<db, rowLock, loaded, txSeq, published>>
      BY <2>12 DEF ReadLoad
    <3>2. MarkRead(members[c.user], c.readSeq) \in MemRow
      BY ReadAssumption DEF MarkRead, TypeOK, MemRow, ReadCommand
    <3>3. arg' \in [Requests -> Command \cup {NoCommand}]
      BY <3>1, BeginType DEF Command
    <3>4. pc' \in [Requests -> Stages] /\ outcome' \in [Requests -> Outcome]
      BY <3>1, <2>0, GotoType, AnswerType DEF Stages, TypeOK
    <3> QED
      BY <3>1, <3>2, <3>3, <3>4 DEF TypeOK, db, Seqs
  <2>13. CASE ReadSave(r)
    BY <2>13 DEF ReadSave, At, Goto, TypeOK, proc, Seqs, Stages
  <2>14. CASE PublishRead(r)
    <3>1. [type |-> "read", user |-> arg[r].user, readSeq |-> member[r].readSeq] \in Events
      BY <2>14, <2>c DEF PublishRead, At, TypeOK, Events, MemRow, ReadCommand, cmd
    <3> QED
      BY <2>14, <2>0, <3>1 DEF PublishRead, Answer, Goto, TypeOK, db, proc, Seqs, Stages, Outcome
  <2>15. CASE ManageLoad(r)
    <3>1. PICK c \in AddCommand \cup RemoveCommand :
            /\ Begin(r, c)
            /\ \/ Answer(r, "rejected", None) /\ UNCHANGED loaded
               \/ Goto(r, "loaded") /\ LoadConv(r) /\ UNCHANGED outcome
            /\ UNCHANGED <<db, rowLock, member, txSeq, published>>
      BY <2>15 DEF ManageLoad
    <3>2. arg' \in [Requests -> Command \cup {NoCommand}]
      BY <3>1, BeginType DEF Command
    <3>3. pc' \in [Requests -> Stages] /\ outcome' \in [Requests -> Outcome]
      BY <3>1, <2>0, GotoType, AnswerType DEF Stages, TypeOK
    <3> QED
      BY <3>1, <3>2, <3>3 DEF LoadConv, TypeOK, db, Seqs
  <2>16. CASE ManageAuthorize(r)
    BY <2>16, <2>r, <2>p DEF ManageAuthorize, Stages
  <2>17. CASE AddTarget(r)
    BY <2>17, <2>r, <2>p DEF AddTarget, Stages
  <2>18. CASE AddCommit(r)
    <3>1. NewMember(arg[r].role) \in MemRow
      BY <2>18, <2>c, ReadAssumption DEF AddCommit, At, NewMember, MemRow, AddCommand, cmd
    <3>2. [loaded[r] EXCEPT !.memberCount = @ + 1] \in ConvRow
      BY DEF TypeOK, ConvRow
    <3>3. CASE RollBack(r)
      BY <3>3, <2>b
    <3>4. CASE /\ members' = [members EXCEPT ![arg[r].peer] = NewMember(arg[r].role)]
               /\ conv' = [loaded[r] EXCEPT !.memberCount = @ + 1]
               /\ Answer(r, "ok", None)
               /\ UNCHANGED <<messages, rowLock, arg, proc, published>>
      <4>1. pc' \in [Requests -> Stages] /\ outcome' \in [Requests -> Outcome]
        BY <3>4, <2>0, AnswerType
      <4> QED
        BY <3>4, <4>1, <3>1, <3>2 DEF TypeOK, proc, Seqs
    <3> QED
      BY <2>18, <3>3, <3>4 DEF AddCommit
  <2>19. CASE RemoveTarget(r)
    <3>1. ASSUME IsActive(arg[r].peer), At(r, "remove", "member")
          PROVE  [members[arg[r].peer] EXCEPT !.status = "left"] \in MemRow
      <4> DEFINE row == members[arg[r].peer]
      <4>1. row \in MemRow
        BY <3>1, <2>c DEF At, TypeOK, RemoveCommand, cmd
      <4> HIDE DEF row
      <4>2. [row EXCEPT !.status = "left"] \in MemRow
        BY <4>1 DEF MemRow
      <4> QED
        BY <4>2 DEF row
    <3>2. ASSUME Answer(r, "ok", None), UNCHANGED <<db, rowLock, arg, proc, published>>
          PROVE  TypeOK'
      <4>1. pc' \in [Requests -> Stages] /\ outcome' \in [Requests -> Outcome]
        BY <3>2, <2>0, AnswerType
      <4> QED
        BY <3>2, <4>1 DEF TypeOK, db, proc, Seqs
    <3>3. ASSUME At(r, "remove", "member"), IsActive(arg[r].peer),
                 member' = [member EXCEPT
                              ![r] = [members[arg[r].peer] EXCEPT !.status = "left"]],
                 Goto(r, "ready"),
                 UNCHANGED <<db, rowLock, arg, loaded, txSeq, outcome, published>>
          PROVE  TypeOK'
      <4>1. pc' \in [Requests -> Stages]
        BY <3>3, GotoType DEF Stages
      <4> QED
        BY <3>3, <4>1, <3>1 DEF TypeOK, db, Seqs
    <3> QED
      BY <2>19, <2>r, <3>2, <3>3 DEF RemoveTarget
  <2>20. CASE RemoveCommit(r)
    <3>1. [loaded[r] EXCEPT !.memberCount = MaxCount(@ - 1)] \in ConvRow
      BY DEF TypeOK, ConvRow, MaxCount
    <3> QED
      BY <2>20, <2>0, <3>1 DEF RemoveCommit, At, Answer, Goto, TypeOK, proc, Seqs, Stages, Outcome
  <2>21. CASE Fail(r)
    BY <2>21, <2>0 DEF Fail, Answer, Goto, TypeOK, db, proc, Seqs, Stages, Outcome
  <2> QED
    BY <1>2, <2>1, <2>2, <2>3, <2>4, <2>5, <2>6, <2>7, <2>8, <2>9, <2>10,
       <2>11, <2>12, <2>13, <2>14, <2>15, <2>16, <2>17, <2>18, <2>19, <2>20, <2>21
       DEF Handle, SendMessage, RecallMessage, ReportRead, Manage, AddMember, RemoveMember
<1> QED
  BY <1>1, <1>2 DEF Next

\* Type correctness: every variable always holds values of its type, so no
\* stale save of a handler can drive member_count below 0.
THEOREM TypeCorrect == Spec => []TypeOK
<1>1. Init => TypeOK
  BY TypeInit
<1>2. TypeOK /\ [Next]_vars => TypeOK'
  BY TypeNext
<1> QED
  BY <1>1, <1>2, PTL DEF Spec

-----------------------------------------------------------------------------
(* The four kinds of steps.  A step adds the row of an open transaction at *)
(* a seq that was free, opens a transaction, closes one, or is outside.     *)

Written(r) ==
  /\ pc[r] = "tx"
  /\ txSeq[r] \notin Seqs
  /\ Seqs' = Seqs \cup {txSeq[r]}
  /\ messages'[txSeq[r]].id = r
  /\ \A s \in Seqs : \/ messages'[s] = messages[s]
                      \/ messages'[s] = [messages[s] EXCEPT !.status = "recalled"]
  /\ conv' = [loaded[r] EXCEPT !.lastSeq = txSeq[r], !.lastMsg = r]
  /\ rowLock' = None
  /\ Goto(r, "committed")
  /\ UNCHANGED <<arg, proc, published>>

\* A send that commits either rolls back or writes its row at the seq it was
\* given, and nothing else of the timeline.
LEMMA SendCommitStep ==
  ASSUME TypeOK, NEW r \in Requests, SendCommit(r)
  PROVE  RollBack(r) \/ Written(r)
<1>1. ASSUME txSeq[r] \notin Seqs, CommitMessage(r, UserMessage(r), messages)
      PROVE  Written(r)
  BY <1>1 DEF CommitMessage, UserMessage, Written, TypeOK, Seqs, SendCommit, At
<1> QED
  BY <1>1 DEF SendCommit

\* A recall that commits either rolls back or writes its entry and marks one
\* message recalled.
LEMMA RecallCommitStep ==
  ASSUME TypeOK, NEW r \in Requests, RecallCommit(r)
  PROVE  RollBack(r) \/ Written(r)
<1>1. ASSUME txSeq[r] \notin Seqs,
             CommitMessage(r, RecallEntry(r), MarkRecalled(arg[r].msg))
      PROVE  Written(r)
  BY <1>1 DEF CommitMessage, RecallEntry, MarkRecalled, Written, TypeOK, Seqs,
              RecallCommit, At
<1> QED
  BY <1>1 DEF RecallCommit

\* A request is refused or fails, and gives the row lock back if it holds it.
Released(r) ==
  /\ Goto(r, "done")
  /\ rowLock' = IF rowLock = r THEN None ELSE rowLock
  /\ UNCHANGED <<conv, messages, arg, proc, published>>

\* A step of a handler outside the transaction of a send or a recall.
Outside(r) ==
  /\ pc[r] # "tx"
  /\ \E stage \in Stages \ {"tx"} :
       Goto(r, stage) /\ (stage = "committed" => arg'[r].op = "read")
  /\ \A q \in Requests \ {r} : arg'[q] = arg[q]
  /\ UNCHANGED <<messages, rowLock, txSeq>>
  /\ \/ UNCHANGED conv
     \/ /\ rowLock = None
        /\ conv'.lastSeq = loaded[r].lastSeq
        /\ conv'.lastMsg = loaded[r].lastMsg
  /\ UNCHANGED loaded \/ loaded' = [loaded EXCEPT ![r] = conv]
  /\ \A e \in published' \ published : e.type = "created" =>
       pc[r] = "committed" /\ arg[r].op \in {"send", "recall"} /\ e.seq = txSeq[r]

\* A rolled back transaction changes no row and gives the row lock back.
LEMMA RollBackReleases ==
  ASSUME TypeOK, LockIsExclusive, NEW r \in Requests, RollBack(r),
         pc[r] = "tx" \/ rowLock = None
  PROVE  Released(r)
  BY DEF RollBack, Answer, Released, LockIsExclusive, db

\* A refusal before the transaction is a step outside it.
LEMMA RejectIsOutside ==
  ASSUME TypeOK, NEW r \in Requests, pc[r] # "tx", Reject(r)
  PROVE  Outside(r)
  BY DEF Reject, Answer, Outside, Stages, db, proc

\* So is going on to the next check,
LEMMA ProceedIsOutside ==
  ASSUME TypeOK, NEW r \in Requests, pc[r] # "tx",
         NEW stage \in Stages \ {"tx", "committed"}, Proceed(r, stage)
  PROVE  Outside(r)
  BY DEF Proceed, Outside, db, proc

\* and so is an answer that writes nothing.
LEMMA AnswerIsOutside ==
  ASSUME TypeOK, NEW r \in Requests, pc[r] # "tx", NEW code, NEW msg,
         Answer(r, code, msg), UNCHANGED <<db, rowLock, arg, proc, published>>
  PROVE  Outside(r)
  BY DEF Answer, Outside, Stages, db, proc

\* Every step of every handler is of one of four kinds: it writes a message,
\* allocates a seq, gives up, or stays outside the transaction.
LEMMA StepKinds ==
  ASSUME TypeOK, LockIsExclusive, NEW r \in Requests, Handle(r) \/ Fail(r)
  PROVE  Written(r) \/ AllocateSeq(r) \/ Released(r) \/ Outside(r)
<1> USE DEF At
<1>1. CASE SendLoad(r)
  BY <1>1 DEF SendLoad, Begin, LoadConv, Goto, Outside, TypeOK, db, Stages
<1>2. CASE SendMember(r)
  BY <1>2, RejectIsOutside, ProceedIsOutside DEF SendMember, Stages
<1>3. CASE SendReply(r)
  <2>1. ASSUME NEW reply, arg' = [arg EXCEPT ![r].reply = reply], Goto(r, "checked"),
               UNCHANGED <<db, rowLock, proc, outcome, published>>
        PROVE  Outside(r)
    BY <1>3, <2>1 DEF SendReply, Outside, TypeOK, db, proc, Stages
  <2> QED
    BY <1>3, <2>1, RejectIsOutside DEF SendReply
<1>4. CASE SendIdempotent(r)
  BY <1>4, AnswerIsOutside, ProceedIsOutside DEF SendIdempotent, Stages
<1>5. CASE SendCommit(r)
  BY <1>5, SendCommitStep, RollBackReleases DEF SendCommit
<1>6. CASE RecallLoad(r)
  <2>1. /\ Goto(r, "loaded") \/ Goto(r, "done")
        /\ \A q \in Requests \ {r} : arg'[q] = arg[q]
        /\ UNCHANGED <<db, rowLock, proc, published>>
        /\ pc[r] # "tx"
    BY <1>6 DEF RecallLoad, Begin, Answer, TypeOK
  <2> QED
    BY <2>1 DEF Outside, db, proc, Stages
<1>7. CASE RecallMember(r)
  BY <1>7, RejectIsOutside, ProceedIsOutside DEF RecallMember, Stages
<1>8. CASE RecallConv(r)
  BY <1>8 DEF RecallConv, LoadConv, Outside, db, Stages
<1>9. CASE RecallCommit(r)
  BY <1>9, RecallCommitStep, RollBackReleases DEF RecallCommit
<1>10. CASE Publish(r)
  BY <1>10 DEF Publish, Answer, Outside, db, proc, Stages
<1>11. CASE ReadLoad(r)
  <2>1. /\ Goto(r, "ready") \/ Goto(r, "done")
        /\ \A q \in Requests \ {r} : arg'[q] = arg[q]
        /\ UNCHANGED <<db, rowLock, loaded, txSeq, published>>
        /\ pc[r] # "tx"
    BY <1>11 DEF ReadLoad, Begin, Answer, TypeOK
  <2> QED
    BY <2>1 DEF Outside, db, Stages
<1>12. CASE ReadSave(r)
  BY <1>12 DEF ReadSave, Outside, proc, Stages
<1>13. CASE PublishRead(r)
  BY <1>13 DEF PublishRead, Answer, Outside, db, proc, Stages
<1>14. CASE ManageLoad(r)
  <2>1. /\ Goto(r, "loaded") \/ Goto(r, "done")
        /\ UNCHANGED loaded \/ loaded' = [loaded EXCEPT ![r] = conv]
        /\ \A q \in Requests \ {r} : arg'[q] = arg[q]
        /\ UNCHANGED <<db, rowLock, member, txSeq, published>>
        /\ pc[r] # "tx"
    BY <1>14 DEF ManageLoad, Begin, Answer, LoadConv, TypeOK
  <2> QED
    BY <2>1 DEF Outside, db, Stages
<1>15. CASE ManageAuthorize(r)
  BY <1>15, RejectIsOutside, ProceedIsOutside DEF ManageAuthorize, Stages
<1>16. CASE AddTarget(r)
  BY <1>16, RejectIsOutside, ProceedIsOutside DEF AddTarget, Stages
<1>17. CASE AddCommit(r)
  <2>1. ASSUME conv' = [loaded[r] EXCEPT !.memberCount = @ + 1],
               Answer(r, "ok", None),
               UNCHANGED <<messages, rowLock, arg, proc, published>>
        PROVE  Outside(r)
    <3>1. conv'.lastSeq = loaded[r].lastSeq /\ conv'.lastMsg = loaded[r].lastMsg
      BY <2>1 DEF TypeOK, ConvRow
    <3> QED
      BY <1>17, <2>1, <3>1 DEF AddCommit, Answer, Outside, proc, Stages
  <2> QED
    BY <1>17, <2>1, RollBackReleases DEF AddCommit
<1>18. CASE RemoveTarget(r)
  <2>1. ASSUME Goto(r, "ready"),
               UNCHANGED <<db, rowLock, arg, loaded, txSeq, outcome, published>>
        PROVE  Outside(r)
    BY <1>18, <2>1 DEF RemoveTarget, Outside, db, Stages
  <2> QED
    BY <1>18, <2>1, RejectIsOutside, AnswerIsOutside DEF RemoveTarget
<1>19. CASE RemoveCommit(r)
  <2>1. conv'.lastSeq = loaded[r].lastSeq /\ conv'.lastMsg = loaded[r].lastMsg
    BY <1>19 DEF RemoveCommit, TypeOK, ConvRow
  <2> QED
    BY <1>19, <2>1 DEF RemoveCommit, Answer, Outside, proc, Stages
<1>20. CASE Fail(r)
  BY <1>20 DEF Fail, Answer, Released, db
<1> QED
  BY <1>1, <1>2, <1>3, <1>4, <1>5, <1>6, <1>7, <1>8, <1>9, <1>10, <1>11, <1>12,
     <1>13, <1>14, <1>15, <1>16, <1>17, <1>18, <1>19, <1>20
     DEF Handle, SendMessage, RecallMessage, ReportRead, Manage, AddMember,
         RemoveMember

-----------------------------------------------------------------------------
(* Each kind of step preserves the invariant.                              *)

\* A cursor that is paired stays paired while messages keep their seq.
LEMMA PairedStable ==
  ASSUME NEW c, PairedCursor(c),
         \A s \in Seqs : s \in Seqs' /\ messages'[s].id = messages[s].id
  PROVE  IF c.lastSeq = 0 THEN c.lastMsg = None
         ELSE c.lastSeq \in Seqs' /\ messages'[c.lastSeq].id = c.lastMsg
  BY DEF PairedCursor

\* Writing a message at last_seq + 1 under the lock preserves the invariant.
LEMMA WrittenKeeps ==
  ASSUME TimelineInv, NEW r \in Requests, Written(r), TypeOK'
  PROVE  TimelineInv'
<1> USE DEF TimelineInv
<1>1. txSeq[r] = conv.lastSeq + 1 /\ rowLock = r /\ conv.lastSeq \in Nat
  BY DEF Written, LockIsExclusive, TypeOK, ConvRow
<1>2. \A s \in Seqs : s \in Seqs' /\ messages'[s].id = messages[s].id
  <2> SUFFICES ASSUME NEW s \in Seqs
               PROVE  s \in Seqs' /\ messages'[s].id = messages[s].id
    OBVIOUS
  <2>1. messages[s] \in MsgRow
    BY DEF TypeOK
  <2>2. [messages[s] EXCEPT !.status = "recalled"].id = messages[s].id
    BY <2>1 DEF MsgRow
  <2> QED
    BY <2>2 DEF Written
<1>3. conv'.lastSeq = txSeq[r] /\ conv'.lastMsg = r
  BY DEF Written, TypeOK, ConvRow
<1>4. LockIsExclusive'
  BY NoneAssumption DEF Written, LockIsExclusive, Goto, TypeOK
<1>5. NoHoles'
  <2>1. 1..conv.lastSeq \subseteq Seqs
    BY <1>1 DEF CursorIsPaired, PairedCursor, NoHoles
  <2>2. 1..txSeq[r] \subseteq Seqs' /\ txSeq[r] >= 1
    <3> SUFFICES ASSUME NEW i \in 1..txSeq[r] PROVE i \in Seqs'
      BY <1>1
    <3>1. i \in 1..conv.lastSeq \/ i = txSeq[r]
      BY <1>1
    <3> QED
      BY <2>1, <3>1 DEF Written
  <2> QED
    BY <2>2 DEF NoHoles, Written
<1>6. CursorIsPaired'
  BY <1>1, <1>3 DEF CursorIsPaired, PairedCursor, Written
<1>7. (\A q \in Requests : PairedCursor(loaded[q]))'
  <2> SUFFICES ASSUME NEW q \in Requests PROVE PairedCursor(loaded[q])'
    OBVIOUS
  <2>1. loaded' = loaded
    BY DEF Written, proc
  <2>2. PairedCursor(loaded[q])
    OBVIOUS
  <2> QED
    BY <1>2, <2>1, <2>2 DEF PairedCursor
<1>8. CommittedIsStored'
  BY DEF CommittedIsStored, Written, Goto, TypeOK, proc
<1>9. SignalAfterCommit'
  BY DEF SignalAfterCommit, Written
<1> QED
  BY <1>4, <1>5, <1>6, <1>7, <1>8, <1>9

\* Taking the row lock, when it is free, preserves it.
LEMMA AllocateSeqKeeps ==
  ASSUME TimelineInv, NEW r \in Requests, AllocateSeq(r), TypeOK'
  PROVE  TimelineInv'
<1> USE DEF TimelineInv
<1>1. UNCHANGED <<conv, messages, arg, loaded, published>> /\ Seqs' = Seqs
  BY DEF AllocateSeq, db, Seqs
<1>2. LockIsExclusive'
  BY <1>1, NoneAssumption DEF AllocateSeq, LockIsExclusive, Goto, TypeOK
<1>3. CommittedIsStored'
  BY <1>1 DEF AllocateSeq, CommittedIsStored, Goto, TypeOK
<1>4. NoHoles' /\ CursorIsPaired' /\ SignalAfterCommit'
  BY <1>1 DEF NoHoles, CursorIsPaired, PairedCursor, SignalAfterCommit
<1>5. (\A q \in Requests : PairedCursor(loaded[q]))'
  BY <1>1 DEF PairedCursor
<1> QED
  BY <1>2, <1>3, <1>4, <1>5

\* Giving up, with or without the lock, preserves it.
LEMMA ReleasedKeeps ==
  ASSUME TimelineInv, NEW r \in Requests, Released(r), TypeOK'
  PROVE  TimelineInv'
<1> USE DEF TimelineInv
<1>1. UNCHANGED <<conv, messages, arg, loaded, txSeq, published>> /\ Seqs' = Seqs
  BY DEF Released, proc, Seqs
<1>2. LockIsExclusive'
  BY <1>1, NoneAssumption DEF Released, LockIsExclusive, Goto, TypeOK
<1>3. CommittedIsStored'
  BY <1>1 DEF Released, CommittedIsStored, Goto, TypeOK
<1>4. NoHoles' /\ CursorIsPaired' /\ SignalAfterCommit'
  BY <1>1 DEF NoHoles, CursorIsPaired, PairedCursor, SignalAfterCommit
<1>5. (\A q \in Requests : PairedCursor(loaded[q]))'
  BY <1>1 DEF PairedCursor
<1> QED
  BY <1>2, <1>3, <1>4, <1>5

\* A step outside the transaction preserves it, a save of a stale conversation
\* row included: the copy has a paired cursor.
LEMMA OutsideKeeps ==
  ASSUME TimelineInv, NEW r \in Requests, Outside(r), TypeOK'
  PROVE  TimelineInv'
<1> USE DEF TimelineInv
<1>1. UNCHANGED <<messages, rowLock, txSeq>> /\ Seqs' = Seqs
  BY DEF Outside, Seqs
<1>2. LockIsExclusive'
  <2> SUFFICES ASSUME NEW q \in Requests
               PROVE  /\ pc'[q] = "tx" <=> rowLock = q
                      /\ pc'[q] = "tx" => txSeq[q] = conv'.lastSeq + 1
    BY <1>1 DEF LockIsExclusive
  <2>1. pc'[q] = "tx" <=> pc[q] = "tx"
    BY DEF Outside, Goto, TypeOK
  <2>2. pc[q] = "tx" => conv' = conv
    BY NoneAssumption DEF Outside, LockIsExclusive
  <2> QED
    BY <2>1, <2>2 DEF LockIsExclusive
<1>3. CommittedIsStored'
  BY <1>1 DEF Outside, CommittedIsStored, Goto, TypeOK
<1>4. NoHoles'
  BY <1>1 DEF NoHoles
<1>5. CursorIsPaired'
  BY <1>1 DEF Outside, CursorIsPaired, PairedCursor
<1>6. (\A q \in Requests : PairedCursor(loaded[q]))'
  BY <1>1 DEF Outside, CursorIsPaired, PairedCursor, TypeOK
<1>7. SignalAfterCommit'
  BY <1>1 DEF Outside, SignalAfterCommit, CommittedIsStored
<1> QED
  BY <1>2, <1>3, <1>4, <1>5, <1>6, <1>7

\* The initial states satisfy the invariant.
LEMMA TimelineInit == Init => TimelineInv
<1> SUFFICES ASSUME Init PROVE TimelineInv
  OBVIOUS
<1>1. TypeOK
  BY TypeInit
<1>2. LockIsExclusive
  BY NoneAssumption DEF Init, Quiet, LockIsExclusive
<1>3. NoHoles /\ CommittedIsStored /\ SignalAfterCommit
  BY DEF Init, Quiet, NoHoles, CommittedIsStored, SignalAfterCommit, Seqs
<1>4. CursorIsPaired /\ \A r \in Requests : PairedCursor(loaded[r])
  BY DEF Init, Quiet, NewConv, CursorIsPaired, PairedCursor
<1> QED
  BY <1>1, <1>2, <1>3, <1>4 DEF TimelineInv

\* Every step preserves the invariant.
LEMMA TimelineNext == TimelineInv /\ [Next]_vars => TimelineInv'
<1> SUFFICES ASSUME TimelineInv, [Next]_vars PROVE TimelineInv'
  OBVIOUS
<1>1. TypeOK /\ LockIsExclusive /\ TypeOK'
  BY TypeNext DEF TimelineInv
<1>2. CASE UNCHANGED vars
  BY <1>1, <1>2
     DEF TimelineInv, vars, db, proc, LockIsExclusive, NoHoles, CursorIsPaired,
         PairedCursor, CommittedIsStored, SignalAfterCommit, Seqs
<1>3. ASSUME NEW r \in Requests, Handle(r) \/ Fail(r) PROVE TimelineInv'
  BY <1>1, <1>3, StepKinds, WrittenKeeps, AllocateSeqKeeps, ReleasedKeeps,
     OutsideKeeps
<1> QED
  BY <1>2, <1>3 DEF Next

\* The invariant that carries the safety of the timeline: the row lock is
\* exclusive and every copy of the row, stale or not, has a paired cursor.
THEOREM TimelineInvariant == Spec => []TimelineInv
<1> QED
  BY TimelineInit, TimelineNext, PTL DEF Spec

\* The timeline is 1..n without a hole, although stale saves move last_seq
\* backwards: a seq is allocated after a stored one, and never stored twice.
THEOREM TimelineHasNoHoles == Spec => []NoHoles
<1>1. TimelineInv => NoHoles
  BY DEF TimelineInv
<1> QED
  BY <1>1, TimelineInvariant, PTL

\* last_seq and last_msg_id always name the same message.
THEOREM CursorStaysPaired == Spec => []CursorIsPaired
<1>1. TimelineInv => CursorIsPaired
  BY DEF TimelineInv
<1> QED
  BY <1>1, TimelineInvariant, PTL

\* A message.created signal is handed over only for a seq that can be pulled.
THEOREM SignalFollowsCommit == Spec => []SignalAfterCommit
<1>1. TimelineInv => SignalAfterCommit
  BY DEF TimelineInv
<1> QED
  BY <1>1, TimelineInvariant, PTL

\* No step removes or rewrites a committed message, whatever the interleaving;
\* only its status may go from normal to recalled.
THEOREM TimelineIsAppendOnly == Spec => AppendOnly
<1> DEFINE Keeps == \A s \in Seqs :
             /\ s \in DOMAIN messages'
             /\ \/ messages'[s] = messages[s]
                \/ messages'[s] = [messages[s] EXCEPT !.status = "recalled"]
<1>1. ASSUME TimelineInv, [Next]_vars PROVE [Keeps]_vars
  <2>1. CASE UNCHANGED vars
    BY <2>1
  <2>2. ASSUME NEW r \in Requests, Handle(r) \/ Fail(r) PROVE Keeps
    <3>1. Written(r) \/ UNCHANGED messages
      BY <1>1, <2>2, StepKinds
         DEF TimelineInv, AllocateSeq, Released, Outside, db
    <3> QED
      BY <3>1 DEF Written, Seqs
  <2> QED
    BY <1>1, <2>1, <2>2 DEF Next
<1> QED
  BY <1>1, TimelineInvariant, PTL DEF Spec, AppendOnly

-----------------------------------------------------------------------------
(* Timeline implements Log, and what that means for retries, quotes and     *)
(* recalls.                                                                *)

\* The two steps that write a message.
Posted(r) ==
  /\ At(r, "send", "tx")
  /\ txSeq[r] \notin Seqs /\ ~ HasKey(arg[r].key)
  /\ CommitMessage(r, UserMessage(r), messages)

Recalled(r) ==
  /\ At(r, "recall", "tx")
  /\ txSeq[r] \notin Seqs
  /\ CommitMessage(r, RecallEntry(r), MarkRecalled(arg[r].msg))

\* Every other step leaves the timeline as it is.
LEMMA EntryKinds ==
  ASSUME TypeOK, LockIsExclusive, NEW r \in Requests, Handle(r) \/ Fail(r)
  PROVE  UNCHANGED messages \/ Posted(r) \/ Recalled(r)
<1>1. CASE SendCommit(r)
  BY <1>1 DEF SendCommit, Posted, RollBack, db
<1>2. CASE RecallCommit(r)
  BY <1>2 DEF RecallCommit, Recalled, RollBack, db
<1>3. CASE SendLoad(r) \/ SendMember(r) \/ SendReply(r) \/ SendIdempotent(r)
  BY <1>3 DEF SendLoad, SendMember, SendReply, SendIdempotent, Proceed, Reject, db
<1>4. CASE RecallLoad(r) \/ RecallMember(r) \/ RecallConv(r) \/ AllocateSeq(r)
  BY <1>4 DEF RecallLoad, RecallMember, RecallConv, AllocateSeq, Proceed, Reject, db
<1>5. CASE Publish(r) \/ ReportRead(r) \/ Manage(r) \/ Fail(r)
  BY <1>5 DEF Publish, ReportRead, ReadLoad, ReadSave, PublishRead, Manage,
              ManageLoad, ManageAuthorize, Fail, Proceed, Reject, db
<1>6. CASE AddMember(r) \/ RemoveMember(r)
  BY <1>6 DEF AddMember, AddTarget, AddCommit, RemoveMember, RemoveTarget,
              RemoveCommit, Proceed, Reject, RollBack, db
<1> QED
  BY <1>1, <1>2, <1>3, <1>4, <1>5, <1>6 DEF Handle, SendMessage, RecallMessage

-----------------------------------------------------------------------------
(* What a step that writes a message does to the timeline.                 *)

\* The message of r is added right behind the others, which keep their entries.
Appended(r, row) ==
  /\ txSeq[r] \in Nat
  /\ Seqs = 1..(txSeq[r] - 1)
  /\ Seqs' = Seqs \cup {txSeq[r]}
  /\ txSeq[r] \notin Seqs
  /\ messages'[txSeq[r]] = row
  /\ \A s \in Seqs : Body(messages'[s]) = Body(messages[s])
  /\ pc[r] = "tx" /\ Goto(r, "committed")
  /\ UNCHANGED <<arg, proc, outcome, published>>

\* A free seq behind last_seq is the one behind the whole timeline.
LEMMA FreeSeqIsNext ==
  ASSUME TimelineInv, NEW r \in Requests, pc[r] = "tx", txSeq[r] \notin Seqs
  PROVE  txSeq[r] \in Nat /\ Seqs = 1..(txSeq[r] - 1)
<1>1. /\ txSeq[r] = conv.lastSeq + 1 /\ conv.lastSeq \in Nat /\ Seqs \subseteq Nat
  BY DEF TimelineInv, LockIsExclusive, TypeOK, ConvRow
<1>2. 1..conv.lastSeq \subseteq Seqs
  BY <1>1 DEF TimelineInv, CursorIsPaired, PairedCursor, NoHoles
<1>3. ASSUME NEW s \in Seqs PROVE s \in 1..(txSeq[r] - 1)
  <2>1. s \in Nat /\ s >= 1 /\ 1..s \subseteq Seqs
    BY <1>1 DEF TimelineInv, NoHoles
  <2>2. ~ (txSeq[r] \in 1..s)
    BY <2>1
  <2> QED
    BY <1>1, <2>1, <2>2
<1>4. txSeq[r] \in Nat /\ 1..(txSeq[r] - 1) \subseteq Seqs
  BY <1>1, <1>2
<1>5. Seqs \subseteq 1..(txSeq[r] - 1)
  BY <1>3
<1> QED
  BY <1>4, <1>5

\* A send appends the user's message and changes no other row,
LEMMA PostedAppends ==
  ASSUME TimelineInv, NEW r \in Requests, Posted(r)
  PROVE  /\ Appended(r, UserMessage(r))
         /\ \A s \in Seqs : messages'[s] = messages[s]
<1>1. txSeq[r] \in Nat /\ Seqs = 1..(txSeq[r] - 1)
  BY FreeSeqIsNext DEF Posted, At
<1>2. /\ Seqs' = Seqs \cup {txSeq[r]}
      /\ messages'[txSeq[r]] = UserMessage(r)
      /\ \A s \in Seqs : messages'[s] = messages[s]
  BY DEF Posted, CommitMessage, Seqs
<1> QED
  BY <1>1, <1>2 DEF Posted, At, CommitMessage, Appended

\* a recall appends its entry and changes the status of what it names.
LEMMA RecalledAppends ==
  ASSUME TimelineInv, NEW r \in Requests, Recalled(r)
  PROVE  /\ Appended(r, RecallEntry(r))
         /\ \A s \in Seqs : messages'[s].status =
              IF messages[s].id = arg[r].msg THEN "recalled" ELSE messages[s].status
<1>1. txSeq[r] \in Nat /\ Seqs = 1..(txSeq[r] - 1)
  BY FreeSeqIsNext DEF Recalled, At
<1>2. /\ Seqs' = Seqs \cup {txSeq[r]}
      /\ messages'[txSeq[r]] = RecallEntry(r)
      /\ \A s \in Seqs : messages'[s] = MarkRecalled(arg[r].msg)[s]
  BY DEF Recalled, CommitMessage, Seqs
<1>3. ASSUME NEW s \in Seqs
      PROVE  /\ Body(messages'[s]) = Body(messages[s])
             /\ messages'[s].status = IF messages[s].id = arg[r].msg
                                        THEN "recalled" ELSE messages[s].status
  <2>1. messages[s] \in MsgRow
    BY DEF TimelineInv, TypeOK
  <2> QED
    BY <1>2, <2>1 DEF MarkRecalled, Body, MsgRow
<1> QED
  BY <1>1, <1>2, <1>3 DEF Recalled, At, CommitMessage, Appended

-----------------------------------------------------------------------------
(* What requests know stays true.                                          *)

\* Messages that keep their entries keep their names and senders.
LEMMA EntriesPersist ==
  ASSUME NEW r \in Requests, NEW row, Appended(r, row), NEW id,
         \A s \in Seqs : messages[s] \in MsgRow, row.id = r
  PROVE  /\ HasMessage(id) => HasMessage(id)'
         /\ HasMessage(id)' => HasMessage(id) \/ id = r
         /\ \A u : MayRecall(u, id) => MayRecall(u, id)'
<1>1. ASSUME NEW s \in Seqs
      PROVE  /\ s \in Seqs' /\ messages'[s].id = messages[s].id
             /\ messages'[s].kind = messages[s].kind
             /\ messages'[s].by = messages[s].by
  BY DEF Appended, Body
<1>2. HasMessage(id) => HasMessage(id)'
  BY <1>1 DEF HasMessage
<1>3. HasMessage(id)' => HasMessage(id) \/ id = r
  BY <1>1 DEF HasMessage, Appended
<1>4. \A u : MayRecall(u, id) => MayRecall(u, id)'
  BY <1>1 DEF MayRecall, OwnMessage
<1> QED
  BY <1>2, <1>3, <1>4

\* Nothing that is read of the messages changes while they are unchanged.
LEMMA SameMessages ==
  ASSUME UNCHANGED messages, NEW id
  PROVE  /\ HasMessage(id)' <=> HasMessage(id)
         /\ \A u : MayRecall(u, id)' <=> MayRecall(u, id)
  BY DEF HasMessage, MayRecall, OwnMessage, Seqs

\* The parts of RequestKnows.
QuoteKnown(r) ==
  arg[r].op = "send" /\ pc[r] \in {"checked", "ready", "tx"} =>
    arg[r].reply = None \/ HasMessage(arg[r].reply)
TargetKnown(r) ==
  arg[r].op = "recall" /\ pc[r] \in InFlight \ {"committed"} =>
    HasMessage(arg[r].msg)
RightKnown(r) ==
  arg[r].op = "recall" /\ pc[r] \in {"member", "ready", "tx"} =>
    MayRecall(arg[r].user, arg[r].msg)
WrittenOnce(r) == HasMessage(r) => pc[r] \in {"committed", "done"}

\* RequestKnows in those parts.
LEMMA KnowsParts ==
  ASSUME NEW r
  PROVE  RequestKnows(r) <=> /\ QuoteKnown(r) /\ TargetKnown(r)
                             /\ RightKnown(r) /\ WrittenOnce(r)
  BY DEF RequestKnows, At, QuoteKnown, TargetKnown, RightKnown, WrittenOnce

\* A request that is over knows nothing.
LEMMA KnowsAtTheEnd ==
  ASSUME NEW r \in Requests, pc'[r] = "done"
  PROVE  RequestKnows(r)'
  BY DEF RequestKnows, At, InFlight, Stages

\* A request that goes on with the same command and without a new check knows
\* what it knew.
LEMMA KnowsInTransit ==
  ASSUME TypeOK, NEW r \in Requests, RequestKnows(r), NEW stage \in InFlight,
         UNCHANGED <<messages, arg>>, Goto(r, stage), pc[r] \in InFlight,
         pc[r] = "committed" => stage = "committed",
         arg[r].op = "send" /\ stage \in {"checked", "ready", "tx"} =>
           pc[r] \in {"checked", "ready", "tx"},
         arg[r].op = "recall" /\ stage \in {"member", "ready", "tx"} =>
           pc[r] \in {"member", "ready", "tx"}
  PROVE  RequestKnows(r)'
<1>1. /\ pc'[r] = stage /\ stage # "done" /\ pc[r] # "done"
      /\ pc[r] = "committed" => stage = "committed"
  BY DEF Goto, TypeOK, InFlight, Stages
<1>2. QuoteKnown(r)'
  BY <1>1, KnowsParts DEF QuoteKnown, HasMessage, Seqs
<1>3. TargetKnown(r)'
  BY <1>1, KnowsParts DEF TargetKnown, HasMessage, Seqs
<1>4. RightKnown(r)'
  BY <1>1, KnowsParts DEF RightKnown, MayRecall, OwnMessage, Seqs
<1>5. WrittenOnce(r)'
  BY <1>1, KnowsParts DEF WrittenOnce, HasMessage, Seqs
<1> QED
  BY <1>2, <1>3, <1>4, <1>5 DEF RequestKnows, At, QuoteKnown, TargetKnown,
     RightKnown, WrittenOnce

\* Every step of a request that leaves the messages alone keeps what it knows:
\* the checks of SendReply, RecallLoad and RecallMember establish it.
LEMMA KnowsActor ==
  ASSUME TypeOK, NEW r \in Requests, RequestKnows(r), Handle(r) \/ Fail(r),
         UNCHANGED messages
  PROVE  RequestKnows(r)'
<1> USE DEF At
<1>d. ASSUME NEW code, NEW msg, Answer(r, code, msg) PROVE RequestKnows(r)'
  <2>1. pc'[r] = "done"
    BY <1>d DEF Answer, Goto, TypeOK
  <2> QED
    BY <2>1, KnowsAtTheEnd
<1>r. ASSUME Reject(r) PROVE RequestKnows(r)'
  BY <1>r, <1>d DEF Reject
<1>1. CASE SendLoad(r)
  <2>1. /\ arg'[r].op = "send" /\ pc'[r] = "loaded" /\ pc[r] = "idle"
    BY <1>1 DEF SendLoad, Begin, Goto, TypeOK, SendCommand
  <2> QED
    BY <2>1 DEF RequestKnows, HasMessage, Seqs
<1>2. CASE SendMember(r)
  BY <1>2, <1>r, KnowsInTransit DEF SendMember, Proceed, InFlight, Stages
<1>3. CASE SendReply(r)
  <2>1. ASSUME NEW reply \in {None} \cup {messages[s].id : s \in Seqs},
               arg' = [arg EXCEPT ![r].reply = reply], Goto(r, "checked")
        PROVE  RequestKnows(r)'
    <3>1. reply = None \/ HasMessage(reply)
      BY DEF HasMessage
    <3>2. arg[r] \in SendCommand
      BY <1>3, CommandByOp DEF SendReply, TypeOK
    <3>3. arg'[r].op = "send" /\ arg'[r].reply = reply
      BY <2>1, <3>2 DEF TypeOK, SendCommand
    <3>4. pc'[r] = "checked" /\ pc[r] = "member"
      BY <1>3, <2>1 DEF SendReply, Goto, TypeOK
    <3> QED
      BY <3>1, <3>3, <3>4 DEF RequestKnows, HasMessage, Seqs
  <2> QED
    BY <1>3, <2>1, <1>r DEF SendReply
<1>4. CASE SendIdempotent(r)
  BY <1>4, <1>d, KnowsInTransit DEF SendIdempotent, Proceed, InFlight, Stages
<1>5. CASE RecallLoad(r)
  <2>1. PICK cmd \in RecallCommand :
          /\ Begin(r, cmd)
          /\ \/ HasMessage(cmd.msg) /\ Goto(r, "loaded")
             \/ Answer(r, "rejected", None)
    BY <1>5 DEF RecallLoad, HasMessage
  <2>2. arg'[r] = cmd /\ cmd.op = "recall" /\ pc[r] = "idle"
    BY <2>1 DEF Begin, TypeOK, RecallCommand
  <2>3. ASSUME HasMessage(cmd.msg), Goto(r, "loaded") PROVE RequestKnows(r)'
    <3>1. pc'[r] = "loaded"
      BY <2>3 DEF Goto, TypeOK
    <3> QED
      BY <2>2, <2>3, <3>1 DEF RequestKnows, HasMessage, Seqs
  <2> QED
    BY <2>1, <2>3, <1>d
<1>6. CASE RecallMember(r)
  <2>1. ASSUME MayRecall(arg[r].user, arg[r].msg), Proceed(r, "member")
        PROVE  RequestKnows(r)'
    <3>1. pc'[r] = "member" /\ pc[r] = "loaded" /\ UNCHANGED arg
      BY <1>6, <2>1 DEF RecallMember, Proceed, Goto, TypeOK
    <3>2. arg[r].op = "recall" /\ HasMessage(arg[r].msg)
      BY <1>6 DEF RecallMember, RequestKnows, InFlight, Stages
    <3>3. ~ HasMessage(r)
      BY <3>1 DEF RequestKnows
    <3> QED
      BY <2>1, <3>1, <3>2, <3>3
         DEF RequestKnows, MayRecall, OwnMessage, HasMessage, Seqs
  <2> QED
    BY <1>6, <2>1, <1>r DEF RecallMember, MayRecall
<1>7. CASE RecallConv(r)
  BY <1>7, KnowsInTransit DEF RecallConv, db, InFlight, Stages
<1>8. CASE AllocateSeq(r)
  BY <1>8, KnowsInTransit DEF AllocateSeq, db, InFlight, Stages
<1>9. CASE SendCommit(r) \/ RecallCommit(r)
  <2>1. ASSUME NEW row, NEW timeline, CommitMessage(r, row, timeline)
        PROVE  RequestKnows(r)'
    BY <2>1, <1>9, KnowsInTransit
       DEF SendCommit, RecallCommit, CommitMessage, InFlight, Stages
  <2> QED
    BY <1>9, <1>d, <2>1 DEF SendCommit, RecallCommit, RollBack
<1>10. CASE Publish(r) \/ PublishRead(r) \/ Fail(r)
  BY <1>10, <1>d DEF Publish, PublishRead, Fail
<1>11. CASE ReadLoad(r)
  <2>1. ASSUME Goto(r, "ready") PROVE RequestKnows(r)'
    <3>1. arg'[r].op = "read" /\ pc'[r] = "ready" /\ pc[r] = "idle"
      BY <1>11, <2>1 DEF ReadLoad, Begin, Goto, TypeOK, ReadCommand
    <3> QED
      BY <3>1 DEF RequestKnows, HasMessage, Seqs
  <2> QED
    BY <1>11, <2>1, <1>d DEF ReadLoad
<1>12. CASE ReadSave(r)
  BY <1>12, KnowsInTransit DEF ReadSave, InFlight, Stages
<1>13. CASE ManageLoad(r)
  <2>1. ASSUME Goto(r, "loaded") PROVE RequestKnows(r)'
    <3>1. /\ arg'[r].op \in {"add", "remove"}
          /\ pc'[r] = "loaded" /\ pc[r] = "idle"
      BY <1>13, <2>1 DEF ManageLoad, Begin, Goto, TypeOK, AddCommand, RemoveCommand
    <3> QED
      BY <3>1 DEF RequestKnows, HasMessage, Seqs
  <2> QED
    BY <1>13, <2>1, <1>d DEF ManageLoad
<1>14. CASE ManageAuthorize(r) \/ AddTarget(r)
  BY <1>14, <1>r, KnowsInTransit DEF ManageAuthorize, AddTarget, Proceed, InFlight, Stages
<1>15. CASE RemoveTarget(r)
  <2>1. ASSUME Goto(r, "ready"), UNCHANGED arg PROVE RequestKnows(r)'
    BY <1>15, <2>1, KnowsInTransit DEF RemoveTarget, InFlight, Stages
  <2> QED
    BY <1>15, <2>1, <1>r, <1>d DEF RemoveTarget
<1>16. CASE AddCommit(r) \/ RemoveCommit(r)
  BY <1>16, <1>d DEF AddCommit, RemoveCommit, RollBack
<1> QED
  BY <1>1, <1>2, <1>3, <1>4, <1>5, <1>6, <1>7, <1>8, <1>9, <1>10, <1>11, <1>12,
     <1>13, <1>14, <1>15, <1>16
     DEF Handle, SendMessage, RecallMessage, ReportRead, Manage, AddMember,
         RemoveMember

\* A message of r changes nothing for the other requests; r is past its commit.
LEMMA KnowsAppended ==
  ASSUME LogInv, NEW r \in Requests, NEW row, row.id = r, Appended(r, row),
         NEW q \in Requests
  PROVE  RequestKnows(q)'
<1>0. /\ \A s \in Seqs : messages[s] \in MsgRow
      /\ pc' = [pc EXCEPT ![r] = "committed"] /\ pc \in [Requests -> Stages]
      /\ arg' = arg
      /\ RequestKnows(q)
  BY DEF LogInv, TimelineInv, TypeOK, Appended, Goto
<1>1. CASE q = r
  BY <1>0, <1>1 DEF RequestKnows, At
<1>2. CASE q # r
  <2>1. pc'[q] = pc[q] /\ arg'[q] = arg[q]
    BY <1>0, <1>2
  <2>2. QuoteKnown(q)'
    <3>1. HasMessage(arg[q].reply) => HasMessage(arg[q].reply)'
      BY <1>0, EntriesPersist
    <3> QED
      BY <1>0, <2>1, <3>1, KnowsParts DEF QuoteKnown
  <2>3. TargetKnown(q)'
    <3>1. HasMessage(arg[q].msg) => HasMessage(arg[q].msg)'
      BY <1>0, EntriesPersist
    <3> QED
      BY <1>0, <2>1, <3>1, KnowsParts DEF TargetKnown
  <2>4. RightKnown(q)'
    <3>1. MayRecall(arg[q].user, arg[q].msg) => MayRecall(arg[q].user, arg[q].msg)'
      BY <1>0, EntriesPersist
    <3> QED
      BY <1>0, <2>1, <3>1, KnowsParts DEF RightKnown
  <2>5. WrittenOnce(q)'
    <3>1. HasMessage(q)' => HasMessage(q)
      BY <1>0, <1>2, EntriesPersist
    <3> QED
      BY <2>1, <3>1, <1>0, KnowsParts DEF WrittenOnce
  <2> QED
    BY <2>2, <2>3, <2>4, <2>5 DEF RequestKnows, At, QuoteKnown, TargetKnown,
       RightKnown, WrittenOnce
<1> QED
  BY <1>1, <1>2

\* A message under a new id keeps the ids apart.
UniqueMessages == \A s, t \in Seqs : messages[s].id = messages[t].id => s = t

\* A message under a new id keeps the ids apart.
LEMMA UniqueAppended ==
  ASSUME LogInv, NEW r \in Requests, NEW row, row.id = r, Appended(r, row)
  PROVE  UniqueMessages'
<1>1. \A s \in Seqs : messages'[s].id = messages[s].id
  BY DEF Appended, Body
<1>2. ~ HasMessage(r)
  BY DEF LogInv, RequestKnows, Appended
<1>3. UniqueMessages
  BY DEF LogInv, UniqueMessages
<1>4. Seqs' = Seqs \cup {txSeq[r]} /\ messages'[txSeq[r]].id = r
  BY DEF Appended
<1> QED
  BY <1>1, <1>2, <1>3, <1>4 DEF UniqueMessages, HasMessage

\* Every step of a handler appends at most one message.
LEMMA StepAppends ==
  ASSUME TimelineInv, NEW r \in Requests, Handle(r) \/ Fail(r)
  PROVE  \/ UNCHANGED messages
         \/ Posted(r) /\ Appended(r, UserMessage(r))
         \/ Recalled(r) /\ Appended(r, RecallEntry(r))
  BY EntryKinds, PostedAppends, RecalledAppends DEF TimelineInv

\* A step of one request leaves the others where they are.
LEMMA OthersStay ==
  ASSUME TypeOK, NEW r \in Requests, Handle(r) \/ Fail(r), UNCHANGED messages,
         NEW q \in Requests, q # r, RequestKnows(q), LockIsExclusive
  PROVE  RequestKnows(q)'
<1>1. pc'[q] = pc[q] /\ arg'[q] = arg[q]
  <2>1. CASE Written(r) \/ AllocateSeq(r) \/ Released(r)
    BY <2>1 DEF Written, AllocateSeq, Released, Goto, TypeOK
  <2>2. CASE Outside(r)
    BY <2>2 DEF Outside, Goto, TypeOK
  <2> QED
    BY <2>1, <2>2, StepKinds
<1> QED
  BY <1>1 DEF RequestKnows, At, HasMessage, MayRecall, OwnMessage, Seqs

\* The initial states satisfy the invariant of the log,
LEMMA LogInit == Init => LogInv
<1> SUFFICES ASSUME Init PROVE LogInv
  OBVIOUS
<1>1. TimelineInv
  BY TimelineInit
<1>2. Seqs = {} /\ \A r \in Requests : pc[r] = "idle"
  BY DEF Init, Quiet, Seqs
<1> QED
  BY <1>1, <1>2 DEF LogInv, RequestKnows, At, InFlight, Stages, HasMessage

\* and every step preserves it.
LEMMA LogNext == LogInv /\ [Next]_vars => LogInv'
<1> SUFFICES ASSUME LogInv, [Next]_vars PROVE LogInv'
  OBVIOUS
<1>1. TimelineInv /\ TypeOK /\ LockIsExclusive /\ TimelineInv'
  BY TimelineNext DEF LogInv, TimelineInv
<1>2. CASE UNCHANGED vars
  BY <1>1, <1>2 DEF LogInv, vars, db, RequestKnows, At, HasMessage, MayRecall,
                    OwnMessage, Seqs
<1>3. ASSUME NEW r \in Requests, Handle(r) \/ Fail(r), UNCHANGED messages
      PROVE  LogInv'
  <2>1. \A q \in Requests : RequestKnows(q)'
    BY <1>1, <1>3, KnowsActor, OthersStay DEF LogInv
  <2> QED
    BY <1>1, <1>3, <2>1 DEF LogInv, Seqs
<1>4. ASSUME NEW r \in Requests, NEW row, row.id = r, Appended(r, row)
      PROVE  LogInv'
  BY <1>1, <1>4, KnowsAppended, UniqueAppended DEF LogInv, UniqueMessages
<1>5. ASSUME NEW r \in Requests
      PROVE  UserMessage(r).id = r /\ RecallEntry(r).id = r
  BY DEF UserMessage, RecallEntry
<1> QED
  BY <1>1, <1>2, <1>3, <1>4, <1>5, StepAppends DEF Next

\* What handlers have checked about messages still holds when they commit, and
\* no id is used twice.
THEOREM LogInvariant == Spec => []LogInv
<1> QED
  BY LogInit, LogNext, PTL DEF Spec

-----------------------------------------------------------------------------
(* The steps of Timeline are steps of Log.                                 *)

Entries == [s \in Seqs |-> Body(messages[s])]
Withdrawn == {s \in Seqs : messages[s].status = "recalled"}
Told == {e.seq : e \in {x \in published : x.type = "created"}}

\* Appending a message appends its entry.
LEMMA AppendedEntry ==
  ASSUME LogInv, NEW r \in Requests, NEW row \in MsgRow, row.id = r,
         Appended(r, row)
  PROVE  /\ LogPromise!Append(Body(row), txSeq[r] - 1)
         /\ txSeq[r] - 1 \in DOMAIN Entries \cup {0}
         /\ txSeq[r] \in DOMAIN Entries' /\ Entries'[txSeq[r]] = Body(row)
<1>1. /\ txSeq[r] \in Nat /\ Seqs = 1..(txSeq[r] - 1)
      /\ Seqs' = Seqs \cup {txSeq[r]} /\ txSeq[r] \notin Seqs
  BY DEF Appended
<1>2. txSeq[r] # 0
  BY DEF LogInv, TimelineInv, LockIsExclusive, TypeOK, ConvRow, Appended
<1>3. Seqs' = 1..((txSeq[r] - 1) + 1)
  BY <1>1, <1>2
<1>4. txSeq[r] - 1 \in Seqs \cup {0} /\ (txSeq[r] - 1) + 1 = txSeq[r]
  BY <1>1, <1>2
<1>5. Entries' = [s \in 1..((txSeq[r] - 1) + 1) |->
                    IF s = (txSeq[r] - 1) + 1 THEN Body(row) ELSE Entries[s]]
  <2>1. Entries' = [s \in Seqs' |-> Body(messages'[s])]
    BY DEF Entries, Body
  <2>2. \A s \in Seqs' : Body(messages'[s]) =
          IF s = txSeq[r] THEN Body(row) ELSE Entries[s]
    BY <1>1 DEF Appended, Entries
  <2> QED
    BY <1>3, <1>4, <2>1, <2>2
<1>6. \A s \in DOMAIN Entries : Entries[s].id # Body(row).id
  BY DEF LogInv, RequestKnows, Appended, Entries, Body, HasMessage
<1>7. UNCHANGED Told
  BY DEF Appended, Told
<1>8. DOMAIN Entries = 1..(txSeq[r] - 1)
  BY <1>1 DEF Entries
<1>9. txSeq[r] \in DOMAIN Entries' /\ Entries'[txSeq[r]] = Body(row)
  BY <1>1, <1>3, <1>4, <1>5
<1> QED
  BY <1>4, <1>5, <1>6, <1>7, <1>8, <1>9, <1>1
     DEF LogPromise!Append, LogPromise!Names, Entries, Told

\* A post of the last entry is a step of the log,
LEMMA PostIsStep ==
  ASSUME NEW n \in DOMAIN Entries \cup {0}, NEW q \in DOMAIN Entries',
         LogPromise!Post(Entries'[q], n)
  PROVE  LogPromise!Next
  BY DEF LogPromise!Next, Entries

\* and so is a recall.
LEMMA RecallIsStep ==
  ASSUME NEW n \in DOMAIN Entries \cup {0}, NEW q \in DOMAIN Entries',
         LogPromise!Recall(Entries'[q], n)
  PROVE  LogPromise!Next
  BY DEF LogPromise!Next, Entries

\* A send that commits is a post,
LEMMA PostedPosts ==
  ASSUME LogInv, NEW r \in Requests, Posted(r)
  PROVE  LogPromise!Next
<1> DEFINE row == UserMessage(r)
           n   == txSeq[r] - 1
<1>1. Appended(r, row) /\ \A s \in Seqs : messages'[s] = messages[s]
  BY PostedAppends DEF LogInv
<1>2. arg[r] \in SendCommand /\ \A s \in Seqs : messages[s] \in MsgRow
  BY CommandByOp DEF LogInv, TimelineInv, TypeOK, Posted, At
<1>3. row \in MsgRow /\ row.id = r
  BY <1>2 DEF UserMessage, MsgRow, SendCommand
<1>4. /\ LogPromise!Append(Body(row), n) /\ n \in DOMAIN Entries \cup {0}
      /\ txSeq[r] \in DOMAIN Entries' /\ Entries'[txSeq[r]] = Body(row)
  BY <1>1, <1>3, AppendedEntry
<1>5. Body(row).kind = "user"
  BY DEF Body, UserMessage
<1>6. \A s \in DOMAIN Entries : Entries[s].key # Body(row).key
  BY DEF Posted, HasKey, Entries, Body, UserMessage
<1>7. Body(row).ref = None \/ \E s \in DOMAIN Entries : Entries[s].id = Body(row).ref
  <2>1. arg[r].reply = None \/ HasMessage(arg[r].reply)
    BY DEF LogInv, RequestKnows, Posted, At
  <2> QED
    BY <2>1 DEF HasMessage, Entries, Body, UserMessage
<1>8. UNCHANGED Withdrawn
  BY <1>1 DEF Appended, Withdrawn, UserMessage
<1>9. LogPromise!Post(Body(row), n)
  BY <1>4, <1>5, <1>6, <1>7, <1>8
     DEF LogPromise!Post, LogPromise!Names, Entries, Withdrawn
<1> QED
  BY <1>4, <1>9, PostIsStep

\* and a recall that commits is a recall: of the one message with the id, which
\* its user may recall.
LEMMA RecalledRecalls ==
  ASSUME LogInv, NEW r \in Requests, Recalled(r)
  PROVE  LogPromise!Next
<1> DEFINE row == RecallEntry(r)
           n   == txSeq[r] - 1
<1>1. /\ Appended(r, row)
      /\ \A s \in Seqs : messages'[s].status =
           IF messages[s].id = arg[r].msg THEN "recalled" ELSE messages[s].status
  BY RecalledAppends DEF LogInv
<1>2. arg[r] \in RecallCommand
  BY CommandByOp DEF LogInv, TimelineInv, TypeOK, Recalled, At
<1>3. row \in MsgRow /\ row.id = r
  BY <1>2 DEF RecallEntry, MsgRow, RecallCommand, Ids
<1>4. /\ LogPromise!Append(Body(row), n) /\ n \in DOMAIN Entries \cup {0}
      /\ txSeq[r] \in DOMAIN Entries' /\ Entries'[txSeq[r]] = Body(row)
  BY <1>1, <1>3, AppendedEntry
<1>5. LogPromise!Recall(Body(row), n)
  <2>1. PICK q \in Seqs : messages[q].id = arg[r].msg
    BY DEF LogInv, RequestKnows, Recalled, At, HasMessage, InFlight, Stages
  <2>2. Withdrawn' = Withdrawn \cup {q}
    <3>1. \A t \in Seqs : messages[t].id = arg[r].msg <=> t = q
      BY <2>1 DEF LogInv
    <3>2. messages'[txSeq[r]].status = "normal"
      BY <1>1 DEF Appended, RecallEntry
    <3>3. Seqs' = Seqs \cup {txSeq[r]} /\ txSeq[r] \notin Seqs
      BY <1>1 DEF Appended
    <3> QED
      BY <1>1, <2>1, <3>1, <3>2, <3>3 DEF Withdrawn
  <2>3. \/ arg[r].user \in Moderators
        \/ messages[q].kind = "user" /\ messages[q].by = arg[r].user
    BY <2>1 DEF LogInv, RequestKnows, Recalled, At, MayRecall, OwnMessage
  <2>4. /\ q \in DOMAIN Entries /\ Entries[q].id = Body(row).ref
        /\ Entries[q].kind = messages[q].kind /\ Entries[q].by = messages[q].by
        /\ Body(row).kind = "recall" /\ Body(row).by = arg[r].user
    BY <2>1 DEF Entries, Body, RecallEntry
  <2> QED
    BY <1>4, <2>2, <2>3, <2>4
       DEF LogPromise!Recall, LogPromise!Names, LogPromise!MayRecall, Entries,
           Withdrawn
<1> QED
  BY <1>4, <1>5, RecallIsStep

\* A signal announces a seq of the log; nothing else is seen of a step that
\* leaves the messages alone.
LEMMA SilentAnnounces ==
  ASSUME LogInv, NEW r \in Requests, Handle(r) \/ Fail(r), UNCHANGED messages
  PROVE  [LogPromise!Next]_LogPromise!vars
<1>1. UNCHANGED <<Entries, Withdrawn>>
  BY DEF Entries, Withdrawn, Body, Seqs
<1>2. CASE Publish(r)
  <2>1. txSeq[r] \in Seqs
    BY <1>2 DEF LogInv, TimelineInv, CommittedIsStored, Publish
  <2>2. Told' = Told \cup {txSeq[r]}
    <3> DEFINE e == [type |-> "created", seq |-> txSeq[r]]
    <3>1. published' = published \cup {e} /\ e.type = "created" /\ e.seq = txSeq[r]
      BY <1>2 DEF Publish
    <3> HIDE DEF e
    <3> QED
      BY <3>1 DEF Told
  <2>3. LogPromise!Announce
    BY <1>1, <2>1, <2>2 DEF LogPromise!Announce, Entries, Withdrawn, Told
  <2> QED
    BY <2>3 DEF LogPromise!Next
<1>3. CASE PublishRead(r)
  <2>1. UNCHANGED Told
    BY <1>3 DEF PublishRead, Told
  <2> QED
    BY <1>1, <2>1 DEF LogPromise!vars, Entries, Withdrawn, Told
<1>4. CASE ~ Publish(r) /\ ~ PublishRead(r)
  <2>1. UNCHANGED published
    <3>1. CASE SendMessage(r) \/ RecallMessage(r) \/ AllocateSeq(r) \/ Fail(r)
      BY <3>1 DEF SendMessage, SendLoad, SendMember, SendReply, SendIdempotent,
         SendCommit, RecallMessage, RecallLoad, RecallMember, RecallConv,
         RecallCommit, AllocateSeq, Fail, Proceed, Reject, RollBack, CommitMessage
    <3>2. CASE ReadLoad(r) \/ ReadSave(r) \/ Manage(r) \/ AddMember(r) \/ RemoveMember(r)
      BY <3>2 DEF ReadLoad, ReadSave, Manage, ManageLoad, ManageAuthorize,
         AddMember, AddTarget, AddCommit, RemoveMember, RemoveTarget,
         RemoveCommit, Proceed, Reject, RollBack
    <3> QED
      BY <1>4, <3>1, <3>2 DEF Handle, ReportRead
  <2> QED
    BY <1>1, <2>1 DEF LogPromise!vars, Entries, Withdrawn
<1> QED
  BY <1>2, <1>3, <1>4

\* Every step of Timeline is a step of the log, or is not seen of it.
LEMMA LogStepIsStep ==
  ASSUME LogInv, [Next]_vars
  PROVE  [LogPromise!Next]_LogPromise!vars
<1>1. CASE UNCHANGED vars
  BY <1>1 DEF vars, db, LogPromise!vars, Seqs, Body
<1>2. ASSUME NEW r \in Requests, Handle(r) \/ Fail(r)
      PROVE  [LogPromise!Next]_LogPromise!vars
  BY <1>2, EntryKinds, PostedPosts, RecalledRecalls, SilentAnnounces
     DEF LogInv, TimelineInv
<1> QED
  BY <1>1, <1>2 DEF Next

\* The refinement: however requests overlap and fail, the timeline is a log that
\* is written one entry at a time, each entry once, behind what it quotes.
THEOREM TimelineImplementsLog == Spec => ImplementsLog
<1>1. Init => LogPromise!Init
  <2> SUFFICES ASSUME Init PROVE LogPromise!Init
    OBVIOUS
  <2>1. Seqs = {} /\ published = {}
    BY DEF Init, Quiet, Seqs
  <2> QED
    BY <2>1 DEF LogPromise!Init
<1>2. LogInv /\ [Next]_vars => [LogPromise!Next]_LogPromise!vars
  BY LogStepIsStep
<1> QED
  BY <1>1, <1>2, LogInvariant, PTL DEF Spec, ImplementsLog, LogPromise!Spec

-----------------------------------------------------------------------------
(* What the log means for quotes, recalls and retries.                     *)

\* The shape of every step, for the invariants below.
LEMMA LogSteps ==
  ASSUME LogInv, [Next]_vars
  PROVE  \/ UNCHANGED messages
         \/ \E r \in Requests : Posted(r) /\ Appended(r, UserMessage(r))
         \/ \E r \in Requests : Recalled(r) /\ Appended(r, RecallEntry(r))
  BY StepAppends DEF LogInv, Next, vars, db

\* A quoted or recalled message stands before what quotes or recalls it.
THEOREM ReferencesPointBack == Spec => []RefersBack
<1>1. Init => RefersBack
  BY DEF Init, Quiet, RefersBack, Seqs
<1>2. ASSUME LogInv, RefersBack, [Next]_vars PROVE RefersBack'
  <2>1. CASE UNCHANGED messages
    BY <1>2, <2>1 DEF RefersBack, Seqs
  <2>2. ASSUME NEW r \in Requests, NEW row, Appended(r, row),
               row.ref = None \/ HasMessage(row.ref)
        PROVE  RefersBack'
    <3>1. /\ Seqs' = Seqs \cup {txSeq[r]} /\ Seqs = 1..(txSeq[r] - 1)
          /\ txSeq[r] \in Nat /\ messages'[txSeq[r]] = row
      BY <2>2 DEF Appended
    <3>2. \A s \in Seqs : s < txSeq[r]
      BY <3>1
    <3>3. \A s \in Seqs : messages'[s].id = messages[s].id
                          /\ messages'[s].ref = messages[s].ref
      BY <2>2 DEF Appended, Body
    <3>4. ASSUME NEW s \in Seqs, messages'[s].ref # None
          PROVE  \E t \in Seqs' : t < s /\ messages'[t].id = messages'[s].ref
      <4>1. PICK t \in Seqs : t < s /\ messages[t].id = messages[s].ref
        BY <1>2, <3>3, <3>4 DEF RefersBack
      <4> QED
        BY <3>1, <3>3, <4>1
    <3>5. ASSUME row.ref # None
          PROVE  \E t \in Seqs' : t < txSeq[r] /\ messages'[t].id = row.ref
      <4>1. PICK t \in Seqs : messages[t].id = row.ref
        BY <2>2, <3>5 DEF HasMessage
      <4> QED
        BY <3>1, <3>2, <3>3, <4>1
    <3> QED
      BY <3>1, <3>4, <3>5 DEF RefersBack
  <2>3. ASSUME NEW r \in Requests, Posted(r)
        PROVE  UserMessage(r).ref = None \/ HasMessage(UserMessage(r).ref)
    BY <1>2, <2>3 DEF LogInv, RequestKnows, Posted, At, UserMessage
  <2>4. ASSUME NEW r \in Requests, Recalled(r)
        PROVE  HasMessage(RecallEntry(r).ref)
    BY <1>2, <2>4 DEF LogInv, RequestKnows, Recalled, At, RecallEntry, InFlight,
       Stages
  <2> QED
    BY <1>2, <2>1, <2>2, <2>3, <2>4, LogSteps
<1> QED
  BY <1>1, <1>2, LogInvariant, PTL DEF Spec

\* A message is recalled only for its sender or a moderator, although the check
\* is made long before the transaction.
THEOREM RecallsStayAuthorized == Spec => []RecallIsAuthorized
<1>1. Init => RecallIsAuthorized
  BY DEF Init, Quiet, RecallIsAuthorized, Seqs
<1>2. ASSUME LogInv, RefersBack, RecallIsAuthorized, [Next]_vars
      PROVE  RecallIsAuthorized'
  <2>1. CASE UNCHANGED messages
    BY <1>2, <2>1 DEF RecallIsAuthorized, Seqs
  <2>2. ASSUME NEW r \in Requests, NEW row, Appended(r, row), row.id = r,
               row.kind = "recall" => HasMessage(row.ref) /\ MayRecall(row.by, row.ref)
        PROVE  RecallIsAuthorized'
    <3>1. Seqs' = Seqs \cup {txSeq[r]} /\ messages'[txSeq[r]] = row
      BY <2>2 DEF Appended
    <3>2. \A s \in Seqs : /\ messages'[s].id = messages[s].id
                          /\ messages'[s].ref = messages[s].ref
                          /\ messages'[s].kind = messages[s].kind
                          /\ messages'[s].by = messages[s].by
      BY <2>2 DEF Appended, Body
    <3>3. ~ HasMessage(r) /\ r # None
      BY <1>2, <2>2, NoneAssumption DEF LogInv, RequestKnows, Appended
    <3> SUFFICES ASSUME NEW s \in Seqs', NEW t \in Seqs',
                        messages'[t].kind = "recall",
                        messages'[t].ref = messages'[s].id
                 PROVE  \/ messages'[t].by \in Moderators
                        \/ messages'[s].kind = "user" /\ messages'[s].by = messages'[t].by
      BY DEF RecallIsAuthorized
    <3>4. CASE s \in Seqs /\ t \in Seqs
      BY <1>2, <3>2, <3>4 DEF RecallIsAuthorized
    <3>5. CASE s \in Seqs /\ t = txSeq[r]
      <4>1. messages[s].id = row.ref /\ row.kind = "recall"
        BY <3>1, <3>2, <3>5
      <4>2. row.by \in Moderators
              \/ \E q \in Seqs : messages[q].id = row.ref
                                  /\ messages[q].kind = "user" /\ messages[q].by = row.by
        BY <2>2, <4>1 DEF MayRecall, OwnMessage
      <4>3. \A q \in Seqs : messages[q].id = row.ref => q = s
        BY <1>2, <3>5, <4>1 DEF LogInv
      <4> QED
        BY <3>1, <3>2, <3>5, <4>2, <4>3
    <3>6. CASE s = txSeq[r] /\ t \in Seqs
      <4>1. messages[t].ref = r
        BY <2>2, <3>1, <3>2, <3>6
      <4>2. HasMessage(r)
        BY <1>2, <3>3, <3>6, <4>1 DEF RefersBack, HasMessage
      <4> QED
        BY <3>3, <4>2
    <3>7. CASE s = txSeq[r] /\ t = txSeq[r]
      BY <2>2, <3>1, <3>3, <3>7
    <3> QED
      BY <3>1, <3>4, <3>5, <3>6, <3>7
  <2>3. ASSUME NEW r \in Requests
        PROVE  /\ UserMessage(r).id = r /\ UserMessage(r).kind = "user"
               /\ RecallEntry(r).id = r
    BY DEF UserMessage, RecallEntry
  <2>4. ASSUME NEW r \in Requests, Recalled(r)
        PROVE  /\ HasMessage(RecallEntry(r).ref)
               /\ MayRecall(RecallEntry(r).by, RecallEntry(r).ref)
    BY <1>2, <2>4 DEF LogInv, RequestKnows, Recalled, At, RecallEntry, InFlight,
       Stages
  <2> QED
    BY <1>2, <2>1, <2>2, <2>3, <2>4, LogSteps
<1> QED
  BY <1>1, <1>2, LogInvariant, ReferencesPointBack, PTL DEF Spec

\* Status and recall entry agree at every moment: no failure leaves one of them.
THEOREM RecallsStayTraced == Spec => []RecallIsTraced
<1>1. Init => RecallIsTraced
  BY DEF Init, Quiet, RecallIsTraced, Seqs
<1>2. ASSUME LogInv, RecallIsTraced, [Next]_vars PROVE RecallIsTraced'
  <2>1. CASE UNCHANGED messages
    BY <1>2, <2>1 DEF RecallIsTraced, Seqs
  <2>2. ASSUME NEW r \in Requests, NEW row, Appended(r, row), row.status = "normal",
               \A s \in Seqs : messages'[s].status = "recalled" <=>
                 \/ messages[s].status = "recalled"
                 \/ row.kind = "recall" /\ row.ref = messages[s].id
        PROVE  RecallIsTraced'
    <3>1. /\ Seqs' = Seqs \cup {txSeq[r]} /\ Seqs = 1..(txSeq[r] - 1)
          /\ txSeq[r] \in Nat /\ messages'[txSeq[r]] = row
      BY <2>2 DEF Appended
    <3>2. \A s \in Seqs : s < txSeq[r]
      BY <3>1
    <3>3. \A s \in Seqs : /\ messages'[s].id = messages[s].id
                          /\ messages'[s].ref = messages[s].ref
                          /\ messages'[s].kind = messages[s].kind
      BY <2>2 DEF Appended, Body
    <3> DEFINE Tr(s) == \E t \in Seqs' : /\ t > s /\ messages'[t].kind = "recall"
                                       /\ messages'[t].ref = messages'[s].id
    <3>4. ASSUME NEW s \in Seqs
          PROVE  messages'[s].status = "recalled" <=> Tr(s)
      <4>1. Tr(s) <=> \/ \E t \in Seqs : /\ t > s /\ messages[t].kind = "recall"
                                         /\ messages[t].ref = messages[s].id
                      \/ row.kind = "recall" /\ row.ref = messages[s].id
        <5>1. txSeq[r] > s
          BY <3>1, <3>2
        <5> QED
          BY <3>1, <3>3, <5>1
      <4> QED
        BY <1>2, <2>2, <4>1 DEF RecallIsTraced
    <3>5. ~ Tr(txSeq[r])
      <4>1. \A t \in Seqs' : ~ (t > txSeq[r])
        BY <3>1
      <4> QED
        BY <4>1
    <3>6. messages'[txSeq[r]].status # "recalled"
      BY <2>2, <3>1
    <3> QED
      BY <3>1, <3>4, <3>5, <3>6 DEF RecallIsTraced
  <2>3. ASSUME NEW r \in Requests, Posted(r), Appended(r, UserMessage(r))
        PROVE  RecallIsTraced'
    <3>1. UserMessage(r).kind = "user" /\ UserMessage(r).status = "normal"
      BY DEF UserMessage
    <3>2. \A s \in Seqs : messages'[s] = messages[s]
      BY <1>2, <2>3, PostedAppends DEF LogInv
    <3> QED
      BY <2>2, <2>3, <3>1, <3>2
  <2>4. ASSUME NEW r \in Requests, Recalled(r), Appended(r, RecallEntry(r))
        PROVE  RecallIsTraced'
    <3>1. /\ RecallEntry(r).kind = "recall" /\ RecallEntry(r).status = "normal"
          /\ RecallEntry(r).ref = arg[r].msg
      BY DEF RecallEntry
    <3>2. \A s \in Seqs : messages'[s].status =
            IF messages[s].id = arg[r].msg THEN "recalled" ELSE messages[s].status
      BY <1>2, <2>4, RecalledAppends DEF LogInv
    <3> QED
      BY <2>2, <2>4, <3>1, <3>2
  <2> QED
    BY <1>2, <2>1, <2>3, <2>4, LogSteps
<1> QED
  BY <1>1, <1>2, LogInvariant, PTL DEF Spec

\* Message id is stored under client_msg_id k.
Stored(id, k) == \E s \in Seqs : messages[s].id = id /\ messages[s].key = k

\* An answered request is over; a send past its commit has stored its key, and
\* a send that succeeded names what is stored under its key.
KeepsWord(r) ==
  /\ outcome[r].code # "none" => pc[r] = "done"
  /\ At(r, "send", "committed") => Stored(r, arg[r].key)
  /\ arg[r].op = "send" /\ outcome[r].code = "ok" =>
       Stored(outcome[r].msg, arg[r].key)

RetryInv == ExactlyOnce /\ \A r \in Requests : KeepsWord(r)

\* How a step changes the answers: of a send that succeeds, the message has been
\* found by its key or was committed by the send itself.
Answers(r) ==
  /\ pc[r] # "done"
  /\ \A q \in Requests \ {r} :
       pc'[q] = pc[q] /\ arg'[q] = arg[q] /\ outcome'[q] = outcome[q]
  /\ outcome'[r] = outcome[r] \/ pc'[r] = "done"
  /\ \/ arg'[r].op # "send" \/ outcome'[r].code # "ok"
     \/ arg'[r] = arg[r] /\ outcome'[r].msg = r /\ At(r, "send", "committed")
     \/ arg'[r] = arg[r] /\ Stored(outcome'[r].msg, arg[r].key)
  /\ pc'[r] = "committed" => arg'[r].op # "send" \/ Posted(r)

\* Every step of every handler changes the answers that way.
LEMMA StepAnswers ==
  ASSUME TypeOK, NEW r \in Requests, Handle(r) \/ Fail(r),
         outcome[r].code # "none" => pc[r] = "done"
  PROVE  Answers(r)
<1> USE DEF At
<1>a. ASSUME NEW code, NEW msg, Answer(r, code, msg), UNCHANGED arg, pc[r] # "done",
             \/ code # "ok" \/ arg[r].op # "send"
             \/ msg = r /\ pc[r] = "committed"
             \/ Stored(msg, arg[r].key)
      PROVE  Answers(r)
  <2>1. /\ pc' = [pc EXCEPT ![r] = "done"]
        /\ outcome' = [outcome EXCEPT ![r] = [code |-> code, msg |-> msg]]
    BY <1>a DEF Answer, Goto
  <2>2. pc'[r] = "done" /\ outcome'[r].code = code /\ outcome'[r].msg = msg
    BY <2>1 DEF TypeOK
  <2>3. \A q \in Requests \ {r} : pc'[q] = pc[q] /\ outcome'[q] = outcome[q]
    BY <2>1 DEF TypeOK
  <2> QED
    BY <1>a, <2>2, <2>3 DEF Answers
<1>g. ASSUME NEW stage, Goto(r, stage), stage # "done", UNCHANGED outcome,
             pc[r] # "done", \A q \in Requests \ {r} : arg'[q] = arg[q],
             stage = "committed" => arg'[r].op # "send" \/ Posted(r)
      PROVE  Answers(r)
  BY <1>g DEF Answers, Goto, TypeOK
<1>b. ASSUME NEW cmd \in Command, Begin(r, cmd)
      PROVE  /\ arg'[r] = cmd /\ pc[r] = "idle"
             /\ \A q \in Requests \ {r} : arg'[q] = arg[q]
  BY <1>b DEF Begin, TypeOK
<1>n. ASSUME NEW code, NEW msg, Answer(r, code, msg), pc[r] # "done", code # "ok" \/ arg'[r].op # "send",
             \A q \in Requests \ {r} : arg'[q] = arg[q]
      PROVE  Answers(r)
  <2>1. /\ pc' = [pc EXCEPT ![r] = "done"]
        /\ outcome' = [outcome EXCEPT ![r] = [code |-> code, msg |-> msg]]
    BY <1>n DEF Answer, Goto
  <2>2. pc'[r] = "done" /\ outcome'[r].code = code
    BY <2>1 DEF TypeOK
  <2>3. \A q \in Requests \ {r} : pc'[q] = pc[q] /\ outcome'[q] = outcome[q]
    BY <2>1 DEF TypeOK
  <2> QED
    BY <1>n, <2>2, <2>3 DEF Answers
<1>r. ASSUME Reject(r), pc[r] # "done" PROVE Answers(r)
  BY <1>r, <1>n DEF Reject
<1>k. ASSUME RollBack(r), pc[r] # "done" PROVE Answers(r)
  BY <1>k, <1>n DEF RollBack
<1>1. CASE SendLoad(r)
  BY <1>1, <1>g, <1>b DEF SendLoad, Command
<1>2. CASE SendMember(r)
  BY <1>2, <1>g, <1>r DEF SendMember, Proceed
<1>3. CASE SendReply(r)
  <2>1. ASSUME NEW reply, arg' = [arg EXCEPT ![r].reply = reply], Goto(r, "checked"),
               UNCHANGED outcome
        PROVE  Answers(r)
    <3>1. \A q \in Requests \ {r} : arg'[q] = arg[q]
      BY <2>1 DEF TypeOK
    <3> QED
      BY <1>3, <2>1, <3>1, <1>g DEF SendReply
  <2> QED
    BY <1>3, <2>1, <1>r DEF SendReply
<1>4. CASE SendIdempotent(r)
  BY <1>4, <1>a, <1>g DEF SendIdempotent, Proceed, Stored
<1>5. CASE SendCommit(r)
  <2>1. ASSUME Posted(r) PROVE Answers(r)
    BY <1>5, <2>1, <1>g DEF Posted, CommitMessage
  <2> QED
    BY <1>5, <2>1, <1>k DEF SendCommit, Posted
<1>6. CASE RecallLoad(r)
  <2>1. PICK cmd \in RecallCommand :
          /\ Begin(r, cmd)
          /\ \/ Goto(r, "loaded") /\ UNCHANGED outcome
             \/ Answer(r, "rejected", None)
    BY <1>6 DEF RecallLoad
  <2> QED
    BY <2>1, <1>b, <1>g, <1>n DEF Command
<1>7. CASE RecallMember(r)
  BY <1>7, <1>g, <1>r DEF RecallMember, Proceed
<1>8. CASE RecallConv(r)
  BY <1>8, <1>g DEF RecallConv
<1>9. CASE RecallCommit(r)
  <2>1. ASSUME CommitMessage(r, RecallEntry(r), MarkRecalled(arg[r].msg))
        PROVE  Answers(r)
    BY <1>9, <2>1, <1>g DEF RecallCommit, CommitMessage
  <2> QED
    BY <1>9, <2>1, <1>k DEF RecallCommit
<1>10. CASE AllocateSeq(r)
  BY <1>10, <1>g DEF AllocateSeq
<1>11. CASE Publish(r)
  BY <1>11, <1>a DEF Publish
<1>12. CASE ReadLoad(r)
  <2>1. PICK cmd \in ReadCommand :
          /\ Begin(r, cmd)
          /\ \/ Goto(r, "ready") /\ UNCHANGED outcome
             \/ Answer(r, "ok", None) \/ Answer(r, "rejected", None)
    BY <1>12 DEF ReadLoad
  <2>2. arg'[r].op = "read"
    BY <2>1, <1>b DEF Command, ReadCommand
  <2> QED
    BY <2>1, <2>2, <1>b, <1>g, <1>n DEF Command
<1>13. CASE ReadSave(r)
  BY <1>13, <1>g DEF ReadSave
<1>14. CASE PublishRead(r)
  BY <1>14, <1>a DEF PublishRead
<1>15. CASE ManageLoad(r)
  <2>1. PICK cmd \in AddCommand \cup RemoveCommand :
          /\ Begin(r, cmd)
          /\ \/ Answer(r, "rejected", None)
             \/ Goto(r, "loaded") /\ UNCHANGED outcome
    BY <1>15 DEF ManageLoad
  <2> QED
    BY <2>1, <1>b, <1>g, <1>n DEF Command
<1>16. CASE ManageAuthorize(r)
  BY <1>16, <1>g, <1>r DEF ManageAuthorize, Proceed
<1>17. CASE AddMember(r)
  BY <1>17, <1>g, <1>r, <1>k, <1>a DEF AddMember, AddTarget, AddCommit, Proceed
<1>18. CASE RemoveMember(r)
  BY <1>18, <1>g, <1>r, <1>a DEF RemoveMember, RemoveTarget, RemoveCommit
<1>19. CASE Fail(r)
  BY <1>19, <1>a DEF Fail, InFlight
<1> QED
  BY <1>1, <1>2, <1>3, <1>4, <1>5, <1>6, <1>7, <1>8, <1>9, <1>10, <1>11, <1>12,
     <1>13, <1>14, <1>15, <1>16, <1>17, <1>18, <1>19
     DEF Handle, SendMessage, RecallMessage, ReportRead, Manage

\* Stored messages stay stored under their keys.
LEMMA StoredPersists ==
  ASSUME TimelineInv, NEW r \in Requests, Handle(r) \/ Fail(r), NEW id, NEW k,
         Stored(id, k)
  PROVE  Stored(id, k)'
<1>1. PICK s \in Seqs : messages[s].id = id /\ messages[s].key = k
  BY DEF Stored
<1>2. s \in Seqs' /\ messages'[s].id = id /\ messages'[s].key = k
  BY <1>1, StepAppends DEF Appended, Body, Seqs
<1> QED
  BY <1>2 DEF Stored

\* No two messages of users share their client_msg_id.
KeysDiffer ==
  \A s, t \in Seqs : messages[s].key = messages[t].key
                        /\ messages[s].kind = "user"
                        /\ messages[t].kind = "user" => s = t

\* The unique index and the rule that a recall entry has no key keep it so.
LEMMA KeysStayDifferent ==
  ASSUME TimelineInv, KeysDiffer, NEW r \in Requests, Handle(r) \/ Fail(r)
  PROVE  KeysDiffer'
<1>1. CASE UNCHANGED messages
  BY <1>1 DEF KeysDiffer, Seqs
<1>2. ASSUME NEW row, Appended(r, row),
             row.kind = "user" => \A s \in Seqs : messages[s].key # row.key
      PROVE  KeysDiffer'
  <2>1. Seqs' = Seqs \cup {txSeq[r]} /\ messages'[txSeq[r]] = row
    BY <1>2 DEF Appended
  <2>2. \A s \in Seqs : /\ messages'[s].key = messages[s].key
                        /\ messages'[s].kind = messages[s].kind
    BY <1>2 DEF Appended, Body
  <2> QED
    BY <1>2, <2>1, <2>2 DEF KeysDiffer
<1>3. Posted(r) => \A s \in Seqs : messages[s].key # UserMessage(r).key
  BY DEF Posted, HasKey, UserMessage
<1>4. RecallEntry(r).kind # "user"
  BY DEF RecallEntry
<1> QED
  BY <1>1, <1>2, <1>3, <1>4, StepAppends

\* However often a client retries and however its requests overlap, its message
\* is there once, and a success names it.
THEOREM SendsAreExactlyOnce == Spec => []ExactlyOnce
<1>1. Init => RetryInv
  BY DEF Init, Quiet, RetryInv, KeepsWord, ExactlyOnce, At, Seqs, NoCommand
<1>2. ASSUME LogInv, RetryInv, [Next]_vars PROVE RetryInv'
  <2>1. CASE UNCHANGED vars
    BY <1>2, <2>1 DEF vars, db, proc, RetryInv, KeepsWord, ExactlyOnce, At, Stored, Seqs
  <2>2. ASSUME NEW r \in Requests, Handle(r) \/ Fail(r) PROVE RetryInv'
    <3>1. TimelineInv /\ TypeOK
      BY <1>2 DEF LogInv, TimelineInv
    <3>2. Answers(r)
      BY <1>2, <2>2, <3>1, StepAnswers DEF RetryInv, KeepsWord
    <3> DEFINE Kept(id, k) == \E s \in Seqs' : messages'[s].id = id
                                              /\ messages'[s].key = k
    <3>3. \A id, k : Stored(id, k) => Kept(id, k)
      BY <2>2, <3>1, StoredPersists DEF Stored
    <3>4. KeysDiffer'
      BY <1>2, <2>2, <3>1, KeysStayDifferent DEF RetryInv, ExactlyOnce, KeysDiffer
    <3>5. \A q \in Requests : KeepsWord(q)
      BY <1>2 DEF RetryInv, ExactlyOnce, KeepsWord, Stored
    <3>6. Posted(r) => Kept(r, arg'[r].key)
      <4>1. ASSUME Posted(r) PROVE /\ txSeq[r] \in Seqs' /\ arg' = arg
                                   /\ messages'[txSeq[r]].id = r
                                   /\ messages'[txSeq[r]].key = arg[r].key
        <5>1. Appended(r, UserMessage(r))
          BY <3>1, <4>1, PostedAppends
        <5> QED
          BY <5>1 DEF Appended, UserMessage
      <4> QED
        BY <4>1
    <3>7. ASSUME NEW q \in Requests
          PROVE  /\ outcome'[q].code # "none" => pc'[q] = "done"
                 /\ arg'[q].op = "send" /\ pc'[q] = "committed" => Kept(q, arg'[q].key)
                 /\ arg'[q].op = "send" /\ outcome'[q].code = "ok" =>
                      Kept(outcome'[q].msg, arg'[q].key)
      <4> HIDE DEF Kept
      <4>1. CASE q # r
        BY <3>2, <3>3, <3>5, <4>1 DEF Answers, KeepsWord, At
      <4>2. CASE q = r
        BY <3>2, <3>3, <3>5, <3>6, <4>2 DEF Answers, KeepsWord, At
      <4> QED
        BY <4>1, <4>2
    <3> QED
      BY <3>4, <3>7 DEF RetryInv, KeepsWord, ExactlyOnce, KeysDiffer, At, Stored
  <2> QED
    BY <1>2, <2>1, <2>2 DEF Next
<1>3. RetryInv => ExactlyOnce
  BY DEF RetryInv
<1> QED
  BY <1>1, <1>2, <1>3, LogInvariant, PTL DEF Spec
=============================================================================
