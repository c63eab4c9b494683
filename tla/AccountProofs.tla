---------------------------- MODULE AccountProofs ----------------------------
(***************************************************************************)
(* What the user module promises about an account and its sessions, for    *)
(* any number of requests and providers.                                   *)
(***************************************************************************)
EXTENDS Account, FiniteSetTheorems, TLAPS

(* The row of users, the requests that make and save it, and the tokens    *)
(* that name it.                                                           *)

\* The variables hold values of their types, those of the sessions apart.
UsersTyped ==
  /\ user \in UserRow \cup {NoUser}
  /\ DOMAIN tokens \subseteq Names
  /\ tokens \in [DOMAIN tokens -> TokenRow]
  /\ identities \subseteq Providers
  /\ pc \in [Requests -> {"idle", "loaded", "consumed", "matched", "new",
                         "linked", "done"}]
  /\ arg \in [Requests -> Command]
  /\ copy \in [Requests -> UserRow \cup {NoUser}]
  /\ outcome \in [Requests -> {"none", "ok", "nothing", "rejected", "error"}]

\* A state of an OAuth login names its provider; other tokens have an account.
TokensSound ==
  \A t \in DOMAIN tokens : IF tokens[t].purpose = "state"
                             THEN tokens[t].provider \in Providers ELSE Exists

\* The account a callback answers with is its own, linked or verified.
Entitled(r) == Exists /\ (arg[r].known \/ arg[r].verified \/ user.id = r)

\* What a request has read and found is still so: an account keeps its id.
Fits(r) ==
  /\ copy[r] # NoUser => copy[r].id = user.id
  /\ pc[r] = "loaded" /\ arg[r].op \in {"profile", "change", "reset", "verify"} =>
       copy[r] # NoUser
  /\ pc[r] \notin {"idle", "done"} /\ arg[r].op = "callback" =>
       arg[r].provider \in Providers
  /\ At(r, "callback", "matched") => Exists /\ arg[r].verified
  /\ At(r, "callback", "linked") => Entitled(r)
  /\ pc[r] # "done" => outcome[r] = "none"
  /\ outcome[r] = "ok" /\ arg[r].op = "register" => user.id = r
  /\ outcome[r] = "ok" /\ arg[r].op = "callback" => Entitled(r)

\* The strengthening of NoTakeover that every step preserves.
UsersInv == UsersTyped /\ TokensSound /\ \A r \in Requests : Fits(r)

\* Nobody has no name.
LEMMA NoneHasNoName == None \notin Names
BY NamesAssumption DEF Names

\* An account that is there is a row, and NoUser is none.
LEMMA ExistsIsRow ==
  ASSUME UsersTyped
  PROVE  (Exists <=> user \in UserRow) /\ (Exists <=> user # NoUser)
BY NoneHasNoName DEF UsersTyped, UserRow, NoUser, Exists

\* What others have found stays true while one request moves, makes the account
\* or saves the row without a change of its id.
LEMMA OneMoves ==
  ASSUME UsersInv, UsersTyped', NEW r \in Requests,
         \A q \in Requests \ {r} : /\ pc'[q] = pc[q] /\ arg'[q] = arg[q]
                                   /\ copy'[q] = copy[q] /\ outcome'[q] = outcome[q],
         Exists => user'.id = user.id,
         TokensSound', Fits(r)'
  PROVE  UsersInv'
<1>1. ASSUME NEW q \in Requests \ {r} PROVE Fits(q)'
  <2>1. Fits(q) /\ q \in Requests /\ q # None
    BY NamesAssumption DEF UsersInv
  <2>2. Exists => Exists' /\ user'.id = user.id
    BY DEF Exists
  <2>3. copy[q] # NoUser => Exists
    BY <2>1, NoneHasNoName DEF Fits, UsersInv, UsersTyped, Exists, UserRow
  <2>4. Entitled(q) => Entitled(q)'
    BY <2>2 DEF Entitled
  <2>5. user.id = q => Exists
    BY <2>1 DEF Exists
  <2> QED
    BY <2>1, <2>2, <2>3, <2>4, <2>5 DEF Fits, At
<1> QED
  BY <1>1 DEF UsersInv

\* SaveUser keeps the id, what was verified, and that there is a password.
LEMMA SaveUserKeeps ==
  ASSUME NEW row \in UserRow, user \in UserRow, row.id = user.id, SaveUser(row)
  PROVE  /\ user' \in UserRow /\ user'.id = user.id
         /\ user.verified => user'.verified
         /\ user.password # None => user'.password # None
<1>1. /\ row.verified \in BOOLEAN /\ user.verified \in BOOLEAN
      /\ row.password \in Names \cup {None} /\ user.password \in Names \cup {None}
      /\ row = [id |-> row.id, password |-> row.password, verified |-> row.verified,
                profile |-> row.profile]
  BY DEF UserRow
<1> DEFINE p == IF row.password = None THEN user.password ELSE row.password
           v == row.verified \/ user.verified
<1>2. p \in Names \cup {None} /\ v \in BOOLEAN
  BY <1>1
<1>3. user' = [id |-> row.id, password |-> p, verified |-> v, profile |-> row.profile]
  BY <1>1 DEF SaveUser, UserRow
<1>4. v = FALSE => user.verified = FALSE
  BY <1>1
<1>5. user.password # None => p # None
  OBVIOUS
<1> HIDE DEF p, v
<1>6. user' \in UserRow /\ user'.id = user.id
  BY <1>2, <1>3 DEF UserRow
<1>7. user'.verified = v /\ user'.password = p
  BY <1>3
<1> QED
  BY <1>1, <1>2, <1>4, <1>5, <1>6, <1>7

\* The row that a handler saves is a copy of the account's.
LEMMA SaversKnowTheRow ==
  ASSUME UsersInv, NEW r \in Requests,
         At(r, "profile", "loaded") \/ At(r, "change", "loaded")
           \/ At(r, "reset", "loaded") \/ At(r, "verify", "loaded")
  PROVE  copy[r] \in UserRow /\ user \in UserRow /\ copy[r].id = user.id
<1>1. copy[r] # NoUser /\ copy[r].id = user.id /\ copy[r] \in UserRow \cup {NoUser}
  BY DEF UsersInv, UsersTyped, Fits, At
<1>2. user.id # None
  BY <1>1, NoneHasNoName DEF UserRow
<1> QED
  BY <1>1, <1>2, ExistsIsRow DEF Exists, UsersInv

\* The four handlers that save a copy of the row keep what the account has.
LEMMA SaveKeepsUsers ==
  ASSUME UsersInv, NEW r \in Requests,
         ProfileSave(r) \/ ChangeSave(r) \/ ResetCommit(r) \/ VerifyCommit(r)
  PROVE  /\ UsersInv'
         /\ user.verified => user'.verified
         /\ user.password # None => user'.password # None
<1>1. /\ copy[r] \in UserRow /\ user \in UserRow /\ copy[r].id = user.id
      /\ arg[r].op \notin {"callback", "register"}
  <2>1. At(r, "profile", "loaded") \/ At(r, "change", "loaded")
          \/ At(r, "reset", "loaded") \/ At(r, "verify", "loaded")
    BY DEF ProfileSave, ChangeSave, ResetCommit, VerifyCommit
  <2> QED
    BY <2>1, SaversKnowTheRow DEF At
<1>2. PICK row \in UserRow : row.id = user.id /\ SaveUser(row)
  <2>1. r \in Names
    BY DEF Names
  <2>2. /\ [copy[r] EXCEPT !.profile = r] \in UserRow
        /\ [copy[r] EXCEPT !.password = r] \in UserRow
        /\ [copy[r] EXCEPT !.verified = TRUE] \in UserRow
        /\ [copy[r] EXCEPT !.profile = r].id = user.id
        /\ [copy[r] EXCEPT !.password = r].id = user.id
        /\ [copy[r] EXCEPT !.verified = TRUE].id = user.id
    BY <1>1, <2>1 DEF UserRow
  <2> QED
    BY <2>2 DEF ProfileSave, ChangeSave, ResetCommit, VerifyCommit
<1>3. /\ user' \in UserRow /\ user'.id = user.id
      /\ user.verified => user'.verified
      /\ user.password # None => user'.password # None
  BY <1>1, <1>2, SaveUserKeeps
<1>4. /\ pc' = [pc EXCEPT ![r] = "done"] /\ outcome' = [outcome EXCEPT ![r] = "ok"]
      /\ UNCHANGED <<identities, arg, copy>>
  BY DEF ProfileSave, ChangeSave, ResetCommit, VerifyCommit, Answer, Goto
<1>5. /\ DOMAIN tokens' = DOMAIN tokens
      /\ \A t \in DOMAIN tokens : /\ tokens'[t].purpose = tokens[t].purpose
                                   /\ tokens'[t].provider = tokens[t].provider
      /\ tokens' \in [DOMAIN tokens' -> TokenRow]
  <2>1. tokens \in [DOMAIN tokens -> TokenRow]
    BY DEF UsersInv, UsersTyped
  <2>2. tokens' = tokens \/ tokens' = Consumed(arg[r].token)
    BY DEF ProfileSave, ChangeSave, ResetCommit, VerifyCommit
  <2> QED
    BY <2>1, <2>2 DEF Consumed, TokenRow
<1>6. UsersTyped'
  BY <1>3, <1>4, <1>5 DEF UsersInv, UsersTyped
<1>7. user'.id = user.id /\ TokensSound'
  BY <1>3, <1>5 DEF UsersInv, TokensSound, Exists
<1>8. Fits(r)'
  BY <1>1, <1>3, <1>4 DEF UsersInv, UsersTyped, Fits, At
<1>9. \A q \in Requests \ {r} : /\ pc'[q] = pc[q] /\ arg'[q] = arg[q]
                                /\ copy'[q] = copy[q] /\ outcome'[q] = outcome[q]
  BY <1>4 DEF UsersInv, UsersTyped
<1> QED
  BY <1>3, <1>6, <1>7, <1>8, <1>9, OneMoves

\* What a request asks for is a command.
LEMMA AskIsCommand ==
  ASSUME NEW op \in AllOps, NEW t \in Names \cup {None}, NEW v \in Providers \cup {None}
  PROVE  Ask(op, t, v) \in Command
BY DEF Ask, Command

\* A request that begins has found and answered nothing that binds it.
LEMMA BeginFits ==
  ASSUME UsersInv, NEW r \in Requests, NEW cmd \in Command, Begin(r, cmd),
         cmd.op \notin {"register", "callback"} \/ outcome'[r] # "ok",
         NEW p \in {"loaded", "done"}, Goto(r, p),
         \/ outcome' = outcome
         \/ p = "done" /\ \E c \in {"ok", "nothing", "rejected", "error"} :
              outcome' = [outcome EXCEPT ![r] = c],
         \/ copy' = copy
         \/ copy' = [copy EXCEPT ![r] = user],
         p = "loaded" /\ cmd.op \in {"profile", "change", "reset", "verify"} =>
           copy' = [copy EXCEPT ![r] = user] /\ Exists,
         p = "loaded" /\ cmd.op = "callback" => cmd.provider \in Providers,
         UNCHANGED <<user, identities>>,
         UsersTyped => DOMAIN tokens' \subseteq Names
                         /\ tokens' \in [DOMAIN tokens' -> TokenRow],
         TokensSound'
  PROVE  UsersInv'
<1>1. /\ pc' = [pc EXCEPT ![r] = p] /\ arg' = [arg EXCEPT ![r] = cmd]
      /\ pc[r] = "idle"
  BY DEF Begin, Goto
<1>2. UsersTyped'
  BY <1>1 DEF UsersInv, UsersTyped
<1>3. \A q \in Requests \ {r} : /\ pc'[q] = pc[q] /\ arg'[q] = arg[q]
                                /\ copy'[q] = copy[q] /\ outcome'[q] = outcome[q]
  BY <1>1 DEF UsersInv, UsersTyped
<1>4. /\ pc'[r] = p /\ arg'[r] = cmd /\ user' = user
      /\ p = "loaded" => outcome'[r] = "none"
      /\ copy'[r] = copy[r] \/ copy'[r] = user
      /\ p = "loaded" /\ cmd.op \in {"profile", "change", "reset", "verify"} =>
           copy'[r] = user /\ user # NoUser
      /\ p = "loaded" /\ cmd.op = "callback" => cmd.provider \in Providers
  BY <1>1, ExistsIsRow DEF UsersInv, UsersTyped, Fits
<1>5. Fits(r)'
  BY <1>4 DEF UsersInv, Fits, At
<1> QED
  BY <1>2, <1>3, <1>5, OneMoves

\* Requests that begin find the account as it is.
LEMMA LoadKeepsUsers ==
  ASSUME UsersInv, NEW r \in Requests,
         RegisterLoad(r) \/ LoginLoad(r) \/ RefreshLoad(r) \/ LogoutLoad(r)
           \/ EditLoad(r) \/ MakeToken(r) \/ UseLoad(r) \/ UnlinkLoad(r),
         DOMAIN refresh \subseteq Names
  PROVE  UsersInv'
<1> USE DEF Answer, LoadUser
<1>1. /\ Ops \subseteq AllOps /\ r \in Names
      /\ TokensSound /\ UsersTyped
      /\ \A op \in AllOps, t \in Names \cup {None}, v \in Providers \cup {None} :
           Ask(op, t, v) \in Command /\ Ask(op, t, v).op = op
  BY AskIsCommand, OpsAssumption DEF UsersInv, Names, Ask
<1>2. ASSUME UNCHANGED <<user, tokens>> PROVE TokensSound'
  BY <1>1, <1>2 DEF TokensSound, Exists
<1>3. CASE RegisterLoad(r)
  <2>1. Ask("register", None, None) \in Command /\ Begin(r, Ask("register", None, None))
        /\ Ask("register", None, None).op = "register"
    BY <1>1, <1>3 DEF RegisterLoad, AllOps
  <2>2. outcome[r] = "none"
    BY <2>1 DEF Begin, UsersInv, Fits
  <2>3. outcome'[r] # "ok"
    BY <1>1, <1>3, <2>2 DEF RegisterLoad, UsersTyped
  <2>4. PICK p \in {"loaded", "done"} :
          /\ Goto(r, p)
          /\ \/ outcome' = outcome
             \/ p = "done" /\ \E c \in {"ok", "nothing", "rejected", "error"} :
                  outcome' = [outcome EXCEPT ![r] = c]
    BY <1>3 DEF RegisterLoad
  <2>5. UNCHANGED <<user, tokens, identities, copy>>
    BY <1>3 DEF RegisterLoad, db
  <2> QED
    BY <1>1, <1>2, <2>1, <2>3, <2>4, <2>5, BeginFits DEF UsersTyped
<1>4. ASSUME NEW op \in {"login", "refresh", "logout", "unlink"},
             NEW t \in Names \cup {None}, NEW v \in Providers \cup {None},
             Begin(r, Ask(op, t, v)),
             NEW p \in {"loaded", "done"}, Goto(r, p),
             \/ outcome' = outcome
             \/ p = "done" /\ \E c \in {"ok", "nothing", "rejected", "error"} :
                  outcome' = [outcome EXCEPT ![r] = c],
             UNCHANGED <<user, tokens, identities, copy>>
      PROVE  UsersInv'
  <2>1. Ask(op, t, v) \in Command /\ Ask(op, t, v).op = op /\ TokensSound'
    BY <1>1, <1>2, <1>4 DEF AllOps
  <2> QED
    BY <1>1, <1>4, <2>1, BeginFits DEF UsersTyped
<1>5. CASE LoginLoad(r)
  <2>1. PICK p \in {"loaded", "done"} :
          /\ Goto(r, p)
          /\ \/ outcome' = outcome
             \/ p = "done" /\ \E c \in {"ok", "nothing", "rejected", "error"} :
                  outcome' = [outcome EXCEPT ![r] = c]
    BY <1>5 DEF LoginLoad
  <2> QED
    BY <1>4, <1>5, <2>1 DEF LoginLoad, db
<1>6. CASE RefreshLoad(r)
  <2>1. PICK t \in DOMAIN refresh : Begin(r, Ask("refresh", t, None))
    BY <1>6 DEF RefreshLoad
  <2>2. PICK p \in {"loaded", "done"} :
          /\ Goto(r, p)
          /\ \/ outcome' = outcome
             \/ p = "done" /\ \E c \in {"ok", "nothing", "rejected", "error"} :
                  outcome' = [outcome EXCEPT ![r] = c]
    BY <1>6 DEF RefreshLoad
  <2>3. t \in Names \cup {None} /\ UNCHANGED <<user, tokens, identities, copy>>
    BY <1>6, <2>1 DEF RefreshLoad, db
  <2> QED
    BY <1>4, <2>1, <2>2, <2>3
<1>7. CASE LogoutLoad(r)
  <2>1. PICK t \in DOMAIN refresh : Begin(r, Ask("logout", t, None))
    BY <1>7 DEF LogoutLoad
  <2>2. PICK p \in {"loaded", "done"} :
          /\ Goto(r, p)
          /\ \/ outcome' = outcome
             \/ p = "done" /\ \E c \in {"ok", "nothing", "rejected", "error"} :
                  outcome' = [outcome EXCEPT ![r] = c]
    BY <1>7 DEF LogoutLoad
  <2>3. t \in Names \cup {None} /\ UNCHANGED <<user, tokens, identities, copy>>
    BY <1>7, <2>1 DEF LogoutLoad, db
  <2> QED
    BY <1>4, <2>1, <2>2, <2>3
<1>8. CASE UnlinkLoad(r)
  <2>1. PICK v \in Providers : Begin(r, Ask("unlink", None, v))
    BY <1>8 DEF UnlinkLoad
  <2>2. PICK p \in {"loaded", "done"} :
          /\ Goto(r, p)
          /\ \/ outcome' = outcome
             \/ p = "done" /\ \E c \in {"ok", "nothing", "rejected", "error"} :
                  outcome' = [outcome EXCEPT ![r] = c]
    BY <1>8 DEF UnlinkLoad
  <2>3. UNCHANGED <<user, tokens, identities, copy>>
    BY <1>8 DEF UnlinkLoad, db
  <2> QED
    BY <1>4, <2>1, <2>2, <2>3
<1>9. CASE EditLoad(r)
  <2>1. PICK op \in {"profile", "change"} : Begin(r, Ask(op, None, None))
    BY <1>9 DEF EditLoad
  <2>2. PICK p \in {"loaded", "done"} :
          /\ Goto(r, p)
          /\ \/ outcome' = outcome
             \/ p = "done" /\ \E c \in {"ok", "nothing", "rejected", "error"} :
                  outcome' = [outcome EXCEPT ![r] = c]
    BY <1>9 DEF EditLoad
  <2>3. /\ Exists /\ copy' = [copy EXCEPT ![r] = user]
        /\ UNCHANGED <<user, tokens, identities>>
    BY <1>9 DEF EditLoad, db
  <2>4. op \in AllOps /\ op \in {"profile", "change"} /\ TokensSound'
    BY <1>2, <2>3 DEF AllOps
  <2>5. Ask(op, None, None) \in Command /\ Ask(op, None, None).op = op
    BY <1>1, <2>4
  <2> QED
    BY <1>1, <2>1, <2>2, <2>3, <2>4, <2>5, BeginFits DEF UsersTyped
<1>10. CASE MakeToken(r)
  <2>1. PICK op \in DOMAIN Made, v \in Providers :
          /\ op # "start" => Exists
          /\ Begin(r, Ask(op, None, None))
          /\ tokens' = Put(tokens, r, NewToken(Made[op], IF op = "start" THEN v
                                                         ELSE None))
    BY <1>10 DEF MakeToken
  <2>2. /\ op \in {"forgot", "resend", "start"}
        /\ op = "start" => Made[op] = "state"
    BY DEF Made
  <2>3. /\ Goto(r, "done") /\ outcome' = [outcome EXCEPT ![r] = "ok"]
        /\ UNCHANGED <<user, identities, copy>>
    BY <1>10 DEF MakeToken
  <2>4. Ask(op, None, None) \in Command /\ Ask(op, None, None).op = op
    BY <1>1, <2>2 DEF AllOps
  <2>5. PICK row \in TokenRow :
          /\ IF row.purpose = "state" THEN row.provider \in Providers ELSE Exists
          /\ tokens' = Put(tokens, r, row)
    <3>1. CASE op = "start"
      BY <2>1, <2>2, <3>1 DEF NewToken, TokenRow, Purposes
    <3>2. CASE op # "start"
      <4>1. Made[op] \in {"reset", "verify"}
        BY <2>2, <3>2 DEF Made
      <4> QED
        BY <2>1, <3>2, <4>1 DEF NewToken, TokenRow, Purposes
    <3> QED
      BY <3>1, <3>2
  <2>6. /\ DOMAIN tokens' \subseteq Names
        /\ tokens' \in [DOMAIN tokens' -> TokenRow]
    BY <1>1, <2>5 DEF Put, UsersTyped
  <2>7. TokensSound'
    BY <1>1, <2>3, <2>5 DEF TokensSound, Put, Exists
  <2> QED
    BY <2>1, <2>2, <2>3, <2>4, <2>6, <2>7, BeginFits
<1>11. CASE UseLoad(r)
  <2>1. PICK op \in DOMAIN Used, t \in DOMAIN tokens :
          /\ Begin(r, Ask(op, t, tokens[t].provider))
          /\ IF Valid(t, Used[op])
               THEN Goto(r, "loaded") /\ UNCHANGED outcome
               ELSE Answer(r, "rejected")
    BY <1>11 DEF UseLoad
  <2>2. /\ op \in {"reset", "verify", "exchange", "callback"}
        /\ Used[op] = "state" <=> op = "callback"
    BY DEF Used
  <2>3. /\ t \in Names /\ tokens[t].provider \in Providers \cup {None}
    BY <1>1, <2>1 DEF UsersTyped, TokenRow
  <2>4. PICK p \in {"loaded", "done"} :
          /\ Goto(r, p)
          /\ \/ outcome' = outcome
             \/ p = "done" /\ outcome' = [outcome EXCEPT ![r] = "rejected"]
          /\ p = "loaded" => Valid(t, Used[op])
    BY <2>1
  <2>5. /\ copy' = [copy EXCEPT ![r] = user] /\ UNCHANGED <<user, tokens, identities>>
    BY <1>11 DEF UseLoad, db
  <2>6. p = "loaded" /\ op \in {"reset", "verify"} => Exists
    BY <1>1, <2>2, <2>4 DEF Valid, TokensSound
  <2> DEFINE cmd == Ask(op, t, tokens[t].provider)
  <2>7. cmd \in Command /\ cmd.op = op /\ Begin(r, cmd) /\ TokensSound'
    BY <1>1, <1>2, <2>1, <2>2, <2>3, <2>5 DEF AllOps
  <2>8. p = "loaded" /\ op = "callback" => cmd.provider \in Providers
    BY <1>1, <2>2, <2>4 DEF Valid, TokensSound, Ask
  <2> HIDE DEF cmd
  <2>9. outcome[r] = "none"
    BY <2>7 DEF Begin, UsersInv, Fits
  <2>10. outcome'[r] # "ok"
    BY <1>1, <2>4, <2>9 DEF UsersTyped
  <2>11. /\ p = "loaded" /\ cmd.op \in {"profile", "change", "reset", "verify"} =>
              copy' = [copy EXCEPT ![r] = user] /\ Exists
         /\ p = "loaded" /\ cmd.op = "callback" => cmd.provider \in Providers
    BY <2>2, <2>5, <2>6, <2>7, <2>8
  <2>12. \/ outcome' = outcome
         \/ p = "done" /\ \E c \in {"ok", "nothing", "rejected", "error"} :
              outcome' = [outcome EXCEPT ![r] = c]
    BY <2>4
  <2>13. /\ UNCHANGED <<user, identities>>
         /\ UsersTyped => DOMAIN tokens' \subseteq Names
                         /\ tokens' \in [DOMAIN tokens' -> TokenRow]
    BY <2>5 DEF UsersTyped
  <2>14. Goto(r, p) /\ copy' = [copy EXCEPT ![r] = user]
    BY <2>4, <2>5
  <2> QED
    BY <1>1, <2>7, <2>10, <2>11, <2>12, <2>13, <2>14, BeginFits
<1> QED
  BY <1>3, <1>5, <1>6, <1>7, <1>8, <1>9, <1>10, <1>11

\* A request goes on without a change of the account: what it has to show then is
\* in the last two hypotheses.
LEMMA GoOn ==
  ASSUME UsersInv, NEW r \in Requests,
         NEW p \in {"loaded", "consumed", "matched", "new", "linked", "done"}, Goto(r, p),
         \/ outcome' = outcome
         \/ p = "done" /\ \E c \in {"ok", "nothing", "rejected", "error"} :
              outcome' = [outcome EXCEPT ![r] = c],
         pc[r] \notin {"idle", "done"},
         UNCHANGED <<user, copy, arg>>,
         identities' \subseteq Providers,
         DOMAIN tokens' \subseteq Names, tokens' \in [DOMAIN tokens' -> TokenRow],
         TokensSound',
         outcome'[r] = "ok" => /\ arg[r].op # "register"
                               /\ arg[r].op = "callback" => Entitled(r),
         /\ p # "loaded"
         /\ p = "matched" => Exists /\ arg[r].verified
         /\ p = "linked" => Entitled(r)
  PROVE  UsersInv'
<1>1. UsersTyped'
  BY DEF UsersInv, UsersTyped, Goto
<1>2. \A q \in Requests \ {r} : /\ pc'[q] = pc[q] /\ arg'[q] = arg[q]
                                /\ copy'[q] = copy[q] /\ outcome'[q] = outcome[q]
  BY DEF UsersInv, UsersTyped, Goto
<1>3. /\ pc'[r] = p /\ arg'[r] = arg[r] /\ copy'[r] = copy[r] /\ user' = user
      /\ p # "done" => outcome'[r] = "none"
      /\ copy[r] # NoUser => copy[r].id = user.id
      /\ arg[r].op = "callback" => arg[r].provider \in Providers
  BY DEF UsersInv, UsersTyped, Goto, Fits
<1>4. Entitled(r) => Entitled(r)'
  BY <1>3 DEF Entitled, Exists
<1>5. Fits(r)'
  BY <1>3, <1>4 DEF Fits, At, Exists
<1> QED
  BY <1>1, <1>2, <1>3, <1>5, OneMoves

\* The steps that make an account find none.
LEMMA MakeKeepsUsers ==
  ASSUME UsersInv, NEW r \in Requests, RegisterCommit(r) \/ CallbackCreate(r), ~ Exists
  PROVE  UsersInv' /\ user = NoUser
<1>1. user = NoUser /\ r \in Names /\ arg[r] \in Command
  BY ExistsIsRow DEF UsersInv, UsersTyped, Names
<1>2. PICK v \in BOOLEAN, w \in {r, None} : user' = NewUser(r, w, v)
  BY <1>1 DEF RegisterCommit, CallbackCreate, Command
<1>3. user' \in UserRow /\ user'.id = r /\ r # None
  BY <1>1, <1>2, NamesAssumption DEF NewUser, UserRow, Names
<1>4. PICK p \in {"done", "linked"} :
        /\ Goto(r, p)
        /\ IF p = "done" THEN outcome' = [outcome EXCEPT ![r] = "ok"]
                         ELSE outcome' = outcome
  BY DEF RegisterCommit, CallbackCreate, Answer
<1>5. UNCHANGED <<tokens, arg, copy>> /\ identities' \subseteq Providers
  <2>1. CASE RegisterCommit(r)
    BY <2>1 DEF RegisterCommit, UsersInv, UsersTyped
  <2>2. CASE CallbackCreate(r)
    <3>1. arg[r].provider \in Providers
      BY <2>2 DEF CallbackCreate, At, UsersInv, Fits
    <3> QED
      BY <2>2, <3>1 DEF CallbackCreate, UsersInv, UsersTyped
  <2> QED
    BY <2>1, <2>2
<1>6. UsersTyped'
  BY <1>3, <1>4, <1>5 DEF UsersInv, UsersTyped, Goto
<1>7. TokensSound' /\ (Exists => user'.id = user.id)
  BY <1>3, <1>5 DEF TokensSound, Exists, UsersInv
<1>8. copy[r] = NoUser
  <2>1. user.id = None /\ copy[r] \in UserRow \cup {NoUser}
    BY <1>1 DEF NoUser, UsersInv, UsersTyped
  <2>2. copy[r] # NoUser => copy[r].id = None /\ copy[r].id \in Names
    BY <2>1 DEF UsersInv, Fits, UserRow
  <2> QED
    BY <2>2, NoneHasNoName
<1>9. Fits(r)'
  <2>1. /\ pc'[r] = p /\ arg'[r] = arg[r] /\ copy'[r] = NoUser
        /\ outcome'[r] = IF p = "done" THEN "ok" ELSE "none"
        /\ arg[r].op = "callback" => arg[r].provider \in Providers
        /\ arg[r].op = "register" => p = "done"
    BY <1>4, <1>5, <1>8
       DEF UsersInv, UsersTyped, Goto, Fits, RegisterCommit, CallbackCreate, At, Answer
  <2>2. Entitled(r)' /\ Exists'
    BY <1>3 DEF Entitled, Exists
  <2> QED
    BY <1>3, <2>1, <2>2 DEF Fits, At
<1>10. \A q \in Requests \ {r} : /\ pc'[q] = pc[q] /\ arg'[q] = arg[q]
                                 /\ copy'[q] = copy[q] /\ outcome'[q] = outcome[q]
  BY <1>4, <1>5 DEF UsersInv, UsersTyped, Goto
<1> QED
  BY <1>1, <1>6, <1>7, <1>9, <1>10, OneMoves

\* The steps of callbacks, sessions and one-time tokens that go on.
LEMMA GoOnKeepsUsers ==
  ASSUME UsersInv, NEW r \in Requests,
         \/ LoginCommit(r) \/ RefreshCommit(r) \/ LogoutSave(r) \/ ExchangeCommit(r)
         \/ CallbackConsume(r) \/ CallbackLink(r) \/ CallbackCode(r) \/ UnlinkSave(r)
         \/ (RegisterCommit(r) \/ CallbackCreate(r)) /\ Exists
         \/ Fail(r)
  PROVE  UsersInv'
<1> USE DEF At, Answer
<1>1. /\ r \in Names /\ UsersTyped /\ TokensSound /\ Fits(r)
      /\ identities \subseteq Providers
      /\ DOMAIN tokens \subseteq Names /\ tokens \in [DOMAIN tokens -> TokenRow]
      /\ outcome \in [Requests -> {"none", "ok", "nothing", "rejected", "error"}]
  BY DEF UsersInv, UsersTyped, Names
<1>2. ASSUME UNCHANGED <<user, tokens>>
      PROVE  /\ TokensSound' /\ DOMAIN tokens' \subseteq Names
             /\ tokens' \in [DOMAIN tokens' -> TokenRow]
  BY <1>1, <1>2 DEF TokensSound, Exists
<1>3. ASSUME NEW t, tokens' = Consumed(t), UNCHANGED user
      PROVE  /\ TokensSound' /\ DOMAIN tokens' \subseteq Names
             /\ tokens' \in [DOMAIN tokens' -> TokenRow]
  <2>1. /\ DOMAIN tokens' = DOMAIN tokens
        /\ \A u \in DOMAIN tokens : /\ tokens'[u].purpose = tokens[u].purpose
                                    /\ tokens'[u].provider = tokens[u].provider
        /\ tokens' \in [DOMAIN tokens' -> TokenRow]
    BY <1>1, <1>3 DEF Consumed, TokenRow
  <2> QED
    BY <1>1, <1>3, <2>1 DEF TokensSound, Exists
<1>4. ASSUME Goto(r, "done"), NEW c \in {"nothing", "rejected", "error"},
             outcome' = [outcome EXCEPT ![r] = c],
             pc[r] \notin {"idle", "done"}, UNCHANGED <<user, tokens, copy, arg>>,
             identities' \subseteq Providers
      PROVE  UsersInv'
  <2>1. outcome'[r] # "ok"
    BY <1>1, <1>4
  <2> QED
    BY <1>2, <1>4, <2>1, GoOn
<1>5. ASSUME Goto(r, "done"), outcome' = [outcome EXCEPT ![r] = "ok"],
             pc[r] \notin {"idle", "done"}, UNCHANGED <<user, tokens, copy, arg>>,
             identities' \subseteq Providers, arg[r].op \notin {"register", "callback"}
      PROVE  UsersInv'
  BY <1>2, <1>5, GoOn
<1>6. CASE LoginCommit(r)
  BY <1>1, <1>5, <1>6 DEF LoginCommit
<1>7. CASE RefreshCommit(r)
  BY <1>1, <1>4, <1>5, <1>7 DEF RefreshCommit, Rotate
<1>8. CASE LogoutSave(r)
  BY <1>1, <1>4, <1>5, <1>8 DEF LogoutSave
<1>9. CASE UnlinkSave(r)
  <2>1. identities' \subseteq Providers
    BY <1>1, <1>9 DEF UnlinkSave
  <2>2. arg[r].op = "unlink" /\ pc[r] = "loaded"
    BY <1>9 DEF UnlinkSave
  <2> QED
    BY <1>4, <1>5, <1>9, <2>1, <2>2 DEF UnlinkSave
<1>10. CASE Fail(r)
  BY <1>1, <1>4, <1>10 DEF Fail, db
<1>11. CASE (RegisterCommit(r) \/ CallbackCreate(r)) /\ Exists
  BY <1>1, <1>4, <1>11 DEF RegisterCommit, CallbackCreate
<1>12. CASE ExchangeCommit(r)
  BY <1>1, <1>3, <1>12, GoOn DEF ExchangeCommit
<1>13. CASE CallbackConsume(r)
  <2>1. outcome'[r] # "ok"
    BY <1>1, <1>13 DEF CallbackConsume, Fits
  <2> QED
    BY <1>1, <1>3, <1>13, <2>1, GoOn DEF CallbackConsume
<1>14. CASE CallbackLink(r)
  <2>1. CASE arg[r].provider \in identities
    BY <1>1, <1>4, <1>14, <2>1 DEF CallbackLink
  <2>2. CASE arg[r].provider \notin identities
    <3>1. /\ identities' \subseteq Providers /\ Entitled(r)
          /\ outcome[r] # "ok"
      BY <1>1, <1>14, <2>2 DEF CallbackLink, Fits, Entitled
    <3> QED
      BY <1>1, <1>2, <1>14, <2>2, <3>1, GoOn DEF CallbackLink
  <2> QED
    BY <2>1, <2>2
<1>15. CASE CallbackCode(r)
  <2>1. Entitled(r) /\ arg[r].op = "callback" /\ pc[r] = "linked"
    BY <1>1, <1>15 DEF CallbackCode, Fits
  <2>2. NewToken("code", None) \in TokenRow /\ NewToken("code", None).purpose = "code"
    BY DEF NewToken, TokenRow, Purposes
  <2>3. /\ tokens' = Put(tokens, r, NewToken("code", None)) /\ user' = user
        /\ Exists
    BY <1>15, <2>1 DEF CallbackCode, Entitled
  <2>4. /\ DOMAIN tokens' \subseteq Names /\ tokens' \in [DOMAIN tokens' -> TokenRow]
        /\ TokensSound'
    BY <1>1, <2>2, <2>3 DEF Put, TokensSound, Exists
  <2> QED
    BY <1>1, <1>15, <2>1, <2>4, GoOn DEF CallbackCode
<1> QED
  BY <1>6, <1>7, <1>8, <1>9, <1>10, <1>11, <1>12, <1>13, <1>14, <1>15

\* A callback finds its account, if there is one.
LEMMA FindKeepsUsers ==
  ASSUME UsersInv, NEW r \in Requests, CallbackFind(r)
  PROVE  UsersInv'
<1>1. /\ pc[r] = "consumed" /\ arg[r].op = "callback"
      /\ UNCHANGED <<user, tokens, identities, copy>>
      /\ arg \in [Requests -> Command]
  BY DEF CallbackFind, At, db, UsersInv, UsersTyped
<1>2. PICK v \in BOOLEAN :
        \/ /\ Exists
           /\ arg' = [[arg EXCEPT ![r].verified = v] EXCEPT ![r].known = TRUE]
           /\ Goto(r, "linked") /\ UNCHANGED outcome
        \/ /\ arg' = [arg EXCEPT ![r].verified = v]
           /\ \/ Exists /\ v = TRUE /\ Goto(r, "matched") /\ UNCHANGED outcome
              \/ Answer(r, "rejected")
              \/ Goto(r, "new") /\ UNCHANGED outcome
  BY DEF CallbackFind
<1>3. /\ arg' \in [Requests -> Command] /\ arg'[r].op = "callback"
      /\ arg'[r].provider = arg[r].provider /\ arg'[r].verified = v
      /\ Goto(r, "linked") => arg'[r].known = TRUE
      /\ \A q \in Requests \ {r} : arg'[q] = arg[q]
  <2>1. ASSUME arg' = [arg EXCEPT ![r].verified = v], ~ Goto(r, "linked")
        PROVE  /\ arg' \in [Requests -> Command] /\ arg'[r].op = "callback"
               /\ arg'[r].provider = arg[r].provider /\ arg'[r].verified = v
               /\ \A q \in Requests \ {r} : arg'[q] = arg[q]
    BY <1>1, <2>1 DEF Command
  <2>2. CASE arg' = [[arg EXCEPT ![r].verified = v] EXCEPT ![r].known = TRUE]
    <3> DEFINE found == [arg EXCEPT ![r].verified = v]
    <3>1. /\ found \in [Requests -> Command] /\ found[r].op = "callback"
          /\ found[r].provider = arg[r].provider /\ found[r].verified = v
          /\ \A q \in Requests \ {r} : found[q] = arg[q]
      BY <1>1 DEF Command
    <3>2. arg' = [found EXCEPT ![r].known = TRUE]
      BY <2>2
    <3> HIDE DEF found
    <3> QED
      BY <3>1, <3>2 DEF Command
  <2>3. pc \in [Requests -> {pc[q] : q \in Requests}]
    BY DEF UsersInv, UsersTyped
  <2>4. Goto(r, "matched") \/ Answer(r, "rejected") \/ Goto(r, "new")
          => ~ Goto(r, "linked")
    BY <2>3 DEF Goto, Answer
  <2> QED
    BY <1>2, <2>1, <2>2, <2>4
<1>4. UsersTyped'
  BY <1>1, <1>2, <1>3 DEF UsersInv, UsersTyped, Goto, Answer
<1>5. TokensSound'
  BY <1>1 DEF UsersInv, TokensSound, Exists
<1>6. Fits(r)'
  <2>1. /\ copy'[r] = copy[r] /\ user' = user /\ copy[r] # NoUser => copy[r].id = user.id
        /\ arg[r].provider \in Providers /\ outcome[r] = "none"
    BY <1>1 DEF UsersInv, Fits
  <2>2. \/ /\ pc'[r] = "linked" /\ outcome'[r] = "none"
           /\ Exists /\ arg'[r].known = TRUE
        \/ pc'[r] = "matched" /\ outcome'[r] = "none" /\ v = TRUE /\ Exists
        \/ pc'[r] = "done" /\ outcome'[r] = "rejected"
        \/ pc'[r] = "new" /\ outcome'[r] = "none"
    BY <1>2, <1>3, <2>1 DEF UsersInv, UsersTyped, Goto, Answer
  <2> QED
    BY <1>1, <1>3, <2>1, <2>2 DEF Fits, At, Entitled, Exists
<1>7. \A q \in Requests \ {r} : /\ pc'[q] = pc[q] /\ arg'[q] = arg[q]
                                /\ copy'[q] = copy[q] /\ outcome'[q] = outcome[q]
  BY <1>1, <1>2, <1>3 DEF UsersInv, UsersTyped, Goto, Answer
<1> QED
  BY <1>1, <1>4, <1>5, <1>6, <1>7, OneMoves

\* A token that expires keeps its purpose.
LEMMA ExpireKeepsUsers ==
  ASSUME UsersInv, Expire
  PROVE  UsersInv' /\ user' = user
<1>1. UNCHANGED <<user, identities, pc, arg, copy, outcome>>
  BY DEF Expire
<1>2. /\ DOMAIN tokens' = DOMAIN tokens
      /\ \A t \in DOMAIN tokens : /\ tokens'[t].purpose = tokens[t].purpose
                                  /\ tokens'[t].provider = tokens[t].provider
      /\ tokens' \in [DOMAIN tokens' -> TokenRow]
  <2>1. tokens \in [DOMAIN tokens -> TokenRow]
    BY DEF UsersInv, UsersTyped
  <2> QED
    BY <2>1 DEF Expire, TokenRow
<1>3. UsersTyped' /\ TokensSound'
  BY <1>1, <1>2 DEF UsersInv, UsersTyped, TokensSound, Exists
<1>4. \A r \in Requests : Fits(r)'
  BY <1>1 DEF UsersInv, Fits, At, Entitled, Exists
<1> QED
  BY <1>1, <1>3, <1>4 DEF UsersInv

\* Every step keeps the account of its owner, and what it never forgets.
LEMMA StepKeepsUsers ==
  ASSUME UsersInv, DOMAIN refresh \subseteq Names, [Next]_vars
  PROVE  /\ UsersInv'
         /\ user.verified => user'.verified
         /\ user.password # None => user'.password # None
<1>1. CASE UNCHANGED vars
  <2>1. UNCHANGED <<user, tokens, identities, pc, arg, copy, outcome>>
    BY <1>1 DEF vars, db
  <2>2. UsersTyped' /\ TokensSound'
    BY <2>1 DEF UsersInv, UsersTyped, TokensSound, Exists
  <2>3. \A r \in Requests : Fits(r)'
    BY <2>1 DEF UsersInv, Fits, At, Entitled, Exists
  <2> QED
    BY <2>1, <2>2, <2>3 DEF UsersInv
<1>2. ASSUME NEW r \in Requests,
             ProfileSave(r) \/ ChangeSave(r) \/ ResetCommit(r) \/ VerifyCommit(r)
      PROVE  /\ UsersInv'
             /\ user.verified => user'.verified
             /\ user.password # None => user'.password # None
  BY <1>2, SaveKeepsUsers
<1>3. ASSUME NEW r \in Requests,
             RegisterLoad(r) \/ LoginLoad(r) \/ RefreshLoad(r) \/ LogoutLoad(r)
               \/ EditLoad(r) \/ MakeToken(r) \/ UseLoad(r) \/ UnlinkLoad(r)
      PROVE  UsersInv' /\ user' = user
  <2>1. user' = user
    BY <1>3 DEF RegisterLoad, LoginLoad, RefreshLoad, LogoutLoad, EditLoad, MakeToken,
                UseLoad, UnlinkLoad, db
  <2> QED
    BY <1>3, <2>1, LoadKeepsUsers
<1>4. ASSUME NEW r \in Requests,
             \/ LoginCommit(r) \/ RefreshCommit(r) \/ LogoutSave(r) \/ ExchangeCommit(r)
             \/ CallbackConsume(r) \/ CallbackLink(r) \/ CallbackCode(r) \/ UnlinkSave(r)
             \/ (RegisterCommit(r) \/ CallbackCreate(r)) /\ Exists
             \/ Fail(r)
      PROVE  UsersInv' /\ user' = user
  <2>1. user' = user
    BY <1>4 DEF LoginCommit, RefreshCommit, LogoutSave, ExchangeCommit, CallbackConsume,
                CallbackLink, CallbackCode, UnlinkSave, RegisterCommit, CallbackCreate,
                Fail, db
  <2> QED
    BY <1>4, <2>1, GoOnKeepsUsers
<1>5. ASSUME NEW r \in Requests, RegisterCommit(r) \/ CallbackCreate(r), ~ Exists
      PROVE  /\ UsersInv'
             /\ user.verified => user'.verified
             /\ user.password # None => user'.password # None
  <2>1. UsersInv' /\ user = NoUser
    BY <1>5, MakeKeepsUsers
  <2>2. user.verified = FALSE /\ user.password = None
    BY <2>1 DEF NoUser
  <2> QED
    BY <2>1, <2>2
<1>6. ASSUME NEW r \in Requests, CallbackFind(r)
      PROVE  UsersInv' /\ user' = user
  <2>1. user' = user
    BY <1>6 DEF CallbackFind, db
  <2> QED
    BY <1>6, <2>1, FindKeepsUsers
<1>7. CASE Expire
  BY <1>7, ExpireKeepsUsers
<1>8. ASSUME NEW r \in Requests,
             \/ Register(r) \/ Login(r) \/ Refresh(r) \/ Logout(r) \/ Edit(r)
             \/ MakeToken(r) \/ UseToken(r) \/ Callback(r) \/ Unlink(r) \/ Fail(r)
      PROVE  /\ UsersInv'
             /\ user.verified => user'.verified
             /\ user.password # None => user'.password # None
  BY <1>2, <1>3, <1>4, <1>5, <1>6, <1>8
     DEF Register, Login, Refresh, Logout, Edit, UseToken, Callback, Unlink
<1> QED
  BY <1>1, <1>7, <1>8 DEF Next

\* At the start nobody has begun, and an account that is there is Genesis.
LEMMA UsersStart ==
  ASSUME Init
  PROVE  UsersInv
<1>1. /\ pc = [r \in Requests |-> "idle"]
      /\ arg = [r \in Requests |-> Ask("none", None, None)]
      /\ copy = [r \in Requests |-> user]
      /\ outcome = [r \in Requests |-> "none"]
  BY DEF Init
<1>2. Ask("none", None, None) \in Command /\ Ask("none", None, None).op = "none"
  BY DEF Ask, Command
<1>3. /\ user \in UserRow \cup {NoUser} /\ identities \subseteq Providers
      /\ DOMAIN tokens \subseteq Names /\ tokens \in [DOMAIN tokens -> TokenRow]
      /\ TokensSound
  <2>1. CASE InitAbsent
    <3>1. PICK v \in Providers : tokens = [t \in {Genesis} |-> NewToken("state", v)]
      BY <2>1 DEF InitAbsent
    <3> QED
      BY <2>1, <3>1 DEF InitAbsent, NewToken, TokenRow, Purposes, TokensSound, Names
  <2>2. CASE InitPresent
    <3>1. user \in UserRow /\ identities \subseteq Providers /\ user.id = Genesis
      <4>1. PICK S \in SUBSET Providers :
              /\ identities = S
              /\ user \in [id : {Genesis}, profile : {Genesis}, verified : BOOLEAN,
                           password : IF S = {} THEN {Genesis} ELSE {Genesis, None}]
        BY <2>2 DEF InitPresent
      <4>2. (IF S = {} THEN {Genesis} ELSE {Genesis, None}) \subseteq Names \cup {None}
        BY DEF Names
      <4>3. Genesis \in Names
        BY DEF Names
      <4> QED
        BY <4>1, <4>2, <4>3 DEF UserRow
    <3>2. PICK q \in Purposes, v \in Providers :
            tokens = [t \in {Genesis} |-> NewToken(q, IF q = "state" THEN v ELSE None)]
      BY <2>2 DEF InitPresent
    <3>3. /\ DOMAIN tokens \subseteq Names /\ tokens \in [DOMAIN tokens -> TokenRow]
          /\ \A t \in DOMAIN tokens :
               tokens[t].purpose = "state" => tokens[t].provider \in Providers
      BY <3>2 DEF NewToken, TokenRow, Names
    <3>4. Exists
      BY <3>1, NamesAssumption DEF Exists
    <3> QED
      BY <3>1, <3>3, <3>4 DEF TokensSound
  <2> QED
    BY <2>1, <2>2 DEF Init
<1>4. UsersTyped
  BY <1>1, <1>2, <1>3 DEF UsersTyped
<1>5. \A r \in Requests : Fits(r)
  BY <1>1, <1>2 DEF Fits, At
<1> QED
  BY <1>3, <1>4, <1>5 DEF UsersInv

-----------------------------------------------------------------------------
(* Sessions.                                                               *)

\* Every variable of the sessions holds values of its type.
SessionsTyped ==
  /\ DOMAIN refresh \subseteq Names
  /\ refresh \in [DOMAIN refresh -> RefreshRow]
  /\ \A t \in DOMAIN refresh : refresh[t].next \in DOMAIN refresh \cup {None}

\* A session is named after its first token, one of its tokens at most is not
\* revoked, and the rotated ones are chained.
Chained ==
  /\ \A t \in DOMAIN refresh : refresh[t].session \in DOMAIN refresh
  /\ \A t, u \in DOMAIN refresh :
       /\ refresh[t].session = refresh[u].session
       /\ refresh[t].status \in Unrevoked /\ refresh[u].status \in Unrevoked
       => t = u
  /\ \A t \in DOMAIN refresh : refresh[t].next # None <=> refresh[t].status = "rotated"
  /\ \A t, u \in DOMAIN refresh :
       refresh[t].next = refresh[u].next /\ refresh[t].next # None => t = u

\* No token of session s is good any more.
Dead(s) ==
  \A t \in DOMAIN refresh : refresh[t].session = s => refresh[t].status \notin Unrevoked

\* A token bears the name of a request that is done, a request presents a token
\* that is there, and a logout that was answered has ended its session.
Sound(r) ==
  /\ r \in DOMAIN refresh => pc[r] = "done"
  /\ pc[r] = "loaded" /\ arg[r].op \in {"refresh", "logout"} =>
       arg[r].token \in DOMAIN refresh
  /\ outcome[r] = "ok" /\ arg[r].op = "logout" =>
       arg[r].token \in DOMAIN refresh /\ Dead(refresh[arg[r].token].session)

\* The strengthening of RotationIsLinear and LogoutEndsSession that every step
\* preserves.
SessionsInv == SessionsTyped /\ Chained /\ \A r \in Requests : Sound(r)

\* Dead in the next state, for a session named in this one.
DeadNext(s) ==
  \A t \in DOMAIN refresh' : refresh'[t].session = s => refresh'[t].status \notin Unrevoked

\* No token is lost, and no session comes back to life.
Lasts ==
  \A t \in DOMAIN refresh :
    /\ t \in DOMAIN refresh' /\ refresh'[t].session = refresh[t].session
    /\ Dead(refresh[t].session) => DeadNext(refresh[t].session)

\* A new session bears the name of its first token.
LEMMA NewSession ==
  ASSUME SessionsInv, NEW r \in Requests, r \notin DOMAIN refresh,
         refresh' = Put(refresh, r, NewRefresh(r))
  PROVE  SessionsTyped' /\ Chained' /\ Lasts
<1>1. /\ DOMAIN refresh' = DOMAIN refresh \cup {r}
      /\ refresh'[r] = [session |-> r, next |-> None, status |-> "live"]
      /\ \A t \in DOMAIN refresh : refresh'[t] = refresh[t]
  BY DEF Put, NewRefresh
<1>2. r \in Names
  BY DEF Names
<1>3. refresh' \in [DOMAIN refresh' -> RefreshRow]
  <2>1. [session |-> r, next |-> None, status |-> "live"] \in RefreshRow
    BY <1>2 DEF RefreshRow
  <2>2. \A t \in DOMAIN refresh' : refresh'[t] \in RefreshRow
    BY <1>1, <2>1 DEF SessionsInv, SessionsTyped
  <2> QED
    BY <2>2 DEF Put
<1>4. SessionsTyped'
  BY <1>1, <1>2, <1>3 DEF SessionsInv, SessionsTyped
<1>5. Chained'
  BY <1>1 DEF SessionsInv, SessionsTyped, Chained
<1>6. Lasts
  BY <1>1 DEF SessionsInv, Chained, Lasts, Dead, DeadNext
<1> QED
  BY <1>4, <1>5, <1>6

\* A rotation goes on with the session of the token it revokes.
LEMMA RotateKeepsChain ==
  ASSUME SessionsInv, NEW r \in Requests, r \notin DOMAIN refresh,
         NEW t \in DOMAIN refresh, refresh[t].status \in Unrevoked,
         NEW s, s = refresh[t].session,
         DOMAIN refresh' = DOMAIN refresh \cup {r},
         refresh' \in [DOMAIN refresh' -> RefreshRow],
         refresh'[r] = [session |-> s, next |-> None, status |-> "live"],
         refresh'[t] = [session |-> s, next |-> r, status |-> "rotated"],
         \A u \in DOMAIN refresh \ {t} : refresh'[u] = refresh[u]
  PROVE  SessionsTyped' /\ Chained' /\ Lasts
<1>1. r \in Names /\ r # None
  BY NamesAssumption DEF Names
<1>2. SessionsTyped'
  BY <1>1 DEF SessionsInv, SessionsTyped
<1>3. Chained'
  <2>1. \A u \in DOMAIN refresh' : refresh'[u].session \in DOMAIN refresh'
    BY DEF SessionsInv, Chained
  <2>2. \A u, v \in DOMAIN refresh' :
          /\ refresh'[u].session = refresh'[v].session
          /\ refresh'[u].status \in Unrevoked /\ refresh'[v].status \in Unrevoked
          => u = v
    BY DEF SessionsInv, Chained, Unrevoked
  <2>3. \A u \in DOMAIN refresh' : refresh'[u].next # None
                                     <=> refresh'[u].status = "rotated"
    BY <1>1 DEF SessionsInv, Chained
  <2>4. \A u, v \in DOMAIN refresh' :
          refresh'[u].next = refresh'[v].next /\ refresh'[u].next # None => u = v
    BY <1>1 DEF SessionsInv, SessionsTyped, Chained
  <2> QED
    BY <2>1, <2>2, <2>3, <2>4 DEF Chained
<1>4. Lasts
  <2>1. ~ Dead(s)
    BY DEF Dead
  <2>2. ASSUME NEW u \in DOMAIN refresh, Dead(refresh[u].session)
        PROVE  DeadNext(refresh[u].session)
    <3>1. refresh[u].session # s
      BY <2>1, <2>2
    <3> QED
      BY <2>2, <3>1 DEF Dead, DeadNext
  <2> QED
    BY <2>2 DEF Lasts
<1> QED
  BY <1>2, <1>3, <1>4

\* What Rotate makes of the tokens.
LEMMA RotateRows ==
  ASSUME SessionsInv, NEW r \in Requests, r \notin DOMAIN refresh,
         NEW t \in DOMAIN refresh, refresh[t].status \in Unrevoked, Rotate(r, t)
  PROVE  /\ DOMAIN refresh' = DOMAIN refresh \cup {r}
         /\ refresh' \in [DOMAIN refresh' -> RefreshRow]
         /\ refresh'[r] = [session |-> refresh[t].session, next |-> None,
                           status |-> "live"]
         /\ refresh'[t] = [session |-> refresh[t].session, next |-> r,
                           status |-> "rotated"]
         /\ \A u \in DOMAIN refresh \ {t} : refresh'[u] = refresh[u]
<1> DEFINE s == refresh[t].session
           old == [refresh EXCEPT ![t].status = "rotated", ![t].next = r]
<1>1. /\ refresh[t] \in RefreshRow /\ s \in Names /\ t # r /\ r \in Names
      /\ \A u \in DOMAIN refresh : refresh[u] \in RefreshRow
  BY DEF SessionsInv, SessionsTyped, RefreshRow, Names
<1>2. /\ DOMAIN old = DOMAIN refresh
      /\ old[t] = [session |-> s, next |-> r, status |-> "rotated"]
      /\ \A u \in DOMAIN refresh \ {t} : old[u] = refresh[u]
  BY <1>1 DEF RefreshRow
<1>3. PICK new : refresh' = new /\ new = Put(old, r, NewRefresh(s))
  BY DEF Rotate
<1> HIDE DEF old, s
<1>4. /\ DOMAIN new = DOMAIN refresh \cup {r}
      /\ new[r] = [session |-> s, next |-> None, status |-> "live"]
      /\ new[t] = [session |-> s, next |-> r, status |-> "rotated"]
      /\ \A u \in DOMAIN refresh \ {t} : new[u] = refresh[u]
  BY <1>1, <1>2, <1>3 DEF Put, NewRefresh
<1>5. new \in [DOMAIN new -> RefreshRow]
  <2>1. /\ [session |-> s, next |-> None, status |-> "live"] \in RefreshRow
        /\ [session |-> s, next |-> r, status |-> "rotated"] \in RefreshRow
    BY <1>1 DEF RefreshRow
  <2>2. \A u \in DOMAIN new : new[u] \in RefreshRow
    BY <1>1, <1>4, <2>1
  <2> QED
    BY <1>3, <2>2 DEF Put
<1> QED
  BY <1>3, <1>4, <1>5 DEF s

\* A token that is not revoked expires or is revoked by a logout.
LEMMA StatusKeepsChain ==
  ASSUME SessionsInv, NEW t \in DOMAIN refresh, refresh[t].status \in Unrevoked,
         NEW c \in {"expired", "logout"},
         refresh' = [refresh EXCEPT ![t].status = c]
  PROVE  SessionsTyped' /\ Chained' /\ Lasts
<1>1. /\ refresh \in [DOMAIN refresh -> RefreshRow]
  BY DEF SessionsInv, SessionsTyped
<1>2. /\ DOMAIN refresh' = DOMAIN refresh
      /\ refresh'[t].session = refresh[t].session /\ refresh'[t].next = refresh[t].next
      /\ refresh'[t].status = c
      /\ \A u \in DOMAIN refresh \ {t} : refresh'[u] = refresh[u]
      /\ refresh' \in [DOMAIN refresh' -> RefreshRow]
  BY <1>1 DEF RefreshRow
<1>3. SessionsTyped'
  BY <1>2 DEF SessionsInv, SessionsTyped
<1>4. Chained'
  BY <1>2 DEF SessionsInv, Chained, Unrevoked
<1>5. Lasts
  BY <1>2 DEF Lasts, Dead, DeadNext
<1> QED
  BY <1>3, <1>4, <1>5

\* Requests stay sound while one of them moves and the sessions last.
LEMMA OneSound ==
  ASSUME SessionsInv, NEW r \in Requests, SessionsTyped', Chained', Lasts,
         \A q \in Requests \ {r} : /\ pc'[q] = pc[q] /\ arg'[q] = arg[q]
                                   /\ outcome'[q] = outcome[q],
         DOMAIN refresh' \subseteq DOMAIN refresh \cup {r},
         Sound(r)'
  PROVE  SessionsInv'
<1>1. ASSUME NEW q \in Requests \ {r} PROVE Sound(q)'
  <2>1. Sound(q)
    BY DEF SessionsInv
  <2>2. ASSUME outcome[q] = "ok", arg[q].op = "logout"
        PROVE  /\ arg[q].token \in DOMAIN refresh'
               /\ DeadNext(refresh'[arg[q].token].session)
    BY <2>1, <2>2 DEF Sound, Lasts
  <2>3. pc[q] = "loaded" /\ arg[q].op \in {"refresh", "logout"} =>
          arg[q].token \in DOMAIN refresh'
    BY <2>1 DEF Sound, Lasts
  <2>4. q \in DOMAIN refresh' => pc[q] = "done"
    BY <2>1 DEF Sound
  <2>5. pc'[q] = pc[q] /\ arg'[q] = arg[q] /\ outcome'[q] = outcome[q]
    OBVIOUS
  <2> QED
    BY <2>2, <2>3, <2>4, <2>5 DEF Sound, Dead, DeadNext
<1> QED
  BY <1>1 DEF SessionsInv

\* What a step of request r leaves to the others.
OthersStay(r) ==
  \A q \in Requests \ {r} : /\ pc'[q] = pc[q] /\ arg'[q] = arg[q]
                            /\ outcome'[q] = outcome[q]

\* A step that leaves the tokens alone and answers no logout.
LEMMA SameTokens ==
  ASSUME SessionsInv, NEW r \in Requests, UNCHANGED refresh, OthersStay(r),
         pc[r] # "done",
         pc'[r] = "loaded" /\ arg'[r].op \in {"refresh", "logout"} =>
           arg'[r].token \in DOMAIN refresh,
         outcome'[r] # "ok" \/ arg'[r].op # "logout"
  PROVE  SessionsInv'
<1>1. SessionsTyped' /\ Chained' /\ Lasts
  BY DEF SessionsInv, SessionsTyped, Chained, Lasts, Dead, DeadNext
<1>2. r \notin DOMAIN refresh
  BY DEF SessionsInv, Sound
<1>3. Sound(r)'
  BY <1>2 DEF Sound
<1> QED
  BY <1>1, <1>3, OneSound DEF OthersStay

\* A session that is opened.
LEMMA OpensSession ==
  ASSUME SessionsInv, NEW r \in Requests, pc[r] # "done", OthersStay(r),
         refresh' = Put(refresh, r, NewRefresh(r)),
         pc'[r] = "done", arg'[r].op # "logout"
  PROVE  SessionsInv'
<1>1. r \notin DOMAIN refresh
  BY DEF SessionsInv, Sound
<1>2. SessionsTyped' /\ Chained' /\ Lasts /\ DOMAIN refresh' = DOMAIN refresh \cup {r}
  BY <1>1, NewSession DEF Put
<1>3. Sound(r)'
  BY DEF Sound
<1> QED
  BY <1>2, <1>3, OneSound DEF OthersStay

\* The requests that have to do with neither refresh nor logout.
LEMMA OthersKeepSessions ==
  ASSUME UsersInv, SessionsInv, NEW r \in Requests,
         \/ Register(r) \/ Login(r) \/ Edit(r) \/ MakeToken(r) \/ UseToken(r)
         \/ Callback(r) \/ Unlink(r)
  PROVE  SessionsInv'
<1>1. /\ pc \in [Requests -> {"idle", "loaded", "consumed", "matched", "new",
                              "linked", "done"}]
      /\ arg \in [Requests -> Command]
      /\ outcome \in [Requests -> {"none", "ok", "nothing", "rejected", "error"}]
  BY DEF UsersInv, UsersTyped
<1>2. ASSUME NEW cmd, Begin(r, cmd), cmd.op \notin {"refresh", "logout"},
             NEW p, Goto(r, p), UNCHANGED refresh,
             outcome' = outcome \/ \E c : outcome' = [outcome EXCEPT ![r] = c]
      PROVE  SessionsInv'
  <2>1. pc[r] = "idle" /\ arg' = [arg EXCEPT ![r] = cmd] /\ pc' = [pc EXCEPT ![r] = p]
    BY <1>2 DEF Begin, Goto
  <2>2. OthersStay(r) /\ pc[r] # "done" /\ arg'[r].op \notin {"refresh", "logout"}
    BY <1>1, <1>2, <2>1 DEF OthersStay
  <2> QED
    BY <1>2, <2>2, SameTokens
<1>3. ASSUME pc[r] \notin {"idle", "done"}, arg[r].op \notin {"refresh", "logout"},
             \/ UNCHANGED arg
             \/ \E a : arg' = [arg EXCEPT ![r] = a] /\ a.op = arg[r].op,
             NEW p, Goto(r, p),
             outcome' = outcome \/ \E c : outcome' = [outcome EXCEPT ![r] = c],
             \/ UNCHANGED refresh
             \/ p = "done" /\ refresh' = Put(refresh, r, NewRefresh(r))
      PROVE  SessionsInv'
  <2>1. pc' = [pc EXCEPT ![r] = p]
    BY <1>3 DEF Goto
  <2>2. /\ OthersStay(r) /\ pc[r] # "done" /\ pc'[r] = p
        /\ arg'[r].op \notin {"refresh", "logout"}
    BY <1>1, <1>3, <2>1 DEF OthersStay
  <2> QED
    BY <1>3, <2>2, SameTokens, OpensSession
<1>4. ASSUME NEW op, NEW t, NEW v PROVE Ask(op, t, v).op = op
  BY DEF Ask
<1>5. CASE RegisterLoad(r) \/ LoginLoad(r) \/ EditLoad(r) \/ UnlinkLoad(r)
  BY <1>2, <1>4, <1>5 DEF RegisterLoad, LoginLoad, EditLoad, UnlinkLoad, Answer, db
<1>6. CASE MakeToken(r)
  <2>1. PICK op \in DOMAIN Made : Begin(r, Ask(op, None, None))
    BY <1>6 DEF MakeToken
  <2>2. op \notin {"refresh", "logout"}
    BY <2>1 DEF Made
  <2> QED
    BY <1>2, <1>4, <1>6, <2>1, <2>2 DEF MakeToken, Answer
<1>7. CASE UseLoad(r)
  <2>1. PICK op \in DOMAIN Used, t \in DOMAIN tokens :
          Begin(r, Ask(op, t, tokens[t].provider))
    BY <1>7 DEF UseLoad
  <2>2. op \notin {"refresh", "logout"}
    BY <2>1 DEF Used
  <2>3. PICK p : Goto(r, p) /\ (outcome' = outcome
                                  \/ \E c : outcome' = [outcome EXCEPT ![r] = c])
    BY <1>7 DEF UseLoad, Answer
  <2> QED
    BY <1>2, <1>4, <1>7, <2>1, <2>2, <2>3 DEF UseLoad, db
<1>8. CASE RegisterCommit(r) \/ LoginCommit(r) \/ ExchangeCommit(r)
  BY <1>3, <1>8 DEF RegisterCommit, LoginCommit, ExchangeCommit, At, Answer
<1>9. CASE ProfileSave(r) \/ ChangeSave(r) \/ ResetCommit(r) \/ VerifyCommit(r)
  BY <1>3, <1>9 DEF ProfileSave, ChangeSave, ResetCommit, VerifyCommit, At, Answer
<1>10. CASE CallbackConsume(r) \/ CallbackLink(r) \/ CallbackCreate(r) \/ CallbackCode(r)
              \/ UnlinkSave(r)
  BY <1>3, <1>10 DEF CallbackConsume, CallbackLink, CallbackCreate, CallbackCode,
                     UnlinkSave, At, Answer
<1>11. CASE CallbackFind(r)
  <2>1. /\ pc[r] = "consumed" /\ arg[r].op = "callback" /\ UNCHANGED refresh
    BY <1>11 DEF CallbackFind, At, db
  <2>2. PICK p : Goto(r, p) /\ (outcome' = outcome
                                  \/ \E c : outcome' = [outcome EXCEPT ![r] = c])
    BY <1>11 DEF CallbackFind, Answer
  <2>3. /\ \A q \in Requests \ {r} : arg'[q] = arg[q]
        /\ arg'[r].op = "callback"
    <3>1. PICK v \in BOOLEAN :
            \/ arg' = [[arg EXCEPT ![r].verified = v] EXCEPT ![r].known = TRUE]
            \/ arg' = [arg EXCEPT ![r].verified = v]
      BY <1>11 DEF CallbackFind
    <3> DEFINE found == [arg EXCEPT ![r].verified = v]
    <3>2. /\ DOMAIN found = Requests /\ found[r].op = "callback"
          /\ found[r] \in Command
          /\ \A q \in Requests \ {r} : found[q] = arg[q]
      BY <1>1, <2>1 DEF Command
    <3>3. arg' = [found EXCEPT ![r].known = TRUE] \/ arg' = found
      BY <3>1
    <3> HIDE DEF found
    <3> QED
      BY <3>2, <3>3 DEF Command
  <2>4. OthersStay(r)
    BY <1>1, <2>2, <2>3 DEF OthersStay, Goto
  <2> QED
    BY <2>1, <2>3, <2>4, SameTokens
<1> QED
  BY <1>5, <1>6, <1>7, <1>8, <1>9, <1>10, <1>11
     DEF Register, Login, Edit, UseToken, Callback, Unlink

\* A refresh goes on with the session only if nobody has revoked its token.
LEMMA RefreshKeepsSessions ==
  ASSUME UsersInv, SessionsInv, NEW r \in Requests, RefreshCommit(r)
  PROVE  SessionsInv'
<1> DEFINE t == arg[r].token
<1>1. /\ pc[r] = "loaded" /\ arg[r].op = "refresh" /\ UNCHANGED arg
      /\ Rotate(r, t)
  BY DEF RefreshCommit, At
<1>2. t \in DOMAIN refresh /\ r \notin DOMAIN refresh
  BY <1>1 DEF SessionsInv, Sound
<1>3. OthersStay(r) /\ pc'[r] = "done" /\ arg'[r].op = "refresh" /\ pc[r] # "done"
  BY <1>1 DEF UsersInv, UsersTyped, OthersStay, Rotate, Answer, Goto
<1>4. CASE refresh[t].status \in Unrevoked
  <2>1. /\ DOMAIN refresh' = DOMAIN refresh \cup {r}
        /\ refresh' \in [DOMAIN refresh' -> RefreshRow]
        /\ refresh'[r] = [session |-> refresh[t].session, next |-> None,
                          status |-> "live"]
        /\ refresh'[t] = [session |-> refresh[t].session, next |-> r,
                          status |-> "rotated"]
        /\ \A u \in DOMAIN refresh \ {t} : refresh'[u] = refresh[u]
    BY <1>1, <1>2, <1>4, RotateRows
  <2> HIDE DEF t
  <2>2. SessionsTyped' /\ Chained' /\ Lasts
    BY <1>2, <1>4, <2>1, RotateKeepsChain
  <2>3. Sound(r)'
    BY <1>3 DEF Sound
  <2> QED
    BY <1>3, <2>1, <2>2, <2>3, OneSound DEF OthersStay
<1>5. CASE refresh[t].status \notin Unrevoked
  <2>1. UNCHANGED refresh
    BY <1>1, <1>5 DEF Rotate
  <2> QED
    BY <1>3, <2>1, SameTokens
<1> QED
  BY <1>4, <1>5

\* A logout that revokes the end of a session leaves nothing of it.
LEMMA LogoutKeepsSessions ==
  ASSUME UsersInv, SessionsInv, NEW r \in Requests, LogoutSave(r)
  PROVE  SessionsInv'
<1> DEFINE t == arg[r].token
<1>1. pc[r] = "loaded" /\ arg[r].op = "logout" /\ UNCHANGED arg
  BY DEF LogoutSave, At
<1>2. t \in DOMAIN refresh /\ r \notin DOMAIN refresh
  BY <1>1 DEF SessionsInv, Sound
<1>3. OthersStay(r) /\ pc'[r] = "done" /\ pc[r] # "done"
  BY <1>1 DEF UsersInv, UsersTyped, OthersStay, LogoutSave, Answer, Goto
<1>4. CASE refresh[t].status \in Unrevoked
  <2>1. refresh' = [refresh EXCEPT ![t].status = "logout"]
    BY <1>4 DEF LogoutSave
  <2>2. /\ DOMAIN refresh' = DOMAIN refresh
        /\ refresh'[t].status = "logout" /\ refresh'[t].session = refresh[t].session
        /\ \A u \in DOMAIN refresh \ {t} : refresh'[u] = refresh[u]
    BY <1>2, <2>1 DEF SessionsInv, SessionsTyped, RefreshRow
  <2>3. SessionsTyped' /\ Chained' /\ Lasts
    BY <1>2, <1>4, <2>1, StatusKeepsChain
  <2>4. \A u \in DOMAIN refresh' : refresh'[u].session = refresh'[t].session =>
          refresh'[u].status \notin Unrevoked
    BY <1>2, <1>4, <2>2 DEF SessionsInv, Chained, Unrevoked
  <2>5. arg'[r].token = t
    BY <1>1
  <2> HIDE DEF t
  <2>6. Sound(r)'
    BY <1>2, <1>3, <2>2, <2>4, <2>5 DEF Sound, Dead
  <2> QED
    BY <1>3, <2>2, <2>3, <2>6, OneSound DEF OthersStay
<1>5. CASE refresh[t].status \notin Unrevoked
  <2>1. UNCHANGED refresh /\ outcome' = [outcome EXCEPT ![r] = "error"]
    BY <1>5 DEF LogoutSave, Answer
  <2>2. outcome'[r] # "ok"
    BY <2>1 DEF UsersInv, UsersTyped
  <2> QED
    BY <1>3, <2>1, <2>2, SameTokens
<1> QED
  BY <1>4, <1>5

\* Refreshes and logouts that begin present a token that is there.
LEMMA BeginKeepsSessions ==
  ASSUME UsersInv, SessionsInv, NEW r \in Requests, RefreshLoad(r) \/ LogoutLoad(r)
  PROVE  SessionsInv'
<1>1. PICK op \in {"refresh", "logout"}, t \in DOMAIN refresh :
        Begin(r, Ask(op, t, None))
  BY DEF RefreshLoad, LogoutLoad
<1>2. PICK p \in {"loaded", "done"}, c \in {"none", "rejected", "nothing"} :
        Goto(r, p) /\ outcome'[r] = c
  <2>1. outcome[r] = "none" /\ DOMAIN outcome = Requests
    BY <1>1 DEF UsersInv, UsersTyped, Fits, Begin
  <2> QED
    BY <2>1 DEF RefreshLoad, LogoutLoad, Answer
<1>3. /\ pc[r] = "idle" /\ arg' = [arg EXCEPT ![r] = Ask(op, t, None)]
      /\ Ask(op, t, None).token = t
      /\ \A q \in Requests \ {r} : outcome'[q] = outcome[q]
      /\ UNCHANGED refresh
  BY <1>1 DEF Begin, Ask, RefreshLoad, LogoutLoad, Answer, db, UsersInv, UsersTyped
<1>4. OthersStay(r) /\ arg'[r].token = t
  BY <1>2, <1>3 DEF OthersStay, Goto, UsersInv, UsersTyped
<1> QED
  BY <1>2, <1>3, <1>4, SameTokens

\* Every step keeps the sessions linear and ended ones dead.
LEMMA StepKeepsSessions ==
  ASSUME UsersInv, SessionsInv, [Next]_vars
  PROVE  SessionsInv'
<1>1. CASE UNCHANGED vars
  BY <1>1 DEF vars, db, SessionsInv, SessionsTyped, Chained, Sound, Dead
<1>2. ASSUME NEW r \in Requests, Fail(r) PROVE SessionsInv'
  <2>1. OthersStay(r) /\ outcome'[r] # "ok" /\ pc[r] # "done" /\ pc'[r] = "done"
        /\ UNCHANGED refresh
    BY <1>2 DEF Fail, Answer, Goto, db, OthersStay, UsersInv, UsersTyped
  <2> QED
    BY <2>1, SameTokens
<1>3. CASE Expire
  <2>1. UNCHANGED <<pc, arg, outcome>>
    BY <1>3 DEF Expire
  <2>2. SessionsTyped' /\ Chained' /\ Lasts /\ DOMAIN refresh' = DOMAIN refresh
    <3>1. CASE UNCHANGED refresh
      BY <3>1 DEF SessionsInv, SessionsTyped, Chained, Lasts, Dead, DeadNext
    <3>2. ASSUME NEW t \in DOMAIN refresh, refresh[t].status = "live",
                 refresh' = [refresh EXCEPT ![t].status = "expired"]
          PROVE  SessionsTyped' /\ Chained' /\ Lasts /\ DOMAIN refresh' = DOMAIN refresh
      <4>1. refresh[t].status \in Unrevoked
        BY <3>2 DEF Unrevoked
      <4>2. SessionsTyped' /\ Chained' /\ Lasts
        BY <3>2, <4>1, StatusKeepsChain
      <4> QED
        BY <3>2, <4>2
    <3> QED
      BY <1>3, <3>1, <3>2 DEF Expire
  <2>3. ASSUME NEW r \in Requests PROVE Sound(r)'
    <3>1. Sound(r)
      BY DEF SessionsInv
    <3>2. outcome[r] = "ok" /\ arg[r].op = "logout" =>
            arg[r].token \in DOMAIN refresh' /\ DeadNext(refresh'[arg[r].token].session)
      BY <2>2, <3>1 DEF Sound, Lasts
    <3> QED
      BY <2>1, <2>2, <3>1, <3>2 DEF Sound, Dead, DeadNext
  <2> QED
    BY <2>2, <2>3 DEF SessionsInv
<1> QED
  BY <1>1, <1>2, <1>3, OthersKeepSessions, RefreshKeepsSessions, LogoutKeepsSessions,
     BeginKeepsSessions DEF Next, Refresh, Logout

\* At the start there is a session at most, of Genesis.
LEMMA SessionsStart ==
  ASSUME Init
  PROVE  SessionsInv
<1>1. /\ DOMAIN refresh \subseteq {Genesis} /\ Genesis \notin Requests /\ Genesis \in Names
      /\ \A t \in DOMAIN refresh :
           refresh[t] = [session |-> Genesis, next |-> None, status |-> "live"]
      /\ refresh \in [DOMAIN refresh -> RefreshRow]
  <2>1. CASE InitAbsent
    BY <2>1, NamesAssumption DEF InitAbsent, Names
  <2>2. CASE InitPresent
    <3>1. NewRefresh(Genesis) = [session |-> Genesis, next |-> None, status |-> "live"]
      BY DEF NewRefresh
    <3>2. NewRefresh(Genesis) \in RefreshRow
      BY <3>1 DEF RefreshRow, Names
    <3> QED
      BY <2>2, <3>1, <3>2, NamesAssumption DEF InitPresent, Names
  <2> QED
    BY <2>1, <2>2 DEF Init
<1>2. \A r \in Requests : /\ pc[r] = "idle" /\ outcome[r] = "none"
  BY DEF Init
<1>3. SessionsTyped
  BY <1>1 DEF SessionsTyped
<1>4. Chained
  BY <1>1 DEF Chained
<1>5. \A r \in Requests : Sound(r)
  BY <1>1, <1>2 DEF Sound
<1> QED
  BY <1>3, <1>4, <1>5 DEF SessionsInv

-----------------------------------------------------------------------------
(* The theorems.                                                           *)

\* Both invariants, together.
LEMMA AccountInvariant == Spec => [](UsersInv /\ SessionsInv)
<1>1. Init => UsersInv /\ SessionsInv
  BY UsersStart, SessionsStart
<1>2. UsersInv /\ SessionsInv /\ [Next]_vars => UsersInv' /\ SessionsInv'
  BY StepKeepsUsers, StepKeepsSessions DEF SessionsInv, SessionsTyped
<1> QED
  BY <1>1, <1>2, PTL DEF Spec

\* Every reachable state of an account is well typed.
THEOREM AccountTyped == Spec => []TypeOK
<1>1. UsersInv /\ SessionsInv => TypeOK
  BY DEF UsersInv, UsersTyped, SessionsInv, SessionsTyped, TypeOK
<1> QED
  BY <1>1, AccountInvariant, PTL

\* However registrations and OAuth logins with one email overlap, none of them is
\* answered with an account that another one has made.
THEOREM AccountsAreNotTaken == Spec => []NoTakeover
<1>1. UsersInv => NoTakeover
  BY DEF UsersInv, Fits, Entitled, NoTakeover
<1> QED
  BY <1>1, AccountInvariant, PTL

\* The stale copies that handlers save never unverify an email and never leave an
\* account that had a password without one.
THEOREM AccountsNeverForget == Spec => AccountNeverForgets
<1>1. UsersInv /\ SessionsInv /\ [Next]_vars =>
        [/\ user.verified => user'.verified
         /\ user.password # None => user'.password # None]_vars
  BY StepKeepsUsers DEF SessionsInv, SessionsTyped
<1> QED
  BY <1>1, AccountInvariant, PTL DEF Spec, AccountNeverForgets

\* The tokens of a session form a chain with one live end at most, however its
\* refreshes and logouts overlap.
THEOREM RotationsAreLinear == Spec => []RotationIsLinear
<1>1. ASSUME SessionsInv, NEW s \in Names PROVE Cardinality(Tails(s)) <= 1
  <2>1. CASE Tails(s) = {}
    <3>1. Cardinality(Tails(s)) = 0
      BY <2>1, FS_EmptySet
    <3> QED
      BY <3>1
  <2>2. CASE Tails(s) # {}
    <3>1. PICK t : t \in Tails(s)
      BY <2>2
    <3>2. Tails(s) = {t}
      BY <1>1, <3>1 DEF SessionsInv, Chained, Tails, SessionTokens
    <3>3. Cardinality(Tails(s)) = 1
      BY <3>2, FS_Singleton
    <3> QED
      BY <3>3
  <2> QED
    BY <2>1, <2>2
<1>2. SessionsInv => RotationIsLinear
  BY <1>1 DEF SessionsInv, Chained, RotationIsLinear
<1> QED
  BY <1>2, AccountInvariant, PTL

\* A logout that revoked its token ends the session for good.
THEOREM LogoutsEndSessions == Spec => []LogoutEndsSession
<1>1. SessionsInv => LogoutEndsSession
  BY DEF SessionsInv, Sound, Dead, LogoutEndsSession, Tails, SessionTokens
<1> QED
  BY <1>1, AccountInvariant, PTL
=============================================================================
