------------------------------ MODULE Account ------------------------------
(***************************************************************************)
(* The account of one email in the user module: its row in `users`, its    *)
(* refresh tokens, its one-time tokens and its OAuth identities, made and  *)
(* used by concurrent HTTP requests.                                       *)
(*                                                                         *)
(* A request reads in one step and writes in a later one, inside or        *)
(* outside a transaction: the transactions of MySQL read from a snapshot   *)
(* and take row locks only when they write.  An UPDATE with a condition    *)
(* sees the latest committed row; SaveUser has none and writes the row the *)
(* handler read.                                                           *)
(***************************************************************************)
EXTENDS Integers, FiniteSets

CONSTANTS
  Requests,   \* requests; each names the token, password or profile it makes
  Providers,  \* OAuth providers
  Genesis,    \* names what existed before the requests
  Ops,        \* the operations the clients ask for
  None

AllOps == {"register", "login", "refresh", "logout", "profile", "change", "forgot",
           "reset", "resend", "verify", "start", "callback",
           "exchange", "unlink"}

ASSUME NamesAssumption == /\ Genesis \notin Requests /\ None \notin Requests
                          /\ Genesis # None
ASSUME OpsAssumption   == Ops \subseteq AllOps

VARIABLES
  user,        \* the row of users, or NoUser
  refresh,     \* the rows of auth_refresh_tokens, by token
  tokens,      \* the rows of auth_action_tokens and oauth_login_states
  identities,  \* the providers linked to the account
  pc,          \* how far each request is
  arg,         \* what each request asks for
  copy,        \* the row of users each request read
  outcome      \* how each request was answered

db   == <<user, refresh, tokens, identities>>
vars == <<db, pc, arg, copy, outcome>>

Names    == Requests \cup {Genesis}
\* id: the request that made the account.
UserRow  == [id : Names, password : Names \cup {None}, verified : BOOLEAN,
             profile : Names]
NoUser   == [id |-> None, password |-> None, verified |-> FALSE, profile |-> None]
NewUser(r, password, verified) ==
  [id |-> r, password |-> password, verified |-> verified, profile |-> r]
Exists   == user.id # None
Purposes == {"verify", "reset", "code", "state"}
TokenRow == [purpose : Purposes, provider : Providers \cup {None},
             status : {"live", "expired", "consumed"}]
RefreshRow == [session : Names, next : Names \cup {None},
               status : {"live", "expired", "rotated", "logout"}]
Unrevoked  == {"live", "expired"}

\* known and verified are what a callback learns of the profile: its identity is
\* linked to the account; the provider has verified its email.
Command == [op : AllOps \cup {"none"}, token : Names \cup {None},
            provider : Providers \cup {None}, known : BOOLEAN, verified : BOOLEAN]
Ask(op, token, provider) ==
  [op |-> op, token |-> token, provider |-> provider, known |-> FALSE,
   verified |-> FALSE]

NewRefresh(session) == [session |-> session, next |-> None, status |-> "live"]
NewToken(purpose, provider) ==
  [purpose |-> purpose, provider |-> provider, status |-> "live"]

\* Nobody has the email; or an account registered with a password, or created by
\* an OAuth login, with one session and one token of any purpose.
InitAbsent ==
  /\ user = NoUser /\ identities = {}
  /\ refresh = [t \in {} |-> None]
  /\ \E v \in Providers : tokens = [t \in {Genesis} |-> NewToken("state", v)]

InitPresent ==
  /\ \E S \in SUBSET Providers :
       /\ identities = S
       /\ user \in [id : {Genesis}, profile : {Genesis}, verified : BOOLEAN,
                    password : IF S = {} THEN {Genesis} ELSE {Genesis, None}]
  /\ refresh = [t \in {Genesis} |-> NewRefresh(Genesis)]
  /\ \E p \in Purposes, v \in Providers :
       tokens = [t \in {Genesis} |-> NewToken(p, IF p = "state" THEN v ELSE None)]

Init ==
  /\ InitAbsent \/ InitPresent
  /\ pc = [r \in Requests |-> "idle"]
  /\ arg = [r \in Requests |-> Ask("none", None, None)]
  /\ copy = [r \in Requests |-> user]
  /\ outcome = [r \in Requests |-> "none"]

-----------------------------------------------------------------------------
(* Steps shared by the handlers.                                           *)

Goto(r, stage) == pc' = [pc EXCEPT ![r] = stage]
At(r, op, stage) == arg[r].op = op /\ pc[r] = stage

Begin(r, cmd) ==
  /\ pc[r] = "idle" /\ cmd.op \in Ops
  /\ arg' = [arg EXCEPT ![r] = cmd]

Answer(r, code) ==
  /\ Goto(r, "done")
  /\ outcome' = [outcome EXCEPT ![r] = code]

LoadUser(r) == copy' = [copy EXCEPT ![r] = user]

Put(f, x, v) == [y \in DOMAIN f \cup {x} |-> IF y = x THEN v ELSE f[y]]

\* Mutation: NULL columns of the copy are written too.
SaveUserAll(row) == user' = row

\* SaveUser writes every column of the row but the NULL ones (SetNillable).
SaveUser(row) ==
  user' = [row EXCEPT
             !.password = IF @ = None THEN user.password ELSE @,
             !.verified = @ \/ user.verified]

\* A live token of that purpose; Consume looks in one statement and marks in
\* another, by id alone.
Valid(t, purpose) ==
  t \in DOMAIN tokens /\ tokens[t].purpose = purpose /\ tokens[t].status = "live"

Consumed(t) == [tokens EXCEPT ![t].status = "consumed"]

\* An error, a cancelled context or a crash: an open transaction rolls back.
Fail(r) ==
  /\ pc[r] \notin {"idle", "done"}
  /\ Answer(r, "error")
  /\ UNCHANGED <<db, arg, copy>>

\* A token reaches its expires_at.
Expire ==
  /\ \/ \E t \in DOMAIN refresh :
          /\ refresh[t].status = "live"
          /\ refresh' = [refresh EXCEPT ![t].status = "expired"]
          /\ UNCHANGED tokens
     \/ \E t \in DOMAIN tokens :
          /\ tokens[t].status = "live"
          /\ tokens' = [tokens EXCEPT ![t].status = "expired"]
          /\ UNCHANGED refresh
  /\ UNCHANGED <<user, identities, pc, arg, copy, outcome>>

-----------------------------------------------------------------------------
(* Register: one transaction, which finds nobody with the email,           *)

RegisterLoad(r) ==
  /\ Begin(r, Ask("register", None, None))
  /\ IF Exists THEN Answer(r, "rejected") ELSE Goto(r, "loaded") /\ UNCHANGED outcome
  /\ UNCHANGED <<db, copy>>

\* inserts the row, if nobody has meanwhile, and opens a session.  Nobody is told
\* the verification token that is stored too: it is left out.
RegisterCommit(r) ==
  /\ At(r, "register", "loaded")
  /\ IF Exists
       THEN Answer(r, "error") /\ UNCHANGED <<user, refresh>>
       ELSE /\ user' = NewUser(r, r, FALSE)
            /\ refresh' = Put(refresh, r, NewRefresh(r))
            /\ Answer(r, "ok")
  /\ UNCHANGED <<tokens, identities, arg, copy>>

-----------------------------------------------------------------------------
(* Sessions: Login, Refresh, Logout                                        *)

LoginLoad(r) ==
  /\ Begin(r, Ask("login", None, None))
  /\ \/ user.password # None /\ Goto(r, "loaded") /\ UNCHANGED outcome
     \/ Answer(r, "rejected")
  /\ UNCHANGED <<db, copy>>

\* issueSession: a new session.
LoginCommit(r) ==
  /\ At(r, "login", "loaded")
  /\ refresh' = Put(refresh, r, NewRefresh(r))
  /\ Answer(r, "ok")
  /\ UNCHANGED <<user, tokens, identities, arg, copy>>

\* Any error of FindByHash is answered as an invalid token.
RefreshLoad(r) == \E t \in DOMAIN refresh :
  /\ Begin(r, Ask("refresh", t, None))
  /\ \/ refresh[t].status = "live" /\ Goto(r, "loaded") /\ UNCHANGED outcome
     \/ Answer(r, "rejected")
  /\ UNCHANGED <<db, copy>>

\* Mutation: Revoke without its condition on revoked_at.
RotateUnconditional(r, t) ==
  /\ refresh' = Put([refresh EXCEPT ![t].status = "rotated", ![t].next = r],
                    r, NewRefresh(refresh[t].session))
  /\ Answer(r, "ok")

\* Mutation: the new token is handed out and never stored.
RotateUnsaved(r, t) ==
  IF refresh[t].status \in Unrevoked
    THEN /\ refresh' = [refresh EXCEPT ![t].status = "rotated", ![t].next = r]
         /\ Answer(r, "ok")
    ELSE Answer(r, "rejected") /\ UNCHANGED refresh

\* The new token is inserted and the old one revoked, if nobody did; else the
\* transaction rolls back.
Rotate(r, t) ==
  IF refresh[t].status \in Unrevoked
    THEN /\ refresh' = Put([refresh EXCEPT ![t].status = "rotated",
                                           ![t].next = r],
                           r, NewRefresh(refresh[t].session))
         /\ Answer(r, "ok")
    ELSE Answer(r, "rejected") /\ UNCHANGED refresh

RefreshCommit(r) ==
  /\ At(r, "refresh", "loaded")
  /\ Rotate(r, arg[r].token)
  /\ UNCHANGED <<user, tokens, identities, arg, copy>>

\* Any error of FindByHash is answered as logged out: the token is not live any
\* more, or it is and the database could not be asked.
LogoutLoad(r) == \E t \in DOMAIN refresh :
  /\ Begin(r, Ask("logout", t, None))
  /\ \/ refresh[t].status = "live" /\ Goto(r, "loaded") /\ UNCHANGED outcome
     \/ Answer(r, "nothing")
  /\ UNCHANGED <<db, copy>>

\* Mutation: a Revoke that changes no row is taken for success.
LogoutSaveLenient(r) ==
  /\ At(r, "logout", "loaded")
  /\ Answer(r, "ok")
  /\ refresh' = [refresh EXCEPT ![arg[r].token].status =
                   IF @ \in Unrevoked THEN "logout" ELSE @]
  /\ UNCHANGED <<user, tokens, identities, arg, copy>>

\* Revoke; when somebody rotated the token meanwhile the logout fails.
LogoutSave(r) ==
  /\ At(r, "logout", "loaded")
  /\ IF refresh[arg[r].token].status \in Unrevoked
       THEN /\ refresh' = [refresh EXCEPT ![arg[r].token].status = "logout"]
            /\ Answer(r, "ok")
       ELSE Answer(r, "error") /\ UNCHANGED refresh
  /\ UNCHANGED <<user, tokens, identities, arg, copy>>

-----------------------------------------------------------------------------
(* The row of users: UpdateProfile and ChangePassword                      *)

\* ChangePassword compares the old password with the row it read.
EditLoad(r) == \E op \in {"profile", "change"} :
  /\ Exists
  /\ Begin(r, Ask(op, None, None))
  /\ LoadUser(r)
  /\ \/ Goto(r, "loaded") /\ UNCHANGED outcome
     \/ op = "change" /\ user.password # None /\ Answer(r, "rejected")
  /\ UNCHANGED db

ProfileSave(r) ==
  /\ At(r, "profile", "loaded")
  /\ SaveUser([copy[r] EXCEPT !.profile = r])
  /\ Answer(r, "ok")
  /\ UNCHANGED <<refresh, tokens, identities, arg, copy>>

ChangeSave(r) ==
  /\ At(r, "change", "loaded")
  /\ SaveUser([copy[r] EXCEPT !.password = r])
  /\ Answer(r, "ok")
  /\ UNCHANGED <<refresh, tokens, identities, arg, copy>>

-----------------------------------------------------------------------------
(* One-time tokens: ForgotPassword, SendEmailVerification, StartOAuth make *)
(* them; ResetPassword, VerifyEmail and ExchangeOAuthLoginCode use them.   *)

Made == [forgot |-> "reset", resend |-> "verify", start |-> "state"]
Used == [reset |-> "reset", verify |-> "verify", exchange |-> "code",
         callback |-> "state"]

\* Only StartOAuth needs no account: ForgotPassword does nothing without one.
MakeToken(r) == \E op \in DOMAIN Made, v \in Providers :
  /\ op # "start" => Exists
  /\ Begin(r, Ask(op, None, None))
  /\ tokens' = Put(tokens, r, NewToken(Made[op], IF op = "start" THEN v ELSE None))
  /\ Answer(r, "ok")
  /\ UNCHANGED <<user, refresh, identities, copy>>

\* Consume's SELECT, and FindUserByID from the snapshot of the transaction.
UseLoad(r) == \E op \in DOMAIN Used, t \in DOMAIN tokens :
  /\ Begin(r, Ask(op, t, tokens[t].provider))
  /\ LoadUser(r)
  /\ IF Valid(t, Used[op])
       THEN Goto(r, "loaded") /\ UNCHANGED outcome
       ELSE Answer(r, "rejected")
  /\ UNCHANGED db

ResetCommit(r) ==
  /\ At(r, "reset", "loaded")
  /\ tokens' = Consumed(arg[r].token)
  /\ SaveUser([copy[r] EXCEPT !.password = r])
  /\ Answer(r, "ok")
  /\ UNCHANGED <<refresh, identities, arg, copy>>

VerifyCommit(r) ==
  /\ At(r, "verify", "loaded")
  /\ tokens' = Consumed(arg[r].token)
  /\ SaveUser([copy[r] EXCEPT !.verified = TRUE])
  /\ Answer(r, "ok")
  /\ UNCHANGED <<refresh, identities, arg, copy>>

ExchangeCommit(r) ==
  /\ At(r, "exchange", "loaded")
  /\ tokens' = Consumed(arg[r].token)
  /\ refresh' = Put(refresh, r, NewRefresh(r))
  /\ Answer(r, "ok")
  /\ UNCHANGED <<user, identities, arg, copy>>

-----------------------------------------------------------------------------
(* OAuth: HandleOAuthCallback and UnlinkIdentity                           *)

\* The state is consumed, outside a transaction, before the provider is asked.
CallbackConsume(r) ==
  /\ At(r, "callback", "loaded")
  /\ tokens' = Consumed(arg[r].token)
  /\ Goto(r, "consumed")
  /\ UNCHANGED <<user, refresh, identities, arg, copy, outcome>>

\* loginOAuthProfile, one transaction.  It looks for the identity, which needs no
\* other account then, and for the email: an account that has it is used only if
\* the provider has verified the email.
CallbackFind(r) == \E verified \in BOOLEAN :
  /\ At(r, "callback", "consumed")
  /\ LET found == [arg EXCEPT ![r].verified = verified]
     IN \/ /\ Exists /\ arg[r].provider \in identities
           /\ arg' = [found EXCEPT ![r].known = TRUE]
           /\ Goto(r, "linked") /\ UNCHANGED outcome
        \/ /\ Exists
           /\ arg' = found
           /\ IF verified THEN Goto(r, "matched") /\ UNCHANGED outcome
                          ELSE Answer(r, "rejected")
        \/ /\ ~ Exists
           /\ arg' = found
           /\ Goto(r, "new") /\ UNCHANGED outcome
  /\ UNCHANGED <<db, copy>>

\* The identity is inserted; the account has one of each provider at most.
CallbackLink(r) ==
  /\ At(r, "callback", "matched")
  /\ IF arg[r].provider \in identities
       THEN Answer(r, "error") /\ UNCHANGED identities
       ELSE /\ identities' = identities \cup {arg[r].provider}
            /\ Goto(r, "linked") /\ UNCHANGED outcome
  /\ UNCHANGED <<user, refresh, tokens, arg, copy>>

\* Mutation: when somebody has made the account meanwhile, it is used.
CallbackCreateOrTake(r) ==
  /\ At(r, "callback", "new")
  /\ user' = IF Exists THEN user ELSE NewUser(r, None, arg[r].verified)
  /\ identities' = identities \cup {arg[r].provider}
  /\ Goto(r, "linked")
  /\ UNCHANGED <<refresh, tokens, arg, copy, outcome>>

\* The account is inserted with its identity, if nobody has the email meanwhile.
CallbackCreate(r) ==
  /\ At(r, "callback", "new")
  /\ IF Exists
       THEN Answer(r, "error") /\ UNCHANGED <<user, identities>>
       ELSE /\ user' = NewUser(r, None, arg[r].verified)
            /\ identities' = identities \cup {arg[r].provider}
            /\ Goto(r, "linked") /\ UNCHANGED outcome
  /\ UNCHANGED <<refresh, tokens, arg, copy>>

\* The login code, outside the transaction.
CallbackCode(r) ==
  /\ At(r, "callback", "linked")
  /\ tokens' = Put(tokens, r, NewToken("code", None))
  /\ Answer(r, "ok")
  /\ UNCHANGED <<user, refresh, identities, arg, copy>>

CountLoginMethods ==
  Cardinality(identities) + (IF user.password = None THEN 0 ELSE 1)

\* The reads of the password and of the identities are one step here.
UnlinkLoad(r) == \E v \in Providers :
  /\ Exists
  /\ Begin(r, Ask("unlink", None, v))
  /\ IF CountLoginMethods <= 1
       THEN Answer(r, "rejected")
       ELSE Goto(r, "loaded") /\ UNCHANGED outcome
  /\ UNCHANGED <<db, copy>>

UnlinkSave(r) ==
  /\ At(r, "unlink", "loaded")
  /\ identities' = identities \ {arg[r].provider}
  /\ Answer(r, IF arg[r].provider \in identities THEN "ok" ELSE "error")
  /\ UNCHANGED <<user, refresh, tokens, arg, copy>>

-----------------------------------------------------------------------------
Register(r) == RegisterLoad(r) \/ RegisterCommit(r)
Login(r)    == LoginLoad(r) \/ LoginCommit(r)
Refresh(r)  == RefreshLoad(r) \/ RefreshCommit(r)
Logout(r)   == LogoutLoad(r) \/ LogoutSave(r)
Edit(r)     == EditLoad(r) \/ ProfileSave(r) \/ ChangeSave(r)
UseToken(r) == UseLoad(r) \/ ResetCommit(r) \/ VerifyCommit(r)
                 \/ ExchangeCommit(r)
Callback(r) == CallbackConsume(r) \/ CallbackFind(r) \/ CallbackLink(r)
                 \/ CallbackCreate(r) \/ CallbackCode(r)
Unlink(r)   == UnlinkLoad(r) \/ UnlinkSave(r)

Next ==
  \/ \E r \in Requests :
       \/ Register(r) \/ Login(r) \/ Refresh(r) \/ Logout(r) \/ Edit(r)
       \/ MakeToken(r) \/ UseToken(r) \/ Callback(r) \/ Unlink(r) \/ Fail(r)
  \/ Expire

Spec == Init /\ [][Next]_vars
-----------------------------------------------------------------------------
(* Properties.                                                             *)

\* Every variable holds values of its type; a successor is a stored token.
TypeOK ==
  /\ user \in UserRow \cup {NoUser}
  /\ DOMAIN refresh \subseteq Names /\ DOMAIN tokens \subseteq Names
  /\ refresh \in [DOMAIN refresh -> RefreshRow]
  /\ \A t \in DOMAIN refresh : refresh[t].next \in DOMAIN refresh \cup {None}
  /\ tokens \in [DOMAIN tokens -> TokenRow]
  /\ identities \subseteq Providers
  /\ pc \in [Requests -> {"idle", "loaded", "consumed", "matched", "new",
                         "linked", "done"}]
  /\ arg \in [Requests -> Command]
  /\ copy \in [Requests -> UserRow \cup {NoUser}]
  /\ outcome \in [Requests -> {"none", "ok", "nothing", "rejected", "error"}]

SessionTokens(s) == {t \in DOMAIN refresh : refresh[t].session = s}
Tails(s) == {t \in SessionTokens(s) : refresh[t].status \in Unrevoked}

\* However refreshes of one token and logouts overlap, a session is a chain:
\* each token has at most one successor and one predecessor, a rotated token
\* has a successor, and at most the end of the chain is not revoked.
RotationIsLinear ==
  /\ \A s \in Names : Cardinality(Tails(s)) <= 1
  /\ \A t \in DOMAIN refresh :
       /\ refresh[t].next # None <=> refresh[t].status = "rotated"
       /\ \A u \in DOMAIN refresh :
            refresh[t].next = refresh[u].next /\ refresh[t].next # None => t = u

\* However registrations and OAuth logins with one email overlap, nobody gets into
\* an account that another request has made by naming its email: a registration
\* that succeeds made the account, and an OAuth login that succeeds made it too,
\* presented an identity already linked to it, or has the provider's word that the
\* email is verified.
NoTakeover == \A r \in Requests : outcome[r] = "ok" =>
  /\ arg[r].op = "register" => user.id = r
  /\ arg[r].op = "callback" => arg[r].known \/ arg[r].verified \/ user.id = r

\* A logout that revoked its token ends the session for good: no refresh that
\* was under way carries the session on.  (A logout that did not find its token
\* answers success, too, and ends nothing: its outcome here is "nothing".)
LogoutEndsSession ==
  \A r \in Requests : arg[r].op = "logout" /\ outcome[r] = "ok" =>
    Tails(refresh[arg[r].token].session) = {}

\* The stale copies that four handlers save never unverify an email and never
\* leave an account that had a password without one.
AccountNeverForgets ==
  [][/\ user.verified => user'.verified
     /\ user.password # None => user'.password # None]_vars
=============================================================================
