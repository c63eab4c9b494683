------------------------------- MODULE Access -------------------------------
(***************************************************************************)
(* The roles of one workspace, the permission checks that every module     *)
(* asks for, and the cache of resolved permissions in Redis, whose keys    *)
(* carry the permission version of the user: perm:user:{ws}:{uid}:v{n}.    *)
(*                                                                         *)
(* A check reads the version, then the cache, then (on a miss) the roles,  *)
(* and then writes the cache, while other requests commit grants.  Roles   *)
(* are never revoked and their permissions never change: no service calls  *)
(* the repository methods that would.                                      *)
(***************************************************************************)
EXTENDS Integers, FiniteSets

CONSTANTS
  Requests,
  Users,
  Owner,    \* the creator of the workspace
  Granted,  \* bound: the roles that requests name
  None


VARIABLES
  members,  \* the rows of workspace_members
  roles,    \* the rows of rbac_user_roles, by user
  version,  \* rbac_permission_versions: 0 without a row
  audit,    \* the rows of rbac_permission_change_logs
  cache,    \* the entries of Redis
  pc,       \* how far each request is
  arg,      \* what each request asks for
  ver,      \* the version each request read
  seen,     \* the actions each request resolved
  exists,   \* the answer each grant got to "has the user this role?"
  outcome,  \* how each request was answered
  since     \* history: the actions of the user when the request began

db   == <<members, roles, version, audit>>
vars == <<db, cache, pc, arg, ver, seen, exists, outcome, since>>

\* The permissions of the default roles, as far as the model asks for them.
Actions == {"member.invite", "role.manage", "channel.create", "conversation.read"}
Permits == [owner  |-> Actions,
            admin  |-> Actions \ {"role.manage"},
            member |-> {"channel.create", "conversation.read"},
            guest  |-> {"conversation.read"}]
Roles   == DOMAIN Permits

ASSUME AccessAssumption == Owner \in Users /\ Granted \subseteq Roles

\* user_roles -> role_permissions -> permissions.code
ActionsOf(held) == {a \in Actions : \E x \in held : a \in Permits[x]}

\* What a request asks for: InviteMember ("member.invite") and AssignRole
\* ("role.manage") give a role to a user, any other action is only checked.
Command == [by : Users, action : Actions, user : Users, role : Granted]
IsGrant(cmd)  == cmd.action \in {"member.invite", "role.manage"}
IsInvite(cmd) == cmd.action = "member.invite"

Entry == [user : Users, version : Nat, actions : SUBSET Actions]

\* CreateWorkspace: its creator is a member and the owner, at version 0.
Init ==
  /\ members = {Owner}
  /\ roles = [u \in Users |-> IF u = Owner THEN {"owner"} ELSE {}]
  /\ version = [u \in Users |-> 0]
  /\ audit = {} /\ cache = {}
  /\ pc = [r \in Requests |-> "idle"]
  /\ arg = [r \in Requests |-> None]
  /\ ver = [r \in Requests |-> 0]
  /\ seen = [r \in Requests |-> {}]
  /\ exists = [r \in Requests |-> FALSE]
  /\ outcome = [r \in Requests |-> "none"]
  /\ since = [r \in Requests |-> {}]

Step(r, from, to) == pc[r] = from /\ pc' = [pc EXCEPT ![r] = to]

\* The handler returns; its locals are gone.
Answer(r, code) ==
  /\ pc' = [pc EXCEPT ![r] = "done"]
  /\ outcome' = [outcome EXCEPT ![r] = code]
  /\ ver' = [ver EXCEPT ![r] = 0]
  /\ seen' = [seen EXCEPT ![r] = {}]
  /\ exists' = [exists EXCEPT ![r] = FALSE]

-----------------------------------------------------------------------------
(* Checker.Check with CachedResolver.ResolveUserActions                    *)

Begin(r) == \E cmd \in Command :
  /\ Step(r, "idle", "begun")
  /\ \/ IsGrant(cmd)
     \/ cmd = [cmd EXCEPT !.user = cmd.by, !.role = CHOOSE x \in Granted : TRUE]
  /\ arg' = [arg EXCEPT ![r] = cmd]
  /\ since' = [since EXCEPT ![r] = ActionsOf(roles[cmd.by])]
  /\ UNCHANGED <<db, cache, ver, seen, exists, outcome>>

GetUserVersion(r) ==
  /\ Step(r, "begun", "versioned")
  /\ ver' = [ver EXCEPT ![r] = version[arg[r].by]]
  /\ UNCHANGED <<db, cache, arg, seen, exists, outcome, since>>

Hit(r) == \E e \in cache :
  /\ Step(r, "versioned", "checked")
  /\ e.user = arg[r].by /\ e.version = ver[r]
  /\ seen' = [seen EXCEPT ![r] = e.actions]
  /\ UNCHANGED <<db, cache, arg, ver, exists, outcome, since>>

\* A miss, or an error of Redis: the database is asked.
Resolve(r) ==
  /\ Step(r, "versioned", "resolved")
  /\ seen' = [seen EXCEPT ![r] = ActionsOf(roles[arg[r].by])]
  /\ UNCHANGED <<db, cache, arg, ver, exists, outcome, since>>

\* Mutation: the entry is stored under the version of the moment.
KeyOfNow(r) == <<arg[r].by, version[arg[r].by]>>

\* The key was made before the roles were read.
Key(r) == <<arg[r].by, ver[r]>>

\* An error of Redis is ignored.
Fill(r) ==
  /\ Step(r, "resolved", "checked")
  /\ \/ cache' = {e \in cache : <<e.user, e.version>> # Key(r)}
                   \cup {[user |-> Key(r)[1], version |-> Key(r)[2],
                          actions |-> seen[r]]}
     \/ UNCHANGED cache
  /\ UNCHANGED <<db, arg, ver, seen, exists, outcome, since>>

\* Check returns nil: the handler of a grant goes on.
Allow(r) ==
  IF IsGrant(arg[r])
    THEN /\ pc' = [pc EXCEPT ![r] = "allowed"]
         /\ UNCHANGED <<ver, seen, exists, outcome>>
    ELSE Answer(r, "ok")

\* Mutation: the refusal is not returned.
DecideLenient(r) ==
  /\ pc[r] = "checked" /\ Allow(r)
  /\ UNCHANGED <<db, cache, arg, since>>

\* The owner role, which is looked up in the database, allows everything.
Decide(r) ==
  /\ pc[r] = "checked"
  /\ IF arg[r].action \in seen[r] \/ "owner" \in roles[arg[r].by]
       THEN Allow(r)
       ELSE Answer(r, "forbidden")
  /\ UNCHANGED <<db, cache, arg, since>>

\* Redis drops an entry: its TTL or an eviction.
Evict == \E e \in cache :
  /\ cache' = cache \ {e}
  /\ UNCHANGED <<db, pc, arg, ver, seen, exists, outcome, since>>

-----------------------------------------------------------------------------
(* InviteMember and AssignRole: one transaction that begins with a read    *)

\* RBACRepository.AssignRole looks for the row in the snapshot.
FindUserRole(r) ==
  /\ Step(r, "allowed", "found")
  /\ exists' = [exists EXCEPT ![r] = arg[r].role \in roles[arg[r].user]]
  /\ UNCHANGED <<db, cache, arg, ver, seen, outcome, since>>

\* Mutation: a grant leaves the version alone.
BumpForgotten(u) == version

\* BumpUserVersion: the UPDATE, or an INSERT of 1, or the UPDATE again after
\* somebody else's INSERT.
Bump(u) == [version EXCEPT ![u] = @ + 1]

\* The operator, the kind of change, its target and the role.
RecordChange(r) == audit \cup {arg[r]}

\* The unique indexes on members and on user roles refuse what another request
\* committed meanwhile.
Duplicate(r) ==
  \/ IsInvite(arg[r]) /\ arg[r].user \in members
  \/ ~ exists[r] /\ arg[r].role \in roles[arg[r].user]

Grant(r) ==
  /\ pc[r] = "found" /\ ~ Duplicate(r)
  /\ members' = IF IsInvite(arg[r]) THEN members \cup {arg[r].user}
                ELSE members
  /\ roles' = [roles EXCEPT ![arg[r].user] = @ \cup {arg[r].role}]
  /\ version' = Bump(arg[r].user)
  /\ audit' = RecordChange(r)
  /\ Answer(r, "ok")
  /\ UNCHANGED <<cache, arg, since>>

GrantFails(r) ==
  /\ pc[r] = "found" /\ Duplicate(r)
  /\ Answer(r, IF IsInvite(arg[r]) /\ arg[r].user \in members
               THEN "conflict" ELSE "error")
  /\ UNCHANGED <<db, cache, arg, since>>

\* An error, a cancelled context, an unknown role: nothing is written.
Fail(r) ==
  /\ pc[r] \notin {"idle", "done"}
  /\ Answer(r, "error")
  /\ UNCHANGED <<db, cache, arg, since>>

-----------------------------------------------------------------------------
Check(r) == \/ Begin(r) \/ GetUserVersion(r) \/ Hit(r) \/ Resolve(r) \/ Fill(r)
            \/ Decide(r)
ChangeRoles(r) == FindUserRole(r) \/ Grant(r) \/ GrantFails(r)

Next ==
  \/ \E r \in Requests : Check(r) \/ ChangeRoles(r) \/ Fail(r)
  \/ Evict

Spec == Init /\ [][Next]_vars
-----------------------------------------------------------------------------
(* Properties.                                                             *)

Stages == {"idle", "begun", "versioned", "resolved", "checked", "allowed",
           "found", "done"}

\* Every variable holds values of its type.
TypeOK ==
  /\ members \subseteq Users
  /\ roles \in [Users -> SUBSET Roles]
  /\ version \in [Users -> Nat]
  /\ audit \subseteq Command
  /\ cache \subseteq Entry
  /\ pc \in [Requests -> Stages]
  /\ arg \in [Requests -> Command \cup {None}]
  /\ \A r \in Requests : /\ pc[r] # "idle" => arg[r] \in Command
                         /\ outcome[r] # "none" <=> pc[r] = "done"
  /\ ver \in [Requests -> Nat]
  /\ seen \in [Requests -> SUBSET Actions]
  /\ exists \in [Requests -> BOOLEAN]
  /\ outcome \in [Requests -> {"none", "ok", "forbidden", "conflict", "error"}]
  /\ since \in [Requests -> SUBSET Actions]

Held(r) == ActionsOf(roles[arg[r].by])

\* The entry under the current version of a user is what the user may do now:
\* a resolution that overlaps a grant never leaves old permissions behind under
\* the new version.
CacheIsCurrent ==
  \A e \in cache :
    e.version = version[e.user] => e.actions = ActionsOf(roles[e.user])

\* A request is not refused an action that its user had when it began, however
\* old the cache entry or the resolution that answered it, and what it was
\* allowed its user may do.
CheckIsCurrent ==
  \A r \in Requests :
    /\ outcome[r] = "forbidden" => arg[r].action \notin since[r]
    /\ pc[r] \in {"allowed", "found"} \/ outcome[r] = "ok" =>
         arg[r].action \in Held(r)

\* A role is given only together with a log entry that names it, its target
\* and an operator whose roles allowed that change before it was made.
GrantsAreAuthorized ==
  [][\A u \in Users : \A x \in roles'[u] \ roles[u] :
       \E c \in audit' : /\ c.user = u /\ c.role = x
                         /\ c.action \in ActionsOf(roles[c.by])]_vars

\* The strengthening of CacheIsCurrent and CheckIsCurrent that every step
\* preserves.  A version read earlier may be old; what is stored, or will be
\* stored, under it is still no less than its readers had when they began.
CacheIsBounded ==
  \A e \in cache : /\ e.version <= version[e.user]
                   /\ e.actions \subseteq ActionsOf(roles[e.user])

RequestIsBounded(r) ==
  /\ since[r] \subseteq Held(r)
  /\ pc[r] \in {"versioned", "resolved"} => ver[r] <= version[arg[r].by]
  /\ pc[r] \in {"resolved", "checked"} => /\ since[r] \subseteq seen[r]
                                         /\ seen[r] \subseteq Held(r)
  /\ pc[r] = "resolved" /\ ver[r] = version[arg[r].by] => seen[r] = Held(r)

HitIsEnough ==
  \A r \in Requests, e \in cache :
    pc[r] = "versioned" /\ <<e.user, e.version>> = Key(r) =>
      since[r] \subseteq e.actions

FillIsEnough ==
  \A r, q \in Requests :
    pc[r] = "versioned" /\ pc[q] = "resolved" /\ Key(q) = Key(r) =>
      since[r] \subseteq seen[q]

AccessInv ==
  /\ TypeOK
  /\ CacheIsCurrent
  /\ CheckIsCurrent
  /\ CacheIsBounded
  /\ \A r \in Requests : pc[r] # "idle" => RequestIsBounded(r)
  /\ HitIsEnough
  /\ FillIsEnough
=============================================================================
