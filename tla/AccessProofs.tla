---------------------------- MODULE AccessProofs ----------------------------
(***************************************************************************)
(* Proofs about Access, for any number of requests and users, whichever    *)
(* roles they name.                                                        *)
(***************************************************************************)
EXTENDS Access, TLAPS

\* More roles allow more.
LEMMA ActionsGrow ==
  ASSUME NEW S \in SUBSET Roles, NEW T \in SUBSET Roles, S \subseteq T
  PROVE  ActionsOf(S) \subseteq ActionsOf(T)
  BY DEF ActionsOf

\* What roles allow is a set of actions.
LEMMA ActionsType ==
  ASSUME NEW S PROVE ActionsOf(S) \in SUBSET Actions
  BY DEF ActionsOf

\* The owner role allows everything.
LEMMA OwnerAllowsAll ==
  ASSUME NEW S \in SUBSET Roles, "owner" \in S
  PROVE  ActionsOf(S) = Actions
  BY DEF ActionsOf, Permits, Roles, Actions

\* The initial states satisfy the invariant.
LEMMA AccessInit == Init => AccessInv
<1> SUFFICES ASSUME Init PROVE AccessInv
  OBVIOUS
<1>1. TypeOK
  BY AccessAssumption DEF Init, TypeOK, Stages, Roles, Permits, Entry, Command
<1> QED
  BY <1>1 DEF Init, AccessInv, CacheIsCurrent, CheckIsCurrent, CacheIsBounded,
              HitIsEnough, FillIsEnough

\* While the roles, the versions and the cache stay, so does what the cache
\* promises.
LEMMA StoreKeeps ==
  ASSUME AccessInv, UNCHANGED <<roles, version, cache>>
  PROVE  CacheIsCurrent' /\ CacheIsBounded'
  BY DEF AccessInv, CacheIsCurrent, CacheIsBounded

\* A request that returns keeps the types.
LEMMA AnswerType ==
  ASSUME TypeOK, NEW r \in Requests, pc[r] \notin {"idle", "done"},
         NEW code \in {"ok", "forbidden", "conflict", "error"}, Answer(r, code),
         UNCHANGED <<db, cache, arg, since>>
  PROVE  TypeOK'
  BY DEF TypeOK, Answer, Stages, db

\* The permissions of the moment are those a request begins with.
LEMMA BeginKeeps ==
  ASSUME AccessInv, NEW r \in Requests, Begin(r)
  PROVE  AccessInv'
<1>1. TypeOK'
  BY ActionsType DEF Begin, Step, AccessInv, TypeOK, db, Stages, Command
<1>2. CheckIsCurrent'
  BY DEF Begin, Step, AccessInv, TypeOK, db, CheckIsCurrent, Held
<1>3. ASSUME NEW q \in Requests, pc'[q] # "idle"
      PROVE  RequestIsBounded(q)'
  BY <1>3 DEF Begin, Step, AccessInv, TypeOK, db, RequestIsBounded, Held
<1>4. HitIsEnough' /\ FillIsEnough'
  BY DEF Begin, Step, AccessInv, TypeOK, db, HitIsEnough, FillIsEnough, Key
<1>5. CacheIsCurrent' /\ CacheIsBounded'
  BY StoreKeeps DEF Begin, db
<1> QED
  BY <1>1, <1>2, <1>3, <1>4, <1>5 DEF AccessInv

\* The version read is current, and so is whatever is or will be stored under
\* it.
LEMMA GetUserVersionKeeps ==
  ASSUME AccessInv, NEW r \in Requests, GetUserVersion(r)
  PROVE  AccessInv'
<1>1. TypeOK'
  BY DEF GetUserVersion, Step, AccessInv, TypeOK, db, Stages, Command
<1>2. CheckIsCurrent'
  BY DEF GetUserVersion, Step, AccessInv, TypeOK, db, CheckIsCurrent, Held
<1>3. ASSUME NEW q \in Requests, pc'[q] # "idle"
      PROVE  RequestIsBounded(q)'
  BY <1>3 DEF GetUserVersion, Step, AccessInv, TypeOK, db, Command,
              RequestIsBounded, Held
<1>4. HitIsEnough' /\ FillIsEnough'
  <2>1. /\ ver'[r] = version[arg[r].by] /\ arg[r].by \in Users
        /\ since[r] \subseteq Held(r)
    BY DEF GetUserVersion, Step, AccessInv, TypeOK, Command, RequestIsBounded
  <2>2. \A e \in cache : e.user = arg[r].by /\ e.version = version[e.user] =>
                         e.actions = Held(r)
    BY DEF AccessInv, CacheIsCurrent, Held
  <2>3. HitIsEnough'
    BY <2>1, <2>2 DEF GetUserVersion, Step, AccessInv, TypeOK, HitIsEnough, Key
  <2>4. \A q \in Requests :
          pc[q] = "resolved" /\ arg[q].by = arg[r].by
              /\ ver[q] = version[arg[r].by] =>
            seen[q] = Held(r)
    BY DEF AccessInv, RequestIsBounded, Held
  <2>5. FillIsEnough'
    BY <2>1, <2>4 DEF GetUserVersion, Step, AccessInv, TypeOK, FillIsEnough, Key
  <2> QED
    BY <2>3, <2>5
<1>5. CacheIsCurrent' /\ CacheIsBounded'
  BY StoreKeeps DEF GetUserVersion, db
<1> QED
  BY <1>1, <1>2, <1>3, <1>4, <1>5 DEF AccessInv

\* What the cache answers is bounded on both sides.
LEMMA HitKeeps ==
  ASSUME AccessInv, NEW r \in Requests, Hit(r)
  PROVE  AccessInv'
<1>1. TypeOK'
  BY DEF Hit, Step, AccessInv, TypeOK, db, Stages, Command, Entry
<1>2. CheckIsCurrent'
  BY DEF Hit, Step, AccessInv, TypeOK, db, CheckIsCurrent, Held
<1>3. ASSUME NEW q \in Requests, pc'[q] # "idle"
      PROVE  RequestIsBounded(q)'
  BY <1>3 DEF Hit, Step, AccessInv, TypeOK, db, RequestIsBounded, Held,
              CacheIsBounded, HitIsEnough, Key
<1>4. HitIsEnough' /\ FillIsEnough'
  BY DEF Hit, Step, AccessInv, TypeOK, db, HitIsEnough, FillIsEnough, Key
<1>5. CacheIsCurrent' /\ CacheIsBounded'
  BY StoreKeeps DEF Hit, db
<1> QED
  BY <1>1, <1>2, <1>3, <1>4, <1>5 DEF AccessInv

\* What the database answers is current.
LEMMA ResolveKeeps ==
  ASSUME AccessInv, NEW r \in Requests, Resolve(r)
  PROVE  AccessInv'
<1>1. TypeOK'
  BY ActionsType DEF Resolve, Step, AccessInv, TypeOK, db, Stages
<1>2. CheckIsCurrent'
  BY DEF Resolve, Step, AccessInv, TypeOK, db, CheckIsCurrent, Held
<1>3. ASSUME NEW q \in Requests, pc'[q] # "idle"
      PROVE  RequestIsBounded(q)'
  BY <1>3 DEF Resolve, Step, AccessInv, TypeOK, db, RequestIsBounded, Held
<1>4. HitIsEnough' /\ FillIsEnough'
  BY DEF Resolve, Step, AccessInv, TypeOK, db, HitIsEnough, FillIsEnough, Key,
         RequestIsBounded, Held, Command
<1>5. CacheIsCurrent' /\ CacheIsBounded'
  BY StoreKeeps DEF Resolve, db
<1> QED
  BY <1>1, <1>2, <1>3, <1>4, <1>5 DEF AccessInv

\* What is stored under a version that is still current was read under it.
LEMMA FillKeeps ==
  ASSUME AccessInv, NEW r \in Requests, Fill(r)
  PROVE  AccessInv'
<1>1. TypeOK'
  BY DEF Fill, Step, AccessInv, TypeOK, db, Stages, Entry, Command, Key
<1>2. CacheIsCurrent' /\ CacheIsBounded'
  BY DEF Fill, Step, AccessInv, TypeOK, db, CacheIsCurrent, CacheIsBounded,
         RequestIsBounded, Held, Key
<1>3. CheckIsCurrent'
  BY DEF Fill, Step, AccessInv, TypeOK, db, CheckIsCurrent, Held
<1>4. ASSUME NEW q \in Requests, pc'[q] # "idle"
      PROVE  RequestIsBounded(q)'
  BY <1>4 DEF Fill, Step, AccessInv, TypeOK, db, RequestIsBounded, Held
<1>5. HitIsEnough' /\ FillIsEnough'
  BY DEF Fill, Step, AccessInv, TypeOK, db, HitIsEnough, FillIsEnough, Key
<1> QED
  BY <1>1, <1>2, <1>3, <1>4, <1>5 DEF AccessInv

\* A missing entry promises nothing.
LEMMA EvictKeeps ==
  ASSUME AccessInv, Evict
  PROVE  AccessInv'
<1>1. TypeOK'
  BY DEF Evict, AccessInv, TypeOK, db
<1>2. CacheIsCurrent' /\ CacheIsBounded'
  BY DEF Evict, AccessInv, db, CacheIsCurrent, CacheIsBounded
<1>3. CheckIsCurrent'
  BY DEF Evict, AccessInv, db, CheckIsCurrent, Held
<1>4. ASSUME NEW q \in Requests, pc'[q] # "idle"
      PROVE  RequestIsBounded(q)'
  BY <1>4 DEF Evict, AccessInv, db, RequestIsBounded, Held
<1>5. HitIsEnough' /\ FillIsEnough'
  BY DEF Evict, AccessInv, db, HitIsEnough, FillIsEnough, Key
<1> QED
  BY <1>1, <1>2, <1>3, <1>4, <1>5 DEF AccessInv

\* The transaction reads only.
LEMMA FindUserRoleKeeps ==
  ASSUME AccessInv, NEW r \in Requests, FindUserRole(r)
  PROVE  AccessInv'
<1>1. TypeOK'
  BY DEF FindUserRole, Step, AccessInv, TypeOK, db, Stages
<1>2. CacheIsCurrent' /\ CacheIsBounded'
  BY StoreKeeps DEF FindUserRole, db
<1>3. CheckIsCurrent'
  BY DEF FindUserRole, Step, AccessInv, TypeOK, db, CheckIsCurrent, Held
<1>4. ASSUME NEW q \in Requests, pc'[q] # "idle"
      PROVE  RequestIsBounded(q)'
  BY <1>4 DEF FindUserRole, Step, AccessInv, TypeOK, db, RequestIsBounded, Held
<1>5. HitIsEnough' /\ FillIsEnough'
  BY DEF FindUserRole, Step, AccessInv, TypeOK, db, HitIsEnough, FillIsEnough, Key
<1> QED
  BY <1>1, <1>2, <1>3, <1>4, <1>5 DEF AccessInv

\* A grant that meets a unique index writes nothing.
LEMMA GrantFailsKeeps ==
  ASSUME AccessInv, NEW r \in Requests, GrantFails(r)
  PROVE  AccessInv'
<1>1. TypeOK'
  BY AnswerType DEF GrantFails, AccessInv
<1>2. CacheIsCurrent' /\ CacheIsBounded'
  BY StoreKeeps DEF GrantFails, db
<1>3. CheckIsCurrent'
  BY DEF GrantFails, Answer, AccessInv, TypeOK, db, CheckIsCurrent, Held
<1>4. ASSUME NEW q \in Requests, pc'[q] # "idle"
      PROVE  RequestIsBounded(q)'
  BY <1>4 DEF GrantFails, Answer, AccessInv, TypeOK, db, RequestIsBounded, Held
<1>5. HitIsEnough' /\ FillIsEnough'
  BY DEF GrantFails, Answer, AccessInv, TypeOK, db, HitIsEnough, FillIsEnough, Key
<1> QED
  BY <1>1, <1>2, <1>3, <1>4, <1>5 DEF AccessInv

\* A request that fails writes nothing.
LEMMA FailKeeps ==
  ASSUME AccessInv, NEW r \in Requests, Fail(r)
  PROVE  AccessInv'
<1>1. TypeOK'
  BY AnswerType DEF Fail, AccessInv
<1>2. CacheIsCurrent' /\ CacheIsBounded'
  BY StoreKeeps DEF Fail, db
<1>3. CheckIsCurrent'
  BY DEF Fail, Answer, AccessInv, TypeOK, db, CheckIsCurrent, Held
<1>4. ASSUME NEW q \in Requests, pc'[q] # "idle"
      PROVE  RequestIsBounded(q)'
  BY <1>4 DEF Fail, Answer, AccessInv, TypeOK, db, RequestIsBounded, Held
<1>5. HitIsEnough' /\ FillIsEnough'
  BY DEF Fail, Answer, AccessInv, TypeOK, db, HitIsEnough, FillIsEnough, Key
<1> QED
  BY <1>1, <1>2, <1>3, <1>4, <1>5 DEF AccessInv

\* What was seen allows no more than the roles do now and no less than they did
\* at the beginning, and the owner role allows everything.
LEMMA DecideKeeps ==
  ASSUME AccessInv, NEW r \in Requests, Decide(r)
  PROVE  AccessInv'
<1>1. TypeOK'
  BY AnswerType DEF Decide, Allow, AccessInv, TypeOK, db, Stages
<1>2. CacheIsCurrent' /\ CacheIsBounded'
  BY StoreKeeps DEF Decide, db
<1>3. CheckIsCurrent'
  <2>1. roles[arg[r].by] \subseteq Roles /\ arg[r].action \in Actions
    BY DEF Decide, AccessInv, TypeOK, Command
  <2>2. since[r] \subseteq seen[r] /\ seen[r] \subseteq Held(r)
    BY DEF Decide, AccessInv, RequestIsBounded
  <2>3. CASE arg[r].action \in seen[r] \/ "owner" \in roles[arg[r].by]
    <3>1. arg[r].action \in Held(r)
      BY <2>1, <2>2, <2>3, OwnerAllowsAll DEF Held
    <3> QED
      BY <2>3, <3>1 DEF Decide, Allow, Answer, AccessInv, TypeOK, db,
                        CheckIsCurrent, Held
  <2>4. CASE ~ (arg[r].action \in seen[r] \/ "owner" \in roles[arg[r].by])
    BY <2>2, <2>4 DEF Decide, Answer, AccessInv, TypeOK, db, CheckIsCurrent, Held
  <2> QED
    BY <2>3, <2>4
<1>4. ASSUME NEW q \in Requests, pc'[q] # "idle"
      PROVE  RequestIsBounded(q)'
  BY <1>4 DEF Decide, Allow, Answer, AccessInv, TypeOK, db, RequestIsBounded, Held
<1>5. HitIsEnough' /\ FillIsEnough'
  BY DEF Decide, Allow, Answer, AccessInv, TypeOK, db, HitIsEnough,
         FillIsEnough, Key
<1> QED
  BY <1>1, <1>2, <1>3, <1>4, <1>5 DEF AccessInv

\* A grant adds permissions and moves to a new version, under which nothing is
\* stored and nobody reads: every promise about the old versions stays.
LEMMA GrantKeeps ==
  ASSUME AccessInv, NEW r \in Requests, Grant(r)
  PROVE  AccessInv'
<1>1. /\ arg[r] \in Command
      /\ roles' = [roles EXCEPT ![arg[r].user] = @ \cup {arg[r].role}]
      /\ version' = [version EXCEPT ![arg[r].user] = @ + 1]
      /\ roles \in [Users -> SUBSET Roles] /\ roles' \in [Users -> SUBSET Roles]
  BY AccessAssumption DEF Grant, Bump, AccessInv, TypeOK, Command
<1>2. \A u \in Users : ActionsOf(roles[u]) \subseteq ActionsOf(roles'[u])
  BY <1>1, ActionsGrow DEF Command
<1>3. \A u \in Users : /\ version[u] \in Nat /\ version'[u] \in Nat
                       /\ version[u] <= version'[u]
  BY <1>1 DEF AccessInv, TypeOK, Command
<1>4. \A u \in Users : version'[u] = version[u] => roles'[u] = roles[u]
  BY <1>1 DEF AccessInv, TypeOK, Command
<1>5. TypeOK'
  BY <1>1 DEF Grant, RecordChange, Answer, AccessInv, TypeOK, Stages, Command
<1>6. CacheIsCurrent' /\ CacheIsBounded'
  <2>1. cache' = cache /\ version \in [Users -> Nat]
    BY DEF Grant, AccessInv, TypeOK
  <2>2. SUFFICES ASSUME NEW e \in cache
        PROVE  /\ e.version = version'[e.user] =>
                    e.actions = ActionsOf(roles'[e.user])
               /\ e.version <= version'[e.user]
               /\ e.actions \subseteq ActionsOf(roles'[e.user])
    BY <2>1 DEF CacheIsCurrent, CacheIsBounded
  <2>3. e.user \in Users /\ e.version \in Nat
    BY DEF AccessInv, TypeOK, Entry
  <2>4. /\ e.version <= version[e.user]
        /\ e.actions \subseteq ActionsOf(roles[e.user])
    BY DEF AccessInv, CacheIsBounded
  <2>5. e.version = version[e.user] => e.actions = ActionsOf(roles[e.user])
    BY DEF AccessInv, CacheIsCurrent
  <2>6. /\ e.version <= version'[e.user]
        /\ e.actions \subseteq ActionsOf(roles'[e.user])
    BY <1>2, <1>3, <2>3, <2>4
  <2>7. e.version = version'[e.user] => e.actions = ActionsOf(roles'[e.user])
    BY <1>3, <1>4, <2>3, <2>4, <2>5
  <2> QED
    BY <2>6, <2>7
<1>7. CheckIsCurrent'
  <2>1. \A q \in Requests : pc[q] # "idle" => Held(q) \subseteq Held(q)'
    BY <1>2 DEF Held, Grant, AccessInv, TypeOK, Command
  <2> QED
    BY <2>1 DEF Grant, Answer, AccessInv, TypeOK, CheckIsCurrent
<1>8. ASSUME NEW q \in Requests, pc'[q] # "idle"
      PROVE  RequestIsBounded(q)'
  <2>1. arg[q].by \in Users /\ RequestIsBounded(q) /\ ver[q] \in Nat
    BY <1>8 DEF Grant, Answer, AccessInv, TypeOK, Command
  <2>2. Held(q) \subseteq Held(q)' /\ version[arg[q].by] <= version'[arg[q].by]
    BY <1>2, <1>3, <2>1 DEF Held, Grant
  <2>3. version'[arg[q].by] = version[arg[q].by] => Held(q)' = Held(q)
    BY <1>4, <2>1 DEF Held, Grant
  <2>4. ver[q] <= version[arg[q].by] /\ ver[q] = version'[arg[q].by] =>
          version'[arg[q].by] = version[arg[q].by]
    BY <1>3, <2>1
  <2>5. ver[q] <= version[arg[q].by] => ver[q] <= version'[arg[q].by]
    BY <1>3, <2>1
  <2>6. CASE q = r
    BY <2>1, <2>2, <2>6 DEF Grant, Answer, AccessInv, TypeOK, RequestIsBounded
  <2>7. CASE q # r
    <3>1. UNCHANGED <<pc[q], arg[q], ver[q], seen[q], since[q]>>
      BY <2>7 DEF Grant, Answer, AccessInv, TypeOK
    <3> QED
      BY <2>1, <2>2, <2>3, <2>4, <2>5, <3>1 DEF RequestIsBounded
  <2> QED
    BY <2>6, <2>7
<1>9. HitIsEnough' /\ FillIsEnough'
  BY DEF Grant, Answer, AccessInv, TypeOK, HitIsEnough, FillIsEnough, Key
<1> QED
  BY <1>5, <1>6, <1>7, <1>8, <1>9 DEF AccessInv

\* Every step keeps the invariant.
LEMMA AccessNext == AccessInv /\ [Next]_vars => AccessInv'
<1> SUFFICES ASSUME AccessInv, [Next]_vars PROVE AccessInv'
  OBVIOUS
<1>1. CASE UNCHANGED vars
  BY <1>1 DEF vars, db, AccessInv, TypeOK, CacheIsCurrent, CheckIsCurrent,
              CacheIsBounded, RequestIsBounded, Held, HitIsEnough,
              FillIsEnough, Key
<1>2. ASSUME NEW r \in Requests, Check(r) PROVE AccessInv'
  BY <1>2, BeginKeeps, GetUserVersionKeeps, HitKeeps, ResolveKeeps, FillKeeps,
     DecideKeeps DEF Check
<1>3. ASSUME NEW r \in Requests, ChangeRoles(r) PROVE AccessInv'
  BY <1>3, FindUserRoleKeeps, GrantKeeps, GrantFailsKeeps DEF ChangeRoles
<1>4. ASSUME NEW r \in Requests, Fail(r) PROVE AccessInv'
  BY <1>4, FailKeeps
<1>5. CASE Evict
  BY <1>5, EvictKeeps
<1> QED
  BY <1>1, <1>2, <1>3, <1>4, <1>5 DEF Next

-----------------------------------------------------------------------------
\* The permission cache (CachedResolver) and the requests that use it never
\* leave the inductive invariant, for any number of requests and users.
THEOREM AccessInvariant == Spec => []AccessInv
<1>1. AccessInv /\ [Next]_vars => AccessInv'
  BY AccessNext
<1> QED
  BY AccessInit, <1>1, PTL DEF Spec

\* A request is refused no action its user had when it began, and what it was
\* allowed its user may do (Checker.Check with the cache).
THEOREM ChecksAreCurrent == Spec => []CheckIsCurrent
<1>1. AccessInv => CheckIsCurrent
  BY DEF AccessInv
<1> QED
  BY AccessInvariant, <1>1, PTL

\* The cached permissions under the current version of a user are current: a
\* grant between the two reads of CachedResolver leaves none behind.
THEOREM CacheStaysCurrent == Spec => []CacheIsCurrent
<1>1. AccessInv => CacheIsCurrent
  BY DEF AccessInv
<1> QED
  BY AccessInvariant, <1>1, PTL

\* InviteMember and AssignRole give a role only on behalf of an operator whose
\* roles allow it, and leave a log entry that says so.
THEOREM GrantsStayAuthorized == Spec => GrantsAreAuthorized
<1> DEFINE A == \A u \in Users : \A x \in roles'[u] \ roles[u] :
                  \E c \in audit' : /\ c.user = u /\ c.role = x
                                    /\ c.action \in ActionsOf(roles[c.by])
<1>1. AccessInv /\ [Next]_vars => [A]_vars
  <2> SUFFICES ASSUME AccessInv, Next PROVE A
    OBVIOUS
  <2>1. ASSUME NEW r \in Requests, Grant(r) PROVE A
    <3>1. arg[r].action \in ActionsOf(roles[arg[r].by])
      BY <2>1 DEF Grant, AccessInv, CheckIsCurrent, Held
    <3>2. arg[r] \in audit'
      BY <2>1 DEF Grant, RecordChange
    <3>3. \A u \in Users : \A x \in roles'[u] \ roles[u] :
            u = arg[r].user /\ x = arg[r].role
      BY <2>1 DEF Grant, AccessInv, TypeOK
    <3> QED
      BY <3>1, <3>2, <3>3
  <2>2. CASE ~ \E r \in Requests : Grant(r)
    <3>1. UNCHANGED roles
      BY <2>2 DEF Next, Check, ChangeRoles, Begin, GetUserVersion, Hit,
                  Resolve, Fill, Decide, FindUserRole, GrantFails, Fail, Evict, db
    <3> QED
      BY <3>1
  <2> QED
    BY <2>1, <2>2
<1> QED
  BY AccessInvariant, <1>1, PTL DEF Spec, GrantsAreAuthorized
=============================================================================
