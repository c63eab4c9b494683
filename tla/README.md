# TLA+ models of gotobeta

gotobeta is the backend of an instant-messaging system: a Go modular monolith
(HTTP, WebSocket, MySQL, optionally Redis).  This directory holds TLA+ modules of the
parts where concurrency, failures and ordering decide whether the system is correct,
the TLC configurations that check them on small instances, and proofs for TLAPS.

    tlc -config MCTimelineGroup.cfg MCTimeline.tla     # one check
    tlapm TimelineProofs.tla                           # the proofs of one part

The proofs are in `TimelineProofs`, `DirectProofs`, `GatewayProofs`, `DeliveryProofs`,
`AccessProofs`, `AccountProofs`, `AdmissionProofs` and `FleetProofs`.

`PROJECT.json` lists every check, the source lines each definition stands for, the
mutations each property is known to detect, the hazards and the theorems.


## 1. Inventory

| Part (src/internal/...) | State | Operations | Talks to |
|---|---|---|---|
| messaging: timeline (`modules/messaging`) | rows of `conversations` (last_seq, last_msg_id, member_count), `conversation_members` (role, status, read_seq), `messages` | CreateConversation, AddMember, RemoveMember, SendMessage, RecallMessage, ReportRead, PullMessages, ListConversations | MySQL; permission checker; event bus |
| event bus (`infra/eventbus`) | subscribers | Publish: synchronous calls of the handlers in the goroutine of the request | dispatcher |
| realtime: gateway (`modules/realtime/adapter/ws`, `infra/hub`) | registry, counter, limit flags; per connection: send buffer, `closed` channel, write pump | Register, Unregister, Push/Broadcast, Close, readPump, writePump, GracefulShutdown | dispatcher, presence, server shutdown |
| realtime: dispatcher and ephemeral frames | none | OnMessageCreated, OnReadUpdated, Typing, Read | member lookup (MySQL), hub |
| realtime: presence | key with a TTL per user in Redis, or a map of the process | OnConnect, OnDisconnect, Refresh (a goroutine per connection) | store, hub |
| realtime: tickets | one key per ticket in Redis, or a map under a mutex | Issue, Consume | WebSocket handler |
| user (`modules/user`) | rows of users, refresh tokens, one-time tokens, OAuth states, identities; access-token blacklist in Redis | Register, Login, Refresh, Logout, UpdateProfile, ChangePassword, Forgot/ResetPassword, Send/VerifyEmail, OAuth start/callback/exchange, UnlinkIdentity | MySQL, Redis, mail, OAuth providers |
| workspace (`modules/workspace`) | workspaces, memberships, roles, user roles, permission versions, change log, ACL entries; cached permission sets in Redis | CreateWorkspace, InviteMember, AssignRole, Check | MySQL, Redis; every other module asks Check |
| media (`modules/media`) | attachment rows (pending, committed), objects in S3 | Presign, Commit, Get | MySQL, object store |
| infra (`infra/localid`, `pkg/httpx/middleware`, `app/server`) | clock and sequence of the id generator, token buckets, migration lock | NextID, rate limit, migrate, Run/Shutdown | everything |
| todo, system, HTTP adapters, generated `ent` code | none worth a model | CRUD, binding, formatting | |

What is hard, and what makes each part correct:

* **Timeline.**  Handlers read rows *outside* their transaction, decide on the copy,
  and then write every column of the copy back (`Save`, `SaveMember`).  Only
  `seqAllocator.Next` takes a row lock, and it does so late.  So any two requests can
  overlap on stale copies, a client repeats a send whose answer it lost, and anything
  may fail inside the transaction.  Correct means: the timeline is dense,
  append-only, free of duplicates, each recall is traced and authorized, and a
  signal never precedes its message.
* **Gateway.**  Many goroutines call `Send` and `Close` on one connection without a
  lock, under the read side of the registry's RWMutex; buffers overflow; connections
  come and go during a shutdown.  Correct means: the counter matches the registry,
  nothing leaks, a client that missed a frame is disconnected, the shutdown drains.
* **Presence.**  `OnDisconnect` asks the registry and writes the store later; the
  refresher writes after the handler is done, or too late, or in vain; processes die;
  Redis fails.  Correct means that a key does not run out under a user whose refreshes
  succeed in time, and that the store ends up telling the truth.
* **Delivery.**  Signals are lost, late and reordered; pulls time out, repeat, and are
  answered late.  Correct means: what a device holds is a growing prefix of the
  timeline, and it catches up.
* **Account.**  Requests on one account overlap between a SELECT and an UPDATE.
  Correct means: a session is a chain of tokens with one live end, a logout that
  revokes a token of it ends it, and stale rows do not erase a password or a
  verification.
* **Workspace.**  A permission set is cached under a version that is read before the
  roles.  Correct means that a check that starts after a grant sees it.
* **Admission.**  Tickets are one-time although handshakes, processes and restarts
  compete for them; a logout reaches requests only through a blacklist that may not
  be readable; buckets are refilled lazily, forgotten and made full again.  Correct
  means: one connection per ticket and only while it is fresh, no request that began
  after a logout passes as clean, and no key exceeds its rate.
* **Release.**  Migration jobs wait, are killed, lose the connection of their lock and
  are retried; processes then draw ids whose clocks are set back and that restart, and
  presign and commit attachments under them.  Correct means: jobs exclude each
  other, the roll-out finds the schema it needs, an id is handed out once, and an
  attachment stays its uploader's.


## 2. Modules

| Module | Models | Composes |
|---|---|---|
| `Log` | abstract: an append-only log with quotes and recalls | |
| `Timeline` | one conversation: send, recall, read, add, remove | implements `Log` |
| `Direct` | the creation of a direct conversation | extends `Timeline`, whose requests use what it creates |
| `Gateway` | registry, connections, pumps, broadcasts, shutdown of one process | |
| `Presence` | presence store, refreshers, time, failing writes, restarts | |
| `Feed` | abstract: devices hold growing prefixes of a growing timeline | |
| `Sync` | signals and pulls between the server and devices | implements `Feed`; takes over what `Timeline` guarantees (dense, append-only, signal after commit) and what `Gateway` guarantees (a lost frame disconnects) |
| `Account` | the account of one email: registration, sessions, one-time tokens, OAuth identities | |
| `Access` | the roles of one workspace, permission checks and their cache | |
| `Limiter` | the token buckets of the HTTP middleware | |
| `Admission` | access tokens, their blacklist, WebSocket tickets, handshakes | extends `Limiter`, which stands in front of the handshakes |
| `Ids` | the id generators of several processes | |
| `Media` | presign and commit of attachments | extends `Ids` |
| `Migration` | the migration jobs and their lock | |
| `Fleet` | a release: the jobs, the roll-out, then the processes | extends `Migration` and `Media` |
| `...Proofs` | theorems about the module(s) of that name; `TimelineProofs` about `Timeline` and `Log`, `DeliveryProofs` about `Sync`, `Feed` and `Presence`, `FleetProofs` about the four modules of a release | |
| `MC*` | instances for TLC: symmetry sets, constraints and, in the `.cfg`, constants | |

### Timeline and Log

One conversation and its concurrent HTTP requests.  A step is what the code does
between two points where another request can interfere:

| Action | Code |
|---|---|
| `SendLoad`, `SendMember`, `SendReply`, `SendIdempotent` | the four reads of `SendMessage` before its transaction |
| `AllocateSeq` | `seqAllocator.Next`: UPDATE last_seq + 1, which takes the row lock, and SELECT |
| `SendCommit` | Create, Save of the loaded conversation, COMMIT; a unique index may refuse the INSERT |
| `Publish` | event bus, after the commit |
| `RecallLoad`, `RecallMember`, `RecallConv`, `RecallCommit` | `RecallMessage` |
| `ReadLoad`, `ReadSave`, `PublishRead` | `ReportRead`: `MarkRead` on a copy, then `SaveMember` of the copy |
| `ManageLoad`, `ManageAuthorize`, `AddTarget`, `AddCommit`, `RemoveTarget`, `RemoveCommit` | `AddMember`, `RemoveMember` |
| `Fail` | a database error, a cancelled context or a panic at any point; the transaction rolls back |

`loaded[r]` and `member[r]` are the copies a request holds; `CommitMessage`,
`AddCommit`, `RemoveCommit` and `ReadSave` write them back column by column, as
`conversation_repository.go` does.  The unique indexes are guards of the INSERTs:
(conv_id, seq), (conv_id, client_msg_id), (conv_id, member).  `Moderators` are the
users whose workspace role grants `message.recall`; the answer of the permission
checker for other actions is a refusal that may always happen.  The recall window
(time) is also a refusal that may happen.  Content validation is one too.

`Log` says the same in five actions' worth: an entry is appended at the end under an
id that is not in use; a `Post` has a client_msg_id that is not in use and quotes only
what is there; a `Recall` is an entry of a sender or moderator and marks the recalled
entry in the same step; a seq is announced once its entry can be read.  The mapping
reads the log off `messages` (without the status), the recalled seqs off the statuses
and the announced ones off the published events.

### Direct

`createDM` looks for a row with the dm_key of the pair outside its transaction
(`FindByDMKey`), inserts the conversation (`InsertConversation`: the unique index on
dm_key makes it wait for an uncommitted row with that key and refuses it next to a
committed one) and its members, and commits (`CommitConversation`; the answer may be
lost).  `FailCreate` rolls back.  A creator whose call ended with a conflict or an
error may ask again.  Once the row is there, the requests of `Timeline` run on it; no
creator writes to it any more.  To a reader of the log the creation is a stutter.

### Gateway

Actors are goroutines: the handler of each connection, publishers (HTTP requests
inside the event bus) and the stopper.  A broadcast takes the read lock
(`readers`), collects its targets and sends to them one by one (`todo`); `Send`
enqueues, drops (closed) or overflows and calls `Close` (`closing`), which others may
overtake: in `CloseNow` it closes the channel, finds it closed and returns, or has
tested it before somebody else closed it and panics.  `Register`, `Unregister` and
`Shutdown` need the write lock.  A double close panics: the panic of a handler or a
publisher is recovered by the HTTP middleware and skips the rest of the handler, the
panic of the stopper ends the process (`Alive`).  Deadlines and broken sockets are
`PumpEnds`, `WriteFrame` (failing) and `PeerLeaves`, which may happen at any time.

### Presence

`CheckOnline` (the hub is asked) and `MarkOffline` (the store is written) are two
steps; so are `RefreshTick` and `RefreshWrite` of the refresher, which may write
after the handler marked the user offline.  `redis`, chosen at the start, says which
store the process was configured with: a map that dies with the process and never
fails, or Redis, where keys survive a `Crash`, live for `TTL` (`life`) and any `Write`
may fail, after which the code logs the error and goes on.  `Elapse` is a unit of time:
keys and the tickers of the refreshers (`due`) run down, and whoever should have worked
meanwhile is late.  `Interval` is half the TTL but never below `Floor` (5 s), so that
nothing makes it smaller than the TTL: `TTL` and `Floor` are any positive numbers.
`missed` is a history variable: the last write of a connection failed, or the connection
is late with its next one.  A handler may `Panic` where it sends to connections or closes
its own (`Gateway` shows how that comes about): what it still had to do is left undone.
The frames that tell the peers are broadcasts like any other (`PresenceCast` in
`Gateway`); nothing in the store depends on them.

### Feed and Sync

`Feed` is the promise in two actions: the timeline grows; a device replaces its view
by a longer prefix.  `Sync` is the protocol: `Commit`, `Dispatch` (signal to every
connected device, a full buffer closes the connection), `LoseEvent` (the member
lookup fails or the request dies between commit and publish), `Connect`,
`Disconnect`, `Hear`, `Pull`, `LosePage`, `Apply`.  The client is not in this
repository: it behaves as the design document
(`docs/superpowers/specs/2026-06-29-ai-native-im-backend-design.md`, section 5) asks
of it, and what the server needs it to do is stated in the module: it skips rows it
holds, pulls until a page is not full, and gives up the pulls of an earlier
connection.  The refinement mapping is the identity on `last` and `view`.

### Account

The account of one email, which may not exist yet.  `SaveUser` writes the row the
handler read, except the columns that are NULL in the copy (`SetNillable...` leaves
them alone).  `Rotate` is the conditional UPDATE of `Revoke` together with the INSERT
of the new token, one transaction.  One-time tokens are looked up in one step and
marked in another (`Consumed`, by id alone).  Registrations and OAuth logins look for
the account and create it in different steps, which only the unique index on the email
keeps apart; a callback knows whether its identity is linked and whether the provider
has verified the email.  Reads inside a transaction come from the snapshot of its
first read (MySQL, REPEATABLE READ), UPDATEs see the newest row.

### Access

One workspace.  Every request is first a check: `Begin`, `GetUserVersion`, then
`Hit` (the entry of Redis under the key of that version) or `Resolve` (the roles
are read from the database) and `Fill` (the entry is written under the version read
before, or the write is lost), `Decide`.  InviteMember and AssignRole go on with a
transaction: `FindUserRole` reads whether the user has the role, `Grant` inserts the
rows, bumps the version, writes the log and commits, `GrantFails` meets one of the
unique indexes.  `Evict` drops any entry at any time, which also stands for the
configuration without Redis.  `since` is a history variable: what the user was
allowed when the request began.  Nothing in the services revokes a role, disables
one, sets an end date or writes ACL entries, so permissions only grow; that is what
makes the answers from old versions sound for whoever holds them.

### Limiter and Admission

A visit refills the bucket by the time since the last one (`Refilled`), takes a token
or is refused, and from time to time forgets the idle buckets of all keys
(`CleanedAt`, `Kept`): `allow` is one step, it runs under a mutex.  Amounts are
multiples of a unit so that fractions of a token are integers.  `excess` is a history
variable: how much more was let through than the rate pays for, over the worst
interval that ends now.

In `Admission` a request parses its access token (`Begin`, with the leeway of
`ParseToken`), asks the blacklist (`CheckRevoked`; with Redis not answering it passes
as "open"), and then issues a ticket or logs out.  A handshake meets the limiter, then
`Consume`s its ticket (GETDEL, or a map under a mutex).  `Restart` forgets buckets,
and tickets unless they are in Redis.  Redis may fail at every call, also after it has
executed a GETDEL.

### Ids, Media, Migration and Fleet

A generator remembers the last millisecond it used and its sequence number, in memory;
the clock of its host ticks and is set back; a process restarts with nothing
remembered.  `GiveFirst`, `GiveNext`, `Exhausted` and `Refuses` are the branches of
`NextID`; `Encode` packs millisecond, node and sequence.  `lapsed` and `Shared` name
the two situations in which the code cannot know better: a restart behind the newest
id of the node, and two processes with one node number.

`Media` draws an id, inserts a pending row (unique index on the id), signs, and later
commits for the uploader only.  `Migration` is GET_LOCK with its timeout, the
comparison of the schema, the missing statements one by one, RELEASE_LOCK; jobs end at
any point, lose the connection of their lock without noticing, and are started again.
`Fleet` rolls the server out after the first job that reports success, which a job that
gave up waiting does too, and lets the processes work from then on.


## 3. Checks

Twelve TLC runs.  Two of them show a statement of the repository that the code does
not keep (section 6).

| Run | Instance | Shows | States |
|---|---|---|---|
| `timeline_group` | 3 requests of any kind, 2 users, 2 client ids, group | ExactlyOnce, RecallIsTraced, RecallIsAuthorized, LogInv (which contains TypeOK, NoHoles, CursorIsPaired, SignalAfterCommit), ImplementsLog (from which AppendOnly and RefersBack follow) | 632,828 |
| `timeline_direct` | 2 creators, then 2 requests, fair | DirectRowIsExact, DirectConflictIsDuplicate, PairHasOneConversation, RequestsAnswered, CreatorsAnswered | 104,835 |
| `last_seq_regresses` | 3 requests, send and add | LastSeqIsGreatest fails | |
| `gateway_safe` | 2 connections of 2 users, 1 publisher, stopper, 1 connection per user, buffer of 1 | TypeOK, HubCountIsExact, NoLeak (a handler gives back its place, the read lock, its pump), LossIsPursued, ShutdownIsComplete | 1,571,090 |
| `gateway_live` | 2 connections of 1 user, stopper, fair | LossDisconnects, PumpsEnd, ShutdownDrains | 220,786 |
| `close_panics` | 1 connection, 2 publishers | CloseIsIdempotent fails | |
| `presence` | 3 connections of 1 user, either store, TTL of 2 units and interval of 1, fair | MemoryIsTended, ServedStaysOnline, PresenceConverges | 501,311 |
| `sync` | 1 device, 3 messages, buffer of 2, pages of 2, 2 answers under way, fair | RestIsComplete, ImplementsFeed, DevicesCatchUp | 9,949 |
| `account` | 3 requests of any of 14 kinds, 1 provider, account there or not | TypeOK, RotationIsLinear, LogoutEndsSession, NoTakeover, AccountNeverForgets | 1,235,158 |
| `access` | 3 requests of any kind, 2 users, roles admin and member to give | CheckIsCurrent, GrantsAreAuthorized, AccessInv (which contains TypeOK) | 1,659,251 |
| `admission` | 3 requests, 1 access token, 1 address, 4 ticks, Redis or not | TicketIsOneTime, TicketIsFresh, LogoutHolds, RateIsBounded | 1,473,399 |
| `fleet` | 2 jobs of 2 statements, 2 processes, 3 requests of 2 users, 2 ms of 2 ids | UniqueIds, AttachmentsKeepOwner, OneMigrator, ReleaseIsMigrated | 843,073 |

**Bounds, and why they are enough.**  A hazard of the timeline needs at most three
requests: one that holds a stale copy, one that makes it stale, one that meets the
consequence.  With three requests there is a send, its retry and a recall; a send, a
stale add and the next send, which meets a used seq; a send, a recall and a second
recall.  Two users are an owner and a member who can be added, removed and added
again.  Two client ids give duplicates and distinct sends.  `MaxRead = 2` lets two
reports disagree.  Two creators of a direct conversation are the pair, or two devices
of one user.  In the gateway one publisher, two handlers and the stopper give every
pair of actors that can meet on one connection, and a buffer of one overflows on the
second frame; `gateway_live` needs no publisher since a handler answers pings on its own
connection, and its read frames are signalled to both connections of the user.  No run
has a limit on all connections (`MaxTotal`), which with two connections would keep them
from meeting; that it is kept is proved (`HubCountsExactly`).  Three connections of a
user in Presence are a departing, a staying and an arriving one; with a TTL of two
intervals a single refresh that fails, or comes a unit late, lets the key run out.  Three messages with pages of two give a
full page, a short page and a page that is late; a device shares nothing with another
one but the timeline, so one is enough.  In Account three requests give two refreshes
and a logout, a registration and two logins, or a maker and two users of one token.
In Access a stale answer needs a check that fills the cache, a grant and a check that
reads it; the two roles differ in what they allow.  In Admission three requests are the
issuer of a ticket and two handshakes, or a logout and two requests around it; the
lifetimes (token 2, leeway 1, ticket 1, idle bucket 3 of 4 ticks) let each end before
and after the others, and a bucket of one and a half requests leaves fractions behind.
In Fleet two jobs contend for the lock, two generators fill a millisecond of two ids,
and a third request finds what two others have left; the constraint `Bound` of
`MCFleet` lets requests and clocks move only when the jobs are at rest, which they do
not observe (a job only decides whether they begin), and not after a skipped job, when
a job may go on forever beside them.  The names in the proofs (section 4) have no
bounds.

**Symmetry** is used in safety runs only; the names in a symmetry set play the same
role (`Owner` and `Moderators` are left out).

**Deadlock** is not checked (`CHECK_DEADLOCK FALSE`): requests, connections, jobs and
messages are finite in number and the system stops when all are done.  What may not
stop is stated as liveness.

**Fairness.**  Timeline and Direct: a request that has begun keeps running (`WF` on its
steps); clients owe nothing and errors may strike at any time, though none has to; a
creation that waits for a key in the unique index has `SF`, because the lock queue of
InnoDB is first come, first served.  Gateway: goroutines keep running; a waiting writer
of the RWMutex gets the lock, because Go's RWMutex holds back new readers
(`WriterWaits`), so weak fairness is enough; the peer, its frames and the end of its
socket are not fair.  Presence: goroutines keep running and time passes, but
no write has to succeed (`PresenceConverges` has it as its premise); `SF` on
`RefreshEnds` since `select` chooses among ready cases at random and so finally takes
the closed connection.  Sync: events are published, a device reconnects and reads; `SF`
on `Hear`, `Pull` and `Apply` says that not every connection breaks before its first
frame and not every answer is lost.  Nothing assumes that a signal arrives.  Account,
Access, Admission and Fleet state safety only: their requests end by themselves.

**Mutations.**  Each property of a passing run has a mutation in the modules (the
operators commented "Mutation: ...") of a definition that models code; with it TLC
finds the property violated, so that no property holds merely by the shape of the
model.


## 4. Proofs

Every theorem holds for all values of the constants under the named assumptions of
the modules: names are distinct (`None` is none of the others), sets that are counted
are finite, numbers are natural numbers, and the few relations between them that the
configuration gives (section 5).

| Module | Theorems |
|---|---|
| `TimelineProofs` | `TypeCorrect`, `TimelineInvariant`, `TimelineHasNoHoles`, `CursorStaysPaired`, `SignalFollowsCommit`, `TimelineIsAppendOnly` (AppendOnly), `LogInvariant` (LogInv), `TimelineImplementsLog` (ImplementsLog), `ReferencesPointBack` (RefersBack), `RecallsStayAuthorized` (RecallIsAuthorized), `RecallsStayTraced` (RecallIsTraced), `SendsAreExactlyOnce` (ExactlyOnce) |
| `DirectProofs` | `DirectInvariant`, `PairsAreOne` (PairHasOneConversation), `DirectRowsAreExact` (DirectRowIsExact), `DirectConflictsAreDuplicates` (DirectConflictIsDuplicate), `DirectImplementsLog` (ImplementsLog) |
| `GatewayProofs` | `GatewayTyped` (TypeOK), `HubCountsExactly` (HubCountIsExact), `DutiesAreKept`, `LossesArePursued` (LossIsPursued), `NothingLeaks` (NoLeak), `ShutdownsAreComplete` (ShutdownIsComplete) |
| `DeliveryProofs` | `SyncInvariant`, `DeliveryTyped` (TypeOK), `DevicesRestComplete` (RestIsComplete), `SyncImplementsFeed` (ImplementsFeed), `PresenceInvariant`, `PresenceTyped` (PresenceTypeOK), `MemoryStaysTended` (MemoryIsTended), `ServedUsersStayOnline` (ServedStaysOnline) |
| `AccessProofs` | `AccessInvariant` (AccessInv), `ChecksAreCurrent` (CheckIsCurrent), `CacheStaysCurrent`, `GrantsStayAuthorized` (GrantsAreAuthorized) |
| `AccountProofs` | `AccountTyped` (TypeOK), `AccountsAreNotTaken` (NoTakeover), `AccountsNeverForget` (AccountNeverForgets), `RotationsAreLinear` (RotationIsLinear), `LogoutsEndSessions` (LogoutEndsSession) |
| `AdmissionProofs` | `LimiterBoundsRate`, `HandshakesAreBounded` (RateIsBounded), `TicketsAreOneTime` (TicketIsOneTime), `TicketsAreFresh` (TicketIsFresh), `LogoutsHold` (LogoutHolds) |
| `FleetProofs` | `MigratorsExclude` (OneMigrator), `ReleasesAreMigrated` (ReleaseIsMigrated), `AttachmentsStayOwned` (AttachmentsKeepOwner), `IdsAreUnique` (UniqueIds) |

### Timeline

`NoHoles` is not inductive: a step that saves a stale copy of the conversation could
put any last_seq into the row, and the next send would write behind a gap.
`TimelineInv` adds why this cannot happen.  (1) Every copy a request holds, however
old, is a *paired cursor*: its last_seq is 0 or the seq of the message it names,
and messages keep their seq for ever.  So a save can move last_seq back, but only
to a seq that exists.  (2) The row lock is exclusive, and while it is held nobody
changes last_seq, so that the allocated seq is last_seq + 1.  (3) By (1) and
`NoHoles` 1..last_seq is stored, so that the new row at last_seq + 1 either closes up
with the timeline or meets the unique index and rolls back.  `CommittedIsStored`
carries the message from its commit to its signal.

The proof first sorts the steps of all handlers into four kinds (lemma `StepKinds`):
a step writes a message (`Written`), takes the lock (`AllocateSeq`), gives up
(`Released`) or stays outside the transaction (`Outside`); one lemma per kind shows
that it preserves the invariant.  `AppendOnly` follows from the same kinds.

### Timeline implements Log

`LogInv` adds to `TimelineInv` that no two messages share an id and, per request, what
its handler has found out so far (`RequestKnows`): the quoted or recalled message is
there, the caller may recall it, and nobody has written under the request's own id.
All of this was read before the transaction and is still true at the commit, since the
timeline only grows.  Every step either leaves `messages` alone, is a send that
commits, or is a recall that commits (`EntryKinds`); under `LogInv` the first maps to
a stutter or an announcement, the second to `Post`, the third to `Recall`.
`ExactlyOnce` needs one fact more: an answer "ok" to a send names a stored message
with its client_msg_id, which is carried from the idempotency check or the commit to
the answer.

### Direct

`PairInv` is what `Timeline` cannot have in a group: nobody joins or leaves, so every
copy a handler holds and will save says two members and an active reader (`Held`), and
last_seq, which then only moves under the row lock, is the newest seq (`Newest`).  The
seq of an open transaction is therefore free (`TxSeqIsFree`) and a roll-back of a send
means that its client_msg_id is stored.  `CreatorsInv` says that the creator of an
uncommitted row holds the key and that a row is committed only while no other is
there.  Before the commit `Untouched` holds, afterwards `PairInv`.

`DirectImplementsLog` composes this with the refinement of `Timeline`: a step either
is a step of the timeline that is there, which is a step of the log by `LogStepIsStep`,
or writes no message and announces nothing (`DirectStep`); and the commit of the
creation establishes `LogInv` (`CommitStartsLog`).

### Gateway

A step of the gateway registers, unregisters, or leaves the registry as it is
(`RegistryKept`).  "A registered connection has a handler that will unregister it, or
one that panicked" (`PlaceIsReturned`) and "a panic ends the handler" together say that
a connection that registers is not in the registry yet, so that the counter, the set
and the count per user grow by one together.

The other promises of the gateway are duties that some goroutine still has, and none
of them is inductive alone.  `DutyInv` puts them together.  A dropped frame has an actor
that is about to close the connection (`LossIsPursued`); that actor is not done when it
drops its remaining targets, because it closes before it sends again.  `HandlerSound`
says of each handler when it has nothing to send, when it may hold the read lock and
that its pump was told before it goes on; hence a handler is never in the middle of a
broadcast when it asks for the write lock, and a panic, which happens only in the middle
of one or in a Close, releases the lock.  `StopperSound` says that from the moment the
Hub refuses registrations every registered connection is closed or in front of the
stopper (`todo`, `closing`); since nobody registers any more and closed connections stay
closed, the stopper has closed all of them when it has no target left.  `DutyByActor`
is the common part of the proof: a step of one goroutine touches the duties of no other
one, so what remains to show for each action is that goroutine's own part.

### Sync implements Feed

`SyncInv` says that everything is a *run* of consecutive seqs: the view of a device is
1..n, and every page on its way to it, however old, is a run that starts within the
view (`PageSound`: the view has only grown since the page was asked for).  Skipping the
rows that are held (`Held`) and appending the rest (`SubSeq`) therefore gives a longer
run (`RunGrows`), whatever the order in which pages arrive; that is a step of `Feed`.

For `RestIsComplete` the invariant adds who will tell the device: once it knows of its
connection (`Greeted`), it has heard of the newest message, or the signal waits in its
buffer, or the event is still to be dispatched or was lost (`Told`), or it is still
pulling, or has everything.  A page that is not full ends the pulling, so the same must
hold of every such page: what comes after its rows the device will hear of.  This needs
that a device gives up its earlier pulls when it reads `auth_ok`: a short page of an
older connection could otherwise end the pulling although the signals between the two
connections were never sent to it.

`SyncBounded` adds that nobody hears of a seq before its commit (events are committed, and
frames are events) and that the answers on their way to a device are finite in number;
with `SyncInv` it gives the types.

### Presence

`ConnSound` ties a connection's place in the registry and its refresher to where its
handler is.  `MemoryIsTended` then survives the only step that could break it, a handler
that does not mark its user offline: it has seen another connection of the user in the
registry, whose handler is not past its own question, or was cut short by a panic.
`KeySound` adds time: while the last write of a connection was in time and the interval
is below the TTL, the key has its whole life before it until the refresher starts, and
afterwards outlives the wait for the next tick (or is gone, deleted by another handler).
Each unit of time takes one from both, and a connection that does not write when its tick
is due is late by definition.  So `ServedStaysOnline`: a key that runs out leaves every
served connection of its user with a last write that failed or is late.  The theorem
assumes nothing of TTL and floor; that the interval is below the TTL is a premise of the
property.

### Access

`CacheIsCurrent` (the entry under the current version is what the roles allow now) is
not inductive: a request that has read the roles and not yet written the entry must be
part of it, and so must requests that are about to read an entry of a version that is
not current any more.  `AccessInv` adds (1) nobody has read, and nothing is stored
under, a version above the current one, so a grant moves to a version that is free;
(2) what was resolved under the current version is current; (3) entries and pending
fills never hold more than the roles of their user (`CacheIsBounded`,
`RequestIsBounded`); (4) whoever holds an old version still finds under it at least
what the user had when the request began (`HitIsEnough`, `FillIsEnough`), since the
request began before it read the version, and the entry is not older than that
version.  One lemma per action.

### Account

`UsersInv` carries what a request has learnt from its reads to its answer (`Fits`): the
copy it will save has the id of the account, an account keeps its id, and a callback
that found a linked identity or a verified email still finds the account.
`SessionsInv` carries `Chained` (a session is named after its first token, at most one
token of it is not revoked, and the rotated ones point to distinct successors) and, per
logout, that the session of its token is dead; `Lasts` says that no step revives a dead
session.

### Admission

`LimiterInv` is an account: what was let through in excess of the rate is missing in
the bucket, so `excess + Level <= Burst`; a key without a bucket has no excess, because
a bucket is forgotten only after `IdleTTL`, which refills any bucket.  `TicketInv` says
that a presented ticket was handed out, that its stored form ends `TicketTTL` after its
issue, and that a connection has used its ticket up.  `LogoutInv` says that the entry
of a logged-out token lasts as long as the token and that what a request remembers of
earlier logouts is true.

### Release

`JobsInv`: a running job holds the lock or has lost it, the plan of a job that holds it
is not behind the schema, and a job that reports success has found it complete.
`MediaInv`: the row of a presign is its own from the insert on, that of a commit is its
user's, and a committed row has a commit behind it.  `IdsInv`: every id handed out has
parts, and the generator of its node is past them unless the node is shared or has
lapsed; two ids with different parts differ because `Encode` is injective on its
range, which is proved from the integers.

### Only model-checked

Liveness: `RequestsAnswered`, `CreatorsAnswered`, `LossDisconnects`, `PumpsEnd`,
`ShutdownDrains`, `PresenceConverges`, `DevicesCatchUp`.  Their proofs would need ENABLED,
which the prover does not have.  What each of them needs of safety is proved: that a lost
frame has somebody who pursues it (`LossIsPursued`), that pump, lock and place are given
back (`NoLeak`), that the shutdown has closed all it waits for (`ShutdownIsComplete`), and
that a device has nothing left to do only when it has everything (`RestIsComplete`).
Every other property of a passing run is a theorem.


## 5. Not modelled, and abstractions

* A group or channel is created by one request and nobody can call it before: an
  initial state of `Timeline` is what a creation and non-overlapping calls of AddMember
  leave.
* Message content, mentions, the recall window, limits of sizes: a refusal that may
  happen, or nothing.  Bots are members like users; the checker of workspace
  permissions is a set of moderators, or a refusal.
* The list of conversations and its `changed_after` cursor.
* One process holds the registry and the event bus in memory; `Gateway`, `Presence` and
  `Sync` are about that process, as the runbook asks (section 6).  Tickets, accounts,
  roles, ids, attachments and jobs do not depend on it and are modelled for any number.
* A database is MySQL in REPEATABLE READ with the unique indexes of
  `internal/ent/schema`; failures are errors, cancelled contexts and panics, after
  which the transaction rolls back.  The answer to a COMMIT that is lost is modelled
  where a client may retry (`Fail` at "committed", `CommitConversation`).
* Signature, issuer and audience of access tokens, password and token hashing, mail, the
  content of OAuth profiles.  In `UnlinkLoad` the two reads of the count are one step.
* Access: reads outside a transaction are one step each, since only the roles of users
  change; the permissions of the default roles are those of the seed.  Roles with an
  end date would stay in the cache until the next version or the TTL of one hour.
* `LimiterAssumption` says that an idle bucket is full when it may be forgotten: ten
  minutes refill ten times requests_per_minute.  A configuration with a burst above
  that would be outside the theorem, and would let a key have more than its rate.
* What ent compares and executes in a migration is external: a list of statements, each
  of which fails if another job has executed it.
* The object ACL of the workspace (`acl.Decide`, the repository of its entries): no
  caller passes a resource to the checker and nothing grants an entry, so that the
  decision is not reached in this program.
* Out of scope: todo (CRUD on single rows), system, HTTP adapters, configuration,
  e-mail, object-store client, metrics.  About 78,000 of the repository's 94,000 lines
  of Go (without its tests) are generated by ent; what they do (rows, columns that are set or
  left alone, indexes, transactions) is in the modules that use them, and no definition
  is mapped to their text, which is why the share of mapped lines stays small.


## 6. Where code and words differ

Two statements are checked and found violated, each by an interleaving of few steps:

* **last_seq can fall back** (`last_seq_regresses`).  AddMember, RemoveMember,
  RecallMessage and SendMessage save the whole conversation row they read earlier.
  A stale membership change restores an old last_seq; from then on every send is
  given a seq that is in use, meets the unique index of (conv_id, seq) and rolls its
  allocation back, so that no message is accepted until some request saves a newer
  copy.  The timeline itself stays intact.
* **Close is not idempotent under concurrency** (`close_panics`).  When it is the
  handler that panics, nothing after `Register` (`handler.go:138`) is deferred, so that
  the connection stays registered and counted, its pump runs until the socket breaks,
  and with presence in memory its user stays online until the process ends.

Known consequences in the other parts, found while modelling and not kept as runs:

* a one-time token can be consumed by two overlapping requests: the UPDATE of
  `action_token_repository.go:50` has no condition on consumed_at, although the comment
  at `domain/actiontoken/actiontoken.go:17` calls it conditional;
* two requests that unlink different identities may leave an account without a login
  method (`auth_commands.go:368`: the count and the delete are separate statements);
* creations of one direct conversation that overlap answer one caller with a conflict,
  although the comment at `conversation_commands.go:16` calls the creation idempotent;
  asking again succeeds (`PairHasOneConversation`);
* a refresh whose answer is lost ends the session: the client still holds the rotated
  token, and there is no grace for it (`auth_commands.go:130`);
* a registration stores a verification token but sends no mail with it;
* the blacklist entry of a token ends with the token, which `ParseToken` accepts for the
  leeway longer; and a blacklist that cannot be read revokes nothing (`LogoutHolds`
  states both exceptions);
* buckets live in the process: a restart gives every key a full burst;
* an id can be handed out twice after a restart with a clock behind the newest id, and
  by two hosts whose names have one hash (`UniqueIds` states both exceptions); the
  unique index of the table then refuses the second row;
* a migration job that does not get the lock in 30 seconds reports success, so that a
  roll-out may come before the migration is complete (`ReleaseIsMigrated` states it);
* an attachment can be committed without an upload: the object store is never asked;
* `deployments/kubernetes/deployment.yaml:6` asks for two replicas, where the runbook
  (`docs/tech/im-production-runbook.md:10`) asks for one: with two, a signal reaches only
  the devices that are connected to the process of the sender.

Further consequences of the stale copies in the timeline:

* a repeated send that overlaps the first is answered with a conflict, not with the
  first message (`message_commands.go:60`);
* `read_seq` can go back when two reports overlap, where the design document says
  `read_seq = max(old, new)` (line 314);
* overlapping membership changes leave `member_count` wrong (`conversation.go:157`
  only keeps it from going negative);
* a read report that overlaps a removal brings the member back
  (`conversation_commands.go:192`, `SaveMember` writes the status);
* a removed member cannot be added again: the INSERT meets the unique index
  (`conversation_commands.go:132`);
* two overlapping recalls of one message both succeed and leave two entries
  (`message.go:143`).

Elsewhere, not kept as runs either:

* `OnDisconnect` may mark a user offline whom a new connection already serves
  (`presence.go:35`); with Redis the next refresh that succeeds repairs it
  (`PresenceConverges`), with the store in memory nothing does; and the peers may get
  the offline frame after the online frame of the new connection, which no refresh
  repeats;
* a refresh that fails is logged and tried again an interval later (`presence.go:48`), so
  that the key of a served user runs out when Redis does not answer for as long as the
  key has left: half the TTL from one tick to the next;
* the comment at `modules/realtime/module.go:118` says that the refresh interval is
  guaranteed to be below the TTL (as does `handler.go:158`), but its floor of 5 s makes it
  5 s for any `im.presence_ttl` up to 10 s, and no check keeps that setting above 5 s: with
  a TTL of 5 s or less the key of every served user runs out between refreshes
  (`ServedStaysOnline` and `PresenceConverges` state both exceptions);
* a logout whose refresh token cannot be looked up, because a refresh has just rotated it
  or because the database does not answer, is answered as a success
  (`auth_commands.go:160`), and the session lives on; `LogoutEndsSession` is about a
  logout that revoked its token;
* `AssignRole` calls itself idempotent (`rbac_repository.go:133`), but of two
  overlapping calls with the same role one is answered with an error.


## 7. What could come next

1. A second process: the event bus and the registry are local, so that `Gateway` and
   `Sync` would show what two replicas lose.
2. The list of conversations with its `changed_after` cursor, and a device that follows
   many conversations.
3. Roles with an end date and their revocation, once a service offers them; then the
   object ACL, whose decision order is a pure operator.
4. `Presence` as a refinement of what `Gateway` does with one connection, so that its
   panics and closes are those of that module.
