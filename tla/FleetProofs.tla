----------------------------- MODULE FleetProofs -----------------------------
(***************************************************************************)
(* What a release promises, for any number of processes, migration jobs,   *)
(* statements and requests.                                                *)
(***************************************************************************)
EXTENDS Fleet, TLAPS

(* Migration jobs.                                                         *)

\* Every variable of the jobs holds values of its type.
JobsTyped ==
  /\ lock \in Jobs \cup {Nobody}
  /\ schema \in 0..Statements
  /\ todo \in [Jobs -> Nat]
  /\ jobs \in [Jobs -> {"idle", "waiting", "locked", "migrating", "skipped",
                        "failed", "ok"}]
  /\ lost \subseteq Jobs

\* A job that runs holds the lock, or has lost it without knowing.
Holding == \A j \in Running : lock = j \/ j \in lost

\* A plan goes on at the first statement that nobody has executed, or before it.
Planned == \A j \in Jobs : todo[j] <= schema + 1

\* A job that reports that it has migrated is right.
Honest == \A j \in Jobs : jobs[j] = "ok" => schema = Statements

\* The strengthening of OneMigrator and ReleaseIsMigrated that every step preserves.
JobsInv == JobsTyped /\ Holding /\ Planned /\ Honest /\ ReleaseIsMigrated

\* The end of a job frees the lock only if it was the job's.
LEMMA ReleaseKeepsJobs ==
  ASSUME JobsInv, NEW j \in Jobs, NEW s \in {"failed", "ok"}, Release(j), JobIs(j, s),
         s = "ok" => schema = Statements, jobs[j] # "skipped", UNCHANGED serving
  PROVE  JobsInv'
<1>1. /\ lock' = IF lock = j THEN Nobody ELSE lock
      /\ lost' = lost \ {j} /\ schema' = schema
      /\ todo' = [todo EXCEPT ![j] = 1] /\ jobs' = [jobs EXCEPT ![j] = s]
  BY DEF Release, JobIs
<1>2. JobsTyped'
  BY <1>1 DEF JobsInv, JobsTyped
<1>3. Holding'
  BY <1>1 DEF JobsInv, JobsTyped, Holding, Running
<1>4. Planned'
  <2>1. schema \in Nat
    BY MigrationAssumption DEF JobsInv, JobsTyped
  <2> QED
    BY <1>1, <2>1 DEF JobsInv, JobsTyped, Planned
<1>5. Honest'
  BY <1>1 DEF JobsInv, JobsTyped, Honest
<1>6. ReleaseIsMigrated'
  BY <1>1 DEF JobsInv, JobsTyped, ReleaseIsMigrated
<1> QED
  BY <1>2, <1>3, <1>4, <1>5, <1>6 DEF JobsInv

\* A job that executes the statement that is next leaves no hole in the schema.
LEMMA ExecuteKeepsJobs ==
  ASSUME JobsInv, NEW j \in Jobs, Execute(j), UNCHANGED serving
  PROVE  JobsInv'
<1>1. /\ jobs[j] = "migrating" /\ todo[j] <= Statements
      /\ UNCHANGED <<lock, lost, serving>>
      /\ Statements \in Nat /\ schema \in 0..Statements /\ todo[j] \in Nat
  BY MigrationAssumption DEF Execute, JobsInv, JobsTyped
<1>2. CASE todo[j] = schema + 1
  <2>1. /\ schema' = schema + 1 /\ jobs' = jobs
        /\ todo' = [todo EXCEPT ![j] = todo[j] + 1]
    BY <1>2 DEF Execute
  <2>2. schema' \in 0..Statements
    BY <1>1, <1>2, <2>1
  <2>3. JobsTyped'
    BY <1>1, <2>1, <2>2 DEF JobsInv, JobsTyped
  <2>4. Holding'
    BY <1>1, <2>1 DEF JobsInv, Holding, Running
  <2>5. Planned'
    BY <1>1, <1>2, <2>1 DEF JobsInv, JobsTyped, Planned
  <2>6. schema # Statements
    BY <1>1, <1>2
  <2>7. Honest' /\ ReleaseIsMigrated'
    BY <1>1, <2>1, <2>6 DEF JobsInv, Honest, ReleaseIsMigrated
  <2> QED
    BY <2>3, <2>4, <2>5, <2>7 DEF JobsInv
<1>3. CASE todo[j] # schema + 1
  <2>1. jobs' = [jobs EXCEPT ![j] = "failed"] /\ UNCHANGED <<schema, todo>>
    BY <1>3 DEF Execute, JobIs
  <2> QED
    BY <1>1, <2>1
       DEF JobsInv, JobsTyped, Holding, Running, Planned, Honest, ReleaseIsMigrated
<1> QED
  BY <1>2, <1>3

\* The other steps of a job.
LEMMA JobKeepsJobs ==
  ASSUME JobsInv, NEW j \in Jobs, UNCHANGED serving,
         Start(j) \/ GetLock(j) \/ Skip(j) \/ Inspect(j) \/ LoseLock(j) \/ Again(j)
  PROVE  JobsInv'
<1> USE DEF JobsInv, JobsTyped, Holding, Running, Planned, Honest, ReleaseIsMigrated,
            JobIs
<1>1. CASE Start(j)
  BY <1>1 DEF Start
<1>2. CASE GetLock(j)
  BY <1>2, MigrationAssumption DEF GetLock
<1>3. CASE Skip(j)
  BY <1>3 DEF Skip
<1>4. CASE Inspect(j)
  <2>1. /\ todo' = [todo EXCEPT ![j] = schema + 1] /\ UNCHANGED <<lock, schema, lost>>
        /\ jobs[j] = "locked" /\ jobs' = [jobs EXCEPT ![j] = "migrating"]
    BY <1>4 DEF Inspect
  <2>2. schema \in Nat /\ schema + 1 \in Nat
    BY MigrationAssumption
  <2> QED
    BY <2>1, <2>2
<1>5. CASE LoseLock(j)
  BY <1>5 DEF LoseLock
<1>6. CASE Again(j)
  BY <1>6 DEF Again
<1> QED
  BY <1>1, <1>2, <1>3, <1>4, <1>5, <1>6

\* Every step of a release keeps the jobs in order.
LEMMA FleetKeepsJobs ==
  ASSUME JobsInv, [FleetNext]_fleetVars
  PROVE  JobsInv'
<1>1. ASSUME NEW j \in Jobs, Finish(j), UNCHANGED serving PROVE JobsInv'
  <2>1. CASE j \in lost
    BY <1>1, <2>1, ReleaseKeepsJobs DEF Finish
  <2>2. CASE j \notin lost
    <3>1. todo[j] > Statements /\ todo[j] <= schema + 1 /\ todo[j] \in Nat
          /\ schema \in 0..Statements /\ Statements \in Nat
      BY <1>1, MigrationAssumption DEF Finish, JobsInv, JobsTyped, Planned
    <3>2. schema = Statements
      BY <3>1
    <3> QED
      BY <1>1, <2>2, <3>2, ReleaseKeepsJobs DEF Finish
  <2> QED
    BY <2>1, <2>2
<1>2. ASSUME NEW j \in Jobs, Ended(j), UNCHANGED serving PROVE JobsInv'
  BY <1>2, ReleaseKeepsJobs DEF Ended
<1>3. CASE MigrationNext /\ UNCHANGED serving
  BY <1>1, <1>2, <1>3, ExecuteKeepsJobs, JobKeepsJobs DEF MigrationNext
<1>4. CASE RollOut
  BY <1>4 DEF RollOut, migrationVars, JobsInv, JobsTyped, Holding, Running, Planned,
              Honest, ReleaseIsMigrated
<1>5. CASE UNCHANGED <<migrationVars, serving>>
  BY <1>5 DEF migrationVars, JobsInv, JobsTyped, Holding, Running, Planned, Honest,
              ReleaseIsMigrated
<1> QED
  BY <1>3, <1>4, <1>5 DEF FleetNext, fleetVars

\* Before the release nobody runs.
LEMMA JobsStart ==
  ASSUME FleetInit
  PROVE  JobsInv
<1>1. 0 \in 0..Statements
  BY MigrationAssumption
<1> QED
  BY <1>1 DEF FleetInit, MigrationInit, JobsInv, JobsTyped, Holding, Running, Planned,
              Honest, ReleaseIsMigrated

\* Two jobs execute DDL at the same time only if the lock of one has broken.
THEOREM MigratorsExclude == FleetSpec => []OneMigrator
<1>1. JobsInv => OneMigrator
  BY DEF JobsInv, Holding, OneMigrator
<1>2. JobsInv /\ [FleetNext]_fleetVars => JobsInv'
  BY FleetKeepsJobs
<1> QED
  BY <1>1, <1>2, JobsStart, PTL DEF FleetSpec

\* The new version serves with its whole schema, unless a job was skipped.
THEOREM ReleasesAreMigrated == FleetSpec => []ReleaseIsMigrated
<1>1. JobsInv => ReleaseIsMigrated
  BY DEF JobsInv
<1>2. JobsInv /\ [FleetNext]_fleetVars => JobsInv'
  BY FleetKeepsJobs
<1> QED
  BY <1>1, <1>2, JobsStart, PTL DEF FleetSpec

-----------------------------------------------------------------------------
(* Attachments.                                                            *)

\* Requests are what they are; what they draw or are told is not looked at.
MediaTyped ==
  /\ stage \in [Requests -> {"idle", "drawn", "created", "found", "ok", "lost",
                           "failed"}]
  /\ job \in [Requests -> [op : {"none", "presign", "commit"},
                           user : Uploaders \cup {None}]]
  /\ DOMAIN target = Requests
  /\ \A id \in Stored : rows[id] = [by |-> rows[id].by, uploader |-> rows[id].uploader,
                                    status |-> rows[id].status]
  /\ \A r \in Requests : stage[r] = "idle" => job[r] = NoJob

\* The row of a presign is there and its own, from the insert on.
Presigned ==
  \A r \in Requests : job[r].op = "presign" /\ stage[r] \in {"created", "ok"} =>
    /\ target[r] \in Stored
    /\ rows[target[r]].by = r
    /\ rows[target[r]].uploader = job[r].user

\* That of a commit is its user's.
Claimed ==
  \A r \in Requests : job[r].op = "commit" /\ stage[r] \in {"found", "ok", "lost"} =>
    /\ target[r] \in Stored
    /\ rows[target[r]].uploader = job[r].user

\* A committed row was committed by its uploader.
CommittedByOwner ==
  \A id \in Stored : rows[id].status = "committed" =>
    \E r \in Requests : /\ Doing(r, "commit", "ok") \/ Doing(r, "commit", "lost")
                        /\ target[r] = id /\ job[r].user = rows[id].uploader

\* The strengthening of AttachmentsKeepOwner that every step preserves.
MediaInv == MediaTyped /\ Presigned /\ Claimed /\ CommittedByOwner

\* A request under way, or not begun, changes without an effect on the rows.
LEMMA RequestMoves ==
  ASSUME MediaInv, NEW r \in Requests, stage[r] \notin {"ok", "lost"}, UNCHANGED rows,
         NEW s \in {"drawn", "created", "found", "ok", "failed"}, MoveTo(r, s),
         NEW o \in {"none", "presign", "commit"}, NEW u \in Uploaders \cup {None},
         NEW id,
         job' = [job EXCEPT ![r] = [op |-> o, user |-> u]],
         DOMAIN target' = Requests, target'[r] = id,
         \A q \in Requests \ {r} : target'[q] = target[q],
         o = "presign" /\ s \in {"created", "ok"} =>
           id \in Stored /\ rows[id].by = r /\ rows[id].uploader = u,
         o = "commit" /\ s \in {"found", "ok"} => id \in Stored /\ rows[id].uploader = u
  PROVE  MediaInv'
<1>1. /\ stage' = [stage EXCEPT ![r] = s] /\ Stored' = Stored
      /\ DOMAIN target = Requests
  BY DEF MoveTo, Stored, MediaInv, MediaTyped
<1>2. MediaTyped'
  BY <1>1 DEF MediaInv, MediaTyped, NoJob
<1>3. Presigned'
  BY <1>1 DEF MediaInv, MediaTyped, Presigned
<1>4. Claimed'
  BY <1>1 DEF MediaInv, MediaTyped, Claimed
<1>5. CommittedByOwner'
  BY <1>1 DEF MediaInv, MediaTyped, CommittedByOwner, Doing
<1> QED
  BY <1>2, <1>3, <1>4, <1>5 DEF MediaInv

\* An error loses what the request knew.
LEMMA RefuseKeepsMedia ==
  ASSUME MediaInv, NEW r \in Requests, stage[r] \notin {"ok", "lost"}, UNCHANGED rows,
         Refuse(r)
  PROVE  MediaInv'
<1>1. /\ job' = [job EXCEPT ![r] = [op |-> "none", user |-> None]]
      /\ MoveTo(r, "failed")
  BY DEF Refuse, NoJob
<1>2. /\ DOMAIN target' = Requests /\ target'[r] = -1
      /\ \A q \in Requests \ {r} : target'[q] = target[q]
  BY DEF Refuse, MediaInv, MediaTyped
<1> QED
  BY <1>1, <1>2, RequestMoves

\* A presign inserts a row of its own, or none.
LEMMA CreateKeepsMedia ==
  ASSUME MediaInv, NEW r \in Requests, PresignCreate(r)
  PROVE  MediaInv'
<1>1. job[r].op = "presign" /\ stage[r] = "drawn"
  BY DEF PresignCreate, Doing
<1>2. CASE target[r] \in Stored
  BY <1>1, <1>2, RefuseKeepsMedia DEF PresignCreate
<1>3. CASE target[r] \notin Stored
  <2> DEFINE i == target[r]
  <2>1. /\ stage' = [stage EXCEPT ![r] = "created"] /\ UNCHANGED <<job, target>>
        /\ Stored' = Stored \cup {i}
        /\ rows'[i] = [by |-> r, uploader |-> job[r].user, status |-> "pending"]
        /\ \A id \in Stored : rows'[id] = rows[id]
    BY <1>3 DEF PresignCreate, MoveTo, WithRow, Stored
  <2>2. i \notin Stored
    BY <1>3
  <2>3. MediaTyped'
    BY <1>1, <2>1, <2>2 DEF MediaInv, MediaTyped
  <2>4. Presigned'
    BY <1>1, <2>1, <2>2 DEF MediaInv, MediaTyped, Presigned
  <2>5. Claimed'
    BY <1>1, <2>1, <2>2 DEF MediaInv, MediaTyped, Claimed
  <2>6. CommittedByOwner'
    BY <1>1, <2>1, <2>2 DEF MediaInv, MediaTyped, CommittedByOwner, Doing
  <2> QED
    BY <2>3, <2>4, <2>5, <2>6 DEF MediaInv
<1> QED
  BY <1>2, <1>3

\* A commit changes the status only.
LEMMA SaveKeepsMedia ==
  ASSUME MediaInv, NEW r \in Requests, CommitSave(r)
  PROVE  MediaInv'
<1>1. PICK s \in {"ok", "lost"} :
      /\ job[r].op = "commit" /\ stage[r] = "found" /\ UNCHANGED <<job, target>>
      /\ stage' = [stage EXCEPT ![r] = s]
  BY DEF CommitSave, Doing, MoveTo
<1> DEFINE i == target[r]
<1>2. i \in Stored /\ rows[i].uploader = job[r].user
  BY <1>1 DEF MediaInv, Claimed
<1>3. /\ Stored' = Stored
      /\ rows'[i] = [by |-> rows[i].by, uploader |-> rows[i].uploader,
                     status |-> "committed"]
      /\ \A id \in Stored \ {i} : rows'[id] = rows[id]
  BY <1>2 DEF CommitSave, Stored, MediaInv, MediaTyped
<1>4. MediaTyped'
  BY <1>1, <1>2, <1>3 DEF MediaInv, MediaTyped
<1>5. Presigned'
  BY <1>1, <1>2, <1>3 DEF MediaInv, MediaTyped, Presigned
<1>6. Claimed'
  BY <1>1, <1>2, <1>3 DEF MediaInv, MediaTyped, Claimed
<1>7. CommittedByOwner'
  BY <1>1, <1>2, <1>3 DEF MediaInv, MediaTyped, CommittedByOwner, Doing
<1> QED
  BY <1>4, <1>5, <1>6, <1>7 DEF MediaInv

\* Every step of a release keeps the attachments of their owners.
LEMMA FleetKeepsMedia ==
  ASSUME MediaInv, [FleetNext]_fleetVars
  PROVE  MediaInv'
<1>1. CASE UNCHANGED mediaVars
  BY <1>1 DEF mediaVars, MediaInv, MediaTyped, Presigned, Claimed, CommittedByOwner,
              Stored, Doing
<1>2. ASSUME NEW r \in Requests, PresignDraw(r) PROVE MediaInv'
  <2>1. UNCHANGED rows /\ stage[r] = "idle"
    BY <1>2 DEF PresignDraw
  <2>2. CASE Refuse(r)
    BY <2>1, <2>2, RefuseKeepsMedia
  <2>3. ASSUME NEW u \in Uploaders, NEW i, MoveTo(r, "drawn"),
               job' = [job EXCEPT ![r] = [op |-> "presign", user |-> u]],
               target' = [target EXCEPT ![r] = i]
        PROVE  MediaInv'
    <3>1. /\ DOMAIN target' = Requests /\ target'[r] = i
          /\ \A q \in Requests \ {r} : target'[q] = target[q]
      BY <2>3 DEF MediaInv, MediaTyped
    <3> QED
      BY <2>1, <2>3, <3>1, RequestMoves
  <2> QED
    BY <1>2, <2>2, <2>3 DEF PresignDraw
<1>3. ASSUME NEW r \in Requests, PresignSign(r) PROVE MediaInv'
  <2>1. /\ job[r].op = "presign" /\ stage[r] = "created" /\ UNCHANGED <<job, target>>
        /\ MoveTo(r, "ok") /\ UNCHANGED rows
    BY <1>3 DEF PresignSign, Doing
  <2>2. PICK u \in Uploaders \cup {None} : job[r] = [op |-> "presign", user |-> u]
    BY <2>1 DEF MediaInv, MediaTyped
  <2>3. job' = [job EXCEPT ![r] = [op |-> "presign", user |-> u]]
    BY <2>1, <2>2 DEF MediaInv, MediaTyped
  <2>4. /\ DOMAIN target' = Requests
        /\ \A q \in Requests : target'[q] = target[q]
    BY <2>1 DEF MediaInv, MediaTyped
  <2>5. target[r] \in Stored /\ rows[target[r]].by = r /\ rows[target[r]].uploader = u
    BY <2>1, <2>2 DEF MediaInv, Presigned
  <2> QED
    BY <2>1, <2>3, <2>4, <2>5, RequestMoves
<1>4. ASSUME NEW r \in Requests, CommitLoad(r) PROVE MediaInv'
  <2>1. stage[r] = "idle" /\ UNCHANGED rows
    BY <1>4 DEF CommitLoad
  <2>2. CASE Refuse(r)
    BY <2>1, <2>2, RefuseKeepsMedia
  <2>3. ASSUME NEW u \in Uploaders, NEW id \in Stored, rows[id].uploader = u,
               job' = [job EXCEPT ![r] = [op |-> "commit", user |-> u]],
               target' = [target EXCEPT ![r] = id],
               MoveTo(r, IF rows[id].status = "committed" THEN "ok" ELSE "found")
        PROVE  MediaInv'
    <3>1. /\ DOMAIN target' = Requests /\ target'[r] = id
          /\ \A q \in Requests \ {r} : target'[q] = target[q]
      BY <2>3 DEF MediaInv, MediaTyped
    <3>2. MoveTo(r, "ok") \/ MoveTo(r, "found")
      BY <2>3 DEF MoveTo
    <3>3. /\ stage[r] \notin {"ok", "lost"} /\ u \in Uploaders \cup {None}
          /\ id \in Stored /\ rows[id].uploader = u
          /\ UNCHANGED rows /\ job' = [job EXCEPT ![r] = [op |-> "commit", user |-> u]]
      BY <2>1, <2>3
    <3>4. CASE MoveTo(r, "ok")
      BY <3>1, <3>3, <3>4, RequestMoves
    <3>5. CASE MoveTo(r, "found")
      BY <3>1, <3>3, <3>5, RequestMoves
    <3> QED
      BY <3>2, <3>4, <3>5
  <2> QED
    BY <1>4, <2>2, <2>3 DEF CommitLoad
<1>5. ASSUME NEW r \in Requests, Abort(r) PROVE MediaInv'
  BY <1>5, RefuseKeepsMedia DEF Abort
<1> QED
  BY <1>1, <1>2, <1>3, <1>4, <1>5, CreateKeepsMedia, SaveKeepsMedia
     DEF FleetNext, fleetVars, RollOut, MediaNext, Surroundings

\* An id that a presign has answered with names its attachment for ever, whatever
\* the generators do, and only its uploader commits it.
THEOREM AttachmentsStayOwned == FleetSpec => []AttachmentsKeepOwner
<1>1. FleetInit => MediaInv
  BY DEF FleetInit, MediaInit, MediaInv, MediaTyped, Presigned, Claimed,
         CommittedByOwner, Stored, NoJob, Doing
<1>2. MediaInv => AttachmentsKeepOwner
  BY DEF MediaInv, Presigned, CommittedByOwner, AttachmentsKeepOwner, Doing
<1>3. MediaInv /\ [FleetNext]_fleetVars => MediaInv'
  BY FleetKeepsMedia
<1> QED
  BY <1>1, <1>2, <1>3, PTL DEF FleetSpec

-----------------------------------------------------------------------------
(* Ids.                                                                    *)

\* Different multiples of d are d apart.
LEMMA Apart ==
  ASSUME NEW d \in Nat \ {0}, NEW a \in Int, NEW b \in Int, a < b
  PROVE  a * d + d <= b * d
<1>1. PICK k \in Nat : b = a + 1 + k
  <2>1. b - a - 1 \in Nat /\ b = a + 1 + (b - a - 1)
    OBVIOUS
  <2> QED
    BY <2>1
<1>2. k * d \in Nat
  OBVIOUS
<1>3. b * d = a * d + d + k * d
  BY <1>1
<1> QED
  BY <1>2, <1>3

\* Division undoes a shift, and the rest is what was put into the free bits.
LEMMA Shifted ==
  ASSUME NEW d \in Nat \ {0}, NEW q \in Nat, NEW s \in 0..(d - 1)
  PROVE  (q * d + s) \div d = q /\ (q * d + s) % d = s
<1> DEFINE x == q * d + s
<1>1. x \in Nat
  OBVIOUS
<1>2. /\ x \div d \in Int /\ x % d \in 0..(d - 1)
      /\ x = (x \div d) * d + (x % d)
  <2> HIDE DEF x
  <2> QED
    BY <1>1
<1> DEFINE p == x \div d
           t == x % d
<1>3. q * d + s = p * d + t /\ p \in Int /\ t \in 0..(d - 1)
  BY <1>2
<1> HIDE DEF x, p, t
<1>4. q * d \in Int /\ p * d \in Int
  BY <1>3
<1>5. ~ (q < p)
  <2>1. q < p => q * d + d <= p * d
    BY <1>3, Apart
  <2> QED
    BY <1>3, <1>4, <2>1
<1>6. ~ (p < q)
  <2>1. p < q => p * d + d <= q * d
    BY <1>3, Apart
  <2> QED
    BY <1>3, <1>4, <2>1
<1>7. p = q
  BY <1>3, <1>5, <1>6
<1>8. t = s
  BY <1>3, <1>4, <1>7
<1> QED
  BY <1>7, <1>8 DEF p, t, x

\* An id has the parts it was made of.
LEMMA EncodeInjective ==
  ASSUME NEW ms \in Nat, NEW n \in Nodes, NEW s \in 0..MaxSeqNo
  PROVE  /\ Encode(ms, n, s) \in Nat
         /\ NodeIn(Encode(ms, n, s)) = n
         /\ \A ms2 \in Nat, n2 \in Nodes, s2 \in 0..MaxSeqNo :
              Encode(ms, n, s) = Encode(ms2, n2, s2) =>
                ms = ms2 /\ n = n2 /\ s = s2
<1> DEFINE D == MaxSeqNo + 1
           E == MaxNode + 1
           H(a, b) == a * E + b
<1>1. /\ D \in Nat \ {0} /\ E \in Nat \ {0}
      /\ 0..MaxSeqNo = 0..(D - 1) /\ Nodes = 0..(E - 1)
  BY IdsAssumption DEF Nodes
<1>2. ASSUME NEW a \in Nat, NEW b \in Nodes, NEW c \in 0..MaxSeqNo
      PROVE  /\ H(a, b) \in Nat /\ Encode(a, b, c) = H(a, b) * D + c
             /\ H(a, b) \div E = a /\ H(a, b) % E = b
  <2>1. a * E \in Nat /\ b \in 0..(E - 1)
    BY <1>1
  <2>2. H(a, b) \in Nat /\ Encode(a, b, c) = H(a, b) * D + c
    BY <2>1 DEF Encode
  <2>3. H(a, b) \div E = a /\ H(a, b) % E = b
    BY <1>1, <2>1, Shifted
  <2> QED
    BY <2>2, <2>3
<1> HIDE DEF H
<1>3. ASSUME NEW a \in Nat, NEW b \in Nodes, NEW c \in 0..MaxSeqNo
      PROVE  /\ Encode(a, b, c) \in Nat
             /\ Encode(a, b, c) \div D = H(a, b) /\ Encode(a, b, c) % D = c
  <2>1. H(a, b) \in Nat /\ c \in 0..(D - 1) /\ Encode(a, b, c) = H(a, b) * D + c
    BY <1>1, <1>2
  <2>2. H(a, b) * D \in Nat
    BY <1>1, <2>1
  <2>3. (H(a, b) * D + c) \div D = H(a, b) /\ (H(a, b) * D + c) % D = c
    <3> HIDE DEF D
    <3> QED
      BY <1>1, <2>1, Shifted
  <2>4. H(a, b) * D + c \in Nat
    BY <2>2
  <2> HIDE DEF D
  <2> QED
    BY <2>1, <2>3, <2>4
<1>4. NodeIn(Encode(ms, n, s)) = n
  BY <1>2, <1>3 DEF NodeIn
<1>5. ASSUME NEW ms2 \in Nat, NEW n2 \in Nodes, NEW s2 \in 0..MaxSeqNo,
             Encode(ms, n, s) = Encode(ms2, n2, s2)
      PROVE  ms = ms2 /\ n = n2 /\ s = s2
  <2>1. H(ms, n) = H(ms2, n2) /\ s = s2
    BY <1>3, <1>5
  <2> QED
    BY <1>2, <2>1
<1> QED
  BY <1>3, <1>4, <1>5

\* Every variable of the generators holds values of its type.
IdsTyped ==
  /\ clock \in [Processes -> Nat \ {0}]
  /\ lastMs \in [Processes -> Nat]
  /\ sequence \in [Processes -> 0..MaxSeqNo]
  /\ spinning \subseteq Processes
  /\ newest \in [Nodes -> Nat]
  /\ lapsed \subseteq Nodes

\* A generator is past the ids of its node, if the node is its own and no restart
\* has set it behind them.
Past(ms, n, seq) ==
  /\ ms <= newest[n]
  /\ \A p \in Processes :
       NodeOf[p] = n /\ n \notin lapsed \cup Shared /\ lastMs[p] # 0 =>
         \/ ms < lastMs[p]
         \/ ms = lastMs[p] /\ (seq <= sequence[p] \/ p \in spinning)

\* The ids handed out have parts, and the generators are past them.
Issued ==
  \A id \in issued : \E ms \in Nat, n \in Nodes, seq \in 0..MaxSeqNo :
    id = Encode(ms, n, seq) /\ Past(ms, n, seq)

\* The strengthening of UniqueIds that every step preserves.
IdsInv == IdsTyped /\ Issued /\ UniqueIds

\* An id that a generator gives is new, or its node is shared or has lapsed.
LEMMA GiveKeepsIds ==
  ASSUME IdsInv, NEW p \in Processes, NEW ms \in Nat, NEW seq \in 0..MaxSeqNo,
         Give(p, ms, seq),
         ms # 0,
         \/ /\ ms > lastMs[p]
            /\ spinning' = spinning \ {p}
         \/ /\ ms = lastMs[p] /\ seq > sequence[p] /\ p \notin spinning
            /\ spinning' = spinning
  PROVE  IdsInv'
<1> DEFINE node == NodeOf[p]
           new  == Encode(ms, node, seq)
<1>1. node \in Nodes
  BY IdsAssumption DEF Nodes
<1>2. /\ lastMs' = [lastMs EXCEPT ![p] = ms] /\ sequence' = [sequence EXCEPT ![p] = seq]
      /\ issued' = issued \cup {new}
      /\ repeated' = IF new \in issued THEN repeated \cup {new} ELSE repeated
      /\ newest' = [newest EXCEPT ![node] = IF ms > newest[node] THEN ms ELSE newest[node]]
      /\ lapsed' = IF lastMs[p] = 0 /\ ms <= newest[node] THEN lapsed \cup {node}
                   ELSE lapsed
      /\ clock' = clock
  BY DEF Give
<1>3. /\ clock \in [Processes -> Nat \ {0}] /\ lastMs \in [Processes -> Nat]
      /\ sequence \in [Processes -> 0..MaxSeqNo] /\ MaxSeqNo \in Nat
      /\ newest \in [Nodes -> Nat] /\ lapsed \subseteq Nodes /\ spinning \subseteq Processes
  BY IdsAssumption DEF IdsInv, IdsTyped
<1>4. IdsTyped'
  BY <1>1, <1>2, <1>3 DEF IdsTyped
<1>5. ASSUME NEW a \in Nat, NEW n \in Nodes, NEW b \in 0..MaxSeqNo, Past(a, n, b)
      PROVE  /\ Past(a, n, b)'
             /\ n = node /\ a = ms /\ b = seq => node \in lapsed' \cup Shared
  <2>1. /\ a <= newest[n] /\ newest[n] \in Nat
        /\ \A q \in Processes :
             NodeOf[q] = n /\ n \notin lapsed \cup Shared /\ lastMs[q] # 0 =>
               \/ a < lastMs[q]
               \/ a = lastMs[q] /\ (b <= sequence[q] \/ q \in spinning)
    BY <1>3, <1>5 DEF Past
  <2>2. a <= newest'[n]
    BY <1>1, <1>2, <1>3, <2>1
  <2>3. CASE n = node /\ node \notin lapsed' \cup Shared
    <3>1. \A q \in Processes : NodeOf[q] = n => q = p
      BY <1>1, <2>3 DEF Shared
    <3>2. node \notin lapsed \cup Shared
      BY <1>2, <2>3
    <3>3. CASE lastMs[p] = 0
      <4>1. ms > newest[node]
        BY <1>2, <1>3, <1>1, <2>3, <3>3
      <4>2. a < ms
        BY <1>1, <1>3, <2>1, <2>3, <4>1
      <4>3. lastMs'[p] = ms
        BY <1>2, <1>3
      <4> QED
        BY <2>2, <3>1, <4>2, <4>3 DEF Past
    <3>4. CASE lastMs[p] # 0
      <4>1. \/ a < lastMs[p]
            \/ a = lastMs[p] /\ (b <= sequence[p] \/ p \in spinning)
        BY <2>1, <2>3, <3>2, <3>4
      <4>2. lastMs'[p] = ms /\ sequence'[p] = seq /\ lastMs[p] \in Nat
            /\ sequence[p] \in Nat /\ b \in Nat /\ seq \in Nat
        BY <1>2, <1>3
      <4>3. a < ms \/ (a = ms /\ b < seq)
        BY <4>1, <4>2
      <4> QED
        BY <2>2, <3>1, <4>2, <4>3 DEF Past
    <3> QED
      BY <3>3, <3>4
  <2>4. CASE n # node
    <3>1. \A q \in Processes : NodeOf[q] = n => q # p
      BY <2>4
    <3>2. \A q \in Processes : NodeOf[q] = n =>
            lastMs'[q] = lastMs[q] /\ sequence'[q] = sequence[q]
              /\ (q \in spinning' <=> q \in spinning)
      BY <1>2, <1>3, <3>1
    <3>3. n \in lapsed' <=> n \in lapsed
      BY <1>2, <2>4
    <3>4. Shared' = Shared
      BY DEF Shared, Nodes
    <3> QED
      BY <2>1, <2>2, <2>4, <3>2, <3>3, <3>4 DEF Past
  <2>5. CASE n = node /\ node \in lapsed' \cup Shared
    <3>1. Shared' = Shared
      BY DEF Shared, Nodes
    <3> QED
      BY <2>2, <2>5, <3>1 DEF Past
  <2> QED
    BY <2>3, <2>4, <2>5
<1>6. Past(ms, node, seq)'
  <2>1. ms <= newest'[node]
    BY <1>1, <1>2, <1>3
  <2>2. ASSUME NEW q \in Processes, NodeOf[q] = node,
               node \notin lapsed' \cup Shared'
        PROVE  ms = lastMs'[q] /\ seq <= sequence'[q]
    <3>1. q = p
      BY <1>1, <2>2 DEF Shared
    <3> QED
      BY <1>2, <1>3, <3>1
  <2> QED
    BY <2>1, <2>2 DEF Past
<1> HIDE DEF node
<1>7. Issued'
  <2>1. ASSUME NEW id \in issued'
        PROVE  \E a \in Nat, n \in Nodes, b \in 0..MaxSeqNo :
                 id = Encode(a, n, b) /\ Past(a, n, b)'
    <3>1. CASE id \in issued
      <4>1. PICK a \in Nat, n \in Nodes, b \in 0..MaxSeqNo :
              id = Encode(a, n, b) /\ Past(a, n, b)
        BY <3>1 DEF IdsInv, Issued
      <4>2. Past(a, n, b)'
        BY <1>5, <4>1
      <4> QED
        BY <4>1, <4>2
    <3>2. CASE id = new
      BY <1>1, <1>6, <3>2
    <3> QED
      BY <1>2, <3>1, <3>2
  <2> QED
    BY <2>1 DEF Issued, Nodes, Encode
<1>8. new \in issued => NodeIn(new) \in lapsed' \cup Shared
  <2>1. ASSUME new \in issued PROVE node \in lapsed' \cup Shared
    <3>1. PICK a \in Nat, n \in Nodes, b \in 0..MaxSeqNo :
            new = Encode(a, n, b) /\ Past(a, n, b)
      BY <2>1 DEF IdsInv, Issued
    <3>2. a = ms /\ n = node /\ b = seq
      BY <1>1, <3>1, EncodeInjective
    <3> QED
      BY <1>5, <3>1, <3>2
  <2>2. NodeIn(new) = node
    BY <1>1, EncodeInjective
  <2> QED
    BY <2>1, <2>2
<1>9. UniqueIds'
  <2>1. lapsed \subseteq lapsed' /\ Shared' = Shared
    BY <1>2 DEF Shared, Nodes
  <2>2. ASSUME NEW id \in repeated' PROVE NodeIn(id) \in lapsed' \cup Shared
    BY <1>2, <1>8, <2>1 DEF IdsInv, UniqueIds
  <2> QED
    BY <2>1, <2>2 DEF UniqueIds, NodeIn
<1> QED
  BY <1>4, <1>7, <1>9 DEF IdsInv

\* NextID keeps ids unique.
LEMMA NextIDKeepsIds ==
  ASSUME IdsInv, NEW p \in Processes, NextID(p)
  PROVE  IdsInv'
<1>1. /\ clock[p] \in Nat \ {0} /\ lastMs[p] \in Nat /\ sequence[p] \in 0..MaxSeqNo
      /\ MaxSeqNo \in Nat
  BY IdsAssumption DEF IdsInv, IdsTyped
<1>2. CASE GiveFirst(p)
  <2>1. clock[p] > lastMs[p] /\ clock[p] # 0 /\ 0 \in 0..MaxSeqNo
    BY <1>1, <1>2 DEF GiveFirst
  <2> QED
    BY <1>1, <1>2, <2>1, GiveKeepsIds DEF GiveFirst
<1>3. CASE GiveNext(p)
  <2>1. /\ sequence[p] + 1 \in 0..MaxSeqNo /\ sequence[p] + 1 > sequence[p]
        /\ p \notin spinning
    BY <1>1, <1>3 DEF GiveNext
  <2>2. lastMs[p] # 0 /\ Give(p, lastMs[p], sequence[p] + 1) /\ spinning' = spinning
    BY <1>1, <1>3 DEF GiveNext
  <2> QED
    BY <1>1, <2>1, <2>2, GiveKeepsIds
<1> QED
  BY <1>2, <1>3 DEF NextID

\* Clocks, waits and restarts hand out nothing and only take claims back.
LEMMA OthersKeepIds ==
  ASSUME IdsInv, NEW p \in Processes,
         Exhausted(p) \/ TickClock(p) \/ SetBack(p) \/ RestartGenerator(p)
  PROVE  IdsInv'
<1>1. MaxSeqNo \in Nat /\ UNCHANGED idHistory
  BY IdsAssumption DEF Exhausted, TickClock, SetBack, RestartGenerator
<1>2. IdsTyped'
  <2>1. CASE Exhausted(p)
    BY <1>1, <2>1 DEF Exhausted, idHistory, IdsInv, IdsTyped
  <2>2. CASE TickClock(p)
    BY <1>1, <2>2 DEF TickClock, idHistory, generator, IdsInv, IdsTyped
  <2>3. CASE SetBack(p)
    BY <1>1, <2>3 DEF SetBack, idHistory, generator, IdsInv, IdsTyped
  <2>4. CASE RestartGenerator(p)
    BY <1>1, <2>4 DEF RestartGenerator, idHistory, IdsInv, IdsTyped
  <2> QED
    BY <2>1, <2>2, <2>3, <2>4
<1>3. ASSUME NEW a \in Nat, NEW n \in Nodes, NEW b \in 0..MaxSeqNo, Past(a, n, b)
      PROVE  Past(a, n, b)'
  <2>1. Shared' = Shared /\ newest' = newest /\ lapsed' = lapsed
    BY <1>1 DEF Shared, Nodes, idHistory
  <2>2. CASE Exhausted(p)
    <3>1. lastMs' = lastMs /\ spinning' = spinning \cup {p}
          /\ sequence' = [sequence EXCEPT ![p] = 0]
      BY <2>2 DEF Exhausted
    <3> QED
      BY <1>3, <2>1, <3>1 DEF Past, IdsInv, IdsTyped
  <2>3. CASE TickClock(p) \/ SetBack(p)
    BY <1>3, <2>1, <2>3 DEF TickClock, SetBack, generator, Past
  <2>4. CASE RestartGenerator(p)
    <3>1. /\ lastMs' = [lastMs EXCEPT ![p] = 0]
          /\ sequence' = [sequence EXCEPT ![p] = 0]
          /\ spinning' = spinning \ {p}
      BY <2>4 DEF RestartGenerator
    <3> QED
      BY <1>3, <2>1, <3>1 DEF Past, IdsInv, IdsTyped
  <2> QED
    BY <2>2, <2>3, <2>4
<1>4. Issued'
  <2>1. ASSUME NEW id \in issued
        PROVE  \E a \in Nat, n \in Nodes, b \in 0..MaxSeqNo :
                 id = Encode(a, n, b) /\ Past(a, n, b)'
    <3>1. PICK a \in Nat, n \in Nodes, b \in 0..MaxSeqNo :
            id = Encode(a, n, b) /\ Past(a, n, b)
      BY DEF IdsInv, Issued
    <3> QED
      BY <1>3, <3>1
  <2> QED
    BY <1>1, <2>1 DEF Issued, Nodes, Encode, idHistory
<1>5. UniqueIds'
  BY <1>1 DEF IdsInv, UniqueIds, NodeIn, Shared, Nodes, idHistory
<1> QED
  BY <1>2, <1>4, <1>5 DEF IdsInv

\* The invariant speaks of the variables of the generators only.
LEMMA IdsStutter ==
  ASSUME IdsInv, UNCHANGED idVars
  PROVE  IdsInv'
BY DEF idVars, generator, idHistory, IdsInv, IdsTyped, Issued, Past, UniqueIds, NodeIn,
       Shared, Nodes, Encode

\* Every step of a release keeps the ids unique.
LEMMA FleetKeepsIds ==
  ASSUME IdsInv, [FleetNext]_fleetVars
  PROVE  IdsInv'
<1>1. CASE UNCHANGED idVars
  BY <1>1, IdsStutter
<1>2. ASSUME NEW r \in Requests, PresignDraw(r) PROVE IdsInv'
  BY <1>1, <1>2, NextIDKeepsIds DEF PresignDraw
<1>3. ASSUME NEW r \in Requests,
             PresignCreate(r) \/ PresignSign(r) \/ CommitLoad(r) \/ CommitSave(r)
               \/ Abort(r)
      PROVE  IdsInv'
  BY <1>1, <1>3 DEF PresignCreate, PresignSign, CommitLoad, CommitSave, Abort
<1>4. CASE Surroundings
  BY <1>4, OthersKeepIds DEF Surroundings
<1> QED
  BY <1>1, <1>2, <1>3, <1>4 DEF FleetNext, fleetVars, RollOut, MediaNext

\* The generators of a table repeat no id, across processes, full milliseconds and
\* clocks that are set back, but for nodes that are shared or lapsed in a restart.
THEOREM IdsAreUnique == FleetSpec => []UniqueIds
<1>1. FleetInit => IdsInv
  BY IdsAssumption
     DEF FleetInit, IdsInit, IdsInv, IdsTyped, Issued, UniqueIds, Nodes
<1>2. IdsInv => UniqueIds
  BY DEF IdsInv
<1>3. IdsInv /\ [FleetNext]_fleetVars => IdsInv'
  BY FleetKeepsIds
<1> QED
  BY <1>1, <1>2, <1>3, PTL DEF FleetSpec
=============================================================================
