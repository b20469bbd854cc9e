------------------------------ MODULE UserJobs ------------------------------
(***************************************************************************)
(* The background jobs a creator starts: description generations and AI    *)
(* rankings (api/app.py), the bounded executor that runs them and the      *)
(* sweep that reports dead ones (api/jobs.py), the locks and daily caps    *)
(* they take (api/usage_limits.py) and startup recovery (api/recovery.py). *)
(*                                                                         *)
(* A request is one HTTP call on its own thread.  It runs in steps, one    *)
(* per commit, and ends by putting a job in the executor's queue; the job  *)
(* carries the name of the request that queued it (the uuid of the code).  *)
(* Sessions are created with expire_on_commit=False, so a request or a job *)
(* works on the copy of the row it read (seen, cache) until it ends, and   *)
(* its UPDATEs write only the columns it changed (see Flush).              *)
(***************************************************************************)
EXTENDS UsageLimits, Sequences, FiniteSets

CONSTANTS
    Requests,    \* HTTP calls; each one is also the id of the job it queues
    Viewers,     \* those of them that only poll the status, again and again
    Tasks,       \* what a request may ask for
    None,        \* SQL NULL in a job_id column
    Paused,      \* rankings whose _AI_RANKINGS entry says paused
    Workers,     \* USER_JOB_WORKERS
    QueueMax,    \* USER_JOB_QUEUE_MAX
    Faults       \* which of the faults below happen in this instance

\* The lock names of JOB_KINDS name the job kinds.
Kinds == LockNames
Descriptions == Kinds \cap {"description:instagram", "description:youtube"}
Rankings == Kinds \cap {"ranking:v2", "ranking:v3"}

\* overrun:  a lock may pass the stale limit while its holder still works
\* database: a statement of a request, of release_lock or of recovery may fail
\* crash:    the API process may stop at any point
\* midnight: the UTC day may change
AllFaults == {"overrun", "database", "crash", "midnight"}

TaskSpace ==
    [op : {"generate"}, c : Creators, k : Descriptions]
        \cup [op : {"refresh"}, c : Creators, k : Rankings \ Paused]
        \cup [op : {"save", "draft", "view"}, c : Creators, k : {None}]

ASSUME UserJobsAssumption ==
    /\ LockNames \subseteq
         {"description:instagram", "description:youtube", "ranking:v2", "ranking:v3"}
    /\ Features = {"description_generation", "match_refresh"}
    /\ Viewers \subseteq Requests
    /\ Tasks \subseteq TaskSpace
    /\ Paused \subseteq Rankings
    /\ None \notin Requests \cup Kinds
    /\ Workers \in Nat \ {0}
    /\ QueueMax \in Nat \ {0}
    /\ Faults \subseteq AllFaults
    /\ IsFiniteSet(Requests)

VARIABLES
    row,         \* row[c][k]: the status columns of creator c for kind k
    queue,       \* the executor's queue of waiting jobs
    up,          \* the API process runs and has finished its startup
    task,        \* task[r]: what request r asks for
    pc,          \* pc[r]: the next step of request r
    seen,        \* seen[r]: the request's copy of its creator's row
    dead,        \* dead[r]: the kinds sweep_stale is about to fail
    held,        \* held[r]: the locks request r, then its job, took and not released
    charged,     \* charged[r]: the day of the daily use r was charged for
    job,         \* job[r]: the next step of the job r queued
    todo,        \* todo[r]: the rankings that job has still to run
    cache        \* cache[r]: that job's copy of the row it works on

reqVars == <<pc, seen, dead>>
jobVars == <<job, todo, cache>>
vars == <<uses, locks, row, queue, up, task, pc, seen, dead, held, charged, job, todo, cache>>

-----------------------------------------------------------------------------
Statuses == {"idle", "queued", "running", "completed", "failed"}
Pending == {"queued", "running"}
Errors == {"none", "stale", "restart", "busy", "error"}
Columns == [status : Statuses, job : Requests \cup {None}, err : Errors]

IdleColumns == [status |-> "idle", job |-> None, err |-> "none"]

IsPending(col) == col.status \in Pending

\* What an ORM flush of `new` stores when the session had read `old`: only the
\* columns whose value changed, over whatever the table holds by now.
Flush(db, old, new) ==
    [status |-> IF new.status # old.status THEN new.status ELSE db.status,
     job    |-> IF new.job # old.job THEN new.job ELSE db.job,
     err    |-> IF new.err # old.err THEN new.err ELSE db.err]

Stopped(col, message) == [col EXCEPT !.status = "failed", !.err = message]

\* What a paused ranking leaves.
Idle(col) == [col EXCEPT !.status = "idle"]

\* The columns a request writes when it queues the job r of kind k.
Queued(col, k, r) ==
    [status |-> "queued", job |-> IF k \in Descriptions THEN r ELSE col.job, err |-> "none"]

FeatureOf(k) == IF k \in Descriptions THEN "description_generation" ELSE "match_refresh"

\* The rankings a profile save re-runs.
Wanted == Rankings \ Paused

\* v2 goes first wherever both rankings are locked or run.
FirstRanking(ks) == IF "ranking:v2" \in ks THEN "ranking:v2" ELSE "ranking:v3"

Creator(r) == task[r].c
Kind(r) == task[r].k
Op(r) == task[r].op

RequestSteps == {"start", "sweep", "sweepwrite", "lock", "charge", "queue", "submit", "restore",
                 "refund", "unlock", "write", "markfailed", "respond", "respondwrite", "done"}

JobSteps == {"none", "waiting", "signals", "start", "loaded", "working", "release", "over"}

\* A worker thread is inside the job.
OnWorker(r) == job[r] \in {"signals", "start", "loaded", "working", "release"}

HasRoom == Len(queue) < QueueMax

WriteRow(c, k, col) == row' = [row EXCEPT ![c][k] = col]

-----------------------------------------------------------------------------
TypeOK ==
    /\ UsageTypeOK
    /\ row \in [Creators -> [Kinds -> Columns]]
    /\ queue \in Seq(Requests)
    /\ up \in BOOLEAN
    /\ task \in [Requests -> Tasks]
    /\ pc \in [Requests -> RequestSteps]
    /\ seen \in [Requests -> [Kinds -> Columns]]
    /\ dead \in [Requests -> SUBSET Kinds]
    /\ held \in [Requests -> SUBSET Kinds]
    /\ charged \in [Requests -> {"no", "today", "before"}]
    /\ job \in [Requests -> JobSteps]
    /\ todo \in [Requests -> SUBSET Rankings]
    /\ cache \in [Requests -> Columns]

Init ==
    /\ UsageInit
    /\ row = [c \in Creators |-> [k \in Kinds |-> IdleColumns]]
    /\ queue = <<>>
    /\ up = TRUE
    /\ task \in {t \in [Requests -> Tasks] : \A r \in Requests : t[r].op = "view" <=> r \in Viewers}
    /\ pc = [r \in Requests |-> "start"]
    /\ seen = [r \in Requests |-> [k \in Kinds |-> IdleColumns]]
    /\ dead = [r \in Requests |-> {}]
    /\ held = [r \in Requests |-> {}]
    /\ charged = [r \in Requests |-> "no"]
    /\ job = [r \in Requests |-> "none"]
    /\ todo = [r \in Requests |-> {}]
    /\ cache = [r \in Requests |-> IdleColumns]

-----------------------------------------------------------------------------
(* Requests: reading the row, and sweep_stale on the copy that was read.   *)

Closed == [k \in Kinds |-> IdleColumns]

\* The request goes on with this copy of the row; one that ends closes its session.
GoTo(r, step, copy) ==
    /\ pc' = [pc EXCEPT ![r] = step]
    /\ seen' = [seen EXCEPT ![r] = IF step \in {"start", "done"} THEN Closed ELSE copy]

\* The request reads its creator's row into its session.
Load(r) ==
    /\ up
    /\ pc[r] = "start"
    /\ GoTo(r, "sweep", row[Creator(r)])
    /\ UNCHANGED <<uses, locks, row, queue, up, task, dead, held, charged, jobVars>>

\* A job is pending that the handler does not compete with.
Busy(r, copy) ==
    \/ Op(r) = "generate" /\ IsPending(copy[Kind(r)]) /\ copy[Kind(r)].job # None
    \/ Op(r) = "refresh" /\ IsPending(copy[Kind(r)])
    \/ Op(r) \in {"save", "draft"} /\ \E k \in Descriptions : IsPending(copy[k])

\* What the handler does with the columns it has after its sweep: answer with
\* the job already running, refuse the save (409), or go on to queue a job.
AfterSweep(r, copy) ==
    IF Op(r) = "view" THEN "start"
    ELSE IF Busy(r, copy) THEN IF Op(r) = "refresh" THEN "respond" ELSE "done"
    ELSE IF Op(r) = "draft" THEN "write" ELSE "lock"

\* sweep_stale reads active_locks: a pending kind of the copy whose lock is
\* missing or too old is taken for dead.
Suspects(r) == {k \in Kinds : IsPending(seen[r][k]) /\ ~Alive(Creator(r), k)}

Sweep(r, step, writestep, next) ==
    /\ pc[r] = step
    /\ dead' = [dead EXCEPT ![r] = Suspects(r)]
    /\ GoTo(r, IF Suspects(r) = {} THEN next ELSE writestep, seen[r])
    /\ UNCHANGED <<uses, locks, row, queue, up, task, held, charged, jobVars>>

\* ... and writes "failed" over whatever the row says by now.
SweptCopy(r) ==
    [k \in Kinds |-> IF k \in dead[r] THEN Stopped(seen[r][k], "stale") ELSE seen[r][k]]

SweepWrite(r, writestep, next) ==
    /\ pc[r] = writestep
    /\ row' = [row EXCEPT ![Creator(r)] = [k \in Kinds |-> Flush(@[k], seen[r][k], SweptCopy(r)[k])]]
    /\ dead' = [dead EXCEPT ![r] = {}]
    /\ GoTo(r, next, SweptCopy(r))
    /\ UNCHANGED <<uses, locks, queue, up, task, held, charged, jobVars>>

\* The sweep at the start of every handler ...
SweepFirst(r) == Sweep(r, "sweep", "sweepwrite", AfterSweep(r, seen[r]))
SweepFirstWrite(r) == SweepWrite(r, "sweepwrite", AfterSweep(r, SweptCopy(r)))

\* ... and the one of _ai_matches_response, whose query returns the copy that
\* the refreshing request already holds.
SweepResponse(r) == Sweep(r, "respond", "respondwrite", "done")
SweepResponseWrite(r) == SweepWrite(r, "respondwrite", "done")

-----------------------------------------------------------------------------
(* Requests: taking the locks, the charge and the place in the queue.      *)

\* release_lock; a database error is swallowed and leaves the row behind.
Unlocked(r) ==
    /\ \/ Release(Creator(r), held[r])
       \/ "database" \in Faults /\ UNCHANGED locks
    /\ held' = [held EXCEPT ![r] = {}]

\* generate_my_creator_description and _refresh_ai_matches: ensure_room (503),
\* then the lock.  A generation that does not get it is refused (409), a
\* refresh answers with the matches it has.
TakeLock(r) ==
    /\ pc[r] = "lock"
    /\ Op(r) \in {"generate", "refresh"}
    /\ \/ /\ ~HasRoom
          /\ GoTo(r, "done", seen[r])
          /\ UNCHANGED <<locks, held>>
       \/ /\ HasRoom
          /\ Acquire(Creator(r), Kind(r))
          /\ held' = [held EXCEPT ![r] = {Kind(r)}]
          /\ GoTo(r, "charge", seen[r])
       \/ /\ HasRoom
          /\ ~Available(Creator(r), Kind(r))
          /\ GoTo(r, IF Op(r) = "generate" THEN "done" ELSE "respond", seen[r])
          /\ UNCHANGED <<locks, held>>
    /\ UNCHANGED <<uses, row, queue, up, task, dead, charged, jobVars>>

\* _try_ranking_locks: all of them or none, one statement each.
TakeRankingLocks(r) ==
    /\ pc[r] = "lock"
    /\ Op(r) = "save"
    /\ \/ /\ (held[r] = {} /\ ~HasRoom) \/ Wanted = {}
          /\ GoTo(r, "write", seen[r])
          /\ UNCHANGED <<locks, held>>
       \/ /\ held[r] # {} \/ HasRoom
          /\ Wanted \ held[r] # {}
          /\ LET k == FirstRanking(Wanted \ held[r]) IN
               \/ /\ Acquire(Creator(r), k)
                  /\ held' = [held EXCEPT ![r] = @ \cup {k}]
                  /\ GoTo(r, IF held[r] \cup {k} = Wanted THEN "write" ELSE "lock", seen[r])
               \/ /\ ~Available(Creator(r), k)
                  /\ Unlocked(r)
                  /\ GoTo(r, "write", seen[r])
    /\ UNCHANGED <<uses, row, queue, up, task, dead, charged, jobVars>>

\* consume, or its 403 / 429 or database error with the lock given back.
Charge(r) ==
    /\ pc[r] = "charge"
    /\ LET f == FeatureOf(Kind(r)) IN
         \/ /\ Consume(Creator(r), f)
            /\ charged' = [charged EXCEPT ![r] = "today"]
            /\ GoTo(r, "queue", seen[r])
         \/ /\ ~UnderCap(Creator(r), f) \/ "database" \in Faults
            /\ GoTo(r, "unlock", seen[r])
            /\ UNCHANGED <<uses, charged>>
    /\ UNCHANGED <<locks, row, queue, up, task, dead, held, jobVars>>

\* The row says "queued", with the new job's id for a description.
MarkQueued(r) ==
    /\ pc[r] = "queue"
    /\ LET c == Creator(r) k == Kind(r) IN
         WriteRow(c, k, Flush(row[c][k], seen[r][k], Queued(seen[r][k], k, r)))
    /\ GoTo(r, "submit", seen[r])
    /\ UNCHANGED <<uses, locks, queue, up, task, dead, held, charged, jobVars>>

\* upsert_my_creator_profile saves the payload (not modelled) with the ranking
\* columns, and refreshes its copy of the row from the table.
WriteProfile(r) ==
    /\ pc[r] = "write"
    /\ row' = [row EXCEPT ![Creator(r)] =
                 [k \in Kinds |-> IF k \in held[r]
                                    THEN Flush(@[k], seen[r][k], Queued(seen[r][k], k, r))
                                    ELSE @[k]]]
    /\ GoTo(r, IF held[r] = {} THEN "done" ELSE "submit", row'[Creator(r)])
    /\ UNCHANGED <<uses, locks, queue, up, task, dead, held, charged, jobVars>>

\* submit_user_job: put_nowait, or QueueFull.
SubmitJob(r) ==
    /\ pc[r] = "submit"
    /\ HasRoom
    /\ queue' = Append(queue, r)
    /\ job' = [job EXCEPT ![r] = "waiting"]
    /\ IF Op(r) = "refresh"
         THEN GoTo(r, "respond", [seen[r] EXCEPT ![Kind(r)] = Queued(@, Kind(r), r)])
         ELSE GoTo(r, "done", Closed)
    /\ UNCHANGED <<uses, locks, row, up, task, dead, held, charged, todo, cache>>

\* Mutant: QueueFull only gives the lock back.
SubmitFullForgets(r) ==
    /\ pc[r] = "submit"
    /\ ~HasRoom
    /\ GoTo(r, "unlock", seen[r])
    /\ UNCHANGED <<uses, locks, row, queue, up, task, dead, held, charged, jobVars>>

SubmitFull(r) ==
    /\ pc[r] = "submit"
    /\ ~HasRoom
    /\ GoTo(r, IF Op(r) = "save" THEN "unlock" ELSE "restore", seen[r])
    /\ UNCHANGED <<uses, locks, row, queue, up, task, dead, held, charged, jobVars>>

-----------------------------------------------------------------------------
(* Requests: undoing what was done when the queue was full after all.      *)

Restore(r) ==
    /\ pc[r] = "restore"
    /\ LET c == Creator(r) k == Kind(r) IN
         WriteRow(c, k, Flush(row[c][k], Queued(seen[r][k], k, r), seen[r][k]))
    /\ GoTo(r, "refund", seen[r])
    /\ UNCHANGED <<uses, locks, queue, up, task, dead, held, charged, jobVars>>

GiveBack(r) ==
    /\ pc[r] = "refund"
    /\ Refund(Creator(r), FeatureOf(Kind(r)))
    /\ charged' = [charged EXCEPT ![r] = "no"]
    /\ GoTo(r, "unlock", seen[r])
    /\ UNCHANGED <<locks, row, queue, up, task, dead, held, jobVars>>

Unlock(r) ==
    /\ pc[r] = "unlock"
    /\ Unlocked(r)
    /\ GoTo(r, IF Op(r) = "save" THEN "markfailed" ELSE "done", seen[r])
    /\ UNCHANGED <<uses, row, queue, up, task, dead, charged, jobVars>>

\* A profile save whose ranking found no place is saved; the rankings fail.
MarkFailed(r) ==
    /\ pc[r] = "markfailed"
    /\ row' = [row EXCEPT ![Creator(r)] =
                 [k \in Kinds |-> IF k \in Wanted
                                    THEN Flush(@[k], seen[r][k], Stopped(seen[r][k], "busy"))
                                    ELSE @[k]]]
    /\ GoTo(r, "done", seen[r])
    /\ UNCHANGED <<uses, locks, queue, up, task, dead, held, charged, jobVars>>

\* A statement raises (statement_timeout, lock_timeout, a lost connection): the
\* request ends with a 500 or 503 and undoes nothing.  Its locks, its charge and
\* the status it wrote stay; the locks of a job already queued are the job's.
Abort(r) ==
    /\ "database" \in Faults
    /\ \/ pc[r] \in {"sweep", "sweepwrite", "lock", "queue", "write", "restore", "refund",
                     "markfailed", "respond", "respondwrite"}
       \/ pc[r] = "submit" /\ Op(r) = "save"
    /\ GoTo(r, IF Op(r) = "view" THEN "start" ELSE "done", Closed)
    /\ dead' = [dead EXCEPT ![r] = {}]
    /\ held' = [held EXCEPT ![r] = IF job[r] = "none" THEN {} ELSE @]
    /\ UNCHANGED <<uses, locks, row, queue, up, task, charged, jobVars>>

-----------------------------------------------------------------------------
(* Jobs, on the executor's worker threads.                                 *)

\* The job goes on with this copy of the row; between two kinds it has none.
JobGoTo(r, step, copy) ==
    /\ job' = [job EXCEPT ![r] = step]
    /\ cache' = [cache EXCEPT ![r] = IF step \in {"loaded", "working"} THEN copy ELSE IdleColumns]

\* The kind the job works on now.
Current(r) == IF Op(r) = "generate" THEN Kind(r) ELSE FirstRanking(todo[r])

\* The job_id guard; a ranking has no job id and no guard.
Mine(r, col) == Current(r) \in Descriptions => col.job = r

\* A free worker takes the oldest waiting job.
Take ==
    /\ queue # <<>>
    /\ Cardinality({r \in Requests : OnWorker(r)}) < Workers
    /\ LET r == Head(queue) IN
         /\ JobGoTo(r, IF Op(r) = "save" THEN "signals" ELSE "start", IdleColumns)
         /\ todo' = [todo EXCEPT ![r] = IF Op(r) = "refresh" THEN {Kind(r)} ELSE {}]
    /\ queue' = Tail(queue)
    /\ UNCHANGED <<uses, locks, row, up, task, reqVars, held, charged>>

\* _run_creator_signals_job: the signals (their failure is swallowed), then
\* every ranking version.
Signals(r) ==
    /\ job[r] = "signals"
    /\ todo' = [todo EXCEPT ![r] = Rankings]
    /\ JobGoTo(r, IF Rankings = {} THEN "release" ELSE "start", IdleColumns)
    /\ UNCHANGED <<uses, locks, row, queue, up, task, reqVars, held, charged>>

\* The current kind is over: the next ranking, or the end of the job.
NextKind(r) ==
    /\ todo' = [todo EXCEPT ![r] = @ \ {Current(r)}]
    /\ JobGoTo(r, IF todo[r] \ {Current(r)} = {} THEN "release" ELSE "start", IdleColumns)

\* The job reads the row: not its job any more, paused, or work to do.
StartKind(r) ==
    /\ job[r] = "start"
    /\ LET c == Creator(r) k == Current(r) IN
         \/ /\ ~Mine(r, row[c][k])
            /\ NextKind(r)
            /\ UNCHANGED row
         \/ /\ k \in Paused
            /\ WriteRow(c, k, Idle(row[c][k]))
            /\ NextKind(r)
         \/ /\ Mine(r, row[c][k]) /\ k \notin Paused
            /\ JobGoTo(r, "loaded", row[c][k])
            /\ UNCHANGED <<row, todo>>
    /\ UNCHANGED <<uses, locks, queue, up, task, reqVars, held, charged>>

\* A description leaves the error column as it is, a ranking clears it.
Running(col, k) ==
    [col EXCEPT !.status = "running", !.err = IF k \in Rankings THEN "none" ELSE @]

MarkRunning(r) ==
    /\ job[r] = "loaded"
    /\ LET c == Creator(r) k == Current(r) new == Running(cache[r], k) IN
         /\ WriteRow(c, k, Flush(row[c][k], cache[r], new))
         /\ JobGoTo(r, "working", new)
    /\ UNCHANGED <<uses, locks, queue, up, task, reqVars, held, charged, todo>>

\* A description clears the error column when it ends, a ranking does not.
Completed(col, k) ==
    [col EXCEPT !.status = "completed", !.err = IF k \in Descriptions THEN "none" ELSE @]

\* The work succeeded.  The second query of the row returns the copy the
\* session already holds, so the job_id guard looks at the old job id, unless
\* saving the scraped Instagram posts rolled the session back.
Complete(r) ==
    /\ job[r] = "working"
    /\ LET c == Creator(r) k == Current(r) IN
         \E copy \in {cache[r]} \cup (IF k = "description:instagram" THEN {row[c][k]} ELSE {}) :
             IF Mine(r, copy)
               THEN WriteRow(c, k, Flush(row[c][k], copy, Completed(copy, k)))
               ELSE UNCHANGED row
    /\ NextKind(r)
    /\ UNCHANGED <<uses, locks, queue, up, task, reqVars, held, charged>>

\* The work raised, or no pooled connection was free (_fail_row_via_api_pool):
\* the row is read anew, and the guard of a description is effective.  With no
\* database at all nothing is recorded.
Fail(r) ==
    /\ job[r] \in {"start", "loaded", "working"}
    /\ LET c == Creator(r) k == Current(r) IN
         \/ IF Mine(r, row[c][k]) THEN WriteRow(c, k, Stopped(row[c][k], "error")) ELSE UNCHANGED row
         \/ "database" \in Faults /\ UNCHANGED row
    /\ NextKind(r)
    /\ UNCHANGED <<uses, locks, queue, up, task, reqVars, held, charged>>

\* The finally of submit_user_job.
EndJob(r) ==
    /\ job[r] = "release"
    /\ Unlocked(r)
    /\ JobGoTo(r, "over", IdleColumns)
    /\ UNCHANGED <<uses, row, queue, up, task, reqVars, charged, todo>>

-----------------------------------------------------------------------------
(* Time, crashes and restarts.                                             *)

\* Without the fault "overrun" no holder's lock reaches the stale limit.
Tick ==
    /\ \E c \in Creators, l \in LockNames : locks[c][l] # NoRow /\ locks[c][l] <= Stale
    /\ \/ "overrun" \in Faults
       \/ \A r \in Requests : \A l \in held[r] : locks[Creator(r)][l] + 1 < Stale
    /\ GrowOlder
    /\ UNCHANGED <<row, uses, queue, up, task, reqVars, held, charged, jobVars>>

NewDay ==
    /\ "midnight" \in Faults
    /\ ClearDay
    /\ charged' = [r \in Requests |-> IF charged[r] = "today" THEN "before" ELSE charged[r]]
    /\ UNCHANGED <<locks, row, queue, up, task, reqVars, held, jobVars>>

\* The process stops: requests, queue and workers are gone, the tables stay.
\* A graceful shutdown ends in the same state, after some running jobs ended.
Crash ==
    /\ "crash" \in Faults
    /\ up
    /\ up' = FALSE
    /\ queue' = <<>>
    /\ pc' = [r \in Requests |-> IF Op(r) = "view" \/ pc[r] = "start" THEN "start" ELSE "done"]
    /\ seen' = [r \in Requests |-> Closed]
    /\ dead' = [r \in Requests |-> {}]
    /\ held' = [r \in Requests |-> {}]
    /\ job' = [r \in Requests |-> IF job[r] = "none" THEN "none" ELSE "over"]
    /\ todo' = [r \in Requests |-> {}]
    /\ cache' = [r \in Requests |-> IdleColumns]
    /\ UNCHANGED <<uses, locks, row, task, charged>>

\* Mutant: recovery forgets the jobs that were only queued.
RecoveredRunning ==
    /\ row' = [c \in Creators |-> [k \in Kinds |->
                 IF row[c][k].status = "running" THEN Stopped(row[c][k], "restart") ELSE row[c][k]]]
    /\ locks' = [c \in Creators |-> [l \in LockNames |-> NoRow]]

\* The lifespan of the new process: recover_stuck_jobs, in one transaction; its
\* failure is swallowed and changes nothing.
Recovered ==
    /\ row' = [c \in Creators |-> [k \in Kinds |->
                 IF IsPending(row[c][k]) THEN Stopped(row[c][k], "restart") ELSE row[c][k]]]
    /\ locks' = [c \in Creators |-> [l \in LockNames |-> NoRow]]

Restart ==
    /\ ~up
    /\ up' = TRUE
    /\ Recovered \/ ("database" \in Faults /\ UNCHANGED <<row, locks>>)
    /\ UNCHANGED <<uses, queue, task, reqVars, held, charged, jobVars>>

-----------------------------------------------------------------------------
RequestStep(r) ==
    \/ SweepFirst(r) \/ SweepFirstWrite(r) \/ SweepResponse(r) \/ SweepResponseWrite(r)
    \/ TakeLock(r) \/ TakeRankingLocks(r) \/ Charge(r) \/ MarkQueued(r) \/ WriteProfile(r)
    \/ SubmitJob(r) \/ SubmitFull(r) \/ Restore(r) \/ GiveBack(r) \/ Unlock(r) \/ MarkFailed(r)

JobStep(r) ==
    \/ Signals(r) \/ StartKind(r) \/ MarkRunning(r) \/ Complete(r) \/ Fail(r) \/ EndJob(r)

Next ==
    \/ \E r \in Requests : Load(r) \/ RequestStep(r) \/ Abort(r) \/ JobStep(r)
    \/ Take \/ Tick \/ NewDay \/ Crash \/ Restart

Spec == Init /\ [][Next]_vars

\* The server keeps running: threads are scheduled, the interface keeps polling
\* the status (the "view" requests), the clock advances, the process is started
\* again.  Jobs may hang, and database errors do not hit every poll for ever.
HungSpec ==
    /\ Spec
    /\ WF_vars(Tick)
    /\ WF_vars(Restart)
    /\ \A r \in Requests : WF_vars(RequestStep(r)) /\ WF_vars(Load(r))
    /\ \A r \in Viewers : SF_vars(SweepFirst(r)) /\ SF_vars(SweepFirstWrite(r))

-----------------------------------------------------------------------------
(* Properties.                                                             *)

\* As long as no lock outlives JOB_LOCK_STALE_SECONDS in the hands of its
\* holder: a lock that a request or job believes it holds is in the table, and
\* no other request or job of that creator believes the same (usage_limits.py,
\* _try_ranking_locks, submit_user_job and all the undo paths together).
OneHolder ==
    \A r \in Requests :
        /\ \A l \in held[r] : locks[Creator(r)][l] # NoRow
        /\ \A s \in Requests \ {r} : Creator(s) = Creator(r) => held[r] \cap held[s] = {}

\* Under the same condition no two workers ever work on the same kind for the
\* same creator, whichever of the three endpoints queued them.
AtWork(r) == job[r] \in {"loaded", "working"} /\ Current(r) \notin Paused

OneRunPerKind ==
    \A r, s \in Requests :
        (r # s /\ AtWork(r) /\ AtWork(s) /\ Creator(r) = Creator(s)) => Current(r) # Current(s)

\* Under the same condition a description at work is the one its creator's row
\* names: the row's job_id cannot change under a running job, so the result it
\* stores is the one the creator asked for last.
AtWorkIsCurrent ==
    \A r \in Requests :
        (AtWork(r) /\ Op(r) = "generate") => row[Creator(r)][Kind(r)].job = r

\* Request or job r has still to write the outcome of kind k.
Owes(r, k) ==
    \/ /\ Kind(r) = k
       /\ pc[r] \in {"submit", "restore"} \/ job[r] \in {"waiting", "start", "loaded", "working"}
    \/ /\ Op(r) = "save"
       /\ k \in Wanted
       /\ \/ pc[r] \in {"submit", "unlock", "markfailed"}
          \/ job[r] \in {"waiting", "signals"}
          \/ k \in todo[r]

\* A row never says queued or running with nobody left to write its outcome:
\* every undo path, early return and failure path of the handlers and jobs, and
\* a restart, leaves a final status behind.
PendingHasWorker ==
    up => \A c \in Creators, k \in Kinds :
            IsPending(row[c][k]) => \E r \in Requests : Creator(r) = c /\ Owes(r, k)

\* feature_usage counts exactly the uses that were charged and not given back,
\* whichever requests overlap and wherever the process stops.
ChargedToday(c, f) ==
    {r \in Requests : charged[r] = "today" /\ Creator(r) = c /\ FeatureOf(Kind(r)) = f}

UsesAccounted ==
    \A c \in Creators, f \in Features : uses[c][f] = Cardinality(ChargedToday(c, f))

\* No creator is charged more than Cap[f] uses on one day ("Over the cap: HTTP
\* 429"), counted by what was charged and not by the counter.
CapHolds ==
    \A c \in Creators, f \in Features : Cardinality(ChargedToday(c, f)) <= Cap[f]

\* A request that has ended is charged only if it queued a job ("a job that
\* could not be queued must not count"), crashes aside.
ChargedForAJob ==
    \A r \in Requests : (pc[r] = "done" /\ charged[r] # "no") => job[r] # "none"

\* A status that says queued or running does not say so for ever: the job ends,
\* or its lock gets too old and the next poll reports it failed, or the process
\* restarts.
PendingResolves ==
    \A c \in Creators, k \in Kinds : IsPending(row[c][k]) ~> ~IsPending(row[c][k])

\* sweep_stale: "Report as failed ... every description / ranking of this
\* creator that says queued/running while its lock is gone": an outcome that a
\* job has stored is not turned into a failure.
OutcomeKept ==
    [][\A c \in Creators, k \in Kinds :
         row[c][k].status = "completed" => row'[c][k].status # "failed"]_vars

\* The guard "if not row or getattr(row, job_field) != job_id: return" before
\* the result is stored: a job whose id is no longer the row's stores nothing.
SupersededIsSilent ==
    [][\A r \in Requests :
         (job[r] = "working" /\ job'[r] = "release" /\ Op(r) = "generate"
            /\ row[Creator(r)][Kind(r)].job # r) => row' = row]_vars
=============================================================================
