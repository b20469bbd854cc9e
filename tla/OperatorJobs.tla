---------------------------- MODULE OperatorJobs ----------------------------
(***************************************************************************)
(* The operator's background jobs (seed, enrich, score): the in-memory     *)
(* table _jobs of api/app.py and the executor with one worker of           *)
(* api/jobs.py.  A job in the table may be queued, forgotten while queued, *)
(* or reported failed while it still runs; a restart forgets everything.   *)
(***************************************************************************)
EXTENDS Integers, Sequences, FiniteSets

CONSTANTS
    OpJobs,        \* POST /seed, /enrich/signals, /score/brands: numbered as they come
    OpKinds,       \* their kinds
    OpQueueMax,    \* OPERATOR_JOB_QUEUE_MAX
    OpStale,       \* OPERATOR_JOB_STALE_SECONDS, in ticks
    OpKeep         \* OPERATOR_JOB_KEEP_SECONDS, in ticks

ASSUME OperatorJobsAssumption ==
    /\ OpQueueMax \in Nat \ {0}
    /\ OpStale \in Nat \ {0}
    /\ OpKeep \in Nat \ {0}
    /\ OpJobs \subseteq Nat

VARIABLES
    opTable,       \* _jobs
    opQueue,       \* the executor's queue
    opWorker,      \* the job its thread is in
    opAsked        \* opAsked[j]: the request has put j in the table, or has ended

operatorJobsVars == <<opTable, opQueue, opWorker, opAsked>>

Unknown == [status |-> "unknown"]
NoJob == -1
NotYet == -1
OpPending == {"queued", "running"}

\* Ages past the limit are told apart by nothing.
OpAges == 0 .. OpStale + 1
OpDone == NotYet .. OpKeep + 1

OpRow == [status : OpPending \cup {"done", "error"}, kind : OpKinds, age : OpAges, finished : OpDone]

OperatorJobsTypeOK ==
    /\ opTable \in [OpJobs -> OpRow \cup {Unknown}]
    /\ opQueue \in Seq(OpJobs) /\ Len(opQueue) <= OpQueueMax
    /\ opWorker \in OpJobs \cup {NoJob}
    /\ opAsked \in [OpJobs -> {"no", "stored", "yes"}]

OperatorJobsInit ==
    /\ opTable = [j \in OpJobs |-> Unknown]
    /\ opQueue = <<>>
    /\ opWorker = NoJob
    /\ opAsked = [j \in OpJobs |-> "no"]

Listed == {j \in OpJobs : opTable[j] # Unknown}

OpIsStale(row) == row.status \in OpPending /\ row.age > OpStale

\* _purge_jobs
Purged ==
    [j \in OpJobs |-> IF j \in Listed /\ opTable[j].finished > OpKeep THEN Unknown ELSE opTable[j]]

\* Mutant: a job that waits in the queue does not count.
BlocksRunning(row, kind) == row # Unknown /\ row.status = "running" /\ row.kind = kind /\ ~OpIsStale(row)

Blocks(row, kind) == row # Unknown /\ row.status \in OpPending /\ row.kind = kind /\ ~OpIsStale(row)

\* _start_operator_job, with _jobs_lock held: 409 while a job of the kind is at work.
OpStore(j, kind) ==
    /\ opAsked[j] = "no" /\ \A i \in OpJobs : i < j => opAsked[i] # "no"
    /\ IF \E i \in OpJobs : Blocks(Purged[i], kind)
         THEN /\ opTable' = Purged
              /\ opAsked' = [opAsked EXCEPT ![j] = "yes"]
         ELSE /\ opTable' = [Purged EXCEPT ![j] =
                               [status |-> "queued", kind |-> kind, age |-> 0, finished |-> NotYet]]
              /\ opAsked' = [opAsked EXCEPT ![j] = "stored"]
    /\ UNCHANGED <<opQueue, opWorker>>

\* submit; a full queue takes the job out of the table again (503).
OpSubmit(j) ==
    /\ opAsked[j] = "stored"
    /\ IF Len(opQueue) < OpQueueMax
         THEN opQueue' = Append(opQueue, j) /\ UNCHANGED opTable
         ELSE opTable' = [opTable EXCEPT ![j] = Unknown] /\ UNCHANGED opQueue
    /\ opAsked' = [opAsked EXCEPT ![j] = "yes"]
    /\ UNCHANGED opWorker

\* run(): a job that was forgotten meanwhile raises a KeyError and is not run.
OpBegin ==
    /\ opWorker = NoJob
    /\ opQueue # <<>>
    /\ LET j == Head(opQueue) IN
       IF j \in Listed
         THEN /\ opTable' = [opTable EXCEPT ![j].status = "running"]
              /\ opWorker' = j
         ELSE UNCHANGED <<opTable, opWorker>>
    /\ opQueue' = Tail(opQueue)
    /\ UNCHANGED opAsked

\* The job ends, its result and its time are written if it is still in the table.
OpEnd ==
    /\ opWorker # NoJob
    /\ \E result \in {"done", "error"} :
         opTable' = IF opWorker \in Listed
                      THEN [opTable EXCEPT ![opWorker].status = result, ![opWorker].finished = 0]
                      ELSE opTable
    /\ opWorker' = NoJob
    /\ UNCHANGED <<opQueue, opAsked>>

\* Mutant: a stale job is only reported, not ended, when it is still queued.
ReportedRunning(row) ==
    IF OpIsStale(row) /\ row.status = "running" THEN [row EXCEPT !.status = "error", !.finished = 0] ELSE row

Reported(row) == IF OpIsStale(row) THEN [row EXCEPT !.status = "error", !.finished = 0] ELSE row

\* _get_job: GET .../status/{job_id}, 404 when it is unknown.
OpPoll(j) ==
    /\ opTable' = [Purged EXCEPT ![j] = IF @ = Unknown THEN @ ELSE Reported(@)]
    /\ opTable' # opTable
    /\ UNCHANGED <<opQueue, opWorker, opAsked>>

OpTick ==
    /\ opTable' = [j \in OpJobs |->
         IF j \notin Listed THEN Unknown
         ELSE [opTable[j] EXCEPT !.age = IF @ > OpStale THEN @ ELSE @ + 1,
                                 !.finished = IF @ = NotYet \/ @ > OpKeep THEN @ ELSE @ + 1]]
    /\ opTable' # opTable
    /\ UNCHANGED <<opQueue, opWorker, opAsked>>

\* shutdown drops the queue, and the process with its table is gone.
OpRestart ==
    /\ Listed # {}
    /\ opTable' = [j \in OpJobs |-> Unknown]
    /\ opQueue' = <<>>
    /\ opWorker' = NoJob
    /\ opAsked' = [j \in OpJobs |-> IF opAsked[j] = "stored" THEN "yes" ELSE opAsked[j]]

OperatorJobsNext ==
    \/ \E j \in OpJobs : (\E kind \in OpKinds : OpStore(j, kind)) \/ OpSubmit(j) \/ OpPoll(j)
    \/ OpBegin \/ OpEnd \/ OpTick \/ OpRestart

\* The request goes on, time passes, the page of a job polls every two seconds,
\* and the worker takes the next job; a job may hang.
OperatorJobsFairness ==
    /\ \A j \in OpJobs : WF_operatorJobsVars(OpSubmit(j)) /\ WF_operatorJobsVars(OpPoll(j))
    /\ WF_operatorJobsVars(OpTick)
    /\ WF_operatorJobsVars(OpBegin)

OperatorJobsSpec == OperatorJobsInit /\ [][OperatorJobsNext]_operatorJobsVars

-----------------------------------------------------------------------------
Fresh(j) == opTable[j].status \in OpPending /\ ~OpIsStale(opTable[j])

\* Two jobs of one kind that are both young enough to count are never at work
\* together, however they were reported and restarted (app.py:1054-1063).
OneFreshJobPerKind ==
    \A i, j \in Listed : Fresh(i) /\ Fresh(j) /\ opTable[i].kind = opTable[j].kind => i = j

\* The page that polls a job sees it end, or be forgotten, even when it hangs or
\* never leaves the queue (app.py:1040-1051).
OperatorJobResolves ==
    \A j \in OpJobs : (j \in Listed /\ opTable[j].status \in OpPending)
                        ~> (j \notin Listed \/ opTable[j].status \notin OpPending)
=============================================================================
