--------------------------- MODULE UserJobsProofs ---------------------------
(* Theorems about UserJobs, for any creators, requests, tasks and bounds. *)
EXTENDS UserJobs, UsageLimitsProofs, FiniteSetTheorems

-----------------------------------------------------------------------------
(* What the constants, the tasks and the row operators are made of.        *)

LEMMA TaskType ==
    ASSUME NEW t \in Tasks
    PROVE  /\ t.op \in {"generate", "refresh", "save", "draft", "view"}
           /\ t.c \in Creators
           /\ t.op = "generate" => t.k \in Descriptions
           /\ t.op = "refresh" => t.k \in Rankings \ Paused
           /\ t.op \in {"save", "draft", "view"} => t.k = None
BY UserJobsAssumption DEF TaskSpace

LEMMA KindTypes ==
    /\ Descriptions \subseteq Kinds
    /\ Rankings \subseteq Kinds
    /\ Descriptions \cap Rankings = {}
    /\ Wanted \subseteq Rankings
    /\ None \notin Kinds
BY UserJobsAssumption DEF Descriptions, Rankings, Kinds, Wanted

LEMMA IdleType == IdleColumns \in Columns
BY DEF IdleColumns, Columns, Statuses, Errors

LEMMA FlushType ==
    ASSUME NEW db \in Columns, NEW old \in Columns, NEW new \in Columns
    PROVE  Flush(db, old, new) \in Columns
BY DEF Columns, Flush

LEMMA StoppedType ==
    ASSUME NEW col \in Columns, NEW message \in Errors
    PROVE  Stopped(col, message) \in Columns
BY DEF Columns, Statuses, Errors, Stopped

LEMMA QueuedType ==
    ASSUME NEW col \in Columns, NEW k \in Kinds, NEW r \in Requests
    PROVE  Queued(col, k, r) \in Columns
BY DEF Columns, Statuses, Errors, Queued

LEMMA RunningType ==
    ASSUME NEW col \in Columns, NEW k \in Kinds
    PROVE  Running(col, k) \in Columns
BY DEF Columns, Statuses, Errors, Running

LEMMA CompletedType ==
    ASSUME NEW col \in Columns, NEW k \in Kinds
    PROVE  Completed(col, k) \in Columns
BY DEF Columns, Statuses, Errors, Completed

LEMMA PausedType ==
    ASSUME NEW col \in Columns
    PROVE  Idle(col) \in Columns
BY DEF Columns, Statuses, Errors, Idle

LEMMA WriteRowType ==
    ASSUME row \in [Creators -> [Kinds -> Columns]],
           NEW c \in Creators, NEW k \in Kinds, NEW col \in Columns, WriteRow(c, k, col)
    PROVE  /\ row' \in [Creators -> [Kinds -> Columns]]
           /\ \A d \in Creators, m \in Kinds :
                row'[d][m] = IF d = c /\ m = k THEN col ELSE row[d][m]
<1>1. row' = [row EXCEPT ![c] = [row[c] EXCEPT ![k] = col]]
  BY DEF WriteRow
<1>2. [row[c] EXCEPT ![k] = col] \in [Kinds -> Columns]
  OBVIOUS
<1> QED BY <1>1, <1>2

LEMMA FeatureType == \A k : FeatureOf(k) \in Features
BY UserJobsAssumption DEF FeatureOf

LEMMA FirstRankingType ==
    ASSUME NEW ks \in SUBSET Rankings, ks # {}
    PROVE  FirstRanking(ks) \in ks
BY DEF FirstRanking, Rankings

-----------------------------------------------------------------------------
(* Type correctness.                                                       *)

\* Which requests reach which steps, and what a job has left to do there.
StepsOK ==
    \A r \in Requests :
        /\ pc[r] \in {"charge", "queue", "restore", "refund"} => Op(r) \in {"generate", "refresh"}
        /\ pc[r] = "submit" \/ held[r] # {} => Op(r) \in {"generate", "refresh", "save"}
        /\ job[r] \in {"start", "loaded", "working"} => (Op(r) = "generate" \/ todo[r] # {})

QueueOps ==
    \A i \in 1 .. Len(queue) : Op(queue[i]) \in {"generate", "refresh", "save"}

TypeInv == TypeOK /\ StepsOK /\ QueueOps

LEMMA TypeInit == Init => TypeInv
<1> SUFFICES ASSUME Init PROVE TypeInv
  OBVIOUS
<1> USE DEF Init
<1>1. UsageTypeOK
  BY UserJobsAssumption, UsageLimitsAssumption DEF UsageInit, UsageTypeOK, Ages, NoRow
<1>2. TypeOK
  BY <1>1, IdleType DEF TypeOK, RequestSteps, JobSteps, IdleColumns, Columns, Statuses, Errors
<1>3. StepsOK /\ QueueOps
  BY DEF StepsOK, QueueOps
<1> QED BY <1>2, <1>3 DEF TypeInv

LEMMA GoToType ==
    ASSUME TypeOK, NEW r \in Requests, NEW step \in RequestSteps, NEW copy \in [Kinds -> Columns],
           GoTo(r, step, copy)
    PROVE  pc' \in [Requests -> RequestSteps] /\ seen' \in [Requests -> [Kinds -> Columns]]
<1>1. Closed \in [Kinds -> Columns]
  BY IdleType, QueuedType DEF Closed, TypeOK, IdleColumns, Columns, Statuses, Errors
<1> QED BY <1>1 DEF TypeOK, GoTo

LEMMA JobGoToType ==
    ASSUME TypeOK, NEW r \in Requests, NEW step \in JobSteps, NEW copy \in Columns,
           JobGoTo(r, step, copy)
    PROVE  job' \in [Requests -> JobSteps] /\ cache' \in [Requests -> Columns]
<1>1. IdleColumns \in Columns
  BY DEF IdleColumns, Columns, Statuses, Errors
<1> QED BY <1>1 DEF TypeOK, JobGoTo

LEMMA SweptType ==
    ASSUME TypeOK, NEW r \in Requests
    PROVE  /\ SweptCopy(r) \in [Kinds -> Columns]
           /\ AfterSweep(r, seen[r]) \in RequestSteps
           /\ AfterSweep(r, SweptCopy(r)) \in RequestSteps
           /\ AfterSweep(r, seen[r]) \notin {"charge", "queue", "restore", "refund", "submit"}
           /\ AfterSweep(r, SweptCopy(r)) \notin {"charge", "queue", "restore", "refund", "submit"}
<1>1. \A k \in Kinds : Stopped(seen[r][k], "stale") \in Columns
  BY StoppedType DEF TypeOK, Errors
<1> QED BY <1>1 DEF TypeOK, SweptCopy, AfterSweep, RequestSteps

LEMMA UnlockedType ==
    ASSUME TypeOK, NEW r \in Requests, Unlocked(r)
    PROVE  /\ locks' \in [Creators -> [LockNames -> Ages \cup {NoRow}]]
           /\ held' \in [Requests -> SUBSET Kinds]
           /\ held'[r] = {}
           /\ \A s \in Requests \ {r} : held'[s] = held[s]
<1>1. Creator(r) \in Creators
  BY TaskType DEF TypeOK, Creator
<1>2. locks' \in [Creators -> [LockNames -> Ages \cup {NoRow}]]
  BY <1>1, ReleaseType DEF TypeOK, UsageTypeOK, Unlocked
<1> QED BY <1>2 DEF TypeOK, Unlocked

LEMMA TypeStep == TypeInv /\ [Next]_vars => TypeInv'
<1> SUFFICES ASSUME TypeInv, [Next]_vars PROVE TypeInv'
  OBVIOUS
<1> USE DEF TypeInv, jobVars, reqVars
<1>a. \A r \in Requests : Creator(r) \in Creators
  BY TaskType DEF TypeOK, Creator
<1>b. ASSUME NEW r \in Requests, Op(r) \in {"generate", "refresh"}
      PROVE  Kind(r) \in Kinds
  BY <1>b, TaskType, KindTypes DEF TypeOK, Op, Kind
<1>c. ASSUME NEW r \in Requests, job[r] \in {"start", "loaded", "working"}
      PROVE  /\ Current(r) \in Kinds
             /\ Op(r) # "generate" => Current(r) \in todo[r]
  BY <1>c, TaskType, KindTypes, FirstRankingType DEF TypeOK, StepsOK, Op, Kind, Current
<1>1. ASSUME NEW r \in Requests, Load(r) PROVE TypeInv'
  <2>1. row' \in [Creators -> [Kinds -> Columns]]
    BY <1>1 DEF TypeOK, Load
  <2>2. pc' \in [Requests -> RequestSteps] /\ seen' \in [Requests -> [Kinds -> Columns]]
    BY <1>1, GoToType, <1>a DEF TypeOK, RequestSteps, Load
  <2>3. UsageTypeOK'
    BY <1>1, <1>a DEF TypeOK, UsageTypeOK, Load
  <2>4. /\ dead' \in [Requests -> SUBSET Kinds] /\ held' \in [Requests -> SUBSET Kinds]
        /\ charged' \in [Requests -> {"no", "today", "before"}]
        /\ queue' \in Seq(Requests) /\ job' \in [Requests -> JobSteps]
    BY <1>1 DEF TypeOK, Load
  <2>5. TypeOK'
    BY <1>1, <2>1, <2>2, <2>3, <2>4 DEF TypeOK, Load
  <2>6. StepsOK' /\ QueueOps'
    BY <1>1 DEF TypeOK, StepsOK, QueueOps, Op, GoTo, Load
  <2> QED BY <2>5, <2>6
<1>2. ASSUME NEW r \in Requests, SweepFirst(r) PROVE TypeInv'
  <2>1. row' \in [Creators -> [Kinds -> Columns]]
    BY <1>2 DEF TypeOK, SweepFirst, Sweep
  <2>2. pc' \in [Requests -> RequestSteps] /\ seen' \in [Requests -> [Kinds -> Columns]]
    BY <1>2, GoToType, SweptType DEF TypeOK, RequestSteps, SweepFirst, Sweep
  <2>3. UsageTypeOK'
    BY <1>2, <1>a DEF TypeOK, UsageTypeOK, SweepFirst, Sweep, Suspects
  <2>4. /\ dead' \in [Requests -> SUBSET Kinds] /\ held' \in [Requests -> SUBSET Kinds]
        /\ charged' \in [Requests -> {"no", "today", "before"}]
        /\ queue' \in Seq(Requests) /\ job' \in [Requests -> JobSteps]
    BY <1>2 DEF TypeOK, SweepFirst, Sweep, Suspects
  <2>5. TypeOK'
    BY <1>2, <2>1, <2>2, <2>3, <2>4 DEF TypeOK, SweepFirst, Sweep
  <2>6. StepsOK' /\ QueueOps'
    BY <1>2, SweptType DEF TypeOK, StepsOK, QueueOps, Op, GoTo, SweepFirst, Sweep
  <2> QED BY <2>5, <2>6
<1>3. ASSUME NEW r \in Requests, SweepFirstWrite(r) PROVE TypeInv'
  <2>1. row' \in [Creators -> [Kinds -> Columns]]
    BY <1>3, <1>a, SweptType, FlushType DEF TypeOK, SweepFirstWrite, SweepWrite
  <2>2. pc' \in [Requests -> RequestSteps] /\ seen' \in [Requests -> [Kinds -> Columns]]
    BY <1>3, GoToType, SweptType DEF TypeOK, RequestSteps, SweepFirstWrite, SweepWrite
  <2>3. UsageTypeOK'
    BY <1>3, <1>a DEF TypeOK, UsageTypeOK, SweepFirstWrite, SweepWrite
  <2>4. /\ dead' \in [Requests -> SUBSET Kinds] /\ held' \in [Requests -> SUBSET Kinds]
        /\ charged' \in [Requests -> {"no", "today", "before"}]
        /\ queue' \in Seq(Requests) /\ job' \in [Requests -> JobSteps]
    BY <1>3 DEF TypeOK, SweepFirstWrite, SweepWrite
  <2>5. TypeOK'
    BY <1>3, <2>1, <2>2, <2>3, <2>4 DEF TypeOK, SweepFirstWrite, SweepWrite
  <2>6. StepsOK' /\ QueueOps'
    BY <1>3, SweptType DEF TypeOK, StepsOK, QueueOps, Op, GoTo, SweepFirstWrite, SweepWrite
  <2> QED BY <2>5, <2>6
<1>4. ASSUME NEW r \in Requests, SweepResponse(r) PROVE TypeInv'
  <2>1. row' \in [Creators -> [Kinds -> Columns]]
    BY <1>4 DEF TypeOK, SweepResponse, Sweep
  <2>2. pc' \in [Requests -> RequestSteps] /\ seen' \in [Requests -> [Kinds -> Columns]]
    BY <1>4, GoToType, SweptType DEF TypeOK, RequestSteps, SweepResponse, Sweep
  <2>3. UsageTypeOK'
    BY <1>4, <1>a DEF TypeOK, UsageTypeOK, SweepResponse, Sweep, Suspects
  <2>4. /\ dead' \in [Requests -> SUBSET Kinds] /\ held' \in [Requests -> SUBSET Kinds]
        /\ charged' \in [Requests -> {"no", "today", "before"}]
        /\ queue' \in Seq(Requests) /\ job' \in [Requests -> JobSteps]
    BY <1>4 DEF TypeOK, SweepResponse, Sweep, Suspects
  <2>5. TypeOK'
    BY <1>4, <2>1, <2>2, <2>3, <2>4 DEF TypeOK, SweepResponse, Sweep
  <2>6. StepsOK' /\ QueueOps'
    BY <1>4, SweptType DEF TypeOK, StepsOK, QueueOps, Op, GoTo, SweepResponse, Sweep
  <2> QED BY <2>5, <2>6
<1>5. ASSUME NEW r \in Requests, SweepResponseWrite(r) PROVE TypeInv'
  <2>1. row' \in [Creators -> [Kinds -> Columns]]
    BY <1>5, <1>a, SweptType, FlushType DEF TypeOK, SweepResponseWrite, SweepWrite
  <2>2. pc' \in [Requests -> RequestSteps] /\ seen' \in [Requests -> [Kinds -> Columns]]
    BY <1>5, GoToType, SweptType DEF TypeOK, RequestSteps, SweepResponseWrite, SweepWrite
  <2>3. UsageTypeOK'
    BY <1>5, <1>a DEF TypeOK, UsageTypeOK, SweepResponseWrite, SweepWrite
  <2>4. /\ dead' \in [Requests -> SUBSET Kinds] /\ held' \in [Requests -> SUBSET Kinds]
        /\ charged' \in [Requests -> {"no", "today", "before"}]
        /\ queue' \in Seq(Requests) /\ job' \in [Requests -> JobSteps]
    BY <1>5 DEF TypeOK, SweepResponseWrite, SweepWrite
  <2>5. TypeOK'
    BY <1>5, <2>1, <2>2, <2>3, <2>4 DEF TypeOK, SweepResponseWrite, SweepWrite
  <2>6. StepsOK' /\ QueueOps'
    BY <1>5, SweptType DEF TypeOK, StepsOK, QueueOps, Op, GoTo, SweepResponseWrite, SweepWrite
  <2> QED BY <2>5, <2>6
<1>6. ASSUME NEW r \in Requests, TakeLock(r) PROVE TypeInv'
  <2>1. row' \in [Creators -> [Kinds -> Columns]]
    BY <1>6 DEF TypeOK, TakeLock
  <2>2. pc' \in [Requests -> RequestSteps] /\ seen' \in [Requests -> [Kinds -> Columns]]
    BY <1>6, GoToType DEF TypeOK, RequestSteps, TakeLock
  <2>3. UsageTypeOK'
    BY <1>6, <1>a, <1>b, AcquireType DEF TypeOK, UsageTypeOK, TakeLock, Kinds
  <2>4. /\ dead' \in [Requests -> SUBSET Kinds] /\ held' \in [Requests -> SUBSET Kinds]
        /\ charged' \in [Requests -> {"no", "today", "before"}]
        /\ queue' \in Seq(Requests) /\ job' \in [Requests -> JobSteps]
    BY <1>6, <1>b DEF TypeOK, TakeLock, Kinds
  <2>5. TypeOK'
    BY <1>6, <2>1, <2>2, <2>3, <2>4 DEF TypeOK, TakeLock
  <2>6. StepsOK' /\ QueueOps'
    BY <1>6 DEF TypeOK, StepsOK, QueueOps, Op, GoTo, TakeLock
  <2> QED BY <2>5, <2>6
<1>7. ASSUME NEW r \in Requests, TakeRankingLocks(r) PROVE TypeInv'
  <2> DEFINE k == FirstRanking(Wanted \ held[r])
  <2>1. /\ row' \in [Creators -> [Kinds -> Columns]] /\ uses' = uses /\ todo' = todo
        /\ cache' = cache /\ up' = up /\ task' = task /\ dead' = dead /\ charged' = charged
        /\ queue' = queue /\ job' = job /\ Op(r) = "save"
    BY <1>7 DEF TypeOK, TakeRankingLocks
  <2>2. pc' \in [Requests -> RequestSteps] /\ seen' \in [Requests -> [Kinds -> Columns]]
    BY <1>7, GoToType DEF TypeOK, RequestSteps, TakeRankingLocks
  <2>3. CASE UNCHANGED <<locks, held>>
    BY <1>7, <2>1, <2>2, <2>3 DEF TypeOK, UsageTypeOK, StepsOK, QueueOps, TakeRankingLocks, GoTo, Op
  <2>4. CASE /\ k \in Kinds
             /\ Acquire(Creator(r), k)
             /\ held' = [held EXCEPT ![r] = @ \cup {k}]
             /\ pc'[r] \in {"write", "lock"} /\ \A s \in Requests \ {r} : pc'[s] = pc[s]
    <3>1. UsageTypeOK'
      BY <2>1, <2>4, <1>a, AcquireType DEF TypeOK, UsageTypeOK, Kinds
    <3>2. held' \in [Requests -> SUBSET Kinds] /\ \A s \in Requests \ {r} : held'[s] = held[s]
      BY <2>4 DEF TypeOK
    <3> QED BY <2>1, <2>2, <2>4, <3>1, <3>2 DEF TypeOK, StepsOK, QueueOps, Op
  <2>5. CASE Unlocked(r) /\ pc'[r] = "write" /\ \A s \in Requests \ {r} : pc'[s] = pc[s]
    BY <2>1, <2>2, <2>5, UnlockedType DEF TypeOK, UsageTypeOK, StepsOK, QueueOps, Op
  <2>6. Wanted \ held[r] # {} => k \in Kinds
    BY FirstRankingType, KindTypes
  <2> QED BY <1>7, <2>3, <2>4, <2>5, <2>6 DEF TakeRankingLocks, GoTo, TypeOK
<1>8. ASSUME NEW r \in Requests, Charge(r) PROVE TypeInv'
  <2>1. row' \in [Creators -> [Kinds -> Columns]]
    BY <1>8 DEF TypeOK, Charge
  <2>2. pc' \in [Requests -> RequestSteps] /\ seen' \in [Requests -> [Kinds -> Columns]]
    BY <1>8, GoToType DEF TypeOK, RequestSteps, Charge
  <2>3. UsageTypeOK'
    BY <1>8, <1>a, ConsumeType, FeatureType DEF TypeOK, UsageTypeOK, Charge
  <2>4. /\ dead' \in [Requests -> SUBSET Kinds] /\ held' \in [Requests -> SUBSET Kinds]
        /\ charged' \in [Requests -> {"no", "today", "before"}]
        /\ queue' \in Seq(Requests) /\ job' \in [Requests -> JobSteps]
    BY <1>8 DEF TypeOK, Charge
  <2>5. TypeOK'
    BY <1>8, <2>1, <2>2, <2>3, <2>4 DEF TypeOK, Charge
  <2>6. StepsOK' /\ QueueOps'
    BY <1>8 DEF TypeOK, StepsOK, QueueOps, Op, GoTo, Charge
  <2> QED BY <2>5, <2>6
<1>9. ASSUME NEW r \in Requests, MarkQueued(r) PROVE TypeInv'
  <2>0. Kind(r) \in Kinds
    BY <1>9, <1>b DEF StepsOK, MarkQueued, WriteRow
  <2>1. row' \in [Creators -> [Kinds -> Columns]]
    BY <1>9, <1>a, <2>0, FlushType, QueuedType DEF TypeOK, MarkQueued, WriteRow
  <2>2. pc' \in [Requests -> RequestSteps] /\ seen' \in [Requests -> [Kinds -> Columns]]
    BY <1>9, GoToType DEF TypeOK, RequestSteps, MarkQueued, WriteRow
  <2>3. UsageTypeOK'
    BY <1>9, <1>a DEF TypeOK, UsageTypeOK, MarkQueued, WriteRow
  <2>4. /\ dead' \in [Requests -> SUBSET Kinds] /\ held' \in [Requests -> SUBSET Kinds]
        /\ charged' \in [Requests -> {"no", "today", "before"}]
        /\ queue' \in Seq(Requests) /\ job' \in [Requests -> JobSteps]
    BY <1>9 DEF TypeOK, MarkQueued, WriteRow
  <2>5. TypeOK'
    BY <1>9, <2>1, <2>2, <2>3, <2>4 DEF TypeOK, MarkQueued, WriteRow
  <2>6. StepsOK' /\ QueueOps'
    BY <1>9 DEF TypeOK, StepsOK, QueueOps, Op, GoTo, MarkQueued, WriteRow
  <2> QED BY <2>5, <2>6
<1>10. ASSUME NEW r \in Requests, WriteProfile(r) PROVE TypeInv'
  <2>1. row' \in [Creators -> [Kinds -> Columns]]
    BY <1>10, <1>a, FlushType, QueuedType DEF TypeOK, WriteProfile
  <2>2. pc' \in [Requests -> RequestSteps] /\ seen' \in [Requests -> [Kinds -> Columns]]
    BY <1>10, GoToType, <2>1, <1>a DEF TypeOK, RequestSteps, WriteProfile
  <2>3. UsageTypeOK'
    BY <1>10, <1>a DEF TypeOK, UsageTypeOK, WriteProfile
  <2>4. /\ dead' \in [Requests -> SUBSET Kinds] /\ held' \in [Requests -> SUBSET Kinds]
        /\ charged' \in [Requests -> {"no", "today", "before"}]
        /\ queue' \in Seq(Requests) /\ job' \in [Requests -> JobSteps]
    BY <1>10 DEF TypeOK, WriteProfile
  <2>5. TypeOK'
    BY <1>10, <2>1, <2>2, <2>3, <2>4 DEF TypeOK, WriteProfile
  <2>6. StepsOK' /\ QueueOps'
    BY <1>10 DEF TypeOK, StepsOK, QueueOps, Op, GoTo, WriteProfile
  <2> QED BY <2>5, <2>6
<1>11. ASSUME NEW r \in Requests, SubmitJob(r) PROVE TypeInv'
  <2>a. Op(r) = "refresh" => Queued(seen[r][Kind(r)], Kind(r), r) \in Columns
    BY <1>b, QueuedType DEF TypeOK
  <2>0. /\ Op(r) = "refresh" => [seen[r] EXCEPT ![Kind(r)] = Queued(@, Kind(r), r)] \in [Kinds -> Columns]
        /\ Closed \in [Kinds -> Columns]
    BY <2>a, IdleType DEF TypeOK, Closed
  <2>1. row' \in [Creators -> [Kinds -> Columns]]
    BY <1>11 DEF TypeOK, SubmitJob
  <2>2. pc' \in [Requests -> RequestSteps] /\ seen' \in [Requests -> [Kinds -> Columns]]
    BY <1>11, GoToType, <2>0 DEF TypeOK, RequestSteps, SubmitJob
  <2>3. UsageTypeOK'
    BY <1>11, <1>a DEF TypeOK, UsageTypeOK, SubmitJob, JobSteps
  <2>4. /\ dead' \in [Requests -> SUBSET Kinds] /\ held' \in [Requests -> SUBSET Kinds]
        /\ charged' \in [Requests -> {"no", "today", "before"}]
        /\ queue' \in Seq(Requests) /\ job' \in [Requests -> JobSteps]
    BY <1>11 DEF TypeOK, SubmitJob, JobSteps
  <2>5. TypeOK'
    BY <1>11, <2>1, <2>2, <2>3, <2>4 DEF TypeOK, SubmitJob
  <2>6. StepsOK' /\ QueueOps'
    BY <1>11 DEF TypeOK, StepsOK, QueueOps, Op, GoTo, SubmitJob
  <2> QED BY <2>5, <2>6
<1>12. ASSUME NEW r \in Requests, SubmitFull(r) PROVE TypeInv'
  <2>1. row' \in [Creators -> [Kinds -> Columns]]
    BY <1>12 DEF TypeOK, SubmitFull
  <2>2. pc' \in [Requests -> RequestSteps] /\ seen' \in [Requests -> [Kinds -> Columns]]
    BY <1>12, GoToType DEF TypeOK, RequestSteps, SubmitFull
  <2>3. UsageTypeOK'
    BY <1>12, <1>a DEF TypeOK, UsageTypeOK, SubmitFull
  <2>4. /\ dead' \in [Requests -> SUBSET Kinds] /\ held' \in [Requests -> SUBSET Kinds]
        /\ charged' \in [Requests -> {"no", "today", "before"}]
        /\ queue' \in Seq(Requests) /\ job' \in [Requests -> JobSteps]
    BY <1>12 DEF TypeOK, SubmitFull
  <2>5. TypeOK'
    BY <1>12, <2>1, <2>2, <2>3, <2>4 DEF TypeOK, SubmitFull
  <2>6. StepsOK' /\ QueueOps'
    BY <1>12 DEF TypeOK, StepsOK, QueueOps, Op, GoTo, SubmitFull
  <2> QED BY <2>5, <2>6
<1>13. ASSUME NEW r \in Requests, Restore(r) PROVE TypeInv'
  <2>0. Kind(r) \in Kinds
    BY <1>13, <1>b DEF StepsOK, Restore, WriteRow
  <2>1. row' \in [Creators -> [Kinds -> Columns]]
    BY <1>13, <1>a, <2>0, FlushType, QueuedType DEF TypeOK, Restore, WriteRow
  <2>2. pc' \in [Requests -> RequestSteps] /\ seen' \in [Requests -> [Kinds -> Columns]]
    BY <1>13, GoToType DEF TypeOK, RequestSteps, Restore, WriteRow
  <2>3. UsageTypeOK'
    BY <1>13, <1>a DEF TypeOK, UsageTypeOK, Restore, WriteRow
  <2>4. /\ dead' \in [Requests -> SUBSET Kinds] /\ held' \in [Requests -> SUBSET Kinds]
        /\ charged' \in [Requests -> {"no", "today", "before"}]
        /\ queue' \in Seq(Requests) /\ job' \in [Requests -> JobSteps]
    BY <1>13 DEF TypeOK, Restore, WriteRow
  <2>5. TypeOK'
    BY <1>13, <2>1, <2>2, <2>3, <2>4 DEF TypeOK, Restore, WriteRow
  <2>6. StepsOK' /\ QueueOps'
    BY <1>13 DEF TypeOK, StepsOK, QueueOps, Op, GoTo, Restore, WriteRow
  <2> QED BY <2>5, <2>6
<1>14. ASSUME NEW r \in Requests, GiveBack(r) PROVE TypeInv'
  <2>1. row' \in [Creators -> [Kinds -> Columns]]
    BY <1>14 DEF TypeOK, GiveBack
  <2>2. pc' \in [Requests -> RequestSteps] /\ seen' \in [Requests -> [Kinds -> Columns]]
    BY <1>14, GoToType DEF TypeOK, RequestSteps, GiveBack
  <2>3. UsageTypeOK'
    BY <1>14, <1>a, RefundType, FeatureType DEF TypeOK, UsageTypeOK, GiveBack
  <2>4. /\ dead' \in [Requests -> SUBSET Kinds] /\ held' \in [Requests -> SUBSET Kinds]
        /\ charged' \in [Requests -> {"no", "today", "before"}]
        /\ queue' \in Seq(Requests) /\ job' \in [Requests -> JobSteps]
    BY <1>14 DEF TypeOK, GiveBack
  <2>5. TypeOK'
    BY <1>14, <2>1, <2>2, <2>3, <2>4 DEF TypeOK, GiveBack
  <2>6. StepsOK' /\ QueueOps'
    BY <1>14 DEF TypeOK, StepsOK, QueueOps, Op, GoTo, GiveBack
  <2> QED BY <2>5, <2>6
<1>15. ASSUME NEW r \in Requests, Unlock(r) PROVE TypeInv'
  <2>1. row' \in [Creators -> [Kinds -> Columns]]
    BY <1>15 DEF TypeOK, Unlock
  <2>2. pc' \in [Requests -> RequestSteps] /\ seen' \in [Requests -> [Kinds -> Columns]]
    BY <1>15, GoToType DEF TypeOK, RequestSteps, Unlock
  <2>3. UsageTypeOK'
    BY <1>15, <1>a, UnlockedType DEF TypeOK, UsageTypeOK, Unlock
  <2>4. /\ dead' \in [Requests -> SUBSET Kinds] /\ held' \in [Requests -> SUBSET Kinds]
        /\ charged' \in [Requests -> {"no", "today", "before"}]
        /\ queue' \in Seq(Requests) /\ job' \in [Requests -> JobSteps]
    BY <1>15, UnlockedType DEF TypeOK, Unlock
  <2>5. TypeOK'
    BY <1>15, <2>1, <2>2, <2>3, <2>4 DEF TypeOK, Unlock
  <2>6. StepsOK' /\ QueueOps'
    BY <1>15, UnlockedType DEF TypeOK, StepsOK, QueueOps, Op, GoTo, Unlock
  <2> QED BY <2>5, <2>6
<1>16. ASSUME NEW r \in Requests, MarkFailed(r) PROVE TypeInv'
  <2>0. \A k \in Kinds : Stopped(seen[r][k], "busy") \in Columns
    BY StoppedType DEF TypeOK, Errors
  <2>1. row' \in [Creators -> [Kinds -> Columns]]
    BY <1>16, <1>a, <2>0, FlushType, QueuedType DEF TypeOK, MarkFailed
  <2>2. pc' \in [Requests -> RequestSteps] /\ seen' \in [Requests -> [Kinds -> Columns]]
    BY <1>16, GoToType DEF TypeOK, RequestSteps, MarkFailed
  <2>3. UsageTypeOK'
    BY <1>16, <1>a DEF TypeOK, UsageTypeOK, MarkFailed
  <2>4. /\ dead' \in [Requests -> SUBSET Kinds] /\ held' \in [Requests -> SUBSET Kinds]
        /\ charged' \in [Requests -> {"no", "today", "before"}]
        /\ queue' \in Seq(Requests) /\ job' \in [Requests -> JobSteps]
    BY <1>16 DEF TypeOK, MarkFailed
  <2>5. TypeOK'
    BY <1>16, <2>1, <2>2, <2>3, <2>4 DEF TypeOK, MarkFailed
  <2>6. StepsOK' /\ QueueOps'
    BY <1>16 DEF TypeOK, StepsOK, QueueOps, Op, GoTo, MarkFailed
  <2> QED BY <2>5, <2>6
<1>30. ASSUME NEW r \in Requests, Abort(r) PROVE TypeInv'
  <2>1. Closed \in [Kinds -> Columns]
    BY IdleType DEF Closed
  <2>2. pc' \in [Requests -> RequestSteps] /\ seen' \in [Requests -> [Kinds -> Columns]]
    BY <1>30, <2>1, GoToType DEF RequestSteps, Abort
  <2>3. TypeOK'
    BY <1>30, <2>2 DEF TypeOK, UsageTypeOK, Abort
  <2>4. StepsOK' /\ QueueOps'
    BY <1>30 DEF TypeOK, StepsOK, QueueOps, Op, GoTo, Abort
  <2> QED BY <2>3, <2>4
<1>17. ASSUME Take PROVE TypeInv'
  <2> DEFINE r == Head(queue)
  <2>1. /\ r \in Requests /\ queue' = Tail(queue) /\ queue' \in Seq(Requests)
        /\ Op(r) \in {"generate", "refresh", "save"}
    BY <1>17 DEF Take, TypeOK, QueueOps
  <2>2. job' \in [Requests -> JobSteps] /\ cache' \in [Requests -> Columns]
    BY <1>17, <2>1, JobGoToType, IdleType DEF Take, TypeOK, JobSteps
  <2>3. Op(r) = "refresh" => Kind(r) \in Rankings
    BY <2>1, TaskType DEF TypeOK, Op, Kind
  <2>4. /\ todo' \in [Requests -> SUBSET Rankings]
        /\ Op(r) = "refresh" => todo'[r] # {}
        /\ \A s \in Requests \ {r} : todo'[s] = todo[s]
    BY <1>17, <2>1, <2>3 DEF Take, TypeOK
  <2>5. TypeOK'
    BY <1>17, <2>1, <2>2, <2>4 DEF Take, TypeOK, UsageTypeOK
  <2>6. StepsOK'
    BY <1>17, <2>1, <2>4 DEF Take, TypeOK, StepsOK, JobGoTo, Op
  <2>7. QueueOps'
    BY <1>17, <2>1 DEF Take, TypeOK, QueueOps, Op
  <2> QED BY <2>5, <2>6, <2>7
<1>18. ASSUME NEW r \in Requests, NextKind(r), job[r] \in {"start", "loaded", "working"}
       PROVE  /\ job' \in [Requests -> JobSteps] /\ cache' \in [Requests -> Columns]
              /\ todo' \in [Requests -> SUBSET Rankings]
              /\ job'[r] = "start" => todo'[r] # {}
              /\ job'[r] \in {"start", "release"}
              /\ \A s \in Requests \ {r} : job'[s] = job[s] /\ todo'[s] = todo[s]
  <2>1. job' \in [Requests -> JobSteps] /\ cache' \in [Requests -> Columns]
    BY <1>18, JobGoToType, IdleType DEF NextKind, JobSteps
  <2> QED BY <1>18, <2>1 DEF NextKind, JobGoTo, TypeOK
<1>19. ASSUME NEW r \in Requests, Signals(r) PROVE TypeInv'
  <2>1. job' \in [Requests -> JobSteps] /\ cache' \in [Requests -> Columns]
    BY <1>19, JobGoToType, IdleType DEF Signals, JobSteps
  <2> QED BY <1>19, <2>1 DEF Signals, TypeOK, UsageTypeOK, StepsOK, QueueOps, JobGoTo, Op
<1>20. ASSUME NEW r \in Requests, StartKind(r) PROVE TypeInv'
  <2>1. /\ job[r] = "start" /\ Current(r) \in Kinds /\ Creator(r) \in Creators
        /\ row[Creator(r)][Current(r)] \in Columns
    BY <1>20, <1>a, <1>c DEF StartKind, TypeOK
  <2>2. row' \in [Creators -> [Kinds -> Columns]]
    BY <1>20, <2>1, PausedType, WriteRowType DEF StartKind, TypeOK
  <2>3. CASE NextKind(r)
    <3>1. /\ job' \in [Requests -> JobSteps] /\ cache' \in [Requests -> Columns]
          /\ todo' \in [Requests -> SUBSET Rankings]
          /\ job'[r] = "start" => todo'[r] # {}
          /\ job'[r] \in {"start", "release"}
          /\ \A s \in Requests \ {r} : job'[s] = job[s] /\ todo'[s] = todo[s]
      BY <2>1, <2>3, <1>18
    <3> QED BY <1>20, <2>2, <3>1 DEF StartKind, TypeOK, UsageTypeOK, StepsOK, QueueOps, Op
  <2>4. CASE JobGoTo(r, "loaded", row[Creator(r)][Current(r)]) /\ todo' = todo
    <3>1. job' \in [Requests -> JobSteps] /\ cache' \in [Requests -> Columns]
      BY <2>1, <2>4, JobGoToType DEF JobSteps
    <3> QED BY <1>20, <2>1, <2>2, <2>4, <3>1
            DEF StartKind, TypeOK, UsageTypeOK, StepsOK, QueueOps, Op, JobGoTo
  <2> QED BY <1>20, <2>3, <2>4 DEF StartKind
<1>21. ASSUME NEW r \in Requests, MarkRunning(r) PROVE TypeInv'
  <2> DEFINE new == Running(cache[r], Current(r))
  <2>1. /\ job[r] = "loaded" /\ Current(r) \in Kinds /\ Creator(r) \in Creators
        /\ new \in Columns
    BY <1>21, <1>a, <1>c, RunningType DEF MarkRunning, TypeOK
  <2>2. row' \in [Creators -> [Kinds -> Columns]]
    BY <1>21, <2>1, FlushType DEF MarkRunning, WriteRow, TypeOK
  <2>3. job' \in [Requests -> JobSteps] /\ cache' \in [Requests -> Columns]
    BY <1>21, <2>1, JobGoToType DEF MarkRunning, JobSteps
  <2> QED BY <1>21, <2>1, <2>2, <2>3
          DEF MarkRunning, TypeOK, UsageTypeOK, StepsOK, QueueOps, Op, JobGoTo
<1>22. ASSUME NEW r \in Requests, Complete(r) \/ Fail(r) PROVE TypeInv'
  <2>1. /\ job[r] \in {"start", "loaded", "working"} /\ NextKind(r)
        /\ Current(r) \in Kinds /\ Creator(r) \in Creators
    BY <1>22, <1>a, <1>c DEF Complete, Fail
  <2>2. Complete(r) => row' \in [Creators -> [Kinds -> Columns]]
    <3> SUFFICES ASSUME Complete(r) PROVE row' \in [Creators -> [Kinds -> Columns]]
      OBVIOUS
    <3>1. \A copy \in {cache[r]} \cup {row[Creator(r)][Current(r)]} :
             Flush(row[Creator(r)][Current(r)], copy, Completed(copy, Current(r))) \in Columns
      BY <2>1, FlushType, CompletedType DEF TypeOK
    <3> QED BY <2>1, <3>1, WriteRowType DEF Complete, TypeOK
  <2>3. Fail(r) => row' \in [Creators -> [Kinds -> Columns]]
    BY <2>1, StoppedType, WriteRowType DEF Fail, TypeOK, Errors
  <2>4. row' \in [Creators -> [Kinds -> Columns]]
    BY <1>22, <2>2, <2>3
  <2>5. /\ job' \in [Requests -> JobSteps] /\ cache' \in [Requests -> Columns]
        /\ todo' \in [Requests -> SUBSET Rankings]
        /\ job'[r] = "start" => todo'[r] # {}
        /\ job'[r] \in {"start", "release"}
        /\ \A s \in Requests \ {r} : job'[s] = job[s] /\ todo'[s] = todo[s]
    BY <2>1, <1>18
  <2> QED BY <1>22, <2>4, <2>5 DEF Complete, Fail, TypeOK, UsageTypeOK, StepsOK, QueueOps, Op
<1>23. ASSUME NEW r \in Requests, EndJob(r) PROVE TypeInv'
  <2>1. job' \in [Requests -> JobSteps] /\ cache' \in [Requests -> Columns]
    BY <1>23, JobGoToType, IdleType DEF EndJob, JobSteps
  <2> QED BY <1>23, <2>1, UnlockedType
          DEF EndJob, TypeOK, UsageTypeOK, StepsOK, QueueOps, JobGoTo, Op
<1>24. ASSUME Tick PROVE TypeInv'
  BY <1>24, GrowOlderType DEF Tick, TypeOK, UsageTypeOK, StepsOK, QueueOps, Op
<1>25. ASSUME NewDay PROVE TypeInv'
  BY <1>25 DEF NewDay, ClearDay, TypeOK, UsageTypeOK, StepsOK, QueueOps, Op
<1>26. ASSUME Crash PROVE TypeInv'
  <2>1. TypeOK'
    <3>1. seen' \in [Requests -> [Kinds -> Columns]] /\ cache' \in [Requests -> Columns]
      BY <1>26, IdleType DEF Crash, Closed
    <3>2. pc' \in [Requests -> RequestSteps] /\ job' \in [Requests -> JobSteps]
      BY <1>26 DEF Crash, RequestSteps, JobSteps
    <3>3. queue' = <<>> /\ <<>> \in Seq(Requests) /\ up' \in BOOLEAN
      <4>1. queue' = <<>> /\ up' = FALSE
        BY <1>26 DEF Crash
      <4>2. <<>> \in Seq(Requests)
        OBVIOUS
      <4> QED BY <4>1, <4>2
    <3>4. /\ held' \in [Requests -> SUBSET Kinds] /\ dead' \in [Requests -> SUBSET Kinds]
          /\ todo' \in [Requests -> SUBSET Rankings]
      BY <1>26 DEF Crash
    <3> QED BY <1>26, <3>1, <3>2, <3>3, <3>4 DEF Crash, TypeOK, UsageTypeOK
  <2>2. StepsOK' /\ QueueOps'
    BY <1>26 DEF Crash, StepsOK, QueueOps, Op
  <2> QED BY <2>1, <2>2
<1>27. ASSUME Restart PROVE TypeInv'
  <2>1. \A c \in Creators, k \in Kinds : Stopped(row[c][k], "restart") \in Columns
    BY StoppedType DEF TypeOK, Errors
  <2>2. row' \in [Creators -> [Kinds -> Columns]]
    BY <1>27, <2>1 DEF Restart, Recovered, TypeOK
  <2>3. locks' \in [Creators -> [LockNames -> Ages \cup {NoRow}]]
    BY <1>27 DEF Restart, Recovered, TypeOK, UsageTypeOK
  <2> QED BY <1>27, <2>2, <2>3 DEF Restart, TypeOK, UsageTypeOK, StepsOK, QueueOps, Op
<1>28. ASSUME UNCHANGED vars PROVE TypeInv'
  BY <1>28 DEF vars, TypeOK, UsageTypeOK, StepsOK, QueueOps, Op
<1> QED BY <1>1, <1>2, <1>3, <1>4, <1>5, <1>6, <1>7, <1>8, <1>9, <1>10, <1>11, <1>12, <1>13,
           <1>14, <1>15, <1>16, <1>17, <1>19, <1>20, <1>21, <1>22, <1>23, <1>24, <1>25, <1>26,
           <1>27, <1>28, <1>30 DEF Next, RequestStep, JobStep

\* The state is well formed at every step of UserJobs, whatever faults happen.
THEOREM TypeCorrect == Spec => []TypeOK
BY TypeInit, TypeStep, PTL DEF Spec, TypeInv

-----------------------------------------------------------------------------
(* Mutual exclusion of the locks, when no lock outlives the stale limit in *)
(* the hands of its holder.                                                *)

LockInv ==
    /\ \A r \in Requests, l \in Kinds : l \in held[r] => locks[Creator(r)][l] \in 0 .. Stale - 1
    /\ \A r, s \in Requests : r # s /\ Creator(r) = Creator(s) => held[r] \cap held[s] = {}
    /\ ~up => \A r \in Requests : held[r] = {} /\ pc[r] \in {"start", "done"}

LEMMA LockInit == Init => LockInv
BY DEF Init, LockInv

\* A step that leaves the locks and their holders alone.
LEMMA LockQuiet ==
    ASSUME LockInv, UNCHANGED <<held, locks, task, up>>, up \/ pc' = pc
    PROVE  LockInv'
BY DEF LockInv, Creator

\* A step by which r takes the free lock l.
LEMMA LockTaken ==
    ASSUME TypeOK, LockInv, NEW r \in Requests, NEW l \in Kinds, Acquire(Creator(r), l),
           \/ held' = [held EXCEPT ![r] = {l}]
           \/ held' = [held EXCEPT ![r] = @ \cup {l}],
           UNCHANGED <<task, up>>, up
    PROVE  LockInv'
<1>1. /\ Creator(r) \in Creators /\ \A s \in Requests : Creator(s)' = Creator(s)
  BY TaskType DEF TypeOK, Creator
<1>2. \A s \in Requests : l \in held[s] => Creator(s) # Creator(r)
  BY UsageLimitsAssumption DEF Acquire, Available, NoRow, LockInv
<1>3. \A s \in Requests : Creator(s) \in Creators
  BY TaskType DEF TypeOK, Creator
<1>4. \A s \in Requests, m \in Kinds :
        locks'[Creator(s)][m] = IF Creator(s) = Creator(r) /\ m = l THEN 0 ELSE locks[Creator(s)][m]
  BY <1>1, <1>3, AcquireType DEF TypeOK, Kinds
<1>5. \A s \in Requests : held'[s] \subseteq IF s = r THEN held[s] \cup {l} ELSE held[s]
  BY DEF TypeOK
<1>6. 0 \in 0 .. Stale - 1
  BY UsageLimitsAssumption
<1>7. \A s \in Requests, m \in Kinds : m \in held'[s] => locks'[Creator(s)][m] \in 0 .. Stale - 1
  BY <1>4, <1>5, <1>6 DEF LockInv
<1>8. \A s, t \in Requests : s # t /\ Creator(s) = Creator(t) => held'[s] \cap held'[t] = {}
  BY <1>2, <1>5 DEF LockInv
<1> QED BY <1>1, <1>7, <1>8 DEF LockInv

\* A step by which r gives its locks back.
LEMMA LockGiven ==
    ASSUME TypeOK, LockInv, NEW r \in Requests, Unlocked(r), UNCHANGED <<task, up>>, up \/ pc' = pc
    PROVE  LockInv'
<1>1. Creator(r) \in Creators /\ \A s \in Requests : Creator(s)' = Creator(s) /\ Creator(s) \in Creators
  BY TaskType DEF TypeOK, Creator
<1>2. held'[r] = {} /\ \A s \in Requests \ {r} : held'[s] = held[s]
  BY DEF Unlocked, TypeOK
<1>3. \A s \in Requests, m \in Kinds :
        ~(Creator(s) = Creator(r) /\ m \in held[r]) => locks'[Creator(s)][m] = locks[Creator(s)][m]
  BY <1>1, ReleaseType DEF Unlocked, TypeOK, Kinds
<1>4. \A s \in Requests, m \in Kinds : m \in held'[s] => locks'[Creator(s)][m] \in 0 .. Stale - 1
  BY <1>2, <1>3 DEF LockInv
<1>5. \A s, t \in Requests : s # t /\ Creator(s) = Creator(t) => held'[s] \cap held'[t] = {}
  BY <1>2 DEF LockInv
<1> QED BY <1>1, <1>2, <1>4, <1>5 DEF LockInv

LEMMA LockStep ==
    ASSUME "overrun" \notin Faults
    PROVE  TypeInv /\ LockInv /\ [Next]_vars => LockInv'
<1> SUFFICES ASSUME TypeInv, LockInv, [Next]_vars PROVE LockInv'
  OBVIOUS
<1> USE DEF TypeInv, jobVars, reqVars
<1>1. ASSUME NEW r \in Requests, pc[r] \notin {"start", "done"} PROVE up
  BY <1>1 DEF LockInv
<1>2. ASSUME NEW r \in Requests, Load(r) PROVE LockInv'
  BY <1>2, LockQuiet DEF Load
<1>3. ASSUME NEW r \in Requests, SweepFirst(r) \/ SweepFirstWrite(r) \/ SweepResponse(r) \/ SweepResponseWrite(r)
      PROVE LockInv'
  BY <1>3, <1>1, LockQuiet DEF SweepFirst, SweepFirstWrite, SweepResponse, SweepResponseWrite, Sweep, SweepWrite
<1>4. ASSUME NEW r \in Requests, TakeLock(r) PROVE LockInv'
  <2>1. up /\ Kind(r) \in Kinds
    BY <1>4, <1>1, TaskType, KindTypes DEF TakeLock, TypeOK, Op, Kind
  <2>2. CASE UNCHANGED <<locks, held>>
    BY <1>4, <2>1, <2>2, LockQuiet DEF TakeLock
  <2>3. CASE Acquire(Creator(r), Kind(r)) /\ held' = [held EXCEPT ![r] = {Kind(r)}]
    BY <1>4, <2>1, <2>3, LockTaken DEF TakeLock
  <2> QED BY <1>4, <2>2, <2>3 DEF TakeLock
<1>5. ASSUME NEW r \in Requests, TakeRankingLocks(r) PROVE LockInv'
  <2> DEFINE k == FirstRanking(Wanted \ held[r])
  <2>1. up /\ (Wanted \ held[r] # {} => k \in Kinds)
    BY <1>5, <1>1, FirstRankingType, KindTypes DEF TakeRankingLocks
  <2>2. CASE UNCHANGED <<locks, held>>
    BY <1>5, <2>1, <2>2, LockQuiet DEF TakeRankingLocks
  <2>3. CASE k \in Kinds /\ Acquire(Creator(r), k) /\ held' = [held EXCEPT ![r] = @ \cup {k}]
    BY <1>5, <2>1, <2>3, LockTaken DEF TakeRankingLocks
  <2>4. CASE Unlocked(r)
    BY <1>5, <2>1, <2>4, LockGiven DEF TakeRankingLocks
  <2> QED BY <1>5, <2>1, <2>2, <2>3, <2>4 DEF TakeRankingLocks
<1>6. ASSUME NEW r \in Requests,
             Charge(r) \/ MarkQueued(r) \/ WriteProfile(r) \/ SubmitJob(r) \/ SubmitFull(r)
               \/ Restore(r) \/ GiveBack(r) \/ MarkFailed(r)
      PROVE LockInv'
  BY <1>6, <1>1, LockQuiet
     DEF Charge, MarkQueued, WriteProfile, SubmitJob, SubmitFull, Restore, GiveBack, MarkFailed
<1>7. ASSUME NEW r \in Requests, Unlock(r) \/ EndJob(r) PROVE LockInv'
  BY <1>7, <1>1, LockGiven DEF Unlock, EndJob
<1>13. ASSUME NEW r \in Requests, Abort(r) PROVE LockInv'
  <2>1. up /\ UNCHANGED <<locks, task, up>> /\ \A s \in Requests : held'[s] \subseteq held[s]
    BY <1>13, <1>1 DEF Abort, TypeOK
  <2> QED BY <2>1 DEF LockInv, Creator
<1>8. ASSUME NEW r \in Requests,
             Signals(r) \/ StartKind(r) \/ MarkRunning(r) \/ Complete(r) \/ Fail(r)
      PROVE LockInv'
  BY <1>8, LockQuiet DEF Signals, StartKind, MarkRunning, Complete, Fail
<1>9. ASSUME Take \/ NewDay \/ UNCHANGED vars PROVE LockInv'
  BY <1>9, LockQuiet DEF Take, NewDay, vars
<1>10. ASSUME Tick PROVE LockInv'
  <2>1. \A r \in Requests : Creator(r) \in Creators /\ Creator(r)' = Creator(r)
    BY <1>10, TaskType DEF Tick, TypeOK, Creator
  <2>2. ASSUME NEW r \in Requests, NEW l \in Kinds, l \in held'[r]
        PROVE  locks'[Creator(r)][l] \in 0 .. Stale - 1
    <3>1. locks[Creator(r)][l] \in 0 .. Stale - 1 /\ locks[Creator(r)][l] + 1 < Stale
      BY <1>10, <2>2 DEF Tick, LockInv
    <3>2. locks' = [c \in Creators |-> [m \in LockNames |-> Age(locks[c][m])]]
      BY <1>10 DEF Tick, GrowOlder
    <3>3. locks'[Creator(r)][l] = Age(locks[Creator(r)][l])
      BY <2>1, <2>2, <3>2 DEF Kinds
    <3>4. Age(locks[Creator(r)][l]) = locks[Creator(r)][l] + 1
      BY <3>1, UsageLimitsAssumption DEF Age, NoRow
    <3> QED BY <3>1, <3>3, <3>4, UsageLimitsAssumption
  <2> QED BY <1>10, <2>1, <2>2 DEF Tick, LockInv
<1>11. ASSUME Crash PROVE LockInv'
  BY <1>11 DEF Crash, LockInv
<1>12. ASSUME Restart PROVE LockInv'
  BY <1>12 DEF Restart, LockInv
<1> QED BY <1>2, <1>3, <1>4, <1>5, <1>6, <1>7, <1>8, <1>9, <1>10, <1>11, <1>12, <1>13
        DEF Next, RequestStep, JobStep

\* Every lock a request or job believes it holds has its row, and nobody else
\* of that creator believes the same: the row of feature_locks, which names no
\* owner, still is a mutual exclusion as long as nobody overstays.
THEOREM MutualExclusion ==
    ASSUME "overrun" \notin Faults
    PROVE  Spec => []OneHolder
<1>1. TypeInv /\ LockInv => OneHolder
  BY UsageLimitsAssumption DEF TypeInv, TypeOK, LockInv, OneHolder, NoRow
<1> QED BY <1>1, TypeInit, TypeStep, LockInit, LockStep, PTL DEF Spec

-----------------------------------------------------------------------------
(* The charge of a request, from consume to the job or the refund.         *)

\* Where a request is charged: between consume and the refund, and never for a
\* save, a draft or a poll.
ChargeOf(r) ==
    /\ pc[r] \in {"start", "sweep", "sweepwrite", "lock", "charge", "unlock", "write", "markfailed"}
         => charged[r] = "no"
    /\ pc[r] \in {"queue", "restore", "refund"} => charged[r] # "no"
    /\ pc[r] = "submit" => (charged[r] = "no" <=> Op(r) = "save")
    /\ pc[r] = "write" => Op(r) \in {"save", "draft"}
    /\ Op(r) \in {"save", "draft", "view"} => charged[r] = "no"

ChargeInv == \A r \in Requests : ChargeOf(r)

\* Where neither a database error nor a crash cuts a request short, the end of
\* a charged request has a job.
Answered == {"respond", "respondwrite", "done"}

JobForCharge ==
    \A r \in Requests : pc[r] \in Answered /\ charged[r] # "no" => job[r] # "none"

LEMMA ChargeInit == Init => ChargeInv /\ JobForCharge
BY DEF Init, ChargeInv, ChargeOf, JobForCharge, Answered

\* A step of request r that moves only r.
LEMMA ChargeMove ==
    ASSUME TypeOK, ChargeInv, NEW r \in Requests, NEW step, NEW copy, GoTo(r, step, copy), ChargeOf(r)',
           task' = task, \A s \in Requests \ {r} : charged'[s] = charged[s]
    PROVE  ChargeInv'
<1>1. \A s \in Requests \ {r} : pc'[s] = pc[s]
  BY DEF GoTo, TypeOK
<1> QED BY <1>1 DEF ChargeInv, ChargeOf, Op

LEMMA ChargeStep == TypeInv /\ ChargeInv /\ [Next]_vars => ChargeInv'
<1> SUFFICES ASSUME TypeInv, ChargeInv, [Next]_vars PROVE ChargeInv'
  OBVIOUS
<1> USE DEF TypeInv, jobVars, reqVars
<1>1. ASSUME NEW r \in Requests, NEW step, NEW copy, GoTo(r, step, copy)
      PROVE  pc'[r] = step /\ (task' = task => Op(r)' = Op(r))
  BY <1>1 DEF GoTo, TypeOK, Op
<1>2. ASSUME NEW r \in Requests PROVE Op(r) \in {"generate", "refresh", "save", "draft", "view"}
  BY TaskType DEF TypeOK, Op
<1>3. ASSUME NEW r \in Requests, Load(r) PROVE ChargeInv'
  BY <1>3, <1>1, ChargeMove DEF Load, ChargeInv, ChargeOf
<1>4. ASSUME NEW r \in Requests, SweepFirst(r) \/ SweepFirstWrite(r) PROVE ChargeInv'
  <2>1. /\ AfterSweep(r, seen[r]) \notin {"queue", "restore", "refund", "submit"}
        /\ AfterSweep(r, SweptCopy(r)) \notin {"queue", "restore", "refund", "submit"}
        /\ AfterSweep(r, seen[r]) = "write" => Op(r) = "draft"
        /\ AfterSweep(r, SweptCopy(r)) = "write" => Op(r) = "draft"
    BY SweptType DEF AfterSweep
  <2> QED BY <1>4, <1>1, <2>1, ChargeMove
          DEF SweepFirst, SweepFirstWrite, Sweep, SweepWrite, ChargeInv, ChargeOf
<1>5. ASSUME NEW r \in Requests, SweepResponse(r) \/ SweepResponseWrite(r) PROVE ChargeInv'
  BY <1>5, <1>1, ChargeMove
     DEF SweepResponse, SweepResponseWrite, Sweep, SweepWrite, ChargeInv, ChargeOf
<1>6. ASSUME NEW r \in Requests, TakeLock(r) PROVE ChargeInv'
  BY <1>6, <1>1, ChargeMove DEF TakeLock, ChargeInv, ChargeOf
<1>7. ASSUME NEW r \in Requests, TakeRankingLocks(r) PROVE ChargeInv'
  BY <1>7, <1>1, ChargeMove DEF TakeRankingLocks, ChargeInv, ChargeOf
<1>8. ASSUME NEW r \in Requests, Charge(r) PROVE ChargeInv'
  <2>1. Op(r) \in {"generate", "refresh"}
    BY <1>8 DEF Charge, StepsOK
  <2>2. CASE charged' = charged /\ GoTo(r, "unlock", seen[r])
    BY <1>8, <2>2, <1>1, ChargeMove DEF Charge, ChargeInv, ChargeOf
  <2>3. CASE charged' = [charged EXCEPT ![r] = "today"] /\ GoTo(r, "queue", seen[r])
    <3>1. charged'[r] = "today" /\ \A s \in Requests \ {r} : charged'[s] = charged[s]
      BY <2>3 DEF TypeOK
    <3> QED BY <1>8, <2>1, <2>3, <3>1, <1>1, ChargeMove DEF Charge, ChargeOf, Op
  <2> QED BY <1>8, <2>2, <2>3 DEF Charge
<1>9. ASSUME NEW r \in Requests, MarkQueued(r) \/ SubmitJob(r) PROVE ChargeInv'
  <2>1. pc[r] = "queue" => Op(r) # "save"
    BY DEF StepsOK
  <2> QED BY <1>9, <2>1, <1>1, ChargeMove DEF MarkQueued, SubmitJob, ChargeInv, ChargeOf
<1>10. ASSUME NEW r \in Requests, WriteProfile(r) PROVE ChargeInv'
  <2>1. held[r] # {} => Op(r) # "draft"
    BY DEF StepsOK
  <2> QED BY <1>10, <2>1, <1>1, ChargeMove DEF WriteProfile, ChargeInv, ChargeOf
<1>11. ASSUME NEW r \in Requests, SubmitFull(r) \/ Restore(r) \/ MarkFailed(r) \/ Unlock(r)
       PROVE ChargeInv'
  BY <1>11, <1>1, ChargeMove DEF SubmitFull, Restore, MarkFailed, Unlock, ChargeInv, ChargeOf
<1>12. ASSUME NEW r \in Requests, GiveBack(r) PROVE ChargeInv'
  <2>1. charged'[r] = "no" /\ \A s \in Requests \ {r} : charged'[s] = charged[s]
    BY <1>12 DEF GiveBack, TypeOK
  <2> QED BY <1>12, <2>1, <1>1, ChargeMove DEF GiveBack, ChargeInv, ChargeOf
<1>13. ASSUME NEW r \in Requests, Abort(r) PROVE ChargeInv'
  BY <1>13, <1>1, ChargeMove DEF Abort, ChargeInv, ChargeOf
<1>14. ASSUME NEW r \in Requests, JobStep(r) PROVE ChargeInv'
  BY <1>14 DEF JobStep, Signals, StartKind, MarkRunning, Complete, Fail, EndJob, ChargeInv, ChargeOf, Op
<1>15. ASSUME Take \/ Tick \/ Restart \/ UNCHANGED vars PROVE ChargeInv'
  BY <1>15 DEF Take, Tick, Restart, vars, ChargeInv, ChargeOf, Op
<1>16. ASSUME NewDay PROVE ChargeInv'
  BY <1>16 DEF NewDay, TypeOK, ChargeInv, ChargeOf, Op
<1>17. ASSUME Crash PROVE ChargeInv'
  BY <1>17, <1>2 DEF Crash, TypeOK, ChargeInv, ChargeOf, Op
<1> QED BY <1>3, <1>4, <1>5, <1>6, <1>7, <1>8, <1>9, <1>10, <1>11, <1>12, <1>13, <1>14, <1>15, <1>16,
           <1>17 DEF Next, RequestStep

\* No error and no crash: a charged request that has been answered has a job.
LEMMA JobForChargeStep ==
    ASSUME {"database", "crash"} \cap Faults = {}
    PROVE  TypeInv /\ ChargeInv /\ JobForCharge /\ [Next]_vars => JobForCharge'
<1> SUFFICES ASSUME TypeInv, ChargeInv, JobForCharge, [Next]_vars PROVE JobForCharge'
  OBVIOUS
<1> USE DEF TypeInv, jobVars, reqVars, JobForCharge, Answered
<1>1. ASSUME NEW r \in Requests, NEW step, NEW copy, GoTo(r, step, copy)
      PROVE  pc'[r] = step /\ \A s \in Requests \ {r} : pc'[s] = pc[s]
  BY <1>1 DEF GoTo, TypeOK
<1>2. ASSUME NEW r \in Requests, Load(r) \/ SweepFirst(r) \/ SweepFirstWrite(r)
      PROVE JobForCharge'
  BY <1>2, <1>1 DEF Load, SweepFirst, SweepFirstWrite, Sweep, SweepWrite, ChargeInv, ChargeOf
<1>3. ASSUME NEW r \in Requests, SweepResponse(r) \/ SweepResponseWrite(r) PROVE JobForCharge'
  BY <1>3, <1>1 DEF SweepResponse, SweepResponseWrite, Sweep, SweepWrite
<1>4. ASSUME NEW r \in Requests,
             \/ TakeLock(r) \/ TakeRankingLocks(r) \/ MarkQueued(r) \/ WriteProfile(r)
             \/ SubmitFull(r) \/ Restore(r) \/ Unlock(r) \/ MarkFailed(r)
      PROVE JobForCharge'
  BY <1>4, <1>1 DEF TakeLock, TakeRankingLocks, MarkQueued, WriteProfile, SubmitFull, Restore, Unlock,
                    MarkFailed, ChargeInv, ChargeOf
<1>5. ASSUME NEW r \in Requests, Charge(r) \/ GiveBack(r) PROVE JobForCharge'
  BY <1>5, <1>1 DEF Charge, GiveBack, TypeOK
<1>6. ASSUME NEW r \in Requests, SubmitJob(r) PROVE JobForCharge'
  BY <1>6, <1>1 DEF SubmitJob, TypeOK
<1>7. ASSUME NEW r \in Requests, Abort(r) PROVE JobForCharge'
  BY <1>7 DEF Abort
<1>8. ASSUME NEW r \in Requests, JobStep(r) PROVE JobForCharge'
  <2>1. /\ pc' = pc /\ charged' = charged /\ job'[r] # "none"
        /\ \A s \in Requests \ {r} : job'[s] = job[s]
    BY <1>8 DEF JobStep, Signals, StartKind, MarkRunning, Complete, Fail, EndJob, NextKind, JobGoTo, TypeOK
  <2> QED BY <2>1
<1>9. ASSUME Take PROVE JobForCharge'
  <2>1. Head(queue) \in Requests
    BY <1>9 DEF Take, TypeOK
  <2> QED BY <1>9, <2>1 DEF Take, JobGoTo, TypeOK
<1>10. ASSUME Tick \/ Restart \/ UNCHANGED vars PROVE JobForCharge'
  BY <1>10 DEF Tick, Restart, vars
<1>11. ASSUME NewDay PROVE JobForCharge'
  BY <1>11 DEF NewDay, TypeOK
<1>12. ASSUME Crash PROVE JobForCharge'
  BY <1>12 DEF Crash
<1> QED BY <1>2, <1>3, <1>4, <1>5, <1>6, <1>7, <1>8, <1>9, <1>10, <1>11, <1>12 DEF Next, RequestStep

\* Whoever ends up charged has a job for it: every path between consume and the
\* queue gives the use back, when neither a database error nor a crash ends it.
THEOREM ChargeHasJob ==
    ASSUME {"database", "crash"} \cap Faults = {}
    PROVE  Spec => []ChargedForAJob
<1>1. JobForCharge => ChargedForAJob
  BY DEF JobForCharge, ChargedForAJob, Answered
<1> QED BY <1>1, TypeInit, TypeStep, ChargeInit, ChargeStep, JobForChargeStep, PTL DEF Spec

\* The counters of a day without midnight in it.
CountInv ==
    /\ UsesAccounted
    /\ \A c \in Creators, f \in Features : uses[c][f] <= Cap[f]
    /\ \A r \in Requests : charged[r] # "before"

LEMMA CountInit == Init => CountInv
<1> SUFFICES ASSUME Init PROVE CountInv
  OBVIOUS
<1>1. \A c \in Creators, f \in Features : ChargedToday(c, f) = {} /\ uses[c][f] = 0
  BY DEF Init, UsageInit, ChargedToday
<1>2. \A c \in Creators, f \in Features : uses[c][f] <= Cap[f]
  BY <1>1, UsageLimitsAssumption
<1>3. UsesAccounted
  BY <1>1, FS_EmptySet DEF UsesAccounted
<1> QED BY <1>2, <1>3 DEF Init, CountInv

\* Requests are finitely many, and a use is counted under one creator and feature.
LEMMA ChargedFinite == \A c, f : IsFiniteSet(ChargedToday(c, f))
BY FS_Subset, UserJobsAssumption DEF ChargedToday

LEMMA CountQuiet ==
    ASSUME CountInv, UNCHANGED <<uses, charged, task>>
    PROVE  CountInv'
<1>1. \A c, f : ChargedToday(c, f)' = ChargedToday(c, f)
  BY DEF ChargedToday, Creator, Kind
<1> QED BY <1>1 DEF CountInv, UsesAccounted

LEMMA CountConsume ==
    ASSUME TypeOK, CountInv, NEW r \in Requests, charged[r] = "no", task' = task,
           Consume(Creator(r), FeatureOf(Kind(r))), charged' = [charged EXCEPT ![r] = "today"]
    PROVE  CountInv'
<1> DEFINE d == Creator(r)
           g == FeatureOf(Kind(r))
<1>1. d \in Creators /\ g \in Features
  BY TaskType, FeatureType DEF TypeOK, Creator
<1>2. ASSUME NEW c \in Creators, NEW f \in Features
      PROVE  /\ uses[c][f] \in Nat
             /\ uses'[c][f] = IF c = d /\ f = g THEN uses[c][f] + 1 ELSE uses[c][f]
  BY <1>1, <1>2 DEF Consume, TypeOK, UsageTypeOK
<1>3. ASSUME NEW c \in Creators, NEW f \in Features
      PROVE  /\ r \notin ChargedToday(c, f)
             /\ ChargedToday(c, f)' = IF c = d /\ f = g THEN ChargedToday(c, f) \cup {r}
                                                       ELSE ChargedToday(c, f)
  BY <1>3 DEF ChargedToday, Creator, Kind, TypeOK
<1>4. ASSUME NEW c \in Creators, NEW f \in Features
      PROVE  uses'[c][f] = Cardinality(ChargedToday(c, f)')
  BY <1>2, <1>3, <1>4, ChargedFinite, FS_AddElement DEF CountInv, UsesAccounted
<1>5. \A c \in Creators, f \in Features : uses'[c][f] <= Cap[f]
  BY <1>1, <1>2, UsageLimitsAssumption DEF CountInv, Consume, UnderCap
<1>6. \A s \in Requests : charged'[s] # "before"
  BY DEF CountInv, TypeOK
<1> QED BY <1>4, <1>5, <1>6 DEF CountInv, UsesAccounted

LEMMA CountRefund ==
    ASSUME TypeOK, CountInv, NEW r \in Requests, charged[r] # "no", task' = task,
           Refund(Creator(r), FeatureOf(Kind(r))), charged' = [charged EXCEPT ![r] = "no"]
    PROVE  CountInv'
<1> DEFINE d == Creator(r)
           g == FeatureOf(Kind(r))
<1>1. d \in Creators /\ g \in Features
  BY TaskType, FeatureType DEF TypeOK, Creator
<1>2. charged[r] = "today" /\ r \in ChargedToday(d, g)
  BY DEF CountInv, TypeOK, ChargedToday
<1>3. uses[d][g] > 0
  <2>1. uses[d][g] = Cardinality(ChargedToday(d, g)) /\ uses[d][g] \in Nat
    BY <1>1 DEF CountInv, UsesAccounted, TypeOK, UsageTypeOK
  <2>2. Cardinality(ChargedToday(d, g)) # 0
    BY <1>2, ChargedFinite, FS_EmptySet
  <2> QED BY <2>1, <2>2
<1>4. ASSUME NEW c \in Creators, NEW f \in Features
      PROVE  /\ uses[c][f] \in Nat
             /\ uses'[c][f] = IF c = d /\ f = g THEN uses[c][f] - 1 ELSE uses[c][f]
  BY <1>1, <1>3, <1>4 DEF Refund, TypeOK, UsageTypeOK
<1>5. ASSUME NEW c \in Creators, NEW f \in Features
      PROVE  /\ r \in ChargedToday(c, f) <=> c = d /\ f = g
             /\ ChargedToday(c, f)' = IF c = d /\ f = g THEN ChargedToday(c, f) \ {r}
                                                       ELSE ChargedToday(c, f)
  BY <1>2, <1>5 DEF ChargedToday, Creator, Kind, TypeOK
<1>6. ASSUME NEW c \in Creators, NEW f \in Features
      PROVE  uses'[c][f] = Cardinality(ChargedToday(c, f)')
  BY <1>4, <1>5, <1>6, ChargedFinite, FS_RemoveElement DEF CountInv, UsesAccounted
<1>7. \A c \in Creators, f \in Features : uses'[c][f] <= Cap[f]
  BY <1>4, UsageLimitsAssumption DEF CountInv
<1>8. \A s \in Requests : charged'[s] # "before"
  BY DEF CountInv, TypeOK
<1> QED BY <1>6, <1>7, <1>8 DEF CountInv, UsesAccounted

LEMMA CountStep ==
    ASSUME "midnight" \notin Faults
    PROVE  TypeInv /\ ChargeInv /\ CountInv /\ [Next]_vars => CountInv'
<1> SUFFICES ASSUME TypeInv, ChargeInv, CountInv, [Next]_vars PROVE CountInv'
  OBVIOUS
<1> USE DEF TypeInv
<1>1. ASSUME NEW r \in Requests, Charge(r) PROVE CountInv'
  <2>1. charged[r] = "no"
    BY <1>1 DEF Charge, ChargeInv, ChargeOf
  <2> QED BY <1>1, <2>1, CountConsume, CountQuiet DEF Charge
<1>2. ASSUME NEW r \in Requests, GiveBack(r) PROVE CountInv'
  BY <1>2, CountRefund DEF GiveBack, ChargeInv, ChargeOf
<1>3. ASSUME NEW r \in Requests, RequestStep(r), ~Charge(r), ~GiveBack(r) PROVE CountInv'
  BY <1>3, CountQuiet DEF RequestStep, SweepFirst, SweepFirstWrite, SweepResponse, SweepResponseWrite,
     Sweep, SweepWrite, TakeLock, TakeRankingLocks, MarkQueued, WriteProfile, SubmitJob, SubmitFull,
     Restore, Unlock, MarkFailed
<1>4. ASSUME NEW r \in Requests, Load(r) \/ Abort(r) \/ JobStep(r) PROVE CountInv'
  BY <1>4, CountQuiet DEF Load, Abort, JobStep, Signals, StartKind, MarkRunning, Complete, Fail, EndJob
<1>5. ASSUME Take \/ Tick \/ Crash \/ Restart \/ UNCHANGED vars PROVE CountInv'
  BY <1>5, CountQuiet DEF Take, Tick, Crash, Restart, vars
<1>6. ~NewDay
  BY DEF NewDay
<1> QED BY <1>1, <1>2, <1>3, <1>4, <1>5, <1>6 DEF Next

\* On one UTC day the counter is exactly the uses charged and not given back,
\* whatever overlaps, fails or crashes: the upsert of consume and the UPDATE of
\* refund never lose or invent a use.
THEOREM CounterExact ==
    ASSUME "midnight" \notin Faults
    PROVE  Spec => []UsesAccounted
<1>1. CountInv => UsesAccounted
  BY DEF CountInv
<1> QED BY <1>1, TypeInit, TypeStep, ChargeInit, ChargeStep, CountInit, CountStep, PTL DEF Spec

\* ... hence nobody is charged more often than the daily cap.
THEOREM ChargedWithinCap ==
    ASSUME "midnight" \notin Faults
    PROVE  Spec => []CapHolds
<1>1. CountInv => CapHolds
  BY DEF CountInv, UsesAccounted, CapHolds
<1> QED BY <1>1, TypeInit, TypeStep, ChargeInit, ChargeStep, CountInit, CountStep, PTL DEF Spec

-----------------------------------------------------------------------------
(* The lock that goes from the request to its job.                         *)

\* The job is queued or running, and has not reached its release_lock.
Active(r) == job[r] \in {"waiting", "signals", "start", "loaded", "working"}

\* Which locks a request and its job hold, and what of its steps that needs.
WorkOf(r) ==
    /\ pc[r] \in {"charge", "queue", "restore", "refund"} => Kind(r) \in held[r]
    /\ pc[r] = "submit" \/ Active(r) =>
         IF Op(r) = "save" THEN Wanted \subseteq held[r] ELSE Kind(r) \in held[r]
    /\ pc[r] = "write" => held[r] = {} \/ Wanted \subseteq held[r]
    /\ Op(r) = "save" => held[r] \subseteq Wanted
    /\ pc[r] \notin Answered => job[r] = "none"
    /\ Op(r) = "view" => job[r] = "none"
    /\ job[r] = "signals" => Op(r) = "save"
    /\ job[r] \in {"loaded", "working"} => Current(r) \notin Paused
    /\ Op(r) = "refresh" => todo[r] \subseteq {Kind(r)}

\* The queue holds waiting jobs, each once.
QueueWaits ==
    /\ \A i \in 1 .. Len(queue) : job[queue[i]] = "waiting"
    /\ \A i, j \in 1 .. Len(queue) : queue[i] = queue[j] => i = j

WorkInv == (\A r \in Requests : WorkOf(r)) /\ QueueWaits

LEMMA WorkInit == Init => WorkInv
BY DEF Init, WorkInv, WorkOf, QueueWaits, Active, Answered

\* A step of request or job r that moves only r.
LEMMA WorkMove ==
    ASSUME WorkInv, NEW r \in Requests, task' = task, WorkOf(r)',
           \A s \in Requests \ {r} :
             pc'[s] = pc[s] /\ held'[s] = held[s] /\ job'[s] = job[s] /\ todo'[s] = todo[s]
    PROVE  \A s \in Requests : WorkOf(s)'
BY DEF WorkInv, WorkOf, Active, Current, Op, Kind

\* A step that leaves the queue and the waiting jobs alone.
LEMMA QueueQuiet ==
    ASSUME TypeOK, WorkInv, queue' = queue, \A s \in Requests : job[s] = "waiting" => job'[s] = "waiting"
    PROVE  QueueWaits'
<1>1. \A i \in 1 .. Len(queue) : queue[i] \in Requests
  BY DEF TypeOK
<1> QED BY <1>1 DEF WorkInv, QueueWaits

\* A step of request r whose job does not exist yet, or which has answered.
LEMMA WorkRequest ==
    ASSUME TypeInv, WorkInv, NEW r \in Requests, NEW step, NEW copy, GoTo(r, step, copy), WorkOf(r)',
           UNCHANGED <<queue, task, jobVars>>, \A s \in Requests \ {r} : held'[s] = held[s]
    PROVE  WorkInv'
<1>1. \A s \in Requests \ {r} : pc'[s] = pc[s] /\ job'[s] = job[s] /\ todo'[s] = todo[s]
  BY DEF GoTo, TypeInv, TypeOK, jobVars
<1>2. \A s \in Requests : job'[s] = job[s]
  BY DEF jobVars
<1> QED BY <1>1, <1>2, WorkMove, QueueQuiet DEF WorkInv, TypeInv

LEMMA WorkStep == TypeInv /\ ChargeInv /\ WorkInv /\ [Next]_vars => WorkInv'
<1> SUFFICES ASSUME TypeInv, ChargeInv, WorkInv, [Next]_vars PROVE WorkInv'
  OBVIOUS
<1> USE DEF TypeInv, reqVars, Answered
<1>1. ASSUME NEW r \in Requests, NEW step, NEW copy, GoTo(r, step, copy), task' = task
      PROVE  pc'[r] = step /\ Op(r)' = Op(r) /\ Kind(r)' = Kind(r)
  BY <1>1 DEF GoTo, TypeOK, Op, Kind
<1>2. ASSUME NEW r \in Requests, UNCHANGED <<task, jobVars>>
      PROVE  /\ job'[r] = job[r] /\ Active(r)' = Active(r)
             /\ Current(r)' = Current(r) /\ todo'[r] = todo[r]
  BY <1>2 DEF jobVars, Active, Current, Op, Kind
<1>3. ASSUME NEW r \in Requests, Load(r) PROVE WorkInv'
  BY <1>3, <1>1, <1>2, WorkRequest DEF Load, WorkInv, WorkOf
<1>4. ASSUME NEW r \in Requests, SweepFirst(r) \/ SweepFirstWrite(r) PROVE WorkInv'
  <2>1. /\ AfterSweep(r, seen[r]) \notin {"charge", "queue", "restore", "refund", "submit"}
        /\ AfterSweep(r, SweptCopy(r)) \notin {"charge", "queue", "restore", "refund", "submit"}
        /\ AfterSweep(r, seen[r]) = "write" => Op(r) = "draft"
        /\ AfterSweep(r, SweptCopy(r)) = "write" => Op(r) = "draft"
    BY SweptType DEF AfterSweep
  <2>2. Op(r) = "draft" => held[r] = {}
    BY DEF StepsOK
  <2>3. WorkOf(r)'
    BY <1>4, <1>1, <1>2, <2>1, <2>2
       DEF SweepFirst, SweepFirstWrite, Sweep, SweepWrite, WorkInv, WorkOf
  <2> QED BY <1>4, <2>3, WorkRequest DEF SweepFirst, SweepFirstWrite, Sweep, SweepWrite
<1>5. ASSUME NEW r \in Requests, SweepResponse(r) \/ SweepResponseWrite(r) PROVE WorkInv'
  BY <1>5, <1>1, <1>2, WorkRequest
     DEF SweepResponse, SweepResponseWrite, Sweep, SweepWrite, WorkInv, WorkOf
<1>6. ASSUME NEW r \in Requests, TakeLock(r) PROVE WorkInv'
  <2>1. CASE held' = held /\ (GoTo(r, "done", seen[r]) \/ GoTo(r, "respond", seen[r]))
    BY <1>6, <2>1, <1>1, <1>2, WorkRequest DEF TakeLock, WorkInv, WorkOf
  <2>2. CASE held' = [held EXCEPT ![r] = {Kind(r)}] /\ GoTo(r, "charge", seen[r])
    <3>1. held'[r] = {Kind(r)} /\ \A s \in Requests \ {r} : held'[s] = held[s]
      BY <2>2 DEF TypeOK
    <3>2. job[r] = "none" /\ Op(r) # "save"
      BY <1>6 DEF TakeLock, WorkInv, WorkOf
    <3> QED BY <1>6, <2>2, <3>1, <3>2, <1>1, <1>2, WorkRequest DEF TakeLock, WorkInv, WorkOf, Active
  <2> QED BY <1>6, <2>1, <2>2 DEF TakeLock
<1>7. ASSUME NEW r \in Requests, TakeRankingLocks(r) PROVE WorkInv'
  <2> DEFINE k == FirstRanking(Wanted \ held[r])
  <2>1. job[r] = "none" /\ Op(r) = "save"
    BY <1>7 DEF TakeRankingLocks, WorkInv, WorkOf
  <2>2. CASE held' = held /\ GoTo(r, "write", seen[r]) /\ (held[r] = {} \/ Wanted = {})
    BY <1>7, <2>1, <2>2, <1>1, <1>2, WorkRequest DEF TakeRankingLocks, WorkInv, WorkOf, Active
  <2>3. CASE /\ held' = [held EXCEPT ![r] = @ \cup {k}] /\ Wanted \ held[r] # {}
             /\ GoTo(r, IF held[r] \cup {k} = Wanted THEN "write" ELSE "lock", seen[r])
    <3>1. k \in Wanted
      BY <2>3, FirstRankingType, KindTypes
    <3>2. held'[r] = held[r] \cup {k} /\ \A s \in Requests \ {r} : held'[s] = held[s]
      BY <2>3 DEF TypeOK
    <3>3. pc'[r] \in {"write", "lock"} /\ (pc'[r] = "write" => held'[r] = Wanted)
      BY <2>3, <3>2 DEF GoTo, TypeOK
    <3>4. held[r] \subseteq Wanted /\ held'[r] \subseteq Wanted
      BY <2>1, <3>1, <3>2 DEF WorkInv, WorkOf
    <3>5. task' = task /\ job'[r] = "none" /\ todo'[r] = todo[r]
      BY <1>7, <2>1 DEF TakeRankingLocks, jobVars
    <3>6. WorkOf(r)'
      BY <2>1, <3>3, <3>4, <3>5 DEF WorkOf, Active, Op
    <3> QED BY <1>7, <2>3, <3>2, <3>6, WorkRequest DEF TakeRankingLocks
  <2>4. CASE Unlocked(r) /\ GoTo(r, "write", seen[r])
    BY <1>7, <2>1, <2>4, <1>1, <1>2, UnlockedType, WorkRequest
       DEF TakeRankingLocks, WorkInv, WorkOf, Active
  <2> QED BY <1>7, <2>2, <2>3, <2>4 DEF TakeRankingLocks
<1>8. ASSUME NEW r \in Requests, Charge(r) \/ MarkQueued(r) \/ SubmitFull(r) \/ Restore(r) \/ GiveBack(r) \/ MarkFailed(r)
      PROVE WorkInv'
  <2>1. Op(r) \notin {"generate", "refresh", "save"} => pc[r] \notin {"submit", "queue"}
    BY DEF StepsOK
  <2>2. pc[r] \in {"queue", "charge", "restore", "refund"} => Op(r) # "save"
    BY DEF StepsOK
  <2>3. WorkOf(r)'
    BY <1>8, <2>1, <2>2, <1>1, <1>2
       DEF Charge, MarkQueued, SubmitFull, Restore, GiveBack, MarkFailed, WorkInv, WorkOf
  <2> QED BY <1>8, <2>3, WorkRequest
          DEF Charge, MarkQueued, SubmitFull, Restore, GiveBack, MarkFailed
<1>9. ASSUME NEW r \in Requests, WriteProfile(r) PROVE WorkInv'
  <2>1. job[r] = "none" /\ (held[r] # {} => Op(r) = "save" /\ Wanted \subseteq held[r])
    BY <1>9 DEF WriteProfile, WorkInv, WorkOf, ChargeInv, ChargeOf, StepsOK
  <2>2. WorkOf(r)'
    BY <1>9, <2>1, <1>1, <1>2 DEF WriteProfile, WorkInv, WorkOf, Active
  <2> QED BY <1>9, <2>2, WorkRequest DEF WriteProfile
<1>10. ASSUME NEW r \in Requests, SubmitJob(r) PROVE WorkInv'
  <2>1. /\ job[r] = "none" /\ job'[r] = "waiting" /\ held' = held /\ todo' = todo
        /\ Op(r) # "view"
        /\ \A s \in Requests \ {r} : job'[s] = job[s]
    BY <1>10 DEF SubmitJob, WorkInv, WorkOf, StepsOK, TypeOK
  <2>2. pc'[r] \in {"respond", "done"} /\ \A s \in Requests \ {r} : pc'[s] = pc[s]
    BY <1>10 DEF SubmitJob, GoTo, TypeOK
  <2>3. WorkOf(r)'
    BY <1>10, <2>1, <2>2 DEF SubmitJob, WorkInv, WorkOf, Active, Op, Kind, Current
  <2>4. \A s \in Requests : WorkOf(s)'
    BY <1>10, <2>1, <2>2, <2>3, WorkMove DEF SubmitJob
  <2>5. /\ queue \in Seq(Requests) /\ queue' = Append(queue, r)
        /\ \A i \in 1 .. Len(queue) : queue[i] \in Requests /\ queue[i] # r
    BY <1>10, <2>1 DEF SubmitJob, WorkInv, QueueWaits, TypeOK
  <2>6. /\ Len(queue') = Len(queue) + 1 /\ queue'[Len(queue) + 1] = r
        /\ \A i \in 1 .. Len(queue) : queue'[i] = queue[i]
    BY <2>5
  <2>7. Len(queue) \in Nat
    BY <2>5
  <2>8. \A i \in 1 .. Len(queue') : i \in 1 .. Len(queue) \/ i = Len(queue) + 1
    BY <2>6, <2>7
  <2>9. QueueWaits'
    BY <2>1, <2>5, <2>6, <2>8 DEF WorkInv, QueueWaits
  <2> QED BY <2>4, <2>9 DEF WorkInv
<1>11. ASSUME NEW r \in Requests, Unlock(r) PROVE WorkInv'
  <2>1. job[r] = "none"
    BY <1>11 DEF Unlock, WorkInv, WorkOf
  <2>2. WorkOf(r)'
    BY <1>11, <2>1, <1>1, <1>2, UnlockedType DEF Unlock, WorkInv, WorkOf, Active
  <2> QED BY <1>11, <2>2, UnlockedType, WorkRequest DEF Unlock
<1>12. ASSUME NEW r \in Requests, Abort(r) PROVE WorkInv'
  <2>1. /\ held'[r] = (IF job[r] = "none" THEN {} ELSE held[r])
        /\ \A s \in Requests \ {r} : held'[s] = held[s]
    BY <1>12 DEF Abort, TypeOK
  <2>2. Op(r) = "view" => job[r] = "none"
    BY DEF WorkInv, WorkOf
  <2>3. WorkOf(r)'
    BY <1>12, <2>1, <2>2, <1>1, <1>2 DEF Abort, WorkInv, WorkOf, Active
  <2> QED BY <1>12, <2>1, <2>3, WorkRequest DEF Abort
<1>13. ASSUME Take PROVE WorkInv'
  <2>1. PICK r \in Requests :
          /\ r = Head(queue) /\ r = queue[1]
          /\ queue \in Seq(Requests) /\ queue # <<>>
          /\ Len(queue) \in Nat \ {0} /\ queue' = Tail(queue)
    BY <1>13 DEF Take, TypeOK
  <2>2. job[r] = "waiting" /\ \A i \in 2 .. Len(queue) : queue[i] # r
    BY <2>1 DEF WorkInv, QueueWaits
  <2>3. /\ job'[r] = IF Op(r) = "save" THEN "signals" ELSE "start"
        /\ todo'[r] = IF Op(r) = "refresh" THEN {Kind(r)} ELSE {}
        /\ \A s \in Requests \ {r} : job'[s] = job[s] /\ todo'[s] = todo[s]
    BY <1>13, <2>1 DEF Take, JobGoTo, TypeOK
  <2>4. UNCHANGED <<task, pc, held>>
    BY <1>13 DEF Take
  <2>5. WorkOf(r)'
    BY <2>1, <2>2, <2>3, <2>4 DEF WorkInv, WorkOf, Active, Op, Kind
  <2>6. \A s \in Requests : WorkOf(s)'
    BY <2>1, <2>3, <2>4, <2>5, WorkMove
  <2>7. Len(queue') = Len(queue) - 1 /\ \A i \in 1 .. Len(queue') : queue'[i] = queue[i + 1]
    BY <2>1
  <2>8. \A i \in 1 .. Len(queue') : i + 1 \in 2 .. Len(queue) /\ queue[i + 1] \in Requests
    BY <2>1, <2>7
  <2>9. \A i \in 1 .. Len(queue') : job'[queue'[i]] = "waiting"
    BY <2>1, <2>2, <2>3, <2>7, <2>8 DEF WorkInv, QueueWaits
  <2>10. \A i, j \in 1 .. Len(queue') : queue'[i] = queue'[j] => i = j
    BY <2>1, <2>7, <2>8 DEF WorkInv, QueueWaits
  <2> QED BY <2>6, <2>9, <2>10 DEF WorkInv, QueueWaits
<1>14. ASSUME NEW r \in Requests, NextKind(r), job[r] \in {"start", "loaded", "working"},
              UNCHANGED <<queue, task, pc, held>>
       PROVE WorkInv'
  <2>1. /\ job'[r] \in {"start", "release"} /\ todo'[r] \subseteq todo[r]
        /\ \A s \in Requests \ {r} : job'[s] = job[s] /\ todo'[s] = todo[s]
    BY <1>14 DEF NextKind, JobGoTo, TypeOK
  <2>2. WorkOf(r)'
    BY <1>14, <2>1 DEF WorkInv, WorkOf, Active, Op, Kind
  <2>3. \A s \in Requests : WorkOf(s)'
    BY <1>14, <2>1, <2>2, WorkMove
  <2> QED BY <1>14, <2>1, <2>3, QueueQuiet DEF WorkInv
<1>15. ASSUME NEW r \in Requests, Signals(r) PROVE WorkInv'
  <2>1. /\ job'[r] \in {"start", "release"} /\ job[r] = "signals"
        /\ \A s \in Requests \ {r} : job'[s] = job[s] /\ todo'[s] = todo[s]
    BY <1>15 DEF Signals, JobGoTo, TypeOK
  <2>2. WorkOf(r)'
    BY <1>15, <2>1 DEF Signals, WorkInv, WorkOf, Active, Op, Kind
  <2>3. \A s \in Requests : WorkOf(s)'
    BY <1>15, <2>1, <2>2, WorkMove DEF Signals
  <2> QED BY <1>15, <2>1, <2>3, QueueQuiet DEF Signals, WorkInv
<1>16. ASSUME NEW r \in Requests, job[r] \in {"start", "loaded"}, todo' = todo,
              job' = [job EXCEPT ![r] = "loaded"] \/ job' = [job EXCEPT ![r] = "working"],
              Current(r) \notin Paused, UNCHANGED <<queue, task, pc, held>>
       PROVE WorkInv'
  <2>1. job'[r] \in {"loaded", "working"} /\ \A s \in Requests \ {r} : job'[s] = job[s]
    BY <1>16 DEF TypeOK
  <2>2. WorkOf(r)'
    BY <1>16, <2>1 DEF WorkInv, WorkOf, Active, Op, Kind, Current
  <2>3. \A s \in Requests : WorkOf(s)'
    BY <1>16, <2>1, <2>2, WorkMove
  <2> QED BY <1>16, <2>1, <2>3, QueueQuiet DEF WorkInv
<1>17. ASSUME NEW r \in Requests, StartKind(r) PROVE WorkInv'
  BY <1>17, <1>14, <1>16 DEF StartKind, JobGoTo
<1>18. ASSUME NEW r \in Requests, MarkRunning(r) PROVE WorkInv'
  <2>1. Current(r) \notin Paused
    BY <1>18 DEF MarkRunning, WorkInv, WorkOf
  <2> QED BY <1>18, <2>1, <1>16 DEF MarkRunning, JobGoTo
<1>19. ASSUME NEW r \in Requests, Complete(r) \/ Fail(r) PROVE WorkInv'
  BY <1>19, <1>14 DEF Complete, Fail
<1>20. ASSUME NEW r \in Requests, EndJob(r) PROVE WorkInv'
  <2>1. /\ job[r] = "release" /\ job'[r] = "over"
        /\ \A s \in Requests \ {r} : job'[s] = job[s]
    BY <1>20 DEF EndJob, JobGoTo, TypeOK
  <2>2. held'[r] = {} /\ \A s \in Requests \ {r} : held'[s] = held[s]
    BY <1>20, UnlockedType DEF EndJob
  <2>3. WorkOf(r)'
    BY <1>20, <2>1, <2>2 DEF EndJob, WorkInv, WorkOf, Active, Op, Kind
  <2>4. \A s \in Requests : WorkOf(s)'
    BY <1>20, <2>1, <2>2, <2>3, WorkMove DEF EndJob
  <2> QED BY <1>20, <2>1, <2>4, QueueQuiet DEF EndJob, WorkInv
<1>21. ASSUME Tick \/ NewDay \/ Restart \/ UNCHANGED vars PROVE WorkInv'
  BY <1>21 DEF Tick, NewDay, Restart, vars, jobVars, WorkInv, WorkOf, QueueWaits, Active, Current, Op, Kind
<1>22. ASSUME Crash PROVE WorkInv'
  <2>1. \A s \in Requests : WorkOf(s)'
    BY <1>22 DEF Crash, WorkInv, WorkOf, Active, Op, Kind
  <2>2. QueueWaits'
    BY <1>22 DEF Crash, QueueWaits
  <2> QED BY <2>1, <2>2 DEF WorkInv
<1> QED BY <1>3, <1>4, <1>5, <1>6, <1>7, <1>8, <1>9, <1>10, <1>11, <1>12, <1>13, <1>15, <1>17, <1>18,
           <1>19, <1>20, <1>21, <1>22 DEF Next, RequestStep, JobStep

LEMMA WorkHolds ==
    ASSUME TypeInv, WorkInv, NEW r \in Requests, job[r] \in {"loaded", "working"}
    PROVE  Current(r) \in held[r]
<1>1. CASE Op(r) = "generate"
  BY <1>1 DEF Current, WorkInv, WorkOf, Active
<1>2. CASE Op(r) # "generate"
  <2>1. todo[r] # {} /\ todo[r] \subseteq Rankings /\ Current(r) = FirstRanking(todo[r])
    BY <1>2 DEF TypeInv, TypeOK, StepsOK, Current
  <2>2. Current(r) \in todo[r] /\ Current(r) \in Rankings \ Paused
    BY <2>1, FirstRankingType DEF WorkInv, WorkOf
  <2>3. Op(r) # "save" => Kind(r) \in held[r] /\ Op(r) = "refresh"
    BY <1>2 DEF WorkInv, WorkOf, Active, TypeInv, StepsOK
  <2>4. CASE Op(r) = "save"
    BY <2>2, <2>4 DEF WorkInv, WorkOf, Active, Wanted
  <2>5. CASE Op(r) = "refresh"
    BY <2>1, <2>2, <2>3, <2>5 DEF WorkInv, WorkOf
  <2> QED BY <2>3, <2>4, <2>5
<1> QED BY <1>1, <1>2

\* However a description or a ranking was asked for, no two workers run the same
\* kind for one creator: the lock taken by the request is still the job's.
THEOREM NoTwoWorkers ==
    ASSUME "overrun" \notin Faults
    PROVE  Spec => []OneRunPerKind
<1>1. TypeInv /\ WorkInv /\ LockInv => OneRunPerKind
  BY WorkHolds DEF LockInv, OneRunPerKind, AtWork
<1> QED BY <1>1, TypeInit, TypeStep, LockInit, LockStep, ChargeInit, ChargeStep, WorkInit, WorkStep, PTL
        DEF Spec

-----------------------------------------------------------------------------
(* The job a row names.                                                    *)

\* Before its row is written, the id of a generation is new; other requests
\* never write their own.
Early == {"start", "sweep", "sweepwrite", "lock", "charge", "queue"}

NewId(r) == pc[r] \in Early \/ Op(r) # "generate"

FreshInv ==
    \A r \in Requests : NewId(r) =>
        /\ \A c \in Creators, k \in Kinds : row[c][k].job # r
        /\ \A s \in Requests, k \in Kinds : seen[s][k].job # r

\* Generation r owns the job column: from its UPDATE to the end of the job.
Asked(r) ==
    Op(r) = "generate" /\ (pc[r] = "submit" \/ job[r] \in {"waiting", "start", "loaded", "working"})

NamedInv ==
    \A r \in Requests :
        /\ Asked(r) => row[Creator(r)][Kind(r)].job = r
        /\ job[r] \in {"loaded", "working"} /\ Op(r) = "generate" => cache[r].job = r
        /\ job[r] = "working" => cache[r].status = "running"

LEMMA FreshInit == Init => FreshInv
BY UserJobsAssumption DEF Init, FreshInv, IdleColumns

LEMMA NamedInit == Init => NamedInv
BY DEF Init, NamedInv, Asked

\* Only a generation changes the job column: its own id when it queues, the old
\* id when it undoes that.
Names(s, c, k) ==
    /\ Creator(s) = c /\ Kind(s) = k /\ Op(s) = "generate"
    /\ \/ pc[s] = "queue" /\ pc'[s] = "submit" /\ row'[c][k].job = s
       \/ /\ Restore(s) /\ pc[s] = "restore" /\ pc'[s] = "refund"
          /\ row'[c][k].job = seen[s][k].job

LEMMA FlushJob ==
    \A db, old, new : new.job = old.job => Flush(db, old, new).job = db.job
BY DEF Flush

LEMMA SameJob ==
    ASSUME NEW col \in Columns, NEW k, NEW message
    PROVE  /\ Stopped(col, message).job = col.job
           /\ Idle(col).job = col.job
           /\ Running(col, k).job = col.job
           /\ Completed(col, k).job = col.job
BY DEF Columns, Stopped, Idle, Running, Completed

LEMMA JobColumn ==
    ASSUME TypeInv, ChargeInv, WorkInv, [Next]_vars, NEW c \in Creators, NEW k \in Kinds,
           row'[c][k].job # row[c][k].job
    PROVE  \E s \in Requests : Names(s, c, k)
<1> USE DEF TypeInv
<1>1. ASSUME NEW d \in Creators, NEW m \in Kinds, NEW col \in Columns, WriteRow(d, m, col)
      PROVE  d = c /\ m = k /\ row'[c][k] = col
  BY <1>1, WriteRowType DEF TypeOK
<1>2. ASSUME NEW r \in Requests
      PROVE  /\ Creator(r) \in Creators
             /\ Op(r) \in {"generate", "refresh"} => Kind(r) \in Kinds
             /\ Op(r) = "refresh" => Kind(r) \notin Descriptions
             /\ job[r] \in {"start", "loaded", "working"} => Current(r) \in Kinds
  <2>1. job[r] \in {"start", "loaded", "working"} /\ Op(r) # "generate" => Current(r) \in todo[r]
    BY FirstRankingType DEF StepsOK, TypeOK, Current
  <2> QED BY <2>1, TaskType, KindTypes DEF TypeOK, Creator, Op, Kind, Current
<1>3. ASSUME NEW r \in Requests, SweepFirstWrite(r) \/ SweepResponseWrite(r) PROVE FALSE
  <2>1. row' = [row EXCEPT ![Creator(r)] =
                  [m \in Kinds |-> Flush(row[Creator(r)][m], seen[r][m], SweptCopy(r)[m])]]
    BY <1>3 DEF SweepFirstWrite, SweepResponseWrite, SweepWrite
  <2>2. row'[c][k] = row[c][k] \/ row'[c][k] = Flush(row[c][k], seen[r][k], SweptCopy(r)[k])
    BY <2>1, <1>2 DEF TypeOK
  <2>3. SweptCopy(r)[k].job = seen[r][k].job
    BY SameJob DEF SweptCopy, TypeOK
  <2> QED BY <2>2, <2>3, FlushJob
<1>4. ASSUME NEW r \in Requests, MarkQueued(r) PROVE Names(r, c, k)
  <2>1. pc[r] = "queue" /\ pc'[r] = "submit" /\ Op(r) \in {"generate", "refresh"}
    BY <1>4 DEF MarkQueued, GoTo, TypeOK, StepsOK
  <2> DEFINE new == Queued(seen[r][Kind(r)], Kind(r), r)
             col == Flush(row[Creator(r)][Kind(r)], seen[r][Kind(r)], new)
  <2>2. Creator(r) = c /\ Kind(r) = k /\ row'[c][k] = col
    <3>1. col \in Columns
      BY <1>2, <2>1, FlushType, QueuedType DEF TypeOK
    <3> QED BY <1>1, <1>2, <1>4, <2>1, <3>1 DEF MarkQueued
  <2>3. col.job = IF new.job # seen[r][k].job THEN new.job ELSE row[c][k].job
    BY <2>2 DEF Flush
  <2>4. new.job = IF k \in Descriptions THEN r ELSE seen[r][k].job
    BY <2>2 DEF Queued
  <2> QED BY <2>1, <2>2, <2>3, <2>4, <1>2 DEF Names
<1>5. ASSUME NEW r \in Requests, Restore(r) PROVE Names(r, c, k)
  <2>1. pc[r] = "restore" /\ pc'[r] = "refund" /\ Op(r) \in {"generate", "refresh"}
    BY <1>5 DEF Restore, GoTo, TypeOK, StepsOK
  <2> DEFINE old == Queued(seen[r][Kind(r)], Kind(r), r)
             col == Flush(row[Creator(r)][Kind(r)], old, seen[r][Kind(r)])
  <2>2. Creator(r) = c /\ Kind(r) = k /\ row'[c][k] = col
    <3>1. col \in Columns
      BY <1>2, <2>1, FlushType, QueuedType DEF TypeOK
    <3> QED BY <1>1, <1>2, <1>5, <2>1, <3>1 DEF Restore
  <2>3. col.job = IF seen[r][k].job # old.job THEN seen[r][k].job ELSE row[c][k].job
    BY <2>2 DEF Flush
  <2>4. old.job = IF k \in Descriptions THEN r ELSE seen[r][k].job
    BY <2>2 DEF Queued
  <2> QED BY <1>5, <2>1, <2>2, <2>3, <2>4, <1>2 DEF Names
<1>6. ASSUME NEW r \in Requests, WriteProfile(r) PROVE FALSE
  <2>1. held[r] \cap Descriptions = {}
    BY <1>6, KindTypes DEF WriteProfile, ChargeInv, ChargeOf, WorkInv, WorkOf, StepsOK
  <2>2. \/ row'[c][k] = row[c][k]
        \/ k \in held[r] /\ row'[c][k] = Flush(row[c][k], seen[r][k], Queued(seen[r][k], k, r))
    BY <1>6, <1>2 DEF WriteProfile, TypeOK
  <2>3. k \in held[r] => Queued(seen[r][k], k, r).job = seen[r][k].job
    BY <2>1 DEF Queued
  <2> QED BY <2>2, <2>3, FlushJob
<1>7. ASSUME NEW r \in Requests, MarkFailed(r) PROVE FALSE
  <2>1. \/ row'[c][k] = row[c][k]
        \/ row'[c][k] = Flush(row[c][k], seen[r][k], Stopped(seen[r][k], "busy"))
    BY <1>7, <1>2 DEF MarkFailed, TypeOK
  <2>2. Stopped(seen[r][k], "busy").job = seen[r][k].job
    BY SameJob DEF TypeOK
  <2> QED BY <2>1, <2>2, FlushJob
<1>8. ASSUME NEW r \in Requests, StartKind(r) PROVE FALSE
  <2>1. Idle(row[Creator(r)][Current(r)]) \in Columns
    BY <1>2, <1>8, PausedType DEF StartKind, TypeOK
  <2>2. row'[c][k] = row[c][k] \/ row'[c][k] = Idle(row[c][k])
    BY <1>1, <1>2, <1>8, <2>1 DEF StartKind
  <2> QED BY <2>2, SameJob DEF TypeOK
<1>9. ASSUME NEW r \in Requests, MarkRunning(r) PROVE FALSE
  <2> DEFINE new == Running(cache[r], Current(r))
             col == Flush(row[Creator(r)][Current(r)], cache[r], new)
  <2>1. new \in Columns /\ new.job = cache[r].job
    BY <1>2, <1>9, RunningType DEF MarkRunning, TypeOK, Running, Columns
  <2>2. col \in Columns /\ col.job = row[Creator(r)][Current(r)].job
    BY <1>2, <1>9, <2>1, FlushType, FlushJob DEF MarkRunning, TypeOK
  <2> QED BY <1>1, <1>2, <1>9, <2>2 DEF MarkRunning
<1>10. ASSUME NEW r \in Requests, Complete(r) PROVE FALSE
  <2>1. PICK copy \in {cache[r], row[Creator(r)][Current(r)]} :
          \/ row' = row
          \/ WriteRow(Creator(r), Current(r),
                      Flush(row[Creator(r)][Current(r)], copy, Completed(copy, Current(r))))
    BY <1>10 DEF Complete
  <2>4. cache[r] \in Columns /\ row[Creator(r)][Current(r)] \in Columns /\ Current(r) \in Kinds
    BY <1>2, <1>10 DEF Complete, TypeOK
  <2>2. copy \in Columns /\ Completed(copy, Current(r)) \in Columns
        /\ Completed(copy, Current(r)).job = copy.job
    BY <2>1, <2>4, CompletedType, SameJob
  <2>3. Flush(row[Creator(r)][Current(r)], copy, Completed(copy, Current(r))) \in Columns
    BY <1>2, <1>10, <2>2, FlushType DEF Complete, TypeOK
  <2> QED BY <1>1, <1>2, <1>10, <2>1, <2>2, <2>3, FlushJob DEF Complete
<1>11. ASSUME NEW r \in Requests, Fail(r) PROVE FALSE
  <2>1. Stopped(row[Creator(r)][Current(r)], "error") \in Columns
    BY <1>2, <1>11, StoppedType DEF Fail, TypeOK, Errors
  <2>2. row'[c][k] = row[c][k] \/ row'[c][k] = Stopped(row[c][k], "error")
    BY <1>1, <1>2, <1>11, <2>1 DEF Fail
  <2>3. row[c][k] \in Columns
    BY DEF TypeOK
  <2>4. Stopped(row[c][k], "error").job = row[c][k].job
    BY <2>3, SameJob
  <2> QED BY <2>2, <2>4
<1>12. ASSUME Restart PROVE FALSE
  <2>1. row'[c][k] = row[c][k] \/ row'[c][k] = Stopped(row[c][k], "restart")
    BY <1>12 DEF Restart, Recovered, TypeOK
  <2>3. row[c][k] \in Columns
    BY DEF TypeOK
  <2>4. Stopped(row[c][k], "restart").job = row[c][k].job
    BY <2>3, SameJob
  <2> QED BY <2>1, <2>4
<1>13. row' # row
  OBVIOUS
<1>14. ASSUME NEW r \in Requests, Load(r) \/ RequestStep(r) \/ Abort(r) \/ JobStep(r)
       PROVE  \E s \in Requests : Names(s, c, k)
  BY <1>3, <1>4, <1>5, <1>6, <1>7, <1>8, <1>9, <1>10, <1>11, <1>13, <1>14
     DEF RequestStep, JobStep, Load, SweepFirst, SweepResponse, Sweep, TakeLock, TakeRankingLocks, Charge,
         SubmitJob, SubmitFull, GiveBack, Unlock, Abort, Signals, EndJob
<1> QED BY <1>12, <1>13, <1>14 DEF Next, Take, Tick, NewDay, Crash, vars

\* A request gets a new copy of a row only from the row, by closing its session,
\* by its sweep or, for a ranking, by queueing it.
LEMMA SeenColumn ==
    ASSUME TypeInv, [Next]_vars, NEW s \in Requests, NEW k \in Kinds
    PROVE  \/ seen'[s][k] \in {IdleColumns, seen[s][k], Stopped(seen[s][k], "stale"), row'[Creator(s)][k]}
           \/ k \notin Descriptions /\ seen'[s][k] = Queued(seen[s][k], k, s)
<1> USE DEF TypeInv
<1> DEFINE Same(copy) ==
             \/ copy[k] \in {IdleColumns, seen[s][k], Stopped(seen[s][k], "stale"), row'[Creator(s)][k]}
             \/ k \notin Descriptions /\ copy[k] = Queued(seen[s][k], k, s)
<1>1. ASSUME NEW r \in Requests, NEW step, NEW copy, GoTo(r, step, copy), r = s => Same(copy)
      PROVE  Same(seen'[s])
  BY <1>1 DEF GoTo, Closed, TypeOK
<1>2. Same(SweptCopy(s)) /\ Same(seen[s]) /\ Same(Closed) /\ Same(row'[Creator(s)])
  BY DEF SweptCopy, Closed
<1>3. ASSUME NEW r \in Requests, Load(r) PROVE Same(seen'[s])
  BY <1>3, <1>1, <1>2 DEF Load
<1>4. ASSUME NEW r \in Requests, SweepFirst(r) \/ SweepResponse(r) PROVE Same(seen'[s])
  BY <1>4, <1>1, <1>2 DEF SweepFirst, SweepResponse, Sweep
<1>5. ASSUME NEW r \in Requests, SweepFirstWrite(r) \/ SweepResponseWrite(r) PROVE Same(seen'[s])
  BY <1>5, <1>1, <1>2 DEF SweepFirstWrite, SweepResponseWrite, SweepWrite
<1>6. ASSUME NEW r \in Requests,
             TakeLock(r) \/ TakeRankingLocks(r) \/ Charge(r) \/ MarkQueued(r) \/ SubmitFull(r)
               \/ Restore(r) \/ GiveBack(r) \/ Unlock(r) \/ MarkFailed(r)
      PROVE Same(seen'[s])
  BY <1>6, <1>1, <1>2 DEF TakeLock, TakeRankingLocks, Charge, MarkQueued, SubmitFull, Restore, GiveBack,
                    Unlock, MarkFailed
<1>7. ASSUME NEW r \in Requests, WriteProfile(r) PROVE Same(seen'[s])
  BY <1>7, <1>1, <1>2 DEF WriteProfile
<1>8. ASSUME NEW r \in Requests, SubmitJob(r) PROVE Same(seen'[s])
  <2>1. CASE Op(r) = "refresh"
    <3>1. Kind(r) \in Kinds \ Descriptions
      BY <2>1, TaskType, KindTypes DEF TypeOK, Op, Kind
    <3>2. Same([seen[s] EXCEPT ![Kind(s)] = Queued(@, Kind(s), s)]) \/ r # s
      BY <3>1 DEF TypeOK
    <3> QED BY <1>8, <1>1, <2>1, <3>2 DEF SubmitJob
  <2>2. CASE Op(r) # "refresh"
    BY <1>8, <1>1, <1>2, <2>2 DEF SubmitJob
  <2> QED BY <2>1, <2>2
<1>9. ASSUME NEW r \in Requests, Abort(r) PROVE Same(seen'[s])
  BY <1>9, <1>1, <1>2 DEF Abort
<1>10. ASSUME NEW r \in Requests, JobStep(r) PROVE Same(seen'[s])
  BY <1>10, <1>2 DEF JobStep, Signals, StartKind, MarkRunning, Complete, Fail, EndJob, reqVars
<1>11. ASSUME Take \/ Tick \/ NewDay \/ Restart \/ UNCHANGED vars PROVE Same(seen'[s])
  BY <1>11, <1>2 DEF Take, Tick, NewDay, Restart, reqVars, vars
<1>12. ASSUME Crash PROVE Same(seen'[s])
  BY <1>12, <1>2 DEF Crash
<1> QED BY <1>3, <1>4, <1>5, <1>6, <1>7, <1>8, <1>9, <1>10, <1>11, <1>12 DEF Next, RequestStep

\* No request but a poll comes back to the steps before its UPDATE, and a
\* generation that is asked for was, or has just written its row.
LEMMA EarlyStep ==
    ASSUME TypeInv, ChargeInv, WorkInv, [Next]_vars, NEW s \in Requests
    PROVE  /\ NewId(s)' => NewId(s)
           /\ Asked(s)' => Asked(s) \/ MarkQueued(s)
           /\ task' = task
<1> USE DEF TypeInv, jobVars, reqVars
<1>1. task' = task
  BY DEF Next, RequestStep, JobStep, Load, SweepFirst, SweepFirstWrite, SweepResponse,
     SweepResponseWrite, Sweep, SweepWrite, TakeLock, TakeRankingLocks, Charge, MarkQueued, WriteProfile,
     SubmitJob, SubmitFull, Restore, GiveBack, Unlock, MarkFailed, Abort, Signals, StartKind,
     MarkRunning, Complete, Fail, EndJob, Take, Tick, NewDay, Crash, Restart, vars
<1>2. Op(s)' = Op(s)
  BY <1>1 DEF Op
<1>3. ASSUME NEW r \in Requests, NEW step, NEW copy, GoTo(r, step, copy)
      PROVE  pc'[s] = IF r = s THEN step ELSE pc[s]
  BY <1>3 DEF GoTo, TypeOK
<1> DEFINE Goal == (NewId(s)' => NewId(s)) /\ (Asked(s)' => Asked(s) \/ MarkQueued(s))
<1>4. ASSUME NEW r \in Requests, Load(r) PROVE Goal
  BY <1>4, <1>2, <1>3 DEF Load, NewId, Early, Asked
<1>5. ASSUME NEW r \in Requests, SweepFirst(r) \/ SweepFirstWrite(r) PROVE Goal
  <2>1. AfterSweep(r, seen[r]) # "submit" /\ AfterSweep(r, SweptCopy(r)) # "submit"
    BY SweptType
  <2> QED BY <1>5, <1>2, <1>3, <2>1
          DEF SweepFirst, SweepFirstWrite, Sweep, SweepWrite, NewId, Early, Asked
<1>6. ASSUME NEW r \in Requests,
             SweepResponse(r) \/ SweepResponseWrite(r) \/ TakeLock(r) \/ TakeRankingLocks(r) \/ Charge(r)
               \/ SubmitFull(r) \/ Restore(r) \/ GiveBack(r) \/ Unlock(r) \/ MarkFailed(r)
      PROVE Goal
  BY <1>6, <1>2, <1>3
     DEF SweepResponse, SweepResponseWrite, Sweep, SweepWrite, TakeLock, TakeRankingLocks, Charge,
         SubmitFull, Restore, GiveBack, Unlock, MarkFailed, NewId, Early, Asked
<1>7. ASSUME NEW r \in Requests, MarkQueued(r) PROVE Goal
  BY <1>7, <1>2, <1>3 DEF MarkQueued, NewId, Early, Asked
<1>8. ASSUME NEW r \in Requests, WriteProfile(r) PROVE Goal
  <2>1. Op(r) # "generate"
    BY <1>8 DEF WriteProfile, ChargeInv, ChargeOf
  <2> QED BY <1>8, <2>1, <1>2, <1>3 DEF WriteProfile, NewId, Early, Asked
<1>9. ASSUME NEW r \in Requests, SubmitJob(r) PROVE Goal
  <2>1. job'[s] = IF r = s THEN "waiting" ELSE job[s]
    BY <1>9 DEF SubmitJob, TypeOK
  <2> QED BY <1>9, <2>1, <1>2, <1>3 DEF SubmitJob, NewId, Early, Asked
<1>10. ASSUME NEW r \in Requests, Abort(r) PROVE Goal
  BY <1>10, <1>2, <1>3 DEF Abort, NewId, Early, Asked
<1>11. ASSUME NEW r \in Requests, JobStep(r) PROVE Goal
  <2>1. CASE Signals(r)
    <3>1. Op(r) = "save" /\ pc' = pc /\ (r # s => job'[s] = job[s])
      BY <2>1 DEF Signals, JobGoTo, TypeOK, WorkInv, WorkOf
    <3> QED BY <3>1, <1>2 DEF NewId, Early, Asked
  <2>2. CASE StartKind(r) \/ MarkRunning(r) \/ Complete(r) \/ Fail(r)
    <3>1. job[r] \in {"start", "loaded", "working"} /\ pc' = pc /\ (r # s => job'[s] = job[s])
      BY <2>2 DEF StartKind, MarkRunning, Complete, Fail, NextKind, JobGoTo, TypeOK
    <3> QED BY <3>1, <1>2 DEF NewId, Early, Asked
  <2>3. CASE EndJob(r)
    <3>1. job'[s] \in {"over", job[s]} /\ pc' = pc
      BY <2>3 DEF EndJob, JobGoTo, TypeOK
    <3> QED BY <3>1, <1>2 DEF NewId, Early, Asked
  <2> QED BY <1>11, <2>1, <2>2, <2>3 DEF JobStep
<1>12. ASSUME Take PROVE Goal
  <2>1. PICK r \in Requests : r = Head(queue) /\ job[r] = "waiting"
    BY <1>12 DEF Take, TypeOK, WorkInv, QueueWaits
  <2>2. job'[s] = job[s] \/ r = s
    BY <1>12, <2>1 DEF Take, JobGoTo, TypeOK
  <2> QED BY <1>12, <2>1, <2>2, <1>2 DEF Take, NewId, Early, Asked
<1>13. ASSUME Tick \/ NewDay \/ Restart \/ UNCHANGED vars PROVE Goal
  BY <1>13, <1>2 DEF Tick, NewDay, Restart, vars, NewId, Early, Asked
<1>14. ASSUME Crash PROVE Goal
  BY <1>14, <1>2 DEF Crash, NewId, Early, Asked
<1> QED BY <1>1, <1>4, <1>5, <1>6, <1>7, <1>8, <1>9, <1>10, <1>11, <1>12, <1>13, <1>14
        DEF Next, RequestStep

LEMMA FreshStep == TypeInv /\ ChargeInv /\ WorkInv /\ FreshInv /\ [Next]_vars => FreshInv'
<1> SUFFICES ASSUME TypeInv, ChargeInv, WorkInv, FreshInv, [Next]_vars, NEW r \in Requests, NewId(r)'
             PROVE  /\ \A c \in Creators, k \in Kinds : row'[c][k].job # r
                    /\ \A s \in Requests, k \in Kinds : seen'[s][k].job # r
  BY DEF FreshInv
<1>1. NewId(r)
  BY EarlyStep
<1>2. ASSUME NEW c \in Creators, NEW k \in Kinds PROVE row'[c][k].job # r
  <2>1. CASE row'[c][k].job = row[c][k].job
    BY <2>1, <1>1 DEF FreshInv
  <2>2. CASE row'[c][k].job # row[c][k].job
    <3>1. PICK s \in Requests : Names(s, c, k)
      BY <2>2, JobColumn
    <3>2. row'[c][k].job = s => s # r
      <4>1. Op(r)' = Op(r)
        BY EarlyStep DEF Op
      <4> QED BY <3>1, <4>1 DEF Names, NewId, Early
    <3> QED BY <3>1, <3>2, <1>1 DEF Names, FreshInv
  <2> QED BY <2>1, <2>2
<1>3. ASSUME NEW s \in Requests, NEW k \in Kinds PROVE seen'[s][k].job # r
  <2>1. Creator(s) \in Creators
    BY TaskType DEF TypeInv, TypeOK, Creator
  <2>2. seen[s][k].job # r /\ row'[Creator(s)][k].job # r /\ None # r
    BY <1>1, <1>2, <2>1, UserJobsAssumption DEF FreshInv
  <2>3. /\ IdleColumns.job # r /\ Stopped(seen[s][k], "stale").job # r
        /\ k \notin Descriptions => Queued(seen[s][k], k, s).job # r
    BY <2>2, SameJob DEF IdleColumns, Queued, TypeInv, TypeOK
  <2> QED BY <2>2, <2>3, SeenColumn
<1> QED BY <1>2, <1>3

LEMMA NamedStep ==
    TypeInv /\ LockInv /\ ChargeInv /\ WorkInv /\ FreshInv /\ NamedInv /\ [Next]_vars => NamedInv'
<1> SUFFICES ASSUME TypeInv, LockInv, ChargeInv, WorkInv, FreshInv, NamedInv, [Next]_vars PROVE NamedInv'
  OBVIOUS
<1>1. \A r \in Requests : Op(r)' = Op(r) /\ Kind(r)' = Kind(r) /\ Creator(r)' = Creator(r)
  BY EarlyStep DEF Op, Kind, Creator
<1>2. ASSUME NEW r \in Requests, Asked(r)' PROVE row'[Creator(r)][Kind(r)].job = r
  <2> DEFINE c == Creator(r)
             k == Kind(r)
  <2>1. c \in Creators /\ k \in Kinds /\ k \in Descriptions
    BY <1>1, <1>2, TaskType, KindTypes DEF TypeInv, TypeOK, Asked, Op, Creator, Kind
  <2>2. CASE MarkQueued(r)
    <3>1. /\ seen[r][k].job # r
          /\ Queued(seen[r][k], k, r).job = r
      BY <2>1, <2>2 DEF FreshInv, NewId, Early, MarkQueued, Queued
    <3>2. Flush(row[c][k], seen[r][k], Queued(seen[r][k], k, r)).job = r
      BY <3>1 DEF Flush
    <3>3. Flush(row[c][k], seen[r][k], Queued(seen[r][k], k, r)) \in Columns
      BY <2>1, FlushType, QueuedType DEF TypeInv, TypeOK
    <3> QED BY <2>1, <2>2, <3>2, <3>3, WriteRowType DEF MarkQueued, TypeInv, TypeOK
  <2>3. CASE Asked(r)
    <3>1. row[c][k].job = r
      BY <2>3 DEF NamedInv
    <3>2. ASSUME NEW s \in Requests, Names(s, c, k) PROVE FALSE
      <4>1. Kind(s) = Kind(r) /\ Kind(s) \in held[s] /\ Creator(s) = Creator(r)
        BY <3>2 DEF Names, WorkInv, WorkOf
      <4>2. Kind(r) \in held[r] /\ pc[r] \notin {"queue", "restore"}
        BY <2>3 DEF Asked, WorkInv, WorkOf, Active, Answered
      <4>3. s # r
        BY <3>2, <4>2 DEF Names
      <4> QED BY <4>1, <4>2, <4>3 DEF LockInv
    <3> QED BY <2>1, <3>1, <3>2, JobColumn
  <2> QED BY <1>2, <2>2, <2>3, EarlyStep
<1>3. ASSUME NEW r \in Requests
      PROVE  /\ job'[r] \in {"loaded", "working"} /\ Op(r) = "generate" => cache'[r].job = r
             /\ job'[r] = "working" => cache'[r].status = "running"
  <2> DEFINE Goal == /\ job'[r] \in {"loaded", "working"} /\ Op(r) = "generate" => cache'[r].job = r
                     /\ job'[r] = "working" => cache'[r].status = "running"
  <2> USE DEF TypeInv, jobVars, reqVars
  <2>1. CASE job'[r] = job[r] /\ cache'[r] = cache[r]
    BY <2>1 DEF NamedInv
  <2>2. CASE job'[r] \notin {"loaded", "working"}
    BY <2>2
  <2>3. CASE StartKind(r)
    <3>1. CASE NextKind(r)
      BY <2>2, <3>1 DEF NextKind, JobGoTo, TypeOK
    <3>2. CASE Mine(r, row[Creator(r)][Current(r)]) /\ JobGoTo(r, "loaded", row[Creator(r)][Current(r)])
      <4>1. Op(r) = "generate" => Current(r) = Kind(r) /\ Kind(r) \in Descriptions
        BY TaskType DEF TypeOK, Op, Kind, Current
      <4> QED BY <3>2, <4>1 DEF Mine, JobGoTo, TypeOK
    <3> QED BY <2>3, <3>1, <3>2 DEF StartKind
  <2>4. CASE MarkRunning(r)
    <3>1. cache[r] \in Columns /\ job[r] = "loaded"
      BY <2>4 DEF MarkRunning, TypeOK
    <3>2. /\ Running(cache[r], Current(r)).job = cache[r].job
          /\ Running(cache[r], Current(r)).status = "running"
      BY <3>1 DEF Running, Columns
    <3> QED BY <2>4, <3>1, <3>2 DEF MarkRunning, JobGoTo, NamedInv, TypeOK
  <2>5. CASE \E s \in Requests : s # r /\ JobStep(s)
    <3>1. job'[r] = job[r] /\ cache'[r] = cache[r]
      BY <2>5 DEF JobStep, Signals, StartKind, MarkRunning, Complete, Fail, EndJob, NextKind, JobGoTo, TypeOK
    <3> QED BY <3>1, <2>1
  <2>6. CASE Signals(r) \/ Complete(r) \/ Fail(r) \/ EndJob(r)
    <3>1. job'[r] \in {"start", "release", "over"}
      BY <2>6 DEF Signals, Complete, Fail, EndJob, NextKind, JobGoTo, TypeOK
    <3> QED BY <3>1
  <2>7. CASE Take
    <3>1. Head(queue) \in Requests
      BY <2>7 DEF Take, TypeOK
    <3>2. (job'[r] = job[r] /\ cache'[r] = cache[r]) \/ job'[r] \in {"signals", "start"}
      BY <2>7, <3>1 DEF Take, JobGoTo, TypeOK
    <3> QED BY <3>2, <2>1
  <2>8. CASE \E s \in Requests : SubmitJob(s)
    <3>1. cache' = cache /\ (job'[r] = job[r] \/ job'[r] = "waiting")
      BY <2>8 DEF SubmitJob, TypeOK
    <3> QED BY <3>1, <2>1
  <2>9. CASE \E s \in Requests : Load(s) \/ Abort(s) \/ (RequestStep(s) /\ ~SubmitJob(s))
    <3>1. UNCHANGED <<job, cache>>
      BY <2>9 DEF Load, Abort, RequestStep, SweepFirst, SweepFirstWrite, SweepResponse, SweepResponseWrite,
         Sweep, SweepWrite, TakeLock, TakeRankingLocks, Charge, MarkQueued, WriteProfile, SubmitFull,
         Restore, GiveBack, Unlock, MarkFailed
    <3> QED BY <3>1, <2>1
  <2>10. CASE Tick \/ NewDay \/ Restart \/ UNCHANGED vars
    BY <2>10, <2>1 DEF Tick, NewDay, Restart, vars
  <2>11. CASE Crash
    BY <2>11 DEF Crash
  <2> QED BY <2>3, <2>4, <2>5, <2>6, <2>7, <2>8, <2>9, <2>10, <2>11 DEF Next, JobStep
<1> QED BY <1>1, <1>2, <1>3 DEF NamedInv

\* A description at work is the one its creator's row names: no other request
\* can write the job_id while the lock of the running job stands.
THEOREM RowNamesTheJob ==
    ASSUME "overrun" \notin Faults
    PROVE  Spec => []AtWorkIsCurrent
<1>1. NamedInv => AtWorkIsCurrent
  BY DEF NamedInv, Asked, AtWorkIsCurrent, AtWork
<1> QED BY <1>1, TypeInit, TypeStep, LockInit, LockStep, ChargeInit, ChargeStep, WorkInit, WorkStep,
           FreshInit, FreshStep, NamedInit, NamedStep, PTL DEF Spec

-----------------------------------------------------------------------------
(* Whoever writes "queued" or "running" also writes an outcome.            *)

\* What a handler that queues a job has read: not a pending row.
ReadInv ==
    /\ \A r \in Requests :
         pc[r] \in {"lock", "charge", "queue", "submit", "restore"} /\ Op(r) \in {"generate", "refresh"}
           => ~IsPending(seen[r][Kind(r)])
    /\ \A k \in Descriptions :
         /\ \A c \in Creators : IsPending(row[c][k]) => row[c][k].job # None
         /\ \A s \in Requests : IsPending(seen[s][k]) => seen[s][k].job # None

\* A save whose copy says failed will not write that it failed (see Flush).
Owner(r, k) ==
    /\ Owes(r, k)
    /\ ~(/\ Op(r) = "save" /\ pc[r] \in {"submit", "unlock", "markfailed"}
         /\ seen[r][k].status = "failed")

OwnedInv ==
    up => \A c \in Creators, k \in Kinds :
            IsPending(row[c][k]) => \E r \in Requests : Creator(r) = c /\ Owner(r, k)

LEMMA ReadInit == Init => ReadInv /\ OwnedInv
BY KindTypes DEF Init, ReadInv, OwnedInv, IsPending, Pending, IdleColumns

LEMMA StoppedStatus ==
    ASSUME NEW col \in Columns, NEW k, NEW message
    PROVE  /\ Stopped(col, message).status = "failed"
           /\ Idle(col).status = "idle"
           /\ Running(col, k).status = "running"
           /\ Completed(col, k).status = "completed"
BY DEF Columns, Stopped, Idle, Running, Completed

LEMMA FlushStatus ==
    \A db, old, new :
        Flush(db, old, new).status = IF new.status # old.status THEN new.status ELSE db.status
BY DEF Flush

\* The undo of a full queue leaves a row that is not pending.
LEMMA RestoreWrites ==
    ASSUME TypeInv, ReadInv, NEW r \in Requests, Restore(r)
    PROVE  /\ row'[Creator(r)][Kind(r)].status \notin Pending
           /\ \A c \in Creators, k \in Kinds :
                c # Creator(r) \/ k # Kind(r) => row'[c][k] = row[c][k]
<1> USE DEF TypeInv
<1>1. pc[r] = "restore" /\ Op(r) \in {"generate", "refresh"}
  BY DEF Restore, StepsOK
<1>2. Creator(r) \in Creators /\ Kind(r) \in Kinds
  BY <1>1, TaskType, KindTypes DEF TypeOK, Creator, Op, Kind
<1> DEFINE old == Queued(seen[r][Kind(r)], Kind(r), r)
           col == Flush(row[Creator(r)][Kind(r)], old, seen[r][Kind(r)])
<1>3. col \in Columns
  BY <1>2, FlushType, QueuedType DEF TypeOK
<1>4. \A c \in Creators, k \in Kinds :
        row'[c][k] = IF c = Creator(r) /\ k = Kind(r) THEN col ELSE row[c][k]
  BY <1>2, <1>3, WriteRowType DEF Restore, TypeOK
<1>5. seen[r][Kind(r)].status \notin Pending /\ old.status = "queued"
  BY <1>1 DEF ReadInv, IsPending, Queued
<1> QED BY <1>2, <1>4, <1>5, FlushStatus DEF Pending

\* No step makes a row pending without owing its outcome.
LEMMA Opens ==
    ASSUME TypeInv, ChargeInv, WorkInv, ReadInv, NamedInv, [Next]_vars,
           NEW c \in Creators, NEW k \in Kinds, IsPending(row'[c][k]), ~IsPending(row[c][k])
    PROVE  \E r \in Requests : /\ Creator(r)' = c /\ Owner(r, k)'
                               /\ k \in Descriptions => Asked(r)' /\ Kind(r)' = k
<1> USE DEF TypeInv
<1>0. row'[c][k].status \in Pending /\ row[c][k].status \notin Pending
  BY DEF IsPending
<1>1. ASSUME NEW d \in Creators, NEW m \in Kinds, NEW col \in Columns, WriteRow(d, m, col)
      PROVE  d = c /\ m = k /\ row'[c][k] = col
  BY <1>0, <1>1, WriteRowType DEF TypeOK
<1>2. ASSUME NEW r \in Requests
      PROVE  /\ Creator(r) \in Creators
             /\ Op(r) \in {"generate", "refresh"} => Kind(r) \in Kinds
             /\ Op(r) = "refresh" => Kind(r) \notin Descriptions
             /\ job[r] \in {"start", "loaded", "working"} => Current(r) \in Kinds
             /\ job[r] \in {"start", "loaded", "working"} /\ Op(r) # "generate" => Current(r) \in todo[r]
  <2>1. job[r] \in {"start", "loaded", "working"} /\ Op(r) # "generate" => Current(r) \in todo[r]
    BY FirstRankingType DEF StepsOK, TypeOK, Current
  <2> QED BY <2>1, TaskType, KindTypes DEF TypeOK, Creator, Op, Kind, Current
<1>3. ASSUME NEW r \in Requests, SweepFirstWrite(r) \/ SweepResponseWrite(r) PROVE FALSE
  <2>1. row' = [row EXCEPT ![Creator(r)] =
                  [m \in Kinds |-> Flush(row[Creator(r)][m], seen[r][m], SweptCopy(r)[m])]]
    BY <1>3 DEF SweepFirstWrite, SweepResponseWrite, SweepWrite
  <2>2. row'[c][k] = row[c][k] \/ row'[c][k] = Flush(row[c][k], seen[r][k], SweptCopy(r)[k])
    BY <2>1, <1>2 DEF TypeOK
  <2>3. SweptCopy(r)[k].status \in {"failed", seen[r][k].status}
    BY StoppedStatus DEF SweptCopy, TypeOK
  <2> QED BY <1>0, <2>2, <2>3, FlushStatus DEF Pending
<1>4. ASSUME NEW r \in Requests, MarkQueued(r)
      PROVE  /\ Creator(r)' = c /\ Owner(r, k)'
             /\ k \in Descriptions => Asked(r)' /\ Kind(r)' = k
  <2>1. /\ pc[r] = "queue" /\ pc'[r] = "submit" /\ Op(r) \in {"generate", "refresh"}
        /\ task' = task
    BY <1>4 DEF MarkQueued, GoTo, TypeOK, StepsOK
  <2> DEFINE col == Flush(row[Creator(r)][Kind(r)], seen[r][Kind(r)], Queued(seen[r][Kind(r)], Kind(r), r))
  <2>2. col \in Columns
    BY <1>2, <2>1, FlushType, QueuedType DEF TypeOK
  <2>3. Creator(r) = c /\ Kind(r) = k
    BY <1>1, <1>2, <1>4, <2>1, <2>2 DEF MarkQueued
  <2> QED BY <2>1, <2>3, <1>2 DEF Owner, Owes, Asked, Creator, Kind, Op
<1>5. ASSUME NEW r \in Requests, Restore(r) PROVE FALSE
  BY <1>0, <1>5, RestoreWrites
<1>6. ASSUME NEW r \in Requests, WriteProfile(r)
      PROVE  Creator(r)' = c /\ Owner(r, k)' /\ k \notin Descriptions
  <2>1. Creator(r) = c /\ k \in held[r]
    BY <1>0, <1>2, <1>6 DEF WriteProfile, TypeOK
  <2>2. Op(r) = "save" /\ k \in Wanted
    BY <1>6, <2>1 DEF WriteProfile, ChargeInv, ChargeOf, StepsOK, WorkInv, WorkOf
  <2>3. pc'[r] = "submit" /\ seen'[r][k] = row'[c][k] /\ task' = task
    BY <1>6, <2>1 DEF WriteProfile, GoTo, TypeOK
  <2>4. seen'[r][k].status # "failed"
    BY <1>0, <2>3 DEF Pending
  <2> QED BY <2>1, <2>2, <2>3, <2>4, KindTypes DEF Owner, Owes, Creator, Op
<1>7. ASSUME NEW r \in Requests, MarkFailed(r) PROVE FALSE
  <2>1. row'[c][k] = row[c][k] \/ row'[c][k] = Flush(row[c][k], seen[r][k], Stopped(seen[r][k], "busy"))
    BY <1>7, <1>2 DEF MarkFailed, TypeOK
  <2>2. Stopped(seen[r][k], "busy").status = "failed"
    BY StoppedStatus DEF TypeOK
  <2> QED BY <1>0, <2>1, <2>2, FlushStatus DEF Pending
<1>8. ASSUME NEW r \in Requests, StartKind(r) PROVE FALSE
  <2>1. Idle(row[Creator(r)][Current(r)]) \in Columns
    BY <1>2, <1>8, PausedType DEF StartKind, TypeOK
  <2>2. row'[c][k] = row[c][k] \/ row'[c][k] = Idle(row[c][k])
    BY <1>1, <1>2, <1>8, <2>1 DEF StartKind
  <2>3. Idle(row[c][k]).status = "idle"
    BY StoppedStatus DEF TypeOK
  <2> QED BY <1>0, <2>2, <2>3 DEF Pending
<1>9. ASSUME NEW r \in Requests, MarkRunning(r)
      PROVE  /\ Creator(r)' = c /\ Owner(r, k)'
             /\ k \in Descriptions => Asked(r)' /\ Kind(r)' = k
  <2> DEFINE col == Flush(row[Creator(r)][Current(r)], cache[r], Running(cache[r], Current(r)))
  <2>1. job[r] = "loaded" /\ job'[r] = "working" /\ UNCHANGED <<task, todo, pc>>
    BY <1>9 DEF MarkRunning, JobGoTo, TypeOK, reqVars
  <2>2. col \in Columns
    BY <1>2, <2>1, FlushType, RunningType DEF TypeOK
  <2>3. Creator(r) = c /\ Current(r) = k
    BY <1>1, <1>2, <1>9, <2>1, <2>2 DEF MarkRunning
  <2>4. CASE Op(r) = "save"
    <3>1. k \in todo[r] /\ k \in Wanted /\ k \notin Descriptions
      BY <1>2, <2>1, <2>3, <2>4, KindTypes DEF WorkInv, WorkOf, Wanted, TypeOK
    <3> QED BY <2>1, <2>3, <2>4, <3>1 DEF Owner, Owes, Creator, Op, WorkInv, WorkOf, Answered
  <2>5. CASE Op(r) # "save"
    <3>1. Kind(r) = k /\ (k \in Descriptions => Op(r) = "generate")
      <4>1. CASE Op(r) = "generate"
        BY <2>3, <4>1 DEF Current
      <4>2. CASE Op(r) # "generate"
        <5>1. Op(r) = "refresh"
          BY <2>1, <2>5, <4>2 DEF WorkInv, WorkOf, Active, StepsOK
        <5>2. k \in todo[r] /\ todo[r] \subseteq {Kind(r)} /\ k \in Rankings
          BY <1>2, <2>1, <2>3, <5>1 DEF WorkInv, WorkOf, TypeOK
        <5> QED BY <5>2, KindTypes
      <4> QED BY <4>1, <4>2
    <3> QED BY <2>1, <2>3, <2>5, <3>1 DEF Owner, Owes, Asked, Creator, Kind, Op
  <2> QED BY <2>4, <2>5
<1>10. ASSUME NEW r \in Requests, Complete(r) PROVE FALSE
  <2>1. PICK copy \in {cache[r], row[Creator(r)][Current(r)]} :
          \/ row' = row
          \/ WriteRow(Creator(r), Current(r),
                      Flush(row[Creator(r)][Current(r)], copy, Completed(copy, Current(r))))
    BY <1>10 DEF Complete
  <2>2. cache[r] \in Columns /\ row[Creator(r)][Current(r)] \in Columns /\ Current(r) \in Kinds
    BY <1>2, <1>10 DEF Complete, TypeOK
  <2>6. copy \in Columns
    BY <2>1, <2>2
  <2>3. /\ Completed(copy, Current(r)) \in Columns
        /\ Completed(copy, Current(r)).status = "completed"
    BY <2>2, <2>6, CompletedType, StoppedStatus
  <2>4. Flush(row[Creator(r)][Current(r)], copy, Completed(copy, Current(r))) \in Columns
    BY <2>2, <2>3, <2>6, FlushType
  <2>5. row'[c][k] = row[c][k] \/ row'[c][k] = Flush(row[c][k], copy, Completed(copy, Current(r)))
    BY <1>1, <1>2, <2>1, <2>2, <2>4
  <2> QED BY <1>0, <2>3, <2>5, FlushStatus DEF Pending
<1>11. ASSUME NEW r \in Requests, Fail(r) PROVE FALSE
  <2>1. Stopped(row[Creator(r)][Current(r)], "error") \in Columns
    BY <1>2, <1>11, StoppedType DEF Fail, TypeOK, Errors
  <2>2. row'[c][k] = row[c][k] \/ row'[c][k] = Stopped(row[c][k], "error")
    BY <1>1, <1>2, <1>11, <2>1 DEF Fail
  <2>3. Stopped(row[c][k], "error").status = "failed"
    BY StoppedStatus DEF TypeOK
  <2> QED BY <1>0, <2>2, <2>3 DEF Pending
<1>12. ASSUME Restart PROVE FALSE
  <2>1. row'[c][k] = row[c][k] \/ row'[c][k] = Stopped(row[c][k], "restart")
    BY <1>12 DEF Restart, Recovered, TypeOK
  <2>2. Stopped(row[c][k], "restart").status = "failed"
    BY StoppedStatus DEF TypeOK
  <2> QED BY <1>0, <2>1, <2>2 DEF Pending
<1>13. row' # row
  BY <1>0
<1>14. ASSUME NEW r \in Requests, Load(r) \/ RequestStep(r) \/ Abort(r) \/ JobStep(r)
       PROVE  /\ Creator(r)' = c /\ Owner(r, k)'
              /\ k \in Descriptions => Asked(r)' /\ Kind(r)' = k
  BY <1>3, <1>4, <1>5, <1>6, <1>7, <1>8, <1>9, <1>10, <1>11, <1>13, <1>14
     DEF RequestStep, JobStep, Load, SweepFirst, SweepResponse, Sweep, TakeLock, TakeRankingLocks, Charge,
         SubmitJob, SubmitFull, GiveBack, Unlock, Abort, Signals, EndJob
<1> QED BY <1>12, <1>13, <1>14 DEF Next, Take, Tick, NewDay, Crash, vars

\* Whoever owes an outcome goes on owing it until the row has one.
LEMMA Ends ==
    ASSUME {"overrun", "database"} \cap Faults = {},
           TypeInv, ChargeInv, WorkInv, ReadInv, NamedInv, [Next]_vars, up',
           NEW r \in Requests, NEW k \in Kinds, Owner(r, k), IsPending(row'[Creator(r)][k]), up
    PROVE  Owner(r, k)'
<1> USE DEF TypeInv, jobVars, reqVars
<1> DEFINE c == Creator(r)
<1>0. /\ row'[c][k].status \in Pending /\ c \in Creators
      /\ Op(r) # "save" => Kind(r) = k
      /\ Op(r) = "save" => k \in Wanted /\ Kind(r) # k
  BY TaskType, KindTypes DEF TypeOK, Creator, IsPending, Owner, Owes, Kind, Op
<1>1. task' = task /\ Op(r)' = Op(r) /\ Kind(r)' = Kind(r)
  BY EarlyStep DEF Op, Kind
<1>2. ASSUME NEW step, NEW copy, GoTo(r, step, copy)
      PROVE  pc'[r] = step /\ (step \notin {"start", "done"} => seen'[r] = copy)
  BY <1>2 DEF GoTo, TypeOK
<1>3. ASSUME NEW s \in Requests, s # r, NEW step, NEW copy, GoTo(s, step, copy)
      PROVE  pc'[r] = pc[r] /\ seen'[r] = seen[r]
  BY <1>3 DEF GoTo, TypeOK
<1>4. ASSUME pc'[r] = pc[r], seen'[r] = seen[r], job'[r] = job[r], todo'[r] = todo[r]
      PROVE  Owner(r, k)'
  BY <1>1, <1>4 DEF Owner, Owes
<1>5. ASSUME Load(r) \/ SweepFirst(r) \/ SweepFirstWrite(r) \/ SweepResponse(r) \/ SweepResponseWrite(r)
      PROVE  Owner(r, k)'
  <2>1. /\ AfterSweep(r, seen[r]) \notin {"submit", "unlock", "markfailed"}
        /\ AfterSweep(r, SweptCopy(r)) \notin {"submit", "unlock", "markfailed"}
    BY DEF AfterSweep
  <2>2. /\ pc'[r] \notin {"submit", "unlock", "markfailed"}
        /\ pc[r] \notin {"submit", "restore", "unlock", "markfailed"}
        /\ job'[r] = job[r] /\ todo'[r] = todo[r]
    BY <1>2, <1>5, <2>1
       DEF Load, SweepFirst, SweepFirstWrite, SweepResponse, SweepResponseWrite, Sweep, SweepWrite
  <2> QED BY <1>1, <2>2 DEF Owner, Owes
<1>6. ASSUME TakeLock(r) \/ Charge(r) \/ GiveBack(r) PROVE Owner(r, k)'
  <2>1. pc[r] \notin {"submit", "restore", "unlock", "markfailed"} /\ Op(r) # "save" /\ job[r] = "none"
    BY <1>6 DEF TakeLock, Charge, GiveBack, WorkInv, WorkOf, StepsOK, Answered
  <2> QED BY <2>1 DEF Owner, Owes
<1>7. ASSUME TakeRankingLocks(r) PROVE Owner(r, k)'
  <2>1. /\ pc'[r] \in {"lock", "write"} /\ pc[r] = "lock"
        /\ job'[r] = job[r] /\ todo'[r] = todo[r]
    BY <1>2, <1>7 DEF TakeRankingLocks
  <2> QED BY <1>1, <2>1 DEF Owner, Owes
<1>8. ASSUME MarkQueued(r) \/ Restore(r) PROVE Owner(r, k)'
  <2>1. Op(r) \in {"generate", "refresh"}
    BY <1>8 DEF MarkQueued, Restore, StepsOK
  <2>2. CASE MarkQueued(r)
    BY <1>0, <1>1, <1>2, <2>1, <2>2 DEF MarkQueued, Owner, Owes
  <2>3. CASE Restore(r)
    BY <1>0, <2>1, <2>3, RestoreWrites
  <2> QED BY <1>8, <2>2, <2>3
<1>9. ASSUME WriteProfile(r) PROVE Owner(r, k)'
  <2>1. pc[r] = "write" /\ job[r] = "none" /\ UNCHANGED <<job, todo>>
    BY <1>9 DEF WriteProfile, WorkInv, WorkOf, Answered
  <2>2. CASE held[r] = {}
    BY <1>1, <1>2, <1>9, <2>1, <2>2 DEF WriteProfile, Owner, Owes
  <2>3. CASE held[r] # {}
    <3>1. pc'[r] = "submit" /\ seen'[r][k] = row'[c][k]
      BY <1>2, <1>9, <2>3 DEF WriteProfile
    <3>2. seen'[r][k].status # "failed"
      BY <1>0, <3>1 DEF Pending
    <3> QED BY <1>0, <1>1, <3>1, <3>2 DEF Owner, Owes
  <2> QED BY <2>2, <2>3
<1>10. ASSUME SubmitJob(r) PROVE Owner(r, k)'
  <2>1. pc'[r] \in {"respond", "done"} /\ job'[r] = "waiting"
    BY <1>2, <1>10 DEF SubmitJob, TypeOK
  <2> QED BY <1>0, <1>1, <2>1 DEF Owner, Owes
<1>11. ASSUME SubmitFull(r) PROVE Owner(r, k)'
  BY <1>0, <1>1, <1>2, <1>11 DEF SubmitFull, Owner, Owes
<1>12. ASSUME Unlock(r) PROVE Owner(r, k)'
  <2>1. pc[r] = "unlock" /\ job[r] = "none" /\ UNCHANGED <<job, todo>>
    BY <1>12 DEF Unlock, WorkInv, WorkOf, Answered
  <2> QED BY <1>0, <1>1, <1>2, <1>12, <2>1 DEF Unlock, Owner, Owes
<1>13. ASSUME MarkFailed(r) PROVE Owner(r, k)'
  <2>1. pc[r] = "markfailed" /\ job[r] = "none"
    BY <1>13 DEF MarkFailed, WorkInv, WorkOf, Answered
  <2>2. Op(r) = "save" /\ k \in Wanted
    BY <1>0, <2>1 DEF Owner, Owes
  <2>3. seen[r][k].status # "failed"
    BY <2>1, <2>2 DEF Owner
  <2>4. row'[c][k] = Flush(row[c][k], seen[r][k], Stopped(seen[r][k], "busy"))
    BY <1>0, <1>13, <2>2 DEF MarkFailed, TypeOK
  <2>5. Stopped(seen[r][k], "busy").status = "failed"
    BY StoppedStatus DEF TypeOK
  <2> QED BY <1>0, <2>3, <2>4, <2>5, FlushStatus DEF Pending
<1>14. ASSUME Signals(r) PROVE Owner(r, k)'
  <2>1. Op(r) = "save" /\ todo'[r] = Rankings /\ pc[r] \in Answered /\ pc' = pc
    BY <1>14 DEF Signals, WorkInv, WorkOf, TypeOK
  <2> QED BY <1>0, <1>1, <2>1, KindTypes DEF Owner, Owes, Answered
<1>15. ASSUME job[r] \in {"start", "loaded", "working"}, pc' = pc,
              job'[r] \in {"start", "loaded", "working"}, todo'[r] = todo[r]
       PROVE  Owner(r, k)'
  <2>1. pc[r] \in Answered
    BY <1>15 DEF WorkInv, WorkOf
  <2> QED BY <1>0, <1>1, <1>15, <2>1 DEF Owner, Owes, Answered
<1>16. ASSUME NextKind(r), job[r] \in {"start", "loaded", "working"}, pc' = pc, k # Current(r)
       PROVE  Owner(r, k)'
  <2>1. pc[r] \in Answered /\ Op(r) # "view"
    BY <1>16 DEF WorkInv, WorkOf
  <2>2. CASE Op(r) = "save"
    <3>1. k \in todo'[r]
      BY <1>0, <1>16, <2>1, <2>2 DEF NextKind, Owner, Owes, Answered, TypeOK
    <3> QED BY <1>0, <1>1, <1>16, <2>1, <2>2, <3>1 DEF Owner, Owes, Answered
  <2>3. CASE Op(r) # "save"
    <3>1. Op(r) \in {"generate", "refresh"}
      BY <1>16, <2>1, <2>3 DEF WorkInv, WorkOf, Active, StepsOK
    <3>2. Op(r) = "refresh" => Current(r) \in todo[r] /\ todo[r] \subseteq {Kind(r)}
      BY <1>16, FirstRankingType DEF Current, WorkInv, WorkOf, StepsOK, TypeOK
    <3> QED BY <1>0, <1>16, <3>1, <3>2 DEF Current
  <2> QED BY <2>2, <2>3
<1>17. ASSUME job[r] \in {"start", "loaded", "working"}
       PROVE  /\ Current(r) \in Kinds /\ row[c][Current(r)] \in Columns /\ cache[r] \in Columns
              /\ Mine(r, row[c][Current(r)])
              /\ job[r] \in {"loaded", "working"} => Mine(r, cache[r])
  <2>1. Op(r) # "generate" => Current(r) \in Rankings
    BY <1>17, FirstRankingType DEF StepsOK, TypeOK, Current
  <2>2. Op(r) = "generate" => Current(r) = Kind(r) /\ Kind(r) \in Kinds
    BY TaskType, KindTypes DEF Current, TypeOK, Op, Kind
  <2>3. Op(r) = "generate" => /\ row[c][Kind(r)].job = r
                              /\ job[r] \in {"loaded", "working"} => cache[r].job = r
    BY <1>17 DEF NamedInv, Asked
  <2> QED BY <1>0, <2>1, <2>2, <2>3, KindTypes DEF Mine, TypeOK
<1>18. ASSUME StartKind(r) PROVE Owner(r, k)'
  <2>1. CASE NextKind(r) /\ Current(r) \in Paused /\ WriteRow(c, Current(r), Idle(row[c][Current(r)]))
    <3>1. k # Current(r)
      <4>1. row'[c][Current(r)] = Idle(row[c][Current(r)])
        BY <1>0, <1>17, <1>18, <2>1, PausedType, WriteRowType DEF StartKind, TypeOK
      <4>2. Idle(row[c][Current(r)]).status = "idle"
        BY <1>17, <1>18, StoppedStatus DEF StartKind
      <4> QED BY <1>0, <4>1, <4>2 DEF Pending
    <3> QED BY <1>16, <1>18, <2>1, <3>1 DEF StartKind
  <2>2. CASE JobGoTo(r, "loaded", row[c][Current(r)]) /\ todo' = todo
    BY <1>15, <1>18, <2>2 DEF StartKind, JobGoTo, TypeOK
  <2> QED BY <1>17, <1>18, <2>1, <2>2 DEF StartKind
<1>19. ASSUME MarkRunning(r) PROVE Owner(r, k)'
  BY <1>15, <1>19 DEF MarkRunning, JobGoTo, TypeOK
<1>20. ASSUME Complete(r) PROVE Owner(r, k)'
  <2> DEFINE now == row[c][Current(r)]
             col(copy) == Flush(now, copy, Completed(copy, Current(r)))
  <2>1. job[r] = "working" /\ NextKind(r) /\ pc' = pc /\ cache[r].status = "running"
    BY <1>20 DEF Complete, NamedInv
  <2>2. PICK copy \in {cache[r], now} : WriteRow(c, Current(r), col(copy))
    BY <1>17, <1>20, <2>1 DEF Complete
  <2>3. copy \in Columns /\ now \in Columns /\ Current(r) \in Kinds
    BY <1>17, <2>1, <2>2
  <2>4. Completed(copy, Current(r)) \in Columns /\ Completed(copy, Current(r)).status = "completed"
    BY <2>3, CompletedType, StoppedStatus
  <2>5. col(copy) \in Columns
    BY <2>3, <2>4, FlushType
  <2>6. row'[c][Current(r)] = col(copy)
    BY <1>0, <2>2, <2>3, <2>5, WriteRowType DEF TypeOK
  <2>7. col(copy).status = "completed"
    BY <2>1, <2>2, <2>4, FlushStatus
  <2>8. k # Current(r)
    BY <1>0, <2>6, <2>7 DEF Pending
  <2> QED BY <1>16, <2>1, <2>8
<1>21. ASSUME Fail(r) PROVE Owner(r, k)'
  <2>1. /\ job[r] \in {"start", "loaded", "working"} /\ NextKind(r) /\ pc' = pc
        /\ WriteRow(c, Current(r), Stopped(row[c][Current(r)], "error"))
    BY <1>17, <1>21 DEF Fail
  <2>2. row'[c][Current(r)] = Stopped(row[c][Current(r)], "error")
    BY <1>0, <1>17, <2>1, StoppedType, WriteRowType DEF TypeOK, Errors
  <2>3. Stopped(row[c][Current(r)], "error").status = "failed"
    BY <1>17, <2>1, StoppedStatus
  <2>4. k # Current(r)
    BY <1>0, <2>2, <2>3 DEF Pending
  <2> QED BY <1>16, <2>1, <2>4
<1>22. ASSUME EndJob(r) PROVE Owner(r, k)'
  <2>1. job[r] = "release" /\ pc' = pc /\ seen' = seen /\ todo' = todo
    BY <1>22 DEF EndJob
  <2> QED BY <1>1, <2>1 DEF Owner, Owes
<1>23. ASSUME Take PROVE Owner(r, k)'
  <2>1. PICK s \in Requests : s = Head(queue) /\ job[s] = "waiting"
    BY <1>23 DEF Take, TypeOK, WorkInv, QueueWaits
  <2>2. CASE s = r
    <3>1. /\ job'[r] = IF Op(r) = "save" THEN "signals" ELSE "start"
          /\ pc' = pc /\ pc[r] \in Answered
      BY <1>23, <2>1, <2>2 DEF Take, JobGoTo, TypeOK, WorkInv, WorkOf
    <3> QED BY <1>0, <1>1, <3>1 DEF Owner, Owes, Answered
  <2>3. CASE s # r
    BY <1>4, <1>23, <2>1, <2>3 DEF Take, JobGoTo, TypeOK
  <2> QED BY <2>2, <2>3
<1>24. ASSUME Tick \/ NewDay \/ Restart \/ UNCHANGED vars PROVE Owner(r, k)'
  BY <1>4, <1>24 DEF Tick, NewDay, Restart, vars
<1>25. ASSUME NEW s \in Requests, s # r, RequestStep(s) \/ Load(s) PROVE Owner(r, k)'
  <2>1. pc'[r] = pc[r] /\ seen'[r] = seen[r]
    BY <1>3, <1>25 DEF Load, RequestStep, SweepFirst, SweepFirstWrite, SweepResponse, SweepResponseWrite,
       Sweep, SweepWrite, TakeLock, TakeRankingLocks, Charge, MarkQueued, WriteProfile, SubmitJob,
       SubmitFull, Restore, GiveBack, Unlock, MarkFailed
  <2>2. job'[r] = job[r] /\ todo'[r] = todo[r]
    BY <1>25 DEF Load, RequestStep, SweepFirst, SweepFirstWrite, SweepResponse, SweepResponseWrite,
       Sweep, SweepWrite, TakeLock, TakeRankingLocks, Charge, MarkQueued, WriteProfile, SubmitJob,
       SubmitFull, Restore, GiveBack, Unlock, MarkFailed, TypeOK
  <2> QED BY <1>4, <2>1, <2>2
<1>26. ASSUME NEW s \in Requests, s # r, JobStep(s) PROVE Owner(r, k)'
  <2>1. /\ pc' = pc /\ seen' = seen
        /\ job'[r] = job[r] /\ todo'[r] = todo[r]
    BY <1>26 DEF JobStep, Signals, StartKind, MarkRunning, Complete, Fail, EndJob, NextKind, JobGoTo, TypeOK
  <2> QED BY <1>4, <2>1
<1>27. ~Crash /\ \A s \in Requests : ~Abort(s)
  BY DEF Crash, Abort
<1> QED BY <1>5, <1>6, <1>7, <1>8, <1>9, <1>10, <1>11, <1>12, <1>13, <1>14, <1>18, <1>19, <1>20, <1>21,
           <1>22, <1>23, <1>24, <1>25, <1>26, <1>27 DEF Next, RequestStep, JobStep

LEMMA ReadStep ==
    TypeInv /\ ChargeInv /\ WorkInv /\ NamedInv /\ NamedInv' /\ ReadInv /\ [Next]_vars => ReadInv'
<1> SUFFICES ASSUME TypeInv, ChargeInv, WorkInv, NamedInv, NamedInv', ReadInv, [Next]_vars PROVE ReadInv'
  OBVIOUS
<1> DEFINE Steps == {"lock", "charge", "queue", "submit", "restore"}
<1>1. ASSUME NEW c \in Creators, NEW k \in Descriptions, IsPending(row'[c][k])
      PROVE  row'[c][k].job # None
  <2>1. k \in Kinds
    BY KindTypes
  <2>2. CASE ~IsPending(row[c][k])
    <3>1. PICK r \in Requests : Creator(r)' = c /\ Asked(r)' /\ Kind(r)' = k
      BY <1>1, <2>1, <2>2, Opens
    <3> QED BY <3>1, UserJobsAssumption DEF NamedInv
  <2>3. CASE IsPending(row[c][k]) /\ row'[c][k].job = row[c][k].job
    BY <2>3 DEF ReadInv
  <2>4. CASE row'[c][k].job # row[c][k].job
    <3>1. PICK s \in Requests : Names(s, c, k)
      BY <2>1, <2>4, JobColumn
    <3>2. CASE row'[c][k].job = s
      BY <3>2, UserJobsAssumption
    <3>3. CASE Restore(s)
      BY <1>1, <3>1, <3>3, RestoreWrites DEF Names, IsPending
    <3> QED BY <3>1, <3>2, <3>3 DEF Names
  <2> QED BY <2>2, <2>3, <2>4
<1>2. ASSUME NEW s \in Requests, NEW k \in Descriptions, IsPending(seen'[s][k])
      PROVE  seen'[s][k].job # None
  <2>1. k \in Kinds /\ Creator(s) \in Creators
    BY KindTypes, TaskType DEF TypeInv, TypeOK, Creator
  <2>2. seen'[s][k] \in {IdleColumns, seen[s][k], Stopped(seen[s][k], "stale"), row'[Creator(s)][k]}
    BY <2>1, SeenColumn
  <2>3. ~IsPending(IdleColumns) /\ ~IsPending(Stopped(seen[s][k], "stale"))
    BY <2>1, StoppedStatus DEF IsPending, Pending, IdleColumns, TypeInv, TypeOK
  <2> QED BY <1>1, <1>2, <2>1, <2>2, <2>3 DEF ReadInv
<1>3. ASSUME NEW s \in Requests, pc'[s] \in Steps, Op(s) \in {"generate", "refresh"}
      PROVE  ~IsPending(seen'[s][Kind(s)])
  <2> DEFINE k == Kind(s)
  <2> USE DEF TypeInv, jobVars, reqVars
  <2>1. k \in Kinds /\ (Op(s) = "generate" => k \in Descriptions)
    BY <1>3, TaskType, KindTypes DEF TypeOK, Op, Kind
  <2>2. ASSUME NEW r \in Requests, NEW step, NEW copy, GoTo(r, step, copy)
        PROVE  IF r = s THEN pc'[s] = step /\ (step \in Steps => seen'[s] = copy)
                        ELSE pc'[s] = pc[s] /\ seen'[s] = seen[s]
    BY <2>2 DEF GoTo, TypeOK
  <2>3. CASE pc[s] \in Steps /\ seen'[s] = seen[s]
    BY <1>3, <2>3 DEF ReadInv
  <2>4. CASE pc'[s] = pc[s] /\ seen'[s] = seen[s]
    BY <1>3, <2>4 DEF ReadInv
  <2>5. \A copy \in {seen[s], SweptCopy(s)} : IsPending(copy[k]) => copy[k] = seen[s][k]
    <3>1. Stopped(seen[s][k], "stale").status = "failed"
      BY <2>1, StoppedStatus DEF TypeOK
    <3>2. SweptCopy(s)[k] \in {Stopped(seen[s][k], "stale"), seen[s][k]}
      BY <2>1 DEF SweptCopy
    <3> QED BY <3>1, <3>2 DEF IsPending, Pending
  <2>6. \A copy \in {seen[s], SweptCopy(s)} : AfterSweep(s, copy) \in Steps => ~IsPending(copy[k])
    BY <1>3, <2>1, <2>5 DEF AfterSweep, Busy, ReadInv
  <2>7. ASSUME NEW r \in Requests,
               SweepFirst(r) \/ SweepFirstWrite(r) \/ SweepResponse(r) \/ SweepResponseWrite(r)
        PROVE  ~IsPending(seen'[s][k])
    BY <1>3, <2>2, <2>4, <2>6, <2>7
       DEF SweepFirst, SweepFirstWrite, SweepResponse, SweepResponseWrite, Sweep, SweepWrite
  <2>8. ASSUME NEW r \in Requests, Load(r) \/ WriteProfile(r) \/ Abort(r)
        PROVE  ~IsPending(seen'[s][k])
    <3>1. WriteProfile(r) => Op(r) \in {"save", "draft"}
      BY DEF WriteProfile, ChargeInv, ChargeOf
    <3> QED BY <1>3, <2>2, <2>4, <2>8, <3>1 DEF Load, WriteProfile, Abort
  <2>9. ASSUME NEW r \in Requests,
               TakeLock(r) \/ Charge(r) \/ MarkQueued(r) \/ SubmitFull(r) \/ Restore(r)
                 \/ GiveBack(r) \/ Unlock(r) \/ MarkFailed(r) \/ TakeRankingLocks(r)
        PROVE  ~IsPending(seen'[s][k])
    BY <1>3, <2>2, <2>3, <2>4, <2>9
       DEF TakeLock, Charge, MarkQueued, SubmitFull, Restore, GiveBack, Unlock, MarkFailed, TakeRankingLocks
  <2>10. ASSUME NEW r \in Requests, SubmitJob(r) PROVE ~IsPending(seen'[s][k])
    BY <1>3, <2>2, <2>4, <2>10 DEF SubmitJob
  <2>11. ASSUME NEW r \in Requests, JobStep(r) PROVE ~IsPending(seen'[s][k])
    BY <2>4, <2>11 DEF JobStep, Signals, StartKind, MarkRunning, Complete, Fail, EndJob
  <2>12. ASSUME Take \/ Tick \/ NewDay \/ Restart \/ UNCHANGED vars PROVE ~IsPending(seen'[s][k])
    BY <2>4, <2>12 DEF Take, Tick, NewDay, Restart, vars
  <2>13. ~Crash
    BY <1>3 DEF Crash
  <2> QED BY <2>7, <2>8, <2>9, <2>10, <2>11, <2>12, <2>13 DEF Next, RequestStep
<1>4. \A s \in Requests : Op(s)' = Op(s) /\ Kind(s)' = Kind(s)
  BY EarlyStep DEF Op, Kind
<1> QED BY <1>1, <1>2, <1>3, <1>4 DEF ReadInv

LEMMA OwnedStep ==
    ASSUME {"overrun", "database"} \cap Faults = {}
    PROVE  TypeInv /\ ChargeInv /\ WorkInv /\ NamedInv /\ ReadInv /\ OwnedInv /\ [Next]_vars => OwnedInv'
<1> SUFFICES ASSUME TypeInv, ChargeInv, WorkInv, NamedInv, ReadInv, OwnedInv, [Next]_vars, up',
                    NEW c \in Creators, NEW k \in Kinds, IsPending(row'[c][k])
             PROVE  \E r \in Requests : Creator(r)' = c /\ Owner(r, k)'
  BY DEF OwnedInv
<1>1. CASE ~up
  <2>1. Restart
    BY <1>1 DEF Next, RequestStep, JobStep, Load, SweepFirst, SweepFirstWrite, SweepResponse,
       SweepResponseWrite, Sweep, SweepWrite, TakeLock, TakeRankingLocks, Charge, MarkQueued, WriteProfile,
       SubmitJob, SubmitFull, Restore, GiveBack, Unlock, MarkFailed, Abort, Signals, StartKind,
       MarkRunning, Complete, Fail, EndJob, Take, Tick, NewDay, Crash, vars
  <2>2. row'[c][k] = IF IsPending(row[c][k]) THEN Stopped(row[c][k], "restart") ELSE row[c][k]
    BY <2>1 DEF Restart, Recovered, TypeInv, TypeOK
  <2>3. Stopped(row[c][k], "restart").status = "failed"
    BY StoppedStatus DEF TypeInv, TypeOK
  <2> QED BY <2>2, <2>3 DEF IsPending, Pending
<1>2. CASE up /\ IsPending(row[c][k])
  <2>1. PICK r \in Requests : Creator(r) = c /\ Owner(r, k)
    BY <1>2 DEF OwnedInv
  <2>2. Creator(r)' = c
    BY <2>1, EarlyStep DEF Creator
  <2> QED BY <1>2, <2>1, <2>2, Ends
<1>3. CASE ~IsPending(row[c][k])
  BY <1>3, Opens
<1> QED BY <1>1, <1>2, <1>3

\* Nothing says queued or running with nobody left to write the outcome: this
\* needs that no lock outlives its holder and that no database statement fails.
THEOREM PendingIsOwned ==
    ASSUME {"overrun", "database"} \cap Faults = {}
    PROVE  Spec => []PendingHasWorker
<1>1. OwnedInv => PendingHasWorker
  BY DEF OwnedInv, PendingHasWorker, Owner
<1>2. "overrun" \notin Faults
  OBVIOUS
<1> QED BY <1>1, <1>2, TypeInit, TypeStep, LockInit, LockStep, ChargeInit, ChargeStep, WorkInit, WorkStep,
           FreshInit, FreshStep, NamedInit, NamedStep, ReadInit, ReadStep, OwnedStep, PTL DEF Spec

=============================================================================
