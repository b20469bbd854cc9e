------------------------- MODULE OperatorJobsProofs -------------------------
(* OperatorJobsTypeOK and OneFreshJobPerKind, for any number of operator   *)
(* jobs, any queue and any limits.                                         *)
EXTENDS OperatorJobs, TLAPS

InQueue(j) == \E n \in DOMAIN opQueue : opQueue[n] = j
Waiting(j) == opAsked[j] = "stored" \/ InQueue(j)

\* A job waits in one place at most, and the one that runs does not wait.
WaitsOnce ==
    /\ \A m, n \in DOMAIN opQueue : opQueue[m] = opQueue[n] => m = n
    /\ \A j \in OpJobs : InQueue(j) => opAsked[j] = "yes" /\ opWorker # j
    /\ \A j \in OpJobs : opWorker = j => opAsked[j] = "yes"

\* A job that waits was not begun: if its row is still there it says queued, unless it waited
\* so long that it counts for nothing.  Otherwise the worker could make a job that was
\* reported as failed count again.
WaitingIsQueued == \A j \in Listed : Waiting(j) => opTable[j].status = "queued" \/ opTable[j].age > OpStale

JobsInv == OperatorJobsTypeOK /\ WaitsOnce /\ WaitingIsQueued /\ OneFreshJobPerKind

-----------------------------------------------------------------------------
LEMMA RowFacts ==
    ASSUME OperatorJobsTypeOK
    PROVE  /\ \A j \in Listed : opTable[j] \in OpRow
           /\ \A j \in OpJobs : j \notin Listed => opTable[j] = Unknown
           /\ Unknown \notin OpRow
           /\ NoJob \notin OpJobs
BY OperatorJobsAssumption DEF OperatorJobsTypeOK, Listed, Unknown, OpRow, OpPending, NoJob

LEMMA PurgedFacts ==
    ASSUME OperatorJobsTypeOK
    PROVE  /\ Purged \in [OpJobs -> OpRow \cup {Unknown}]
           /\ \A j \in OpJobs : Purged[j] = Unknown \/ Purged[j] = opTable[j]
BY DEF OperatorJobsTypeOK, Purged

\* What is fresh after a step was fresh before it, of the same kind: enough for every step
\* that starts no job.
LEMMA NoneFresher ==
    ASSUME OneFreshJobPerKind,
           \A j \in OpJobs : j \in Listed' /\ Fresh(j)' =>
               j \in Listed /\ Fresh(j) /\ opTable'[j].kind = opTable[j].kind
    PROVE  OneFreshJobPerKind'
BY DEF OneFreshJobPerKind, Listed

LEMMA InitInv == OperatorJobsInit => JobsInv
<1> SUFFICES ASSUME OperatorJobsInit PROVE JobsInv
  OBVIOUS
<1>1. OperatorJobsTypeOK
  BY OperatorJobsAssumption DEF OperatorJobsInit, OperatorJobsTypeOK
<1>2. Listed = {}
  BY DEF OperatorJobsInit, Listed
<1>3. WaitsOnce
  BY OperatorJobsAssumption DEF OperatorJobsInit, WaitsOnce, InQueue, NoJob
<1> QED BY <1>1, <1>2, <1>3 DEF JobsInv, WaitingIsQueued, OneFreshJobPerKind

-----------------------------------------------------------------------------
LEMMA StoreInv ==
    ASSUME JobsInv, NEW j \in OpJobs, NEW kind \in OpKinds, OpStore(j, kind)
    PROVE  JobsInv'
<1>0. OperatorJobsTypeOK /\ WaitsOnce /\ WaitingIsQueued /\ OneFreshJobPerKind
  BY DEF JobsInv
<1>1. opQueue' = opQueue /\ opWorker' = opWorker /\ opAsked[j] = "no"
  BY DEF OpStore
<1>2. opAsked' \in [OpJobs -> {"no", "stored", "yes"}] /\ opAsked'[j] # "no"
      /\ \A i \in OpJobs : i # j => opAsked'[i] = opAsked[i]
  BY <1>0 DEF OpStore, OperatorJobsTypeOK
<1>3. WaitsOnce'
  BY <1>0, <1>1, <1>2 DEF WaitsOnce, InQueue
<1>4. \A i \in OpJobs : i # j => opTable'[i] = Purged[i]
  BY <1>0, PurgedFacts DEF OpStore
<1> DEFINE new == [status |-> "queued", kind |-> kind, age |-> 0, finished |-> NotYet]
<1>5. new \in OpRow
  BY OperatorJobsAssumption DEF OpRow, OpPending, OpAges, OpDone, NotYet
<1>6. \/ opTable' = Purged /\ opAsked'[j] = "yes"
      \/ /\ opTable' = [Purged EXCEPT ![j] = new]
         /\ \A i \in OpJobs : ~Blocks(Purged[i], kind)
  BY <1>0 DEF OpStore, OperatorJobsTypeOK
<1>7. OperatorJobsTypeOK'
  BY <1>0, <1>1, <1>2, <1>5, <1>6, PurgedFacts DEF OperatorJobsTypeOK
<1>8. opTable'[j] = Purged[j] \/ opTable'[j] = new
  BY <1>0, <1>6, PurgedFacts
<1>9. WaitingIsQueued'
  <2> SUFFICES ASSUME NEW i \in Listed', Waiting(i)'
               PROVE  opTable'[i].status = "queued" \/ opTable'[i].age > OpStale
    BY DEF WaitingIsQueued
  <2>1. i \in OpJobs /\ opTable'[i] # Unknown
    BY DEF Listed
  <2>2. CASE i # j
    <3>1. opTable'[i] = opTable[i] /\ i \in Listed
      BY <1>0, <1>4, <2>1, <2>2, PurgedFacts DEF Listed
    <3>2. Waiting(i)
      BY <1>1, <1>2, <2>1, <2>2 DEF Waiting, InQueue
    <3> QED BY <1>0, <3>1, <3>2 DEF WaitingIsQueued
  <2>3. CASE i = j
    <3>1. opAsked'[j] = "stored"
      BY <1>0, <1>1, <2>3 DEF Waiting, WaitsOnce, InQueue
    <3> QED BY <1>6, <2>3, <3>1, <1>0, PurgedFacts
  <2> QED BY <2>2, <2>3
<1>10. OneFreshJobPerKind'
  <2>1. CASE opTable' = Purged
    <3>1. \A i \in OpJobs : i \in Listed' => i \in Listed /\ opTable'[i] = opTable[i]
      BY <1>0, <2>1, PurgedFacts DEF Listed
    <3> QED BY <1>0, <3>1, NoneFresher DEF Fresh
  <2>2. CASE opTable' = [Purged EXCEPT ![j] = new] /\ \A i \in OpJobs : ~Blocks(Purged[i], kind)
    <3> SUFFICES ASSUME NEW a \in Listed', NEW b \in Listed', Fresh(a)', Fresh(b)',
                        opTable'[a].kind = opTable'[b].kind, a # b
                 PROVE  FALSE
      BY DEF OneFreshJobPerKind
    <3>1. a \in OpJobs /\ b \in OpJobs /\ opTable'[a] # Unknown /\ opTable'[b] # Unknown
      BY DEF Listed
    <3>2. \A i \in OpJobs : i # j /\ opTable'[i] # Unknown =>
             i \in Listed /\ opTable'[i] = opTable[i] /\ opTable'[i] = Purged[i]
      BY <1>0, <1>4, PurgedFacts DEF Listed
    <3>3. opTable'[j].kind = kind
      BY <1>0, <2>2, PurgedFacts
    <3>4. \A i \in OpJobs : i # j /\ opTable'[i] # Unknown /\ Fresh(i)' => opTable'[i].kind # kind
      BY <2>2, <3>2 DEF Fresh, Blocks
    <3>5. a # j /\ b # j
      BY <3>1, <3>3, <3>4
    <3> QED BY <1>0, <3>1, <3>2, <3>5 DEF OneFreshJobPerKind, Fresh
  <2> QED BY <1>6, <2>1, <2>2
<1> QED BY <1>3, <1>7, <1>9, <1>10 DEF JobsInv

LEMMA SubmitInv ==
    ASSUME JobsInv, NEW j \in OpJobs, OpSubmit(j)
    PROVE  JobsInv'
<1>0. OperatorJobsTypeOK /\ WaitsOnce /\ WaitingIsQueued /\ OneFreshJobPerKind
  BY DEF JobsInv
<1>1. /\ opWorker' = opWorker /\ opAsked[j] = "stored"
      /\ opAsked' \in [OpJobs -> {"no", "stored", "yes"}] /\ opAsked'[j] = "yes"
      /\ \A i \in OpJobs : i # j => opAsked'[i] = opAsked[i]
  BY <1>0 DEF OpSubmit, OperatorJobsTypeOK
<1>2. CASE Len(opQueue) < OpQueueMax
  <2>1. opQueue' = Append(opQueue, j) /\ opTable' = opTable
    BY <1>2 DEF OpSubmit
  <2>2. opQueue \in Seq(OpJobs) /\ Len(opQueue) \in Nat
    BY <1>0 DEF OperatorJobsTypeOK
  <2>3. /\ opQueue' \in Seq(OpJobs) /\ Len(opQueue') = Len(opQueue) + 1
        /\ DOMAIN opQueue' = 1 .. Len(opQueue) + 1 /\ DOMAIN opQueue = 1 .. Len(opQueue)
        /\ opQueue'[Len(opQueue) + 1] = j
        /\ \A n \in DOMAIN opQueue : opQueue'[n] = opQueue[n]
    BY <2>1, <2>2
  <2>4. \A i \in OpJobs : InQueue(i)' <=> (InQueue(i) \/ i = j)
    BY <2>2, <2>3 DEF InQueue
  <2>5. OperatorJobsTypeOK'
    BY <1>0, <1>1, <1>2, <2>1, <2>2, <2>3, OperatorJobsAssumption DEF OperatorJobsTypeOK
  <2>6. ~InQueue(j) /\ opWorker # j
    BY <1>0, <1>1 DEF WaitsOnce
  <2>7. WaitsOnce'
    <3>1. \A m, n \in DOMAIN opQueue' : opQueue'[m] = opQueue'[n] => m = n
      BY <1>0, <2>2, <2>3, <2>6 DEF WaitsOnce, InQueue
    <3> QED BY <1>0, <1>1, <2>4, <2>6, <3>1 DEF WaitsOnce
  <2>8. WaitingIsQueued'
    BY <1>0, <1>1, <2>1, <2>4 DEF WaitingIsQueued, Waiting, Listed
  <2> QED BY <1>0, <2>1, <2>5, <2>7, <2>8 DEF JobsInv, OneFreshJobPerKind, Fresh, Listed
<1>3. CASE ~(Len(opQueue) < OpQueueMax)
  <2>1. opQueue' = opQueue /\ opTable' = [opTable EXCEPT ![j] = Unknown]
    BY <1>3 DEF OpSubmit
  <2>2. OperatorJobsTypeOK'
    BY <1>0, <1>1, <2>1 DEF OperatorJobsTypeOK
  <2>3. \A i \in OpJobs : i \in Listed' => i # j /\ i \in Listed /\ opTable'[i] = opTable[i]
    BY <1>0, <2>1 DEF Listed, OperatorJobsTypeOK
  <2>4. WaitsOnce'
    BY <1>0, <1>1, <2>1 DEF WaitsOnce, InQueue
  <2>5. WaitingIsQueued'
    BY <1>0, <1>1, <2>1, <2>3 DEF WaitingIsQueued, Waiting, InQueue, Listed
  <2>6. OneFreshJobPerKind'
    BY <1>0, <2>3, NoneFresher DEF Fresh
  <2> QED BY <2>2, <2>4, <2>5, <2>6 DEF JobsInv
<1> QED BY <1>2, <1>3

LEMMA BeginInv ==
    ASSUME JobsInv, OpBegin
    PROVE  JobsInv'
<1>0. OperatorJobsTypeOK /\ WaitsOnce /\ WaitingIsQueued /\ OneFreshJobPerKind
  BY DEF JobsInv
<1> PICK j \in OpJobs : j = Head(opQueue)
  BY <1>0 DEF OpBegin, OperatorJobsTypeOK
<1>1. opQueue \in Seq(OpJobs) /\ opQueue # <<>> /\ opQueue' = Tail(opQueue)
  BY <1>0 DEF OpBegin, OperatorJobsTypeOK
<1>2. /\ j \in OpJobs /\ j = opQueue[1] /\ 1 \in DOMAIN opQueue /\ Len(opQueue) \in Nat
      /\ DOMAIN opQueue = 1 .. Len(opQueue) /\ DOMAIN opQueue' = 1 .. Len(opQueue) - 1
      /\ opQueue' \in Seq(OpJobs) /\ Len(opQueue') = Len(opQueue) - 1
      /\ \A n \in DOMAIN opQueue' : opQueue'[n] = opQueue[n + 1] /\ n + 1 \in DOMAIN opQueue
  BY <1>1
<1>3. opAsked' = opAsked /\ opWorker = NoJob
  BY DEF OpBegin
<1>4. \A i \in OpJobs : InQueue(i)' => InQueue(i) /\ i # j
  BY <1>0, <1>2 DEF InQueue, WaitsOnce
<1>5. InQueue(j)
  BY <1>2 DEF InQueue
<1>6. \A m, n \in DOMAIN opQueue' : opQueue'[m] = opQueue'[n] => m = n
  BY <1>0, <1>2 DEF WaitsOnce
<1>7. CASE j \in Listed
  <2>1. opTable' = [opTable EXCEPT ![j].status = "running"] /\ opWorker' = j
    BY <1>7 DEF OpBegin
  <2>2. opTable[j] \in OpRow /\ opTable \in [OpJobs -> OpRow \cup {Unknown}]
    BY <1>0, <1>7, RowFacts DEF OperatorJobsTypeOK
  <2>3. /\ opTable'[j] \in OpRow /\ opTable'[j].kind = opTable[j].kind /\ opTable'[j].age = opTable[j].age
        /\ opTable'[j].status = "running"
        /\ \A i \in OpJobs : i # j => opTable'[i] = opTable[i]
        /\ opTable' \in [OpJobs -> OpRow \cup {Unknown}]
    BY <1>2, <2>1, <2>2 DEF OpRow, OpPending
  <2>4. OperatorJobsTypeOK'
    BY <1>0, <1>2, <1>3, <2>1, <2>3, OperatorJobsAssumption DEF OperatorJobsTypeOK
  <2>5. WaitsOnce'
    BY <1>0, <1>3, <1>4, <1>5, <1>6, <2>1 DEF WaitsOnce
  <2>6. \A i \in OpJobs : i \in Listed' => i \in Listed
    BY <1>7, <2>3 DEF Listed
  <2>7. WaitingIsQueued'
    BY <1>0, <1>3, <1>4, <1>5, <2>3, <2>6 DEF WaitingIsQueued, Waiting, Listed, WaitsOnce
  <2>8. Fresh(j)' => Fresh(j)
    <3>1. opTable[j].status = "queued" \/ opTable[j].age > OpStale
      BY <1>0, <1>5, <1>7 DEF WaitingIsQueued, Waiting
    <3> QED BY <2>1, <2>2, <2>3, <3>1 DEF Fresh, OpIsStale, OpPending, OpRow
  <2>9. OneFreshJobPerKind'
    <3>1. \A i \in OpJobs : i \in Listed' /\ Fresh(i)' => i \in Listed /\ Fresh(i) /\ opTable'[i].kind = opTable[i].kind
      BY <2>3, <2>6, <2>8 DEF Fresh
    <3> QED BY <1>0, <3>1, NoneFresher
  <2> QED BY <2>4, <2>5, <2>7, <2>9 DEF JobsInv
<1>8. CASE j \notin Listed
  <2>1. opTable' = opTable /\ opWorker' = opWorker
    BY <1>8 DEF OpBegin
  <2>2. OperatorJobsTypeOK'
    BY <1>0, <1>2, <1>3, <2>1, OperatorJobsAssumption DEF OperatorJobsTypeOK
  <2>3. WaitsOnce'
    BY <1>0, <1>3, <1>4, <1>6, <2>1 DEF WaitsOnce
  <2>4. WaitingIsQueued'
    BY <1>0, <1>3, <1>4, <2>1 DEF WaitingIsQueued, Waiting, Listed
  <2> QED BY <1>0, <2>1, <2>2, <2>3, <2>4 DEF JobsInv, OneFreshJobPerKind, Fresh, Listed
<1> QED BY <1>7, <1>8

LEMMA EndInv ==
    ASSUME JobsInv, OpEnd
    PROVE  JobsInv'
<1>0. OperatorJobsTypeOK /\ WaitsOnce /\ WaitingIsQueued /\ OneFreshJobPerKind
  BY DEF JobsInv
<1>1. opQueue' = opQueue /\ opAsked' = opAsked /\ opWorker' = NoJob /\ opWorker \in OpJobs
  BY <1>0 DEF OpEnd, OperatorJobsTypeOK
<1> PICK w \in OpJobs : w = opWorker
  BY <1>1
<1>2. PICK result \in {"done", "error"} :
        opTable' = IF w \in Listed
                     THEN [opTable EXCEPT ![w].status = result, ![w].finished = 0]
                     ELSE opTable
  BY DEF OpEnd
<1>3. /\ opTable' \in [OpJobs -> OpRow \cup {Unknown}]
      /\ \A i \in OpJobs : i # w => opTable'[i] = opTable[i]
      /\ opTable'[w] = opTable[w] \/ opTable'[w].status \notin OpPending
      /\ w \notin Listed => opTable' = opTable
  <2>1. CASE w \in Listed
    <3>1. opTable[w] \in OpRow /\ opTable \in [OpJobs -> OpRow \cup {Unknown}]
      BY <1>0, <2>1, RowFacts DEF OperatorJobsTypeOK
    <3>2. 0 \in OpDone
      BY OperatorJobsAssumption DEF OpDone, NotYet
    <3>3. opTable'[w] = [opTable[w] EXCEPT !.status = result, !.finished = 0]
      BY <1>1, <1>2, <2>1, <3>1
    <3>4. opTable'[w] \in OpRow /\ opTable'[w].status = result
      BY <3>1, <3>2, <3>3 DEF OpRow
    <3> QED BY <1>1, <1>2, <2>1, <3>1, <3>4 DEF OpPending
  <2>2. CASE w \notin Listed
    BY <1>0, <1>2, <2>2 DEF OperatorJobsTypeOK
  <2> QED BY <2>1, <2>2
<1>4. OperatorJobsTypeOK'
  BY <1>0, <1>1, <1>3 DEF OperatorJobsTypeOK
<1>5. WaitsOnce'
  BY <1>0, <1>1, RowFacts DEF WaitsOnce, InQueue
<1>6. ~Waiting(w)'
  BY <1>0, <1>1 DEF WaitsOnce, Waiting, InQueue
<1>7. WaitingIsQueued'
  BY <1>0, <1>1, <1>3, <1>6 DEF WaitingIsQueued, Waiting, InQueue, Listed
<1>8. OneFreshJobPerKind'
  <2>1. \A i \in OpJobs : i \in Listed' /\ Fresh(i)' => i \in Listed /\ Fresh(i) /\ opTable'[i].kind = opTable[i].kind
    BY <1>1, <1>3 DEF Fresh, Listed
  <2> QED BY <1>0, <2>1, NoneFresher
<1> QED BY <1>4, <1>5, <1>7, <1>8 DEF JobsInv

LEMMA PollInv ==
    ASSUME JobsInv, NEW j \in OpJobs, OpPoll(j)
    PROVE  JobsInv'
<1>0. OperatorJobsTypeOK /\ WaitsOnce /\ WaitingIsQueued /\ OneFreshJobPerKind
  BY DEF JobsInv
<1>1. /\ opQueue' = opQueue /\ opAsked' = opAsked /\ opWorker' = opWorker
      /\ opTable' = [Purged EXCEPT ![j] = IF @ = Unknown THEN @ ELSE Reported(@)]
  BY DEF OpPoll
<1>2. \A i \in OpJobs : opTable'[i] = Unknown \/ opTable'[i] = opTable[i]
                          \/ (i \in Listed /\ OpIsStale(opTable[i]) /\ opTable'[i] = Reported(opTable[i]))
  BY <1>0, <1>1, PurgedFacts DEF Reported, Listed
<1>3. \A i \in Listed : OpIsStale(opTable[i]) =>
          /\ Reported(opTable[i]) \in OpRow /\ Reported(opTable[i]).status = "error"
          /\ Reported(opTable[i]).age = opTable[i].age /\ opTable[i].age > OpStale
  <2> SUFFICES ASSUME NEW i \in Listed, OpIsStale(opTable[i])
               PROVE  /\ Reported(opTable[i]) \in OpRow /\ Reported(opTable[i]).status = "error"
                      /\ Reported(opTable[i]).age = opTable[i].age /\ opTable[i].age > OpStale
    OBVIOUS
  <2>1. opTable[i] \in OpRow
    BY <1>0, RowFacts
  <2>2. 0 \in OpDone
    BY OperatorJobsAssumption DEF OpDone, NotYet
  <2> QED BY <2>1, <2>2 DEF Reported, OpRow, OpIsStale
<1>4. opTable' \in [OpJobs -> OpRow \cup {Unknown}]
  <2>1. \A i \in OpJobs : opTable'[i] \in OpRow \cup {Unknown}
    BY <1>0, <1>2, <1>3 DEF OperatorJobsTypeOK
  <2>2. opTable' = [i \in OpJobs |-> opTable'[i]]
    BY <1>0, <1>1, PurgedFacts
  <2> QED BY <2>1, <2>2
<1>5. OperatorJobsTypeOK'
  BY <1>0, <1>1, <1>4 DEF OperatorJobsTypeOK
<1>6. WaitsOnce'
  BY <1>0, <1>1 DEF WaitsOnce, InQueue
<1>7. \A i \in OpJobs : i \in Listed' => i \in Listed
  BY <1>2 DEF Listed
<1>8. WaitingIsQueued'
  BY <1>0, <1>1, <1>2, <1>3, <1>7 DEF WaitingIsQueued, Waiting, InQueue, Listed
<1>9. OneFreshJobPerKind'
  <2>1. \A i \in OpJobs : i \in Listed' /\ Fresh(i)' => i \in Listed /\ Fresh(i) /\ opTable'[i].kind = opTable[i].kind
    BY <1>2, <1>3, <1>7 DEF Fresh, Listed, OpPending
  <2> QED BY <1>0, <2>1, NoneFresher
<1> QED BY <1>5, <1>6, <1>8, <1>9 DEF JobsInv

LEMMA TickInv ==
    ASSUME JobsInv, OpTick
    PROVE  JobsInv'
<1>0. OperatorJobsTypeOK /\ WaitsOnce /\ WaitingIsQueued /\ OneFreshJobPerKind
  BY DEF JobsInv
<1>1. opQueue' = opQueue /\ opAsked' = opAsked /\ opWorker' = opWorker
  BY DEF OpTick
<1>2. \A i \in OpJobs : i \notin Listed => opTable'[i] = Unknown
  BY DEF OpTick
<1>3. \A i \in Listed :
        /\ opTable'[i] \in OpRow /\ opTable'[i].status = opTable[i].status /\ opTable'[i].kind = opTable[i].kind
        /\ opTable'[i].age >= opTable[i].age
        /\ opTable[i].age \in Nat /\ opTable'[i].age \in Nat
  <2> SUFFICES ASSUME NEW i \in Listed
               PROVE  /\ opTable'[i] \in OpRow /\ opTable'[i].status = opTable[i].status
                      /\ opTable'[i].kind = opTable[i].kind
                      /\ opTable'[i].age >= opTable[i].age
                      /\ opTable[i].age \in Nat /\ opTable'[i].age \in Nat
    OBVIOUS
  <2>1. opTable[i] \in OpRow /\ i \in OpJobs
    BY <1>0, RowFacts DEF Listed
  <2> DEFINE age == IF opTable[i].age > OpStale THEN opTable[i].age ELSE opTable[i].age + 1
             fin == IF opTable[i].finished = NotYet \/ opTable[i].finished > OpKeep
                      THEN opTable[i].finished ELSE opTable[i].finished + 1
  <2>2. opTable'[i] = [opTable[i] EXCEPT !.age = age, !.finished = fin]
    BY <2>1 DEF OpTick
  <2>3. opTable[i].age \in OpAges /\ opTable[i].finished \in OpDone
    BY <2>1 DEF OpRow
  <2>4. age \in OpAges /\ age >= opTable[i].age /\ fin \in OpDone /\ opTable[i].age \in Nat
    BY <2>3, OperatorJobsAssumption DEF OpAges, OpDone, NotYet
  <2> HIDE DEF age, fin
  <2>5. /\ opTable'[i].status = opTable[i].status /\ opTable'[i].kind = opTable[i].kind
        /\ opTable'[i].age = age /\ opTable'[i] \in OpRow
    BY <2>1, <2>2, <2>4 DEF OpRow
  <2> QED BY <2>4, <2>5, OperatorJobsAssumption DEF OpAges
<1>4. opTable' \in [OpJobs -> OpRow \cup {Unknown}]
  <2>1. \A i \in OpJobs : opTable'[i] \in OpRow \cup {Unknown}
    BY <1>2, <1>3
  <2>2. opTable' = [i \in OpJobs |-> opTable'[i]]
    BY DEF OpTick
  <2> QED BY <2>1, <2>2
<1>5. OperatorJobsTypeOK'
  BY <1>0, <1>1, <1>4 DEF OperatorJobsTypeOK
<1>6. WaitsOnce'
  BY <1>0, <1>1 DEF WaitsOnce, InQueue
<1>7. \A i \in OpJobs : i \in Listed' => i \in Listed
  BY <1>2 DEF Listed
<1>8. WaitingIsQueued'
  BY <1>0, <1>1, <1>3, <1>7, OperatorJobsAssumption DEF WaitingIsQueued, Waiting, InQueue, Listed
<1>9. OneFreshJobPerKind'
  <2>1. \A i \in OpJobs : i \in Listed' /\ Fresh(i)' => i \in Listed /\ Fresh(i) /\ opTable'[i].kind = opTable[i].kind
    <3> SUFFICES ASSUME NEW i \in OpJobs, i \in Listed', Fresh(i)'
                 PROVE  i \in Listed /\ Fresh(i) /\ opTable'[i].kind = opTable[i].kind
      OBVIOUS
    <3>1. i \in Listed
      BY <1>7
    <3> QED BY <1>3, <3>1, OperatorJobsAssumption DEF Fresh, OpIsStale
  <2> QED BY <1>0, <2>1, NoneFresher
<1> QED BY <1>5, <1>6, <1>8, <1>9 DEF JobsInv

LEMMA RestartInv ==
    ASSUME JobsInv, OpRestart
    PROVE  JobsInv'
<1>0. OperatorJobsTypeOK
  BY DEF JobsInv
<1>1. Listed' = {}
  BY DEF OpRestart, Listed
<1>2. OperatorJobsTypeOK'
  BY <1>0, OperatorJobsAssumption DEF OpRestart, OperatorJobsTypeOK
<1>3. WaitsOnce'
  BY OperatorJobsAssumption DEF OpRestart, WaitsOnce, InQueue, NoJob
<1> QED BY <1>1, <1>2, <1>3 DEF JobsInv, WaitingIsQueued, OneFreshJobPerKind

LEMMA NextInv == JobsInv /\ [OperatorJobsNext]_operatorJobsVars => JobsInv'
<1> SUFFICES ASSUME JobsInv, [OperatorJobsNext]_operatorJobsVars PROVE JobsInv'
  OBVIOUS
<1>1. CASE UNCHANGED operatorJobsVars
  BY <1>1 DEF operatorJobsVars, JobsInv, OperatorJobsTypeOK, WaitsOnce, InQueue, WaitingIsQueued, Waiting,
              OneFreshJobPerKind, Listed, Fresh
<1> QED BY <1>1, StoreInv, SubmitInv, BeginInv, EndInv, PollInv, TickInv, RestartInv DEF OperatorJobsNext

\* Every state of the table of operator jobs, the queue and the worker has its type, for any
\* number of jobs and any limits (app.py:1022-1081, jobs.py).
THEOREM TypeCorrect == OperatorJobsSpec => []OperatorJobsTypeOK
<1>1. JobsInv => OperatorJobsTypeOK
  BY DEF JobsInv
<1> QED BY InitInv, NextInv, <1>1, PTL DEF OperatorJobsSpec

\* However jobs are reported as failed while they wait or run, forgotten, refused by a full
\* queue or lost by a restart, no two of a kind are at work that are young enough to count
\* (app.py:1037-1068).
THEOREM OneJobPerKind == OperatorJobsSpec => []OneFreshJobPerKind
<1>1. JobsInv => OneFreshJobPerKind
  BY DEF JobsInv
<1> QED BY InitInv, NextInv, <1>1, PTL DEF OperatorJobsSpec
=============================================================================
