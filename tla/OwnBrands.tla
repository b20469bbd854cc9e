----------------------------- MODULE OwnBrands -----------------------------
(***************************************************************************)
(* "My own brand" (api/own_brands.py, pipeline/own_brand.py): a creator    *)
(* looks up a brand by its Instagram handle, a user job reads its posts    *)
(* and lets the LLM fill its empty fields, and the first pitch for it      *)
(* starts a follow-up that runs the rest of the pipeline on the brand.     *)
(*                                                                         *)
(* The fields that a pitch needs are one field here, profile: empty, seeded *)
(* or the lookup that filled it.  A brand's id, and a job's, is its place  *)
(* in the table, so a later row has a larger number.  The queue and        *)
(* the workers are shared with the jobs of UserJobs: whether there is room *)
(* and when a worker is free is not decided here.                          *)
(***************************************************************************)
EXTENDS UsageLimits, Sequences, FiniteSets

CONSTANTS
    Lookups,     \* POST /own-brands calls, each with the page that made it
    Claims,      \* pitches that were just saved and call claim_followup
    Owner,       \* Owner[x]: the creator of lookup or pitch x
    Handle,      \* Handle[r]: the handle lookup r asks for
    Known,       \* the brands_raw rows there may be before the first lookup
    JobStale,    \* _STALE_AFTER, in ticks
    StepCount,   \* the follow-up's paid steps
    Faults       \* which of the faults below happen in this instance

\* crash:    the API process stops and starts again
\* database: a statement of a lookup, its job or a follow-up raises (release_lock aside)
\* pool:     a job's or a follow-up's session finds no free connection
\* overrun:  a follow-up runs for more than two hours
AllFaults == {"crash", "database", "pool", "overrun"}

Brand == "own_brand"
Empty == 0
Seeded == -1    \* a profile that was there before
Profiles == {Empty, Seeded} \cup Lookups

ASSUME OwnBrandsAssumption ==
    /\ LockNames = {Brand}
    /\ Features = {"own_brands"}
    /\ IsFiniteSet(Lookups)
    /\ Lookups \cap Claims = {}
    /\ Owner \in [Lookups \cup Claims -> Creators]
    /\ DOMAIN Handle = Lookups
    /\ JobStale \in Nat \ {0}
    /\ StepCount \in Nat \ {0}
    /\ Faults \subseteq AllFaults

VARIABLES
    brands,      \* brands_raw, by id
    jobs,        \* own_brand_jobs, by time of creation
    pc,          \* pc[r]: the next step of lookup r
    found,       \* found[r]: the id of the brand r read, 0 for none
    target,      \* target[r]: the job r answers with, 0 while there is none
    charged,     \* charged[r]: r has used one of the lookups of the day
    cut,         \* history: lookups ended by a statement that raised, or by a restart
    run,         \* run[r]: the next step of the user job r has queued
    copy,        \* copy[r]: what the session of r, or of its job, has read
    claim        \* claim[p]: where the pitch p and its follow-up are

lookupVars == <<pc, found, target, charged, cut>>
vars == <<uses, locks, brands, jobs, lookupVars, run, copy, claim>>

Pending == {"queued", "running"}
PendingJobs == {j \in DOMAIN jobs : jobs[j].status \in Pending}

\* Mutant: only a job that a worker has begun can be stale.
IsStaleRunning(job) == job.status = "running" /\ job.age > JobStale

\* _is_stale: not updated for ten minutes.
IsStale(job) == job.status \in Pending /\ job.age > JobStale

JobAges == 0 .. JobStale + 1

Jobs == [owner : Creators, brand : Nat, handle : {Handle[r] : r \in Lookups},
         status : {"queued", "running", "ready", "failed"}, age : JobAges,
         followup : {"none", "running", "skipped", "done", "failed"}, started : BOOLEAN]

NoCopy == [profile |-> Empty, posts |-> FALSE]
NoClaim == [step |-> "start", job |-> 0, at |-> 1, busy |-> FALSE]

Brands == [handle : {Handle[r] : r \in Lookups}, posts : BOOLEAN, profile : Profiles,
           done : SUBSET (1 .. StepCount)]

\* Rows of the table.
ASSUME KnownAssumption == Known \subseteq Brands

TypeOK ==
    /\ UsageTypeOK
    /\ brands \in Seq(Brands)
    /\ jobs \in Seq(Jobs)
    /\ pc \in [Lookups -> {"start", "twin", "fail", "charge", "find", "create", "submit", "undo",
                           "refund", "unlock", "over"}]
    /\ found \in [Lookups -> 0 .. Len(brands)]
    /\ target \in [Lookups -> 0 .. Len(jobs)]
    /\ charged \in [Lookups -> BOOLEAN]
    /\ cut \subseteq Lookups
    /\ run \in [Lookups -> {"none", "waiting", "loaded", "read", "scrape", "write", "fail",
                            "end", "over"}]
    /\ copy \in [Lookups -> [profile : Profiles, posts : BOOLEAN]]
    /\ claim \in [Claims -> [step : {"start", "claiming", "run", "pay", "over"},
                              job : 0 .. Len(jobs), at : 1 .. StepCount + 1, busy : BOOLEAN]]

Init ==
    /\ UsageInit
    /\ brands \in {<<>>} \cup {<<b>> : b \in Known}
    /\ jobs = <<>>
    /\ pc = [r \in Lookups |-> "start"]
    /\ found = [r \in Lookups |-> 0]
    /\ target = [r \in Lookups |-> 0]
    /\ charged = [r \in Lookups |-> FALSE]
    /\ cut = {}
    /\ run = [r \in Lookups |-> "none"]
    /\ copy = [r \in Lookups |-> NoCopy]
    /\ claim = [p \in Claims |-> NoClaim]

-----------------------------------------------------------------------------
GoTo(r, step) == pc' = [pc EXCEPT ![r] = step]
RunTo(r, step) == run' = [run EXCEPT ![r] = step]

\* Mutant: a claim reads its job without FOR UPDATE.
RowFreeAlways(j) == TRUE

\* No claim has locked the row of j; who wants it waits until then.
RowFree(j) == \A p \in Claims : ~(claim[p].step = "claiming" /\ claim[p].job = j)

\* An UPDATE of a job row, which sets updated_at.
WriteJob(j, row) ==
    /\ RowFree(j)
    /\ jobs' = [jobs EXCEPT ![j] = [row EXCEPT !.age = 0]]

SetStatus(j, status) == WriteJob(j, [jobs[j] EXCEPT !.status = status])

-----------------------------------------------------------------------------
(* A lookup.                                                               *)

\* ensure_room (503), then the creator's lock.
TakeLock(r) ==
    /\ pc[r] = "start"
    /\ \/ /\ GoTo(r, "over")
          /\ UNCHANGED locks
       \/ /\ Acquire(Owner[r], Brand)
          /\ GoTo(r, "charge")
       \/ /\ ~Available(Owner[r], Brand)
          /\ GoTo(r, "twin")
          /\ UNCHANGED locks
    /\ UNCHANGED <<uses, brands, jobs, found, target, charged, cut, run, copy, claim>>

\* Another lookup of this creator holds the lock: its job, if it is for the
\* same handle (a double click), else 409; 409 also when there is no job yet
\* after three seconds.
Active(c) == {j \in PendingJobs : jobs[j].owner = c}
Latest(js) == CHOOSE j \in js : \A k \in js : k <= j

Twin(r) ==
    /\ pc[r] = "twin"
    /\ LET js == Active(Owner[r]) IN
         IF js # {} /\ jobs[Latest(js)].handle = Handle[r]
           THEN /\ target' = [target EXCEPT ![r] = Latest(js)]
                /\ GoTo(r, IF IsStale(jobs[Latest(js)]) THEN "fail" ELSE "over")
           ELSE /\ GoTo(r, "over")
                /\ UNCHANGED target
    /\ UNCHANGED <<uses, locks, brands, jobs, found, charged, cut, run, copy, claim>>

\* consume: 429 or 403 frees the lock again.
Charge(r) ==
    /\ pc[r] = "charge"
    /\ \/ /\ Consume(Owner[r], "own_brands")
          /\ charged' = [charged EXCEPT ![r] = TRUE]
          /\ GoTo(r, "find")
       \/ /\ ~UnderCap(Owner[r], "own_brands")
          /\ GoTo(r, "unlock")
          /\ UNCHANGED <<uses, charged>>
    /\ UNCHANGED <<locks, brands, jobs, found, target, cut, run, copy, claim>>

\* find_brand_by_handle: the oldest row with this handle, read into the session.
Find(r) ==
    /\ pc[r] = "find"
    /\ LET bs == {b \in DOMAIN brands : brands[b].handle = Handle[r]}
           b == CHOOSE x \in bs : \A y \in bs : x <= y IN
         /\ found' = [found EXCEPT ![r] = IF bs = {} THEN 0 ELSE b]
         /\ copy' = [copy EXCEPT ![r].profile = IF bs = {} THEN Empty ELSE brands[b].profile]
    /\ GoTo(r, "create")
    /\ UNCHANGED <<uses, locks, brands, jobs, target, charged, cut, run, claim>>

NewBrand(h) == [handle |-> h, posts |-> FALSE, profile |-> Empty, done |-> {}]

NewJob(r, b, status) ==
    [owner |-> Owner[r], brand |-> b, handle |-> Handle[r], status |-> status, age |-> 0,
     followup |-> "none", started |-> FALSE]

\* The rest of start_own_brand_job, one commit: the new brand, and a new job
\* unless a live one of this creator for this brand is there.
Reuse(r, j) ==
    /\ target' = [target EXCEPT ![r] = j]
    /\ GoTo(r, IF jobs[j].status = "queued" THEN "submit" ELSE "unlock")
    /\ UNCHANGED <<brands, jobs>>

\* Mutant: the new job is never added to the session.
CreateUnsaved(r) ==
    /\ target' = [target EXCEPT ![r] = Len(jobs) + 1]
    /\ GoTo(r, "submit")
    /\ UNCHANGED <<brands, jobs>>

Create(r) ==
    LET b == IF found[r] = 0 THEN Len(brands) + 1 ELSE found[r]
        ready == found[r] # 0 /\ copy[r].profile # Empty IN
      /\ brands' = IF found[r] = 0 THEN Append(brands, NewBrand(Handle[r])) ELSE brands
      /\ jobs' = Append(jobs, NewJob(r, b, IF ready THEN "ready" ELSE "queued"))
      /\ target' = [target EXCEPT ![r] = Len(jobs) + 1]
      /\ GoTo(r, IF ready THEN "unlock" ELSE "submit")

StartJob(r) ==
    /\ pc[r] = "create"
    /\ LET running == {j \in Active(Owner[r]) : jobs[j].brand = found[r]} IN
         \/ \E j \in running : ~IsStale(jobs[j]) /\ Reuse(r, j)
         \/ (running = {} \/ \E j \in running : IsStale(jobs[j])) /\ Create(r)
    /\ copy' = [copy EXCEPT ![r] = NoCopy]
    /\ UNCHANGED <<uses, locks, found, charged, cut, run, claim>>

\* submit_user_job: the job will free the lock; or QueueFull.
Submit(r) ==
    /\ pc[r] = "submit"
    /\ \/ RunTo(r, "waiting") /\ GoTo(r, "over")
       \/ GoTo(r, "undo") /\ UNCHANGED run
    /\ UNCHANGED <<uses, locks, brands, jobs, found, target, charged, cut, copy, claim>>

Undo(r) ==
    /\ pc[r] = "undo"
    /\ SetStatus(target[r], "failed")
    /\ GoTo(r, "refund")
    /\ UNCHANGED <<uses, locks, brands, found, target, charged, cut, run, copy, claim>>

\* The answer is the 503 of a full queue: the page knows no job.
GiveBack(r) ==
    /\ pc[r] = "refund"
    /\ Refund(Owner[r], "own_brands")
    /\ charged' = [charged EXCEPT ![r] = FALSE]
    /\ target' = [target EXCEPT ![r] = 0]
    /\ GoTo(r, "unlock")
    /\ UNCHANGED <<locks, brands, jobs, found, cut, run, copy, claim>>

\* Mutant: only a lookup that was refused its use frees the lock.
UnlockUncharged(r) ==
    /\ pc[r] = "unlock"
    /\ IF charged[r] THEN UNCHANGED locks ELSE Release(Owner[r], {Brand})
    /\ GoTo(r, "over")
    /\ UNCHANGED <<uses, brands, jobs, found, target, charged, cut, run, copy, claim>>

\* The finally of add_own_brand.
Unlock(r) ==
    /\ pc[r] = "unlock"
    /\ Release(Owner[r], {Brand})
    /\ GoTo(r, "over")
    /\ UNCHANGED <<uses, brands, jobs, found, target, charged, cut, run, copy, claim>>

\* A statement raises: a 500 or 503 whose page knows no job, and the finally.
Abort(r) ==
    /\ "database" \in Faults
    /\ pc[r] \in {"charge", "find", "create", "undo", "refund"}
    /\ target' = [target EXCEPT ![r] = 0]
    /\ cut' = cut \cup {r}
    /\ copy' = [copy EXCEPT ![r] = NoCopy]
    /\ GoTo(r, "unlock")
    /\ UNCHANGED <<uses, locks, brands, jobs, found, charged, run, claim>>

\* The page polls its job; refresh_stale reads it and then writes "failed".
Poll(r) ==
    /\ pc[r] = "over"
    /\ target[r] # 0
    /\ IsStale(jobs[target[r]])
    /\ GoTo(r, "fail")
    /\ UNCHANGED <<uses, locks, brands, jobs, found, target, charged, cut, run, copy, claim>>

ReportStale(r) ==
    /\ pc[r] = "fail"
    /\ SetStatus(target[r], "failed")
    /\ GoTo(r, "over")
    /\ UNCHANGED <<uses, locks, brands, found, target, charged, cut, run, copy, claim>>

-----------------------------------------------------------------------------
(* The user job (run_own_brand_job), named by the lookup that queued it.   *)

BrandOf(r) == jobs[target[r]].brand

\* A worker takes it and reads its row.  Nothing is done for a job that is no
\* longer queued, nor when the session gets no connection: the row stays queued.
Dequeue(r) ==
    /\ run[r] = "waiting"
    /\ \/ /\ "pool" \in Faults
          /\ RunTo(r, "end")
       \/ RunTo(r, IF jobs[target[r]].status = "queued" THEN "loaded" ELSE "end")
    /\ UNCHANGED <<uses, locks, brands, jobs, lookupVars, copy, claim>>

\* The brand is read once: the session keeps this copy to the end.
Inspect(r) ==
    /\ run[r] = "loaded"
    /\ copy' = [copy EXCEPT ![r] = [profile |-> brands[BrandOf(r)].profile,
                                    posts |-> brands[BrandOf(r)].posts]]
    /\ RunTo(r, "read")
    /\ UNCHANGED <<uses, locks, brands, jobs, lookupVars, claim>>

\* Nothing is missing: ready.  Something is: on to the posts, unless a key is
\* not set or a statement raises.
Begin(r) ==
    /\ run[r] = "read"
    /\ \/ /\ copy[r].profile # Empty
          /\ SetStatus(target[r], "ready")
          /\ RunTo(r, "end")
       \/ /\ copy[r].profile = Empty
          /\ SetStatus(target[r], "running")
          /\ RunTo(r, IF copy[r].posts THEN "write" ELSE "scrape")
       \/ RunTo(r, "fail") /\ UNCHANGED jobs
    /\ UNCHANGED <<uses, locks, brands, lookupVars, copy, claim>>

\* Apify: posts are saved; or it cannot be reached, or there are none.
Scrape(r) ==
    /\ run[r] = "scrape"
    /\ \/ /\ brands' = [brands EXCEPT ![BrandOf(r)].posts = TRUE]
          /\ WriteJob(target[r], jobs[target[r]])
          /\ RunTo(r, "write")
       \/ /\ RunTo(r, "fail")
          /\ UNCHANGED <<brands, jobs>>
    /\ UNCHANGED <<uses, locks, lookupVars, copy, claim>>

\* The LLM: what is empty in the copy is written to the row, if the answer has
\* anything usable, and the job is ready either way; or it fails.
Write(r) ==
    /\ run[r] = "write"
    /\ \/ /\ \E filled \in {r, brands[BrandOf(r)].profile} :
                brands' = [brands EXCEPT ![BrandOf(r)].profile = filled]
          /\ SetStatus(target[r], "ready")
          /\ RunTo(r, "end")
       \/ /\ RunTo(r, "fail")
          /\ UNCHANGED <<brands, jobs>>
    /\ UNCHANGED <<uses, locks, lookupVars, copy, claim>>

\* _fail rolls back, reads the row again and writes "failed"; when even that
\* raises, the row keeps its status.
Fail(r) ==
    /\ run[r] = "fail"
    /\ \/ SetStatus(target[r], "failed")
       \/ "database" \in Faults /\ UNCHANGED jobs
    /\ RunTo(r, "end")
    /\ UNCHANGED <<uses, locks, brands, lookupVars, copy, claim>>

\* The finally of the user job's wrapper.
End(r) ==
    /\ run[r] = "end"
    /\ Release(Owner[r], {Brand})
    /\ RunTo(r, "over")
    /\ copy' = [copy EXCEPT ![r] = NoCopy]
    /\ UNCHANGED <<uses, brands, jobs, lookupVars, claim>>

-----------------------------------------------------------------------------
(* claim_followup, after a pitch for a brand was written, and run_followup. *)

ClaimTo(p, step) == claim' = [claim EXCEPT ![p].step = step]

Claimable(p, b) ==
    {j \in DOMAIN jobs : /\ jobs[j].owner = Owner[p]
                         /\ jobs[j].brand = b
                         /\ jobs[j].status = "ready"
                         /\ ~jobs[j].started}

\* Another job's follow-up for the same brand is running, and began less than
\* two hours ago.
IsBusy(j) ==
    \E k \in DOMAIN jobs \ {j} : jobs[k].brand = jobs[j].brand /\ jobs[k].followup = "running"

ClaimRead(p) ==
    /\ claim[p].step = "start"
    /\ \E b \in DOMAIN brands :
         LET js == Claimable(p, b) IN
           \/ js = {} /\ ClaimTo(p, "over")
           \/ /\ js # {}
              /\ RowFree(Latest(js))
              /\ \E busy \in {IsBusy(Latest(js))} \cup IF "overrun" \in Faults THEN {FALSE} ELSE {} :
                   claim' = [claim EXCEPT ![p] = [step |-> "claiming", job |-> Latest(js),
                                                  at |-> 1, busy |-> busy]]
    /\ UNCHANGED <<uses, locks, brands, jobs, lookupVars, run, copy>>

SetFollowup(p, status, started) ==
    jobs' = [jobs EXCEPT ![claim[p].job].followup = status, ![claim[p].job].started = started]

ClaimWrite(p) ==
    /\ claim[p].step = "claiming"
    /\ SetFollowup(p, IF claim[p].busy THEN "skipped" ELSE "running", TRUE)
    /\ ClaimTo(p, IF claim[p].busy THEN "over" ELSE "run")
    /\ UNCHANGED <<uses, locks, brands, lookupVars, run, copy>>

FollowedBrand(p) == jobs[claim[p].job].brand

NextStep(p) == claim' = [claim EXCEPT ![p].step = "run", ![p].at = @ + 1]

\* A step is skipped when its work is done, or by its own conditions.
SkipStep(p) ==
    /\ claim[p].step = "run"
    /\ claim[p].at <= StepCount
    /\ NextStep(p)
    /\ UNCHANGED <<uses, locks, brands, jobs, lookupVars, run, copy>>

PayStep(p) ==
    /\ claim[p].step = "run"
    /\ claim[p].at <= StepCount
    /\ claim[p].at \notin brands[FollowedBrand(p)].done
    /\ ClaimTo(p, "pay")
    /\ UNCHANGED <<uses, locks, brands, jobs, lookupVars, run, copy>>

\* The paid call returns: its work is stored, or it failed; the next step runs
\* all the same, unless OpenAI is unavailable.
EndStep(p) ==
    /\ claim[p].step = "pay"
    /\ \/ /\ brands' = [brands EXCEPT ![FollowedBrand(p)].done = @ \cup {claim[p].at}]
          /\ NextStep(p)
          /\ UNCHANGED jobs
       \/ NextStep(p) /\ UNCHANGED <<brands, jobs>>
       \/ /\ SetFollowup(p, "failed", TRUE)
          /\ ClaimTo(p, "over")
          /\ UNCHANGED brands
    /\ UNCHANGED <<uses, locks, lookupVars, run, copy>>

\* The finally of _run_followup writes "done" after the last step, and also when
\* storing the log of a step raises.
FollowupDone(p) ==
    /\ claim[p].step = "run"
    /\ claim[p].at > StepCount \/ "database" \in Faults
    /\ SetFollowup(p, "done", TRUE)
    /\ ClaimTo(p, "over")
    /\ UNCHANGED <<uses, locks, brands, lookupVars, run, copy>>

\* No batch connection for ten seconds: failed, and the next pitch may claim it.
NoConnection(p) ==
    /\ "pool" \in Faults
    /\ claim[p].step = "run"
    /\ SetFollowup(p, "failed", FALSE)
    /\ ClaimTo(p, "over")
    /\ UNCHANGED <<uses, locks, brands, lookupVars, run, copy>>

-----------------------------------------------------------------------------
(* Time and restarts.  A lookup and its job are over before their lock is  *)
(* stale: its limit is an hour, that of the Apify run 90 seconds.          *)

Asking(r) == pc[r] \in {"charge", "find", "create", "submit", "undo", "refund", "unlock"}
Working(r) == run[r] \in {"waiting", "loaded", "read", "scrape", "write", "fail", "end"}
AtWork(r) == Asking(r) \/ Working(r)

Tick ==
    /\ \/ \E j \in PendingJobs : jobs[j].age <= JobStale
       \/ \E c \in Creators : locks[c][Brand] \in 0 .. Stale
    /\ \A r \in Lookups : AtWork(r) => locks[Owner[r]][Brand] < Stale
    /\ GrowOlder
    /\ jobs' = [j \in DOMAIN jobs |->
                  IF j \in PendingJobs /\ jobs[j].age <= JobStale
                    THEN [jobs[j] EXCEPT !.age = @ + 1] ELSE jobs[j]]
    /\ UNCHANGED <<uses, brands, lookupVars, run, copy, claim>>

\* What was running is gone; recover_stuck_jobs fails the pending jobs, deletes
\* every lock, and leaves the follow-ups as they are.
Recovered ==
    /\ jobs' = [j \in DOMAIN jobs |->
                  IF j \in PendingJobs THEN [jobs[j] EXCEPT !.status = "failed", !.age = 0] ELSE jobs[j]]
    /\ locks' = [c \in Creators |-> [l \in LockNames |-> NoRow]]

Crash ==
    /\ "crash" \in Faults
    /\ Recovered
    /\ pc' = [r \in Lookups |-> IF pc[r] = "start" THEN "start" ELSE "over"]
    /\ target' = [r \in Lookups |-> IF pc[r] \in {"fail", "over"} THEN target[r] ELSE 0]
    /\ cut' = cut \cup {r \in Lookups : Asking(r)}
    /\ run' = [r \in Lookups |-> IF run[r] = "none" THEN "none" ELSE "over"]
    /\ copy' = [r \in Lookups |-> NoCopy]
    /\ claim' = [p \in Claims |-> IF claim[p].step = "start" THEN claim[p]
                                    ELSE [claim[p] EXCEPT !.step = "over"]]
    /\ UNCHANGED <<uses, brands, found, charged>>

-----------------------------------------------------------------------------
Request(r) ==
    \/ TakeLock(r) \/ Twin(r) \/ Charge(r) \/ Find(r) \/ StartJob(r) \/ Submit(r)
    \/ Undo(r) \/ GiveBack(r) \/ Unlock(r) \/ Abort(r)

Watch(r) == Poll(r) \/ ReportStale(r)

Work(r) ==
    \/ Dequeue(r) \/ Inspect(r) \/ Begin(r) \/ Scrape(r) \/ Write(r) \/ Fail(r) \/ End(r)

Follow(p) ==
    \/ ClaimRead(p) \/ ClaimWrite(p) \/ SkipStep(p) \/ PayStep(p) \/ EndStep(p)
    \/ FollowupDone(p) \/ NoConnection(p)

Next ==
    \/ \E r \in Lookups : Request(r) \/ Watch(r) \/ Work(r)
    \/ \E p \in Claims : Follow(p)
    \/ Tick
    \/ Crash

Spec == Init /\ [][Next]_vars

\* Requests and jobs are threads that are scheduled, a page keeps polling, and
\* the clock ticks.
FairSpec ==
    /\ Spec
    /\ WF_vars(Tick)
    /\ \A r \in Lookups : WF_vars(Request(r)) /\ WF_vars(Watch(r)) /\ WF_vars(Work(r))

-----------------------------------------------------------------------------
(* Properties.                                                             *)

\* "one active lookup per user": from the lock to its release, by the request
\* or by the job it queued, no other lookup of the creator is at work.
OneLookupAtWork ==
    \A r, s \in Lookups : (r # s /\ Owner[r] = Owner[s]) => ~(AtWork(r) /\ AtWork(s))

\* A lock row is there only for a lookup at work: every refusal, failure and
\* restart frees it, so nobody is locked out until the stale limit.
LockFreed ==
    \A c \in Creators : locks[c][Brand] # NoRow => \E r \in Lookups : Owner[r] = c /\ AtWork(r)

\* Today's counter is the number of lookups that were charged and not refunded,
\* and whoever is told of no job was not charged: neither a 429 nor a place in
\* the queue lost after the charge costs a lookup.  The exception are the lookups
\* that a raising statement or a restart cut short: their charge stays, also
\* when the queue was full and the refund was still to come.
ChargedHasJob(r) == (charged[r] /\ pc[r] = "over" /\ r \notin cut) => target[r] # 0

UsesCounted ==
    \A c \in Creators :
        uses[c]["own_brands"] = Cardinality({r \in Lookups : Owner[r] = c /\ charged[r]})

UsesAccounted == UsesCounted /\ \A r \in Lookups : ChargedHasJob(r)

\* A job is claimed for one follow-up at a time, however many pitches for its
\* brand are written at once.
Following(p) == claim[p].step \in {"run", "pay"}

OneRunnerPerJob ==
    \A p, q \in Claims :
        (p # q /\ Following(p) /\ Following(q)) => claim[p].job # claim[q].job

\* Whoever is told to poll a job sees it end, if the job never ran, hung or
\* lost its process too.
LookupResolves ==
    \A r \in Lookups :
        (pc[r] = "over" /\ target[r] # 0 /\ jobs[target[r]].status \in Pending)
            ~> (target[r] # 0 /\ jobs[target[r]].status \notin Pending)

\* own_brand.py: "Fields that already have a value are never changed."
FieldsKept ==
    [][\A b \in DOMAIN brands :
         brands[b].profile # Empty => brands'[b].profile = brands[b].profile]_brands

\* own_brand.py: "A step whose work is already done is skipped ..., so nothing
\* paid runs twice": no two follow-ups pay for the same step of a brand at once.
NothingPaidTwice ==
    \A p, q \in Claims :
        (p # q /\ claim[p].step = "pay" /\ claim[q].step = "pay" /\ claim[p].at = claim[q].at)
            => FollowedBrand(p) # FollowedBrand(q)
=============================================================================
