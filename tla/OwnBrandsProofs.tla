-------------------------- MODULE OwnBrandsProofs --------------------------
(***************************************************************************)
(* The invariants of OwnBrands for any creators, lookups, pitches, tables  *)
(* and faults.                                                             *)
(*                                                                         *)
(* A thread keeps numbers of rows: that the rows are there, and still of   *)
(* the same brand, is RowsInv.  On it rest the lock of the creator         *)
(* (LockInv), the uses of the day (ChargeInv) and the follow-ups           *)
(* (RunnerInv), each inductive with RowsInv only.                          *)
(***************************************************************************)
EXTENDS OwnBrands, UsageLimitsProofs, FiniteSetTheorems, SequenceTheorems, WellFoundedInduction

-----------------------------------------------------------------------------
(* The inductive invariant.                                                *)

\* Who refers to a row refers to one that is there, and a job is queued by the last step of
\* its lookup but the page's.
RowsInv ==
    /\ \A j \in DOMAIN jobs : jobs[j].brand \in DOMAIN brands
    /\ \A r \in Lookups :
         /\ run[r] # "none" => pc[r] \in {"over", "fail"}
         /\ Working(r) \/ pc[r] \in {"fail", "submit", "undo"} => target[r] # 0
    /\ \A p \in Claims :
         /\ claim[p].step \in {"claiming", "run", "pay"} => claim[p].job # 0
         /\ claim[p].step = "pay" => claim[p].at <= StepCount

TypeInv == TypeOK /\ RowsInv

\* A lookup at work holds the lock of its creator, and the lock is not stale.
LockInv ==
    /\ OneLookupAtWork /\ LockFreed
    /\ \A r \in Lookups : AtWork(r) => locks[Owner[r]][Brand] \in 0 .. Stale

\* Which steps of a lookup come before its charge, and which after.
ChargeInv ==
    /\ UsesCounted
    /\ \A r \in Lookups : pc[r] \in {"start", "twin", "charge"} => ~charged[r]
    /\ \A r \in Lookups : pc[r] \in {"find", "create", "submit", "undo", "refund"} => charged[r]

\* Claims that are being made, too, are of different jobs, and a job that is followed up
\* says so: nobody else finds it claimable.
Claimed(p) == claim[p].step \in {"claiming", "run", "pay"}

RunnerInv ==
    /\ \A p, q \in Claims : p # q /\ Claimed(p) /\ Claimed(q) => claim[p].job # claim[q].job
    /\ \A p \in Claims : Following(p) => jobs[claim[p].job].started

-----------------------------------------------------------------------------
(* Tables.                                                                 *)

LEMMA LeastOf ==
    ASSUME NEW S, S \subseteq Nat, S # {}
    PROVE  \E x \in S : \A y \in S : x <= y
<1>1. PICK x \in S : \A y \in S : ~(<<y, x>> \in OpToRel(<, Nat))
  BY NatLessThanWellFounded, WFMin
<1>2. \A y \in S : ~(y < x)
  BY <1>1 DEF OpToRel
<1> QED BY <1>2

LEMMA LatestOf ==
    ASSUME NEW n \in Nat, NEW S, S \subseteq 1 .. n, S # {}
    PROVE  Latest(S) \in S
<1> DEFINE T == {n - k : k \in S}
<1>0. \A k \in S : k \in Nat /\ n - k \in Nat
  OBVIOUS
<1>1. T \subseteq Nat /\ T # {}
  BY <1>0
<1>2. PICK x \in T : \A y \in T : x <= y
  BY <1>1, LeastOf
<1>3. PICK j \in S : x = n - j
  BY <1>2
<1>4. \A k \in S : n - j <= n - k
  BY <1>2, <1>3
<1>5. \A k \in S : k <= j
  BY <1>4
<1> QED BY <1>5 DEF Latest

LEMMA Listing ==
    ASSUME NEW T, NEW n \in Nat, NEW f \in [1 .. n -> T]
    PROVE  f \in Seq(T) /\ Len(f) = n
<1>1. f \in Seq(T)
  BY SeqDef
<1> QED BY <1>1, LenProperties

LEMMA Tables ==
    ASSUME TypeOK
    PROVE  /\ Len(jobs) \in Nat /\ DOMAIN jobs = 1 .. Len(jobs) /\ \A j \in DOMAIN jobs : jobs[j] \in Jobs
           /\ Len(brands) \in Nat /\ DOMAIN brands = 1 .. Len(brands)
           /\ \A b \in DOMAIN brands : brands[b] \in Brands
BY LenProperties, ElementOfSeq DEF TypeOK

\* The rows are those there were, but for j, which is still of its brand.
JobWritten(j, row) ==
    /\ jobs' \in Seq(Jobs) /\ Len(jobs') = Len(jobs) /\ DOMAIN jobs' = DOMAIN jobs
    /\ \A k \in DOMAIN jobs : jobs'[k] = IF k = j THEN row ELSE jobs[k]

LEMMA WriteRow ==
    ASSUME TypeOK, NEW j \in DOMAIN jobs, NEW row \in Jobs, jobs' = [jobs EXCEPT ![j] = row]
    PROVE  JobWritten(j, row)
<1>1. jobs \in Seq(Jobs) /\ j \in 1 .. Len(jobs)
  BY Tables DEF TypeOK
<1>2. jobs' \in Seq(Jobs) /\ Len(jobs') = Len(jobs)
      /\ \A k \in 1 .. Len(jobs) : jobs'[k] = IF k = j THEN row ELSE jobs[k]
  BY <1>1, ExceptSeq
<1>3. DOMAIN jobs' = DOMAIN jobs
  BY <1>1, <1>2, LenProperties
<1> QED BY <1>2, <1>3, Tables DEF JobWritten

LEMMA JobFields ==
    ASSUME NEW row \in Jobs
    PROVE  /\ [row EXCEPT !.age = 0] \in Jobs
           /\ \A st \in {"queued", "running", "ready", "failed"} : [row EXCEPT !.status = st, !.age = 0] \in Jobs
           /\ \A f \in {"none", "running", "skipped", "done", "failed"}, s \in BOOLEAN :
                 [row EXCEPT !.followup = f, !.started = s] \in Jobs
<1>1. 0 \in JobAges
  BY OwnBrandsAssumption DEF JobAges
<1> QED BY <1>1 DEF Jobs

\* An update of the status, and one of the age only.
LEMMA StatusWritten ==
    ASSUME TypeOK, NEW j \in DOMAIN jobs, NEW st \in {"queued", "running", "ready", "failed"}, SetStatus(j, st)
    PROVE  JobWritten(j, [jobs[j] EXCEPT !.status = st, !.age = 0])
<1> DEFINE row == [jobs[j] EXCEPT !.status = st, !.age = 0]
<1>1. jobs[j] \in Jobs
  BY Tables
<1>2. row \in Jobs
  BY <1>1, JobFields
<1>3. row = [[jobs[j] EXCEPT !.status = st] EXCEPT !.age = 0]
  BY <1>1 DEF Jobs
<1>4. jobs' = [jobs EXCEPT ![j] = row]
  BY <1>3 DEF SetStatus, WriteJob
<1> HIDE DEF row
<1>5. JobWritten(j, row)
  BY <1>2, <1>4, WriteRow
<1> QED BY <1>5 DEF row

LEMMA AgeWritten ==
    ASSUME TypeOK, NEW j \in DOMAIN jobs, WriteJob(j, jobs[j])
    PROVE  JobWritten(j, [jobs[j] EXCEPT !.age = 0])
<1>1. jobs[j] \in Jobs /\ [jobs[j] EXCEPT !.age = 0] \in Jobs
  BY Tables, JobFields
<1> QED BY <1>1, WriteRow DEF WriteJob

LEMMA FollowupWritten ==
    ASSUME TypeOK, NEW p \in Claims, claim[p].job \in DOMAIN jobs, NEW s \in BOOLEAN,
           NEW f \in {"none", "running", "skipped", "done", "failed"}, SetFollowup(p, f, s)
    PROVE  JobWritten(claim[p].job, [jobs[claim[p].job] EXCEPT !.followup = f, !.started = s])
<1> DEFINE j == claim[p].job
           row == [jobs[j] EXCEPT !.followup = f, !.started = s]
<1>1. jobs[j] \in Jobs
  BY Tables
<1>2. row \in Jobs
  BY <1>1, JobFields
<1>3. jobs' = [jobs EXCEPT ![j] = row]
  BY DEF SetFollowup
<1> HIDE DEF row
<1>4. JobWritten(j, row)
  BY <1>2, <1>3, WriteRow
<1> QED BY <1>4 DEF row

-----------------------------------------------------------------------------
(* Types.                                                                  *)

TablesGrow ==
    /\ brands' \in Seq(Brands) /\ Len(brands) <= Len(brands')
    /\ jobs' \in Seq(Jobs) /\ Len(jobs) <= Len(jobs')
    /\ \A j \in DOMAIN jobs' : jobs'[j].brand \in DOMAIN brands'

\* What the threads know of the tables stays true of larger ones.
LEMMA Grown ==
    ASSUME TypeInv, TablesGrow
    PROVE  /\ Len(jobs') \in Nat /\ DOMAIN jobs' = 1 .. Len(jobs') /\ Len(brands') \in Nat
           /\ \A r \in Lookups : found[r] \in 0 .. Len(brands') /\ target[r] \in 0 .. Len(jobs')
           /\ found \in [Lookups -> 0 .. Len(brands')] /\ target \in [Lookups -> 0 .. Len(jobs')]
           /\ claim \in [Claims -> [step : {"start", "claiming", "run", "pay", "over"},
                                    job : 0 .. Len(jobs'), at : 1 .. StepCount + 1, busy : BOOLEAN]]
<1>1. Len(jobs) \in Nat /\ Len(brands) \in Nat /\ Len(jobs') \in Nat /\ Len(brands') \in Nat
      /\ DOMAIN jobs' = 1 .. Len(jobs')
  BY LenProperties DEF TypeInv, TypeOK, TablesGrow
<1>2. 0 .. Len(jobs) \subseteq 0 .. Len(jobs') /\ 0 .. Len(brands) \subseteq 0 .. Len(brands')
  BY <1>1 DEF TablesGrow
<1> QED BY <1>1, <1>2 DEF TypeInv, TypeOK

LEMMA SameTables == TypeInv /\ UNCHANGED <<brands, jobs>> => TablesGrow
BY Tables DEF TypeInv, TypeOK, RowsInv, TablesGrow

LEMMA WrittenGrow ==
    ASSUME TypeInv, NEW j \in DOMAIN jobs, NEW row, JobWritten(j, row), row.brand = jobs[j].brand,
           brands' \in Seq(Brands), Len(brands') = Len(brands)
    PROVE  TablesGrow
<1>1. DOMAIN brands' = DOMAIN brands /\ Len(jobs) \in Nat /\ Len(brands) \in Nat
  BY Tables, LenProperties DEF TypeInv
<1> QED BY <1>1 DEF TypeInv, RowsInv, JobWritten, TablesGrow

LEMMA StatusGrow ==
    ASSUME TypeInv, NEW j \in DOMAIN jobs, NEW st \in {"queued", "running", "ready", "failed"}, SetStatus(j, st),
           brands' \in Seq(Brands), Len(brands') = Len(brands)
    PROVE  TablesGrow
<1> DEFINE row == [jobs[j] EXCEPT !.status = st, !.age = 0]
<1>1. JobWritten(j, row)
  BY StatusWritten DEF TypeInv
<1>2. row.brand = jobs[j].brand
  BY Tables DEF TypeInv, Jobs
<1> HIDE DEF row
<1> QED BY <1>1, <1>2, WrittenGrow

LEMMA FollowupGrow ==
    ASSUME TypeInv, NEW p \in Claims, claim[p].step \in {"claiming", "run", "pay"}, NEW s \in BOOLEAN,
           NEW f \in {"none", "running", "skipped", "done", "failed"}, SetFollowup(p, f, s),
           brands' = brands
    PROVE  TablesGrow
<1> DEFINE j == claim[p].job
           row == [jobs[j] EXCEPT !.followup = f, !.started = s]
<1>1. j \in DOMAIN jobs
  BY Tables DEF TypeInv, TypeOK, RowsInv
<1>2. JobWritten(j, row)
  BY <1>1, FollowupWritten DEF TypeInv
<1>3. row.brand = jobs[j].brand /\ brands' \in Seq(Brands) /\ Len(brands') = Len(brands)
  BY <1>1, Tables DEF TypeInv, TypeOK, Jobs
<1> HIDE DEF row, j
<1> QED BY <1>1, <1>2, <1>3, WrittenGrow

LEMMA BrandWritten ==
    ASSUME TypeInv, NEW b \in DOMAIN brands, NEW row \in Brands, brands' = [brands EXCEPT ![b] = row]
    PROVE  brands' \in Seq(Brands) /\ Len(brands') = Len(brands)
BY Tables, ExceptSeq DEF TypeInv, TypeOK

LEMMA Working1 ==
    ASSUME TypeInv, NEW r \in Lookups
    PROVE  /\ Working(r) \/ pc[r] \in {"fail", "submit", "undo"} => target[r] \in DOMAIN jobs
           /\ Working(r) => BrandOf(r) \in DOMAIN brands /\ jobs[target[r]] \in Jobs
BY Tables DEF TypeInv, TypeOK, RowsInv, BrandOf

\* A step of a lookup, its page or its job in tables that fit.
LEMMA LookupMoves ==
    ASSUME TypeInv, TablesGrow, UsageTypeOK', claim' = claim, NEW r \in Lookups,
           pc' \in [Lookups -> {"start", "twin", "fail", "charge", "find", "create", "submit", "undo",
                                "refund", "unlock", "over"}],
           found' \in [Lookups -> 0 .. Len(brands')],
           target' \in [Lookups -> 0 .. Len(jobs')],
           charged' \in [Lookups -> BOOLEAN],
           cut' \subseteq Lookups,
           run' \in [Lookups -> {"none", "waiting", "loaded", "read", "scrape", "write", "fail", "end", "over"}],
           copy' \in [Lookups -> [profile : Profiles, posts : BOOLEAN]],
           \A q \in Lookups \ {r} : pc'[q] = pc[q] /\ run'[q] = run[q] /\ target'[q] = target[q],
           run'[r] # "none" => pc'[r] \in {"over", "fail"},
           Working(r)' \/ pc'[r] \in {"fail", "submit", "undo"} => target'[r] # 0
    PROVE  TypeInv'
<1>1. TypeOK'
  BY Grown DEF TypeInv, TypeOK, TablesGrow
<1>2. RowsInv'
  BY DEF TypeInv, RowsInv, TablesGrow, Working
<1> QED BY <1>1, <1>2 DEF TypeInv

LEMMA RequestType ==
    ASSUME TypeInv, NEW r \in Lookups, Request(r)
    PROVE  TypeInv'
<1> USE DEF GoTo, RunTo, Working
<1>0. Owner[r] \in Creators /\ Brand \in LockNames /\ "own_brands" \in Features /\ r \in Profiles
      /\ UsageTypeOK
  BY OwnBrandsAssumption DEF TypeInv, TypeOK, Profiles
<1>c. [copy EXCEPT ![r] = NoCopy] \in [Lookups -> [profile : Profiles, posts : BOOLEAN]]
  BY DEF TypeInv, TypeOK, NoCopy, Profiles, Empty
<1>1. CASE TakeLock(r)
  <2>1. TablesGrow
    BY <1>1, SameTables DEF TakeLock
  <2>2. UsageTypeOK'
    BY <1>0, <1>1, AcquireType DEF TakeLock, UsageTypeOK
  <2> QED BY <1>1, <2>1, <2>2, Grown, LookupMoves DEF TakeLock, TypeInv, TypeOK, RowsInv
<1>2. CASE Twin(r)
  <2>1. TablesGrow
    BY <1>2, SameTables DEF Twin
  <2>2. UsageTypeOK'
    BY <1>0, <1>2 DEF Twin, UsageTypeOK
  <2> DEFINE js == Active(Owner[r])
             t == Latest(js)
  <2>3. js # {} => t \in 1 .. Len(jobs) /\ Len(jobs) \in Nat
    BY Tables, LatestOf DEF Active, PendingJobs, TypeInv
  <2>4. \/ /\ js # {} /\ target' = [target EXCEPT ![r] = t]
           /\ pc' = [pc EXCEPT ![r] = "fail"] \/ pc' = [pc EXCEPT ![r] = "over"]
        \/ target' = target /\ pc' = [pc EXCEPT ![r] = "over"]
    BY <1>2 DEF Twin
  <2>5. pc[r] = "twin" /\ claim' = claim /\ UNCHANGED <<jobs, brands, found, charged, cut, run, copy>>
    BY <1>2 DEF Twin
  <2> HIDE DEF js, t
  <2>6. CASE target' = target /\ pc' = [pc EXCEPT ![r] = "over"]
    BY <2>1, <2>2, <2>5, <2>6, Grown, LookupMoves DEF TypeInv, TypeOK, RowsInv
  <2>7. ASSUME js # {}, target' = [target EXCEPT ![r] = t], NEW st \in {"fail", "over"},
               pc' = [pc EXCEPT ![r] = st]
        PROVE  TypeInv'
    <3>1. t \in 0 .. Len(jobs') /\ t # 0
      BY <2>3, <2>5, <2>7
    <3>2. target' \in [Lookups -> 0 .. Len(jobs')] /\ target'[r] # 0
      BY <2>5, <2>7, <3>1 DEF TypeInv, TypeOK
    <3> QED BY <2>1, <2>2, <2>5, <2>7, <3>2, Grown, LookupMoves DEF TypeInv, TypeOK, RowsInv
  <2> QED BY <2>4, <2>6, <2>7
<1>3. CASE Charge(r)
  <2>1. TablesGrow
    BY <1>3, SameTables DEF Charge
  <2>2. UsageTypeOK'
    BY <1>0, <1>3, ConsumeType DEF Charge, UsageTypeOK
  <2> QED BY <1>3, <2>1, <2>2, Grown, LookupMoves DEF Charge, TypeInv, TypeOK, RowsInv
<1>4. CASE Find(r)
  <2>1. TablesGrow
    BY <1>4, SameTables DEF Find
  <2>2. UsageTypeOK'
    BY <1>0, <1>4 DEF Find, UsageTypeOK
  <2> DEFINE bs == {b \in DOMAIN brands : brands[b].handle = Handle[r]}
             first == CHOOSE x \in bs : \A y \in bs : x <= y
             f == IF bs = {} THEN 0 ELSE first
             g == IF bs = {} THEN Empty ELSE brands[first].profile
  <2>3. bs # {} => first \in bs
    <3>1. bs \subseteq Nat
      BY Tables DEF TypeInv
    <3> HIDE DEF bs
    <3> QED BY <3>1, LeastOf
  <2>4. f \in 0 .. Len(brands) /\ g \in Profiles
    <3>1. \A b \in bs : b \in 1 .. Len(brands) /\ brands[b].profile \in Profiles
      BY Tables DEF TypeInv, Brands
    <3>2. Len(brands) \in Nat
      BY Tables DEF TypeInv
    <3> HIDE DEF bs, first
    <3> QED BY <2>3, <3>1, <3>2 DEF Profiles
  <2>5. found' = [found EXCEPT ![r] = f] /\ copy' = [copy EXCEPT ![r].profile = g]
        /\ pc' = [pc EXCEPT ![r] = "create"] /\ pc[r] = "find" /\ claim' = claim
        /\ UNCHANGED <<jobs, brands, target, charged, cut, run>>
    BY <1>4 DEF Find
  <2> HIDE DEF f, g
  <2>6. found' \in [Lookups -> 0 .. Len(brands')]
        /\ copy' \in [Lookups -> [profile : Profiles, posts : BOOLEAN]]
    BY <2>4, <2>5 DEF TypeInv, TypeOK
  <2> QED BY <2>1, <2>2, <2>5, <2>6, Grown, LookupMoves DEF TypeInv, TypeOK, RowsInv
<1>5. CASE StartJob(r)
  <2>0. pc[r] = "create" /\ claim' = claim /\ copy' = [copy EXCEPT ![r] = NoCopy]
        /\ UNCHANGED <<uses, locks, found, charged, cut, run>>
    BY <1>5 DEF StartJob
  <2>1. UsageTypeOK'
    BY <1>0, <2>0 DEF UsageTypeOK
  <2>2. CASE \E j \in Active(Owner[r]) : Reuse(r, j)
    <3>1. PICK j \in Active(Owner[r]) : Reuse(r, j)
      BY <2>2
    <3>2. j \in 1 .. Len(jobs) /\ j \in Nat /\ j # 0
      BY Tables DEF Active, PendingJobs, TypeInv
    <3>3. TablesGrow
      BY <3>1, SameTables DEF Reuse
    <3>4. /\ target' = [target EXCEPT ![r] = j] /\ UNCHANGED <<brands, jobs>>
          /\ \E st \in {"submit", "unlock"} : pc' = [pc EXCEPT ![r] = st]
      BY <3>1 DEF Reuse
    <3> QED BY <1>c, <2>0, <2>1, <3>2, <3>3, <3>4, Grown, LookupMoves DEF TypeInv, TypeOK, RowsInv
  <2>3. CASE Create(r)
    <3> DEFINE b == IF found[r] = 0 THEN Len(brands) + 1 ELSE found[r]
               st == IF found[r] # 0 /\ copy[r].profile # Empty THEN "ready" ELSE "queued"
               job == NewJob(r, b, st)
               row == NewBrand(Handle[r])
    <3>1. /\ brands' = IF found[r] = 0 THEN Append(brands, row) ELSE brands
          /\ jobs' = Append(jobs, job)
          /\ target' = [target EXCEPT ![r] = Len(jobs) + 1]
          /\ pc' = [pc EXCEPT ![r] = "unlock"] \/ pc' = [pc EXCEPT ![r] = "submit"]
      BY <2>3 DEF Create
    <3>2. b \in Nat /\ Len(jobs) \in Nat /\ Len(brands) \in Nat /\ found[r] \in 0 .. Len(brands)
      BY Tables DEF TypeInv, TypeOK
    <3>3. row \in Brands
      BY DEF NewBrand, Brands, Profiles
    <3>4. job \in Jobs /\ job.brand = b
      BY <1>0, <3>2, OwnBrandsAssumption DEF NewJob, Jobs, JobAges
    <3> HIDE DEF row, job
    <3>5. /\ brands' \in Seq(Brands) /\ DOMAIN brands' = 1 .. Len(brands') /\ b \in DOMAIN brands'
          /\ Len(brands') \in Nat /\ Len(brands) <= Len(brands')
      <4>1. CASE found[r] = 0
        BY <3>1, <3>2, <3>3, <4>1, AppendProperties, LenProperties DEF TypeInv, TypeOK
      <4>2. CASE found[r] # 0
        BY <3>1, <3>2, <4>2, LenProperties DEF TypeInv, TypeOK
      <4> QED BY <4>1, <4>2
    <3>6. /\ jobs' \in Seq(Jobs) /\ Len(jobs') = Len(jobs) + 1 /\ DOMAIN jobs' = 1 .. Len(jobs')
          /\ \A j \in 1 .. Len(jobs) : jobs'[j] = jobs[j]
          /\ jobs'[Len(jobs) + 1] = job
      BY <3>1, <3>4, AppendProperties, LenProperties DEF TypeInv, TypeOK
    <3> HIDE DEF b
    <3>7. \A j \in DOMAIN jobs' : jobs'[j].brand \in DOMAIN brands'
      <4>0. Len(brands) \in Nat /\ Len(brands') \in Nat /\ Len(brands) <= Len(brands')
        BY <3>2, <3>5
      <4>1. \A x \in 1 .. Len(brands) : x \in 1 .. Len(brands')
        BY <4>0
      <4>2. \A j \in 1 .. Len(jobs) : jobs[j].brand \in DOMAIN brands'
        BY <3>5, <4>1, Tables DEF TypeInv, RowsInv
      <4>3. \A j \in DOMAIN jobs' : j \in 1 .. Len(jobs) \/ j = Len(jobs) + 1
        BY <3>2, <3>6
      <4>4. jobs'[Len(jobs) + 1].brand \in DOMAIN brands'
        BY <3>4, <3>5, <3>6
      <4>5. \A j \in 1 .. Len(jobs) : jobs'[j].brand \in DOMAIN brands'
        BY <3>6, <4>2
      <4> QED BY <4>3, <4>4, <4>5
    <3>8. Len(jobs) <= Len(jobs')
      BY <3>2, <3>6
    <3>10. TablesGrow
      BY <3>5, <3>6, <3>7, <3>8 DEF TablesGrow
    <3>9. Len(jobs) + 1 \in 0 .. Len(jobs') /\ Len(jobs) + 1 # 0
      BY <3>2, <3>6
    <3>11. target' \in [Lookups -> 0 .. Len(jobs')] /\ target'[r] # 0
      BY <3>1, <3>9, <3>10, Grown DEF TypeInv, TypeOK
    <3>12. pc' \in [Lookups -> {"start", "twin", "fail", "charge", "find", "create", "submit", "undo",
                                 "refund", "unlock", "over"}]
      BY <3>1 DEF TypeInv, TypeOK
    <3>13. /\ \A q \in Lookups \ {r} : pc'[q] = pc[q] /\ run'[q] = run[q] /\ target'[q] = target[q]
           /\ run[r] = "none" /\ run' = run
      BY <2>0, <3>1 DEF TypeInv, TypeOK, RowsInv
    <3> QED BY <1>c, <2>0, <2>1, <3>10, <3>11, <3>12, <3>13, Grown, LookupMoves DEF TypeInv, TypeOK
  <2> QED BY <1>5, <2>2, <2>3 DEF StartJob
<1>6. CASE Submit(r)
  <2>1. TablesGrow
    BY <1>6, SameTables DEF Submit
  <2>2. UsageTypeOK'
    BY <1>0, <1>6 DEF Submit, UsageTypeOK
  <2> QED BY <1>6, <2>1, <2>2, Grown, LookupMoves DEF Submit, TypeInv, TypeOK, RowsInv
<1>7. CASE Undo(r)
  <2>1. TablesGrow
    BY <1>7, StatusGrow, Working1 DEF Undo, TypeInv, TypeOK
  <2>2. UsageTypeOK'
    BY <1>0, <1>7 DEF Undo, UsageTypeOK
  <2>3. claim' = claim /\ pc[r] = "undo" /\ pc' = [pc EXCEPT ![r] = "refund"]
        /\ UNCHANGED <<brands, found, target, charged, cut, run, copy>>
    BY <1>7 DEF Undo
  <2> QED BY <2>1, <2>2, <2>3, Grown, LookupMoves DEF TypeInv, TypeOK, RowsInv
<1>8. CASE GiveBack(r)
  <2>1. TablesGrow
    BY <1>8, SameTables DEF GiveBack
  <2>2. UsageTypeOK'
    BY <1>0, <1>8, RefundType DEF GiveBack, UsageTypeOK
  <2> QED BY <1>8, <2>1, <2>2, Grown, LookupMoves DEF GiveBack, TypeInv, TypeOK, RowsInv
<1>9. CASE Unlock(r)
  <2>1. TablesGrow
    BY <1>9, SameTables DEF Unlock
  <2>2. UsageTypeOK'
    BY <1>0, <1>9, ReleaseType DEF Unlock, UsageTypeOK
  <2> QED BY <1>9, <2>1, <2>2, Grown, LookupMoves DEF Unlock, TypeInv, TypeOK, RowsInv
<1>10. CASE Abort(r)
  <2>1. TablesGrow
    BY <1>10, SameTables DEF Abort
  <2>2. UsageTypeOK'
    BY <1>0, <1>10 DEF Abort, UsageTypeOK
  <2>3. Len(jobs') \in Nat
    BY <2>1, Grown
  <2>4. cut' \subseteq Lookups
    BY <1>10 DEF Abort, TypeInv, TypeOK
  <2> QED BY <1>10, <1>c, <2>1, <2>2, <2>3, <2>4, Grown, LookupMoves DEF Abort, TypeInv, TypeOK, RowsInv
<1> QED BY <1>1, <1>2, <1>3, <1>4, <1>5, <1>6, <1>7, <1>8, <1>9, <1>10 DEF Request

LEMMA WatchType ==
    ASSUME TypeInv, NEW r \in Lookups, Watch(r)
    PROVE  TypeInv'
<1> USE DEF GoTo, RunTo, Working
<1>1. CASE Poll(r)
  <2>1. TablesGrow
    BY <1>1, SameTables DEF Poll
  <2>2. UsageTypeOK'
    BY <1>1 DEF Poll, UsageTypeOK, TypeInv, TypeOK
  <2> QED BY <1>1, <2>1, <2>2, Grown, LookupMoves DEF Poll, TypeInv, TypeOK, RowsInv
<1>2. CASE ReportStale(r)
  <2>1. TablesGrow
    BY <1>2, StatusGrow, Working1 DEF ReportStale, TypeInv, TypeOK
  <2>2. UsageTypeOK'
    BY <1>2 DEF ReportStale, UsageTypeOK, TypeInv, TypeOK
  <2>3. claim' = claim /\ pc[r] = "fail" /\ pc' = [pc EXCEPT ![r] = "over"]
        /\ UNCHANGED <<brands, found, target, charged, cut, run, copy>>
    BY <1>2 DEF ReportStale
  <2> QED BY <2>1, <2>2, <2>3, Grown, LookupMoves DEF TypeInv, TypeOK, RowsInv
<1> QED BY <1>1, <1>2 DEF Watch

\* The moves of a user job: its lookup is over, or its page reports it.
LEMMA JobMoves ==
    ASSUME TypeInv, TablesGrow, UsageTypeOK', UNCHANGED <<lookupVars, claim>>, NEW r \in Lookups,
           run[r] # "none", target[r] # 0,
           NEW st \in {"loaded", "read", "scrape", "write", "fail", "end", "over"}, RunTo(r, st),
           copy' \in [Lookups -> [profile : Profiles, posts : BOOLEAN]]
    PROVE  TypeInv'
BY Grown, LookupMoves DEF lookupVars, RunTo, TypeInv, TypeOK, RowsInv, Working

LEMMA WorkType ==
    ASSUME TypeInv, NEW r \in Lookups, Work(r)
    PROVE  TypeInv'
<1>0. Owner[r] \in Creators /\ Brand \in LockNames /\ UsageTypeOK /\ r \in Profiles
  BY OwnBrandsAssumption DEF TypeInv, TypeOK, Profiles
<1>c. [copy EXCEPT ![r] = NoCopy] \in [Lookups -> [profile : Profiles, posts : BOOLEAN]]
  BY DEF TypeInv, TypeOK, NoCopy, Profiles, Empty
<1>w. Working(r) /\ target[r] # 0 /\ run[r] # "none" /\ target[r] \in DOMAIN jobs /\ jobs[target[r]] \in Jobs
      /\ BrandOf(r) \in DOMAIN brands
  BY Working1 DEF TypeInv, RowsInv, Work, Dequeue, Inspect, Begin, Scrape, Write, Fail, End, Working
<1>b. /\ brands \in Seq(Brands) /\ Len(brands) \in Nat
      /\ brands[BrandOf(r)] \in Brands
  BY <1>w, Tables DEF TypeInv, TypeOK
<1>1. CASE Dequeue(r)
  <2>1. TablesGrow
    BY <1>1, SameTables DEF Dequeue
  <2>2. UsageTypeOK'
    BY <1>0, <1>1 DEF Dequeue, UsageTypeOK
  <2>3. RunTo(r, "end") \/ RunTo(r, "loaded")
    BY <1>1 DEF Dequeue
  <2>4. UNCHANGED <<lookupVars, claim, copy>> /\ copy' \in [Lookups -> [profile : Profiles, posts : BOOLEAN]]
    BY <1>1 DEF Dequeue, TypeInv, TypeOK
  <2> QED BY <1>w, <2>1, <2>2, <2>3, <2>4, JobMoves
<1>2. CASE Inspect(r)
  <2>1. TablesGrow
    BY <1>2, SameTables DEF Inspect
  <2>2. UsageTypeOK'
    BY <1>0, <1>2 DEF Inspect, UsageTypeOK
  <2>3. RunTo(r, "read") /\ UNCHANGED <<lookupVars, claim>>
    BY <1>2 DEF Inspect
  <2>4. copy' \in [Lookups -> [profile : Profiles, posts : BOOLEAN]]
    BY <1>2, <1>b DEF Inspect, Brands, TypeInv, TypeOK
  <2> QED BY <1>w, <2>1, <2>2, <2>3, <2>4, JobMoves
<1>3. CASE Begin(r)
  <2>1. TablesGrow
    BY <1>3, <1>w, <1>b, SameTables, StatusGrow DEF Begin
  <2>2. UsageTypeOK'
    BY <1>0, <1>3 DEF Begin, UsageTypeOK
  <2>3. \E st \in {"end", "write", "scrape", "fail"} : RunTo(r, st)
    BY <1>3 DEF Begin
  <2>4. UNCHANGED <<lookupVars, claim, copy>> /\ copy' \in [Lookups -> [profile : Profiles, posts : BOOLEAN]]
    BY <1>3 DEF Begin, TypeInv, TypeOK
  <2> QED BY <1>w, <2>1, <2>2, <2>3, <2>4, JobMoves
<1>4. CASE Scrape(r)
  <2>1. TablesGrow
    <3>1. CASE UNCHANGED <<brands, jobs>>
      BY <3>1, SameTables
    <3>2. CASE /\ brands' = [brands EXCEPT ![BrandOf(r)].posts = TRUE]
               /\ WriteJob(target[r], jobs[target[r]])
      <4> DEFINE row == [brands[BrandOf(r)] EXCEPT !.posts = TRUE]
                 job == [jobs[target[r]] EXCEPT !.age = 0]
      <4>1. row \in Brands /\ brands' = [brands EXCEPT ![BrandOf(r)] = row]
        BY <1>b, <3>2 DEF Brands
      <4>2. job.brand = jobs[target[r]].brand
        BY <1>w DEF Jobs
      <4>3. JobWritten(target[r], job)
        BY <1>w, <3>2, AgeWritten DEF TypeInv
      <4> HIDE DEF row, job
      <4>4. brands' \in Seq(Brands) /\ Len(brands') = Len(brands)
        BY <1>w, <4>1, BrandWritten
      <4> QED BY <1>w, <4>2, <4>3, <4>4, WrittenGrow
    <3> QED BY <1>4, <3>1, <3>2 DEF Scrape
  <2>2. UsageTypeOK'
    BY <1>0, <1>4 DEF Scrape, UsageTypeOK
  <2>3. \E st \in {"write", "fail"} : RunTo(r, st)
    BY <1>4 DEF Scrape
  <2>4. UNCHANGED <<lookupVars, claim, copy>> /\ copy' \in [Lookups -> [profile : Profiles, posts : BOOLEAN]]
    BY <1>4 DEF Scrape, TypeInv, TypeOK
  <2> QED BY <1>w, <2>1, <2>2, <2>3, <2>4, JobMoves
<1>5. CASE Write(r)
  <2>1. TablesGrow
    <3>1. CASE UNCHANGED <<brands, jobs>>
      BY <3>1, SameTables
    <3>2. ASSUME NEW filled \in {r, brands[BrandOf(r)].profile},
                 brands' = [brands EXCEPT ![BrandOf(r)].profile = filled],
                 SetStatus(target[r], "ready")
          PROVE  TablesGrow
      <4> DEFINE row == [brands[BrandOf(r)] EXCEPT !.profile = filled]
      <4>1. row \in Brands /\ brands' = [brands EXCEPT ![BrandOf(r)] = row]
        BY <1>0, <1>b, <3>2 DEF Brands
      <4> HIDE DEF row
      <4>2. brands' \in Seq(Brands) /\ Len(brands') = Len(brands)
        BY <1>w, <4>1, BrandWritten
      <4> QED BY <1>w, <3>2, <4>2, StatusGrow
    <3> QED BY <1>5, <3>1, <3>2 DEF Write
  <2>2. UsageTypeOK'
    BY <1>0, <1>5 DEF Write, UsageTypeOK
  <2>3. \E st \in {"end", "fail"} : RunTo(r, st)
    BY <1>5 DEF Write
  <2>4. UNCHANGED <<lookupVars, claim, copy>> /\ copy' \in [Lookups -> [profile : Profiles, posts : BOOLEAN]]
    BY <1>5 DEF Write, TypeInv, TypeOK
  <2> QED BY <1>w, <2>1, <2>2, <2>3, <2>4, JobMoves
<1>6. CASE Fail(r)
  <2>1. TablesGrow
    BY <1>6, <1>w, <1>b, SameTables, StatusGrow DEF Fail
  <2>2. UsageTypeOK'
    BY <1>0, <1>6 DEF Fail, UsageTypeOK
  <2>4. RunTo(r, "end") /\ UNCHANGED <<lookupVars, claim, copy>>
        /\ copy' \in [Lookups -> [profile : Profiles, posts : BOOLEAN]]
    BY <1>6 DEF Fail, TypeInv, TypeOK
  <2> QED BY <1>w, <2>1, <2>2, <2>4, JobMoves
<1>7. CASE End(r)
  <2>1. TablesGrow
    BY <1>7, SameTables DEF End
  <2>2. UsageTypeOK'
    BY <1>0, <1>7, ReleaseType DEF End, UsageTypeOK
  <2>4. RunTo(r, "over") /\ UNCHANGED <<lookupVars, claim>>
        /\ copy' \in [Lookups -> [profile : Profiles, posts : BOOLEAN]]
    BY <1>7, <1>c DEF End
  <2> QED BY <1>w, <2>1, <2>2, <2>4, JobMoves
<1> QED BY <1>1, <1>2, <1>3, <1>4, <1>5, <1>6, <1>7 DEF Work

-----------------------------------------------------------------------------
ClaimSteps == {"start", "claiming", "run", "pay", "over"}

\* A claim or follow-up moves to the row c.
LEMMA ClaimMoves ==
    ASSUME TypeInv, TablesGrow, UNCHANGED <<uses, locks, lookupVars, run, copy>>, NEW p \in Claims,
           NEW c \in [step : ClaimSteps, job : 0 .. Len(jobs'), at : 1 .. StepCount + 1, busy : BOOLEAN],
           claim' = [claim EXCEPT ![p] = c],
           c.step \in {"claiming", "run", "pay"} => c.job # 0,
           c.step = "pay" => c.at <= StepCount
    PROVE  TypeInv'
<1>1. claim' \in [Claims -> [step : ClaimSteps, job : 0 .. Len(jobs'), at : 1 .. StepCount + 1, busy : BOOLEAN]]
  BY Grown DEF ClaimSteps
<1>2. UsageTypeOK'
  BY DEF TypeInv, TypeOK, UsageTypeOK
<1>3. TypeOK'
  BY <1>1, <1>2, Grown DEF TypeInv, TypeOK, TablesGrow, lookupVars, ClaimSteps
<1>4. \A q \in Claims : claim'[q] = IF q = p THEN c ELSE claim[q]
  BY DEF TypeInv, TypeOK
<1>5. RowsInv'
  BY <1>4 DEF TypeInv, RowsInv, TablesGrow, Working, lookupVars
<1> QED BY <1>3, <1>5 DEF TypeInv

LEMMA ClaimRow ==
    ASSUME TypeInv, TablesGrow, NEW p \in Claims
    PROVE  /\ claim[p] \in [step : ClaimSteps, job : 0 .. Len(jobs'), at : 1 .. StepCount + 1, busy : BOOLEAN]
           /\ \A st \in ClaimSteps : [claim[p] EXCEPT !.step = st] \in
                [step : ClaimSteps, job : 0 .. Len(jobs'), at : 1 .. StepCount + 1, busy : BOOLEAN]
           /\ claim[p].step \in {"claiming", "run", "pay"} => claim[p].job # 0
BY Grown DEF TypeInv, RowsInv, ClaimSteps

\* A follow-up goes on, or ends.
LEMMA StepTo ==
    ASSUME TypeInv, TablesGrow, UNCHANGED <<uses, locks, lookupVars, run, copy>>, NEW p \in Claims,
           NEW st \in ClaimSteps, ClaimTo(p, st), claim[p].step \in {"start", "claiming", "run", "pay"},
           claim[p].step = "start" => st = "over",
           st = "pay" => claim[p].at <= StepCount
    PROVE  TypeInv'
<1> DEFINE c == [claim[p] EXCEPT !.step = st]
<1>1. c \in [step : ClaimSteps, job : 0 .. Len(jobs'), at : 1 .. StepCount + 1, busy : BOOLEAN]
      /\ claim[p] \in [step : ClaimSteps, job : 0 .. Len(jobs'), at : 1 .. StepCount + 1, busy : BOOLEAN]
  BY ClaimRow
<1>2. claim' = [claim EXCEPT ![p] = c]
  BY DEF ClaimTo
<1>3. c.step = st /\ c.job = claim[p].job /\ c.at = claim[p].at
  BY <1>1
<1>4. c.step \in {"claiming", "run", "pay"} => c.job # 0
  BY <1>3, ClaimRow
<1> HIDE DEF c
<1> QED BY <1>1, <1>2, <1>3, <1>4, ClaimMoves

LEMMA NextStepType ==
    ASSUME TypeInv, TablesGrow, UNCHANGED <<uses, locks, lookupVars, run, copy>>, NEW p \in Claims,
           NextStep(p), claim[p].step \in {"run", "pay"}, claim[p].at <= StepCount
    PROVE  TypeInv'
<1> DEFINE c == [claim[p] EXCEPT !.step = "run", !.at = @ + 1]
<1>1. claim[p] \in [step : ClaimSteps, job : 0 .. Len(jobs'), at : 1 .. StepCount + 1, busy : BOOLEAN]
  BY ClaimRow
<1>2. claim[p].at + 1 \in 1 .. StepCount + 1
  BY <1>1, OwnBrandsAssumption
<1>3. c \in [step : ClaimSteps, job : 0 .. Len(jobs'), at : 1 .. StepCount + 1, busy : BOOLEAN]
      /\ c.step = "run" /\ c.job = claim[p].job
  BY <1>1, <1>2 DEF ClaimSteps
<1>4. claim' = [claim EXCEPT ![p] = c]
  BY <1>1 DEF NextStep
<1>5. c.job # 0
  BY <1>3, ClaimRow
<1> HIDE DEF c
<1> QED BY <1>3, <1>4, <1>5, ClaimMoves

LEMMA FollowType ==
    ASSUME TypeInv, NEW p \in Claims, Follow(p)
    PROVE  TypeInv'
<1> USE DEF ClaimSteps
<1>1. CASE ClaimRead(p)
  <2>1. TablesGrow
    BY <1>1, SameTables DEF ClaimRead
  <2>2. claim[p].step = "start" /\ UNCHANGED <<uses, locks, brands, jobs, lookupVars, run, copy>>
    BY <1>1 DEF ClaimRead
  <2>3. PICK b \in DOMAIN brands :
           \/ ClaimTo(p, "over")
           \/ /\ Claimable(p, b) # {}
              /\ \E busy \in BOOLEAN :
                    claim' = [claim EXCEPT ![p] = [step |-> "claiming", job |-> Latest(Claimable(p, b)),
                                                   at |-> 1, busy |-> busy]]
    BY <1>1 DEF ClaimRead, IsBusy
  <2>4. CASE ClaimTo(p, "over")
    BY <2>1, <2>2, <2>4, StepTo
  <2>5. ASSUME Claimable(p, b) # {}, NEW busy \in BOOLEAN,
               claim' = [claim EXCEPT ![p] = [step |-> "claiming", job |-> Latest(Claimable(p, b)),
                                              at |-> 1, busy |-> busy]]
        PROVE  TypeInv'
    <3> DEFINE j == Latest(Claimable(p, b))
               c == [step |-> "claiming", job |-> j, at |-> 1, busy |-> busy]
    <3>1. j \in 1 .. Len(jobs) /\ Len(jobs) \in Nat /\ jobs' = jobs
      BY <2>2, <2>5, Tables, LatestOf DEF Claimable, TypeInv
    <3> HIDE DEF j
    <3>2. j \in 0 .. Len(jobs') /\ j # 0 /\ 1 \in 1 .. StepCount + 1
      BY <3>1, OwnBrandsAssumption
    <3>3. c \in [step : ClaimSteps, job : 0 .. Len(jobs'), at : 1 .. StepCount + 1, busy : BOOLEAN]
          /\ c.step = "claiming" /\ c.job = j
      BY <3>2
    <3>4. claim' = [claim EXCEPT ![p] = c]
      BY <2>5 DEF j
    <3> HIDE DEF c
    <3> QED BY <2>1, <2>2, <3>2, <3>3, <3>4, ClaimMoves
  <2> QED BY <2>3, <2>4, <2>5
<1>2. CASE ClaimWrite(p)
  <2>1. claim[p].step = "claiming" /\ UNCHANGED <<uses, locks, brands, lookupVars, run, copy>>
        /\ (\E st \in {"over", "run"} : ClaimTo(p, st))
        /\ (\E f \in {"skipped", "running"} : SetFollowup(p, f, TRUE))
    BY <1>2 DEF ClaimWrite
  <2>2. TablesGrow
    BY <2>1, FollowupGrow
  <2> QED BY <2>1, <2>2, StepTo
<1>3. CASE SkipStep(p)
  <2>1. TablesGrow
    BY <1>3, SameTables DEF SkipStep
  <2> QED BY <1>3, <2>1, NextStepType DEF SkipStep
<1>4. CASE PayStep(p)
  <2>1. TablesGrow
    BY <1>4, SameTables DEF PayStep
  <2> QED BY <1>4, <2>1, StepTo DEF PayStep
<1>5. CASE EndStep(p)
  <2>0. claim[p].step = "pay" /\ UNCHANGED <<uses, locks, lookupVars, run, copy>> /\ claim[p].at <= StepCount
        /\ claim[p].job \in DOMAIN jobs /\ FollowedBrand(p) \in DOMAIN brands /\ claim[p].at \in 1 .. StepCount
    BY <1>5, Tables, OwnBrandsAssumption DEF EndStep, TypeInv, TypeOK, RowsInv, FollowedBrand
  <2>1. CASE /\ brands' = [brands EXCEPT ![FollowedBrand(p)].done = @ \cup {claim[p].at}]
             /\ NextStep(p) /\ UNCHANGED jobs
    <3> DEFINE b == FollowedBrand(p)
               row == [brands[b] EXCEPT !.done = @ \cup {claim[p].at}]
    <3>1. brands[b] \in Brands
      BY <2>0, Tables DEF TypeInv
    <3>2. row \in Brands /\ brands' = [brands EXCEPT ![b] = row]
      BY <2>0, <2>1, <3>1 DEF Brands
    <3> HIDE DEF row
    <3>3. brands' \in Seq(Brands) /\ Len(brands') = Len(brands)
      BY <2>0, <3>2, BrandWritten
    <3>4. TablesGrow
      BY <2>1, <3>3, Tables, LenProperties DEF TypeInv, TypeOK, RowsInv, TablesGrow
    <3> QED BY <2>0, <2>1, <3>4, NextStepType
  <2>2. CASE NextStep(p) /\ UNCHANGED <<brands, jobs>>
    BY <2>0, <2>2, SameTables, NextStepType
  <2>3. CASE SetFollowup(p, "failed", TRUE) /\ ClaimTo(p, "over") /\ UNCHANGED brands
    <3>1. TablesGrow
      BY <2>0, <2>3, FollowupGrow
    <3> QED BY <2>0, <2>3, <3>1, StepTo
  <2> QED BY <1>5, <2>1, <2>2, <2>3 DEF EndStep
<1>6. CASE FollowupDone(p)
  <2>1. claim[p].step = "run" /\ UNCHANGED <<uses, locks, brands, lookupVars, run, copy>>
        /\ ClaimTo(p, "over") /\ SetFollowup(p, "done", TRUE)
    BY <1>6 DEF FollowupDone
  <2>2. TablesGrow
    BY <2>1, FollowupGrow
  <2> QED BY <2>1, <2>2, StepTo
<1>7. CASE NoConnection(p)
  <2>1. claim[p].step = "run" /\ UNCHANGED <<uses, locks, brands, lookupVars, run, copy>>
        /\ ClaimTo(p, "over") /\ SetFollowup(p, "failed", FALSE)
    BY <1>7 DEF NoConnection
  <2>2. TablesGrow
    BY <2>1, FollowupGrow
  <2> QED BY <2>1, <2>2, StepTo
<1> QED BY <1>1, <1>2, <1>3, <1>4, <1>5, <1>6, <1>7 DEF Follow

\* Time and a restart write the rows of the jobs, not what they are of.
LEMMA RowsRewritten ==
    ASSUME TypeInv, jobs' \in [DOMAIN jobs -> Jobs], brands' = brands,
           \A j \in DOMAIN jobs : jobs'[j].brand = jobs[j].brand
    PROVE  TablesGrow
<1>1. jobs' \in Seq(Jobs) /\ Len(jobs') = Len(jobs) /\ DOMAIN jobs' = DOMAIN jobs
  BY Tables, Listing DEF TypeInv
<1> QED BY <1>1, Tables DEF TypeInv, TypeOK, RowsInv, TablesGrow

LEMMA TickType == ASSUME TypeInv, Tick PROVE TypeInv'
<1>1. UsageTypeOK'
  BY GrowOlderType DEF Tick, UsageTypeOK, TypeInv, TypeOK
<1>2. jobs' = [j \in DOMAIN jobs |->
                  IF j \in PendingJobs /\ jobs[j].age <= JobStale
                    THEN [jobs[j] EXCEPT !.age = @ + 1] ELSE jobs[j]]
      /\ UNCHANGED <<uses, brands, lookupVars, run, copy, claim>>
  BY DEF Tick
<1>3. ASSUME NEW j \in DOMAIN jobs
      PROVE  jobs'[j] \in Jobs /\ jobs'[j].brand = jobs[j].brand
  <2>1. jobs[j] \in Jobs
    BY Tables DEF TypeInv
  <2>2. jobs[j].age <= JobStale => jobs[j].age + 1 \in JobAges
    BY <2>1, OwnBrandsAssumption DEF Jobs, JobAges
  <2>3. jobs[j].age <= JobStale => [jobs[j] EXCEPT !.age = @ + 1] \in Jobs
                                   /\ [jobs[j] EXCEPT !.age = @ + 1].brand = jobs[j].brand
    BY <2>1, <2>2 DEF Jobs
  <2> QED BY <1>2, <2>1, <2>3
<1>4. TablesGrow
  BY <1>2, <1>3, RowsRewritten
<1>5. TypeOK'
  BY <1>1, <1>2, <1>4, Grown DEF TypeInv, TypeOK, TablesGrow, lookupVars
<1>6. RowsInv'
  BY <1>2, <1>4 DEF TypeInv, RowsInv, TablesGrow, Working, lookupVars
<1> QED BY <1>5, <1>6 DEF TypeInv

LEMMA CrashType == ASSUME TypeInv, Crash PROVE TypeInv'
<1>1. UsageTypeOK'
  BY DEF Crash, Recovered, UsageTypeOK, TypeInv, TypeOK
<1>2. jobs' = [j \in DOMAIN jobs |->
                  IF j \in PendingJobs THEN [jobs[j] EXCEPT !.status = "failed", !.age = 0] ELSE jobs[j]]
      /\ UNCHANGED <<brands, found, charged>> /\ cut' \subseteq Lookups
  BY DEF Crash, Recovered, TypeInv, TypeOK
<1>3. ASSUME NEW j \in DOMAIN jobs
      PROVE  jobs'[j] \in Jobs /\ jobs'[j].brand = jobs[j].brand
  <2>1. jobs[j] \in Jobs
    BY Tables DEF TypeInv
  <2>2. [jobs[j] EXCEPT !.status = "failed", !.age = 0] \in Jobs
    BY <2>1, JobFields
  <2>3. [jobs[j] EXCEPT !.status = "failed", !.age = 0].brand = jobs[j].brand
    BY <2>1 DEF Jobs
  <2> QED BY <1>2, <2>1, <2>2, <2>3
<1>4. TablesGrow
  BY <1>2, <1>3, RowsRewritten
<1>5. /\ \A r \in Lookups : /\ pc'[r] \in {"start", "over"} /\ target'[r] \in 0 .. Len(jobs')
                            /\ run'[r] \in {"none", "over"} /\ copy'[r] = NoCopy
                            /\ run'[r] # "none" => pc'[r] = "over"
      /\ pc' \in [Lookups -> {"start", "over"}] /\ target' \in [Lookups -> 0 .. Len(jobs')]
      /\ run' \in [Lookups -> {"none", "over"}] /\ copy' = [r \in Lookups |-> NoCopy]
  BY <1>4, Grown DEF Crash, TypeInv, TypeOK, RowsInv
<1>6. /\ claim' \in [Claims -> [step : ClaimSteps, job : 0 .. Len(jobs'), at : 1 .. StepCount + 1, busy : BOOLEAN]]
      /\ \A p \in Claims : claim'[p].step \in {"start", "over"}
  <2>1. claim' = [p \in Claims |-> IF claim[p].step = "start" THEN claim[p] ELSE [claim[p] EXCEPT !.step = "over"]]
    BY DEF Crash
  <2>2. ASSUME NEW p \in Claims
        PROVE  claim'[p] \in [step : ClaimSteps, job : 0 .. Len(jobs'), at : 1 .. StepCount + 1, busy : BOOLEAN]
               /\ claim'[p].step \in {"start", "over"}
    <3>1. claim[p] \in [step : ClaimSteps, job : 0 .. Len(jobs'), at : 1 .. StepCount + 1, busy : BOOLEAN]
          /\ [claim[p] EXCEPT !.step = "over"] \in
               [step : ClaimSteps, job : 0 .. Len(jobs'), at : 1 .. StepCount + 1, busy : BOOLEAN]
          /\ [claim[p] EXCEPT !.step = "over"].step = "over"
      BY <1>4, ClaimRow DEF ClaimSteps
    <3> QED BY <2>1, <3>1
  <2> QED BY <2>1, <2>2
<1>7. NoCopy \in [profile : Profiles, posts : BOOLEAN]
  BY DEF NoCopy, Profiles
<1>8. TypeOK'
  BY <1>1, <1>2, <1>4, <1>5, <1>6, <1>7, Grown DEF TypeInv, TypeOK, TablesGrow, ClaimSteps
<1>9. RowsInv'
  BY <1>4, <1>5, <1>6 DEF RowsInv, TablesGrow, Working
<1> QED BY <1>8, <1>9 DEF TypeInv

LEMMA InitType == Init => TypeInv
<1> SUFFICES ASSUME Init PROVE TypeInv
  OBVIOUS
<1>1. UsageTypeOK
  BY UsageLimitsAssumption DEF Init, UsageInit, UsageTypeOK, Ages, NoRow
<1>2. brands \in Seq(Brands) /\ jobs \in Seq(Jobs) /\ Len(jobs) = 0 /\ Len(brands) \in Nat /\ DOMAIN jobs = {}
  <2>1. \A b \in Known : <<b>> \in Seq(Brands)
    BY KnownAssumption
  <2>2. brands \in Seq(Brands)
    <3>1. CASE brands = <<>>
      BY <3>1, EmptySeq
    <3>2. CASE \E b \in Known : brands = <<b>>
      BY <2>1, <3>2
    <3> QED BY <3>1, <3>2 DEF Init
  <2>3. Len(brands) \in Nat
    BY <2>2, LenProperties
  <2>4. jobs \in Seq(Jobs) /\ Len(jobs) = 0
    BY DEF Init
  <2>5. DOMAIN jobs = 1 .. 0
    BY <2>4, LenProperties
  <2> QED BY <2>2, <2>3, <2>4, <2>5
<1>3. NoCopy \in [profile : Profiles, posts : BOOLEAN] /\ 1 \in 1 .. StepCount + 1
  BY OwnBrandsAssumption DEF NoCopy, Profiles
<1>4. TypeOK
  BY <1>1, <1>2, <1>3 DEF Init, TypeOK, NoClaim
<1>5. RowsInv
  BY <1>2 DEF Init, RowsInv, Working, NoClaim
<1> QED BY <1>4, <1>5 DEF TypeInv

LEMMA NextType == TypeInv /\ [Next]_vars => TypeInv'
<1> SUFFICES ASSUME TypeInv, [Next]_vars PROVE TypeInv'
  OBVIOUS
<1>1. CASE UNCHANGED vars
  <2>1. UNCHANGED <<uses, locks, brands, jobs, lookupVars, run, copy, claim>>
    BY <1>1 DEF vars
  <2>2. TypeOK'
    BY <2>1 DEF TypeInv, TypeOK, UsageTypeOK, lookupVars
  <2>3. RowsInv'
    BY <2>1 DEF TypeInv, RowsInv, Working, lookupVars
  <2> QED BY <2>2, <2>3 DEF TypeInv
<1> QED BY <1>1, RequestType, WatchType, WorkType, FollowType, TickType, CrashType DEF Next

\* Every reachable state of the lookups, jobs and follow-ups has its type, and who refers to
\* a row of the tables refers to one that is there (own_brands.py, own_brand.py).
THEOREM TypeCorrect == Spec => []TypeOK
<1>1. TypeInv => TypeOK
  BY DEF TypeInv
<1>2. Spec => []TypeInv
  BY InitType, NextType, PTL DEF Spec
<1> QED BY <1>1, <1>2, PTL

-----------------------------------------------------------------------------
(* The lock of a creator.                                                  *)

LEMMA LockKept ==
    ASSUME LockInv, locks' = locks, \A q \in Lookups : AtWork(q)' = AtWork(q)
    PROVE  LockInv'
BY DEF LockInv, OneLookupAtWork, LockFreed

\* Whoever takes the lock is alone: a lookup at work would hold one that is not stale.
LEMMA LockTaken ==
    ASSUME TypeInv, LockInv, NEW r \in Lookups, Acquire(Owner[r], Brand), AtWork(r)',
           \A q \in Lookups \ {r} : AtWork(q)' = AtWork(q)
    PROVE  LockInv'
<1> DEFINE c == Owner[r]
<1>0. c \in Creators /\ Brand \in LockNames /\ Owner \in [Lookups \cup Claims -> Creators]
  BY OwnBrandsAssumption
<1>1. \A d \in Creators : locks'[d][Brand] = IF d = c THEN 0 ELSE locks[d][Brand]
  BY <1>0, AcquireType DEF TypeInv, TypeOK
<1>2. \A q \in Lookups : Owner[q] = c => ~AtWork(q)
  BY <1>0, UsageLimitsAssumption DEF LockInv, Acquire, Available, NoRow
<1>3. OneLookupAtWork'
  BY <1>2 DEF LockInv, OneLookupAtWork
<1>4. LockFreed'
  BY <1>0, <1>1, <1>2 DEF LockInv, LockFreed
<1>5. \A q \in Lookups : AtWork(q)' => locks'[Owner[q]][Brand] \in 0 .. Stale
  BY <1>0, <1>1, UsageLimitsAssumption DEF LockInv
<1> QED BY <1>3, <1>4, <1>5 DEF LockInv

\* Whoever frees the lock frees its own: nobody else of the creator is at work.
LEMMA LockGiven ==
    ASSUME TypeInv, LockInv, NEW r \in Lookups, Release(Owner[r], {Brand}), AtWork(r), ~AtWork(r)',
           \A q \in Lookups \ {r} : AtWork(q)' = AtWork(q)
    PROVE  LockInv'
<1> DEFINE c == Owner[r]
<1>0. c \in Creators /\ Brand \in LockNames /\ Owner \in [Lookups \cup Claims -> Creators]
  BY OwnBrandsAssumption
<1>1. \A d \in Creators : locks'[d][Brand] = IF d = c THEN NoRow ELSE locks[d][Brand]
  BY <1>0, ReleaseType DEF TypeInv, TypeOK
<1>2. \A q \in Lookups : Owner[q] = c => ~AtWork(q)'
  BY DEF LockInv, OneLookupAtWork
<1>3. OneLookupAtWork'
  BY DEF LockInv, OneLookupAtWork
<1>4. LockFreed'
  BY <1>0, <1>1 DEF LockInv, LockFreed
<1>5. \A q \in Lookups : AtWork(q)' => locks'[Owner[q]][Brand] \in 0 .. Stale
  BY <1>0, <1>1, <1>2 DEF LockInv
<1> QED BY <1>3, <1>4, <1>5 DEF LockInv

LEMMA LockRequest ==
    ASSUME TypeInv, LockInv, NEW r \in Lookups, Request(r)
    PROVE  LockInv'
<1> USE DEF GoTo, RunTo, AtWork, Asking, Working
<1>1. CASE TakeLock(r)
  <2>1. CASE Acquire(Owner[r], Brand) /\ GoTo(r, "charge")
    <3>1. AtWork(r)' /\ \A q \in Lookups \ {r} : AtWork(q)' = AtWork(q)
      BY <1>1, <2>1 DEF TakeLock, TypeInv, TypeOK
    <3> QED BY <2>1, <3>1, LockTaken
  <2>2. CASE UNCHANGED locks /\ \E st \in {"over", "twin"} : GoTo(r, st)
    <3>1. \A q \in Lookups : AtWork(q)' = AtWork(q)
      BY <1>1, <2>2 DEF TakeLock, TypeInv, TypeOK
    <3> QED BY <2>2, <3>1, LockKept
  <2> QED BY <1>1, <2>1, <2>2 DEF TakeLock
<1>2. CASE Twin(r)
  <2>1. pc[r] = "twin" /\ locks' = locks /\ run' = run /\ \E st \in {"fail", "over"} : pc' = [pc EXCEPT ![r] = st]
    BY <1>2 DEF Twin
  <2> QED BY <2>1, LockKept DEF TypeInv, TypeOK
<1>3. CASE Charge(r)
  BY <1>3, LockKept DEF Charge, TypeInv, TypeOK
<1>4. CASE Find(r)
  <2>1. pc[r] = "find" /\ locks' = locks /\ run' = run /\ pc' = [pc EXCEPT ![r] = "create"]
    BY <1>4 DEF Find
  <2> QED BY <2>1, LockKept DEF TypeInv, TypeOK
<1>5. CASE StartJob(r)
  <2>1. pc[r] = "create" /\ locks' = locks /\ run' = run /\ \E st \in {"submit", "unlock"} : pc' = [pc EXCEPT ![r] = st]
    BY <1>5 DEF StartJob, Reuse, Create
  <2> QED BY <2>1, LockKept DEF TypeInv, TypeOK
<1>6. CASE Submit(r)
  BY <1>6, LockKept DEF Submit, TypeInv, TypeOK
<1>7. CASE Undo(r)
  <2>1. pc[r] = "undo" /\ locks' = locks /\ run' = run /\ pc' = [pc EXCEPT ![r] = "refund"]
    BY <1>7 DEF Undo
  <2> QED BY <2>1, LockKept DEF TypeInv, TypeOK
<1>8. CASE GiveBack(r)
  BY <1>8, LockKept DEF GiveBack, TypeInv, TypeOK
<1>9. CASE Unlock(r)
  <2>1. AtWork(r) /\ ~AtWork(r)' /\ \A q \in Lookups \ {r} : AtWork(q)' = AtWork(q)
    BY <1>9 DEF Unlock, TypeInv, TypeOK, RowsInv
  <2> QED BY <1>9, <2>1, LockGiven DEF Unlock
<1>10. CASE Abort(r)
  <2>1. pc[r] \in {"charge", "find", "create", "undo", "refund"} /\ locks' = locks /\ run' = run
        /\ pc' = [pc EXCEPT ![r] = "unlock"]
    BY <1>10 DEF Abort
  <2> QED BY <2>1, LockKept DEF TypeInv, TypeOK
<1> QED BY <1>1, <1>2, <1>3, <1>4, <1>5, <1>6, <1>7, <1>8, <1>9, <1>10 DEF Request

LEMMA LockWatch ==
    ASSUME TypeInv, LockInv, NEW r \in Lookups, Watch(r)
    PROVE  LockInv'
<1>1. pc[r] \in {"over", "fail"} /\ locks' = locks /\ run' = run
      /\ \E st \in {"fail", "over"} : pc' = [pc EXCEPT ![r] = st]
  BY DEF Watch, Poll, ReportStale, GoTo
<1> QED BY <1>1, LockKept DEF TypeInv, TypeOK, AtWork, Asking, Working

LEMMA LockWork ==
    ASSUME TypeInv, LockInv, NEW r \in Lookups, Work(r)
    PROVE  LockInv'
<1> USE DEF RunTo, AtWork, Asking, Working
<1>1. CASE End(r)
  <2>1. AtWork(r) /\ ~AtWork(r)' /\ \A q \in Lookups \ {r} : AtWork(q)' = AtWork(q)
    BY <1>1 DEF End, TypeInv, TypeOK, RowsInv, lookupVars
  <2> QED BY <1>1, <2>1, LockGiven DEF End
<1>2. CASE ~End(r)
  <2>1. /\ run[r] \in {"waiting", "loaded", "read", "scrape", "write", "fail"}
        /\ locks' = locks /\ pc' = pc
        /\ \E st \in {"loaded", "read", "scrape", "write", "fail", "end"} : run' = [run EXCEPT ![r] = st]
    BY <1>2 DEF Work, Dequeue, Inspect, Begin, Scrape, Write, Fail, lookupVars
  <2> QED BY <2>1, LockKept DEF TypeInv, TypeOK
<1> QED BY <1>1, <1>2

LEMMA LockTick == ASSUME TypeInv, LockInv, Tick PROVE LockInv'
<1>0. Brand \in LockNames /\ Owner \in [Lookups \cup Claims -> Creators]
  BY OwnBrandsAssumption
<1>1. \A c \in Creators : locks'[c][Brand] = Age(locks[c][Brand])
  BY <1>0, GrowOlderType DEF Tick, TypeInv, TypeOK
<1>2. \A q \in Lookups : AtWork(q)' = AtWork(q)
  BY DEF Tick, AtWork, Asking, Working, lookupVars
<1>3. \A q \in Lookups : AtWork(q) => locks'[Owner[q]][Brand] \in 0 .. Stale
  BY <1>0, <1>1, UsageLimitsAssumption DEF Tick, LockInv, Age
<1>4. \A c \in Creators : locks'[c][Brand] # NoRow => locks[c][Brand] # NoRow
  BY <1>1 DEF Age
<1> QED BY <1>2, <1>3, <1>4 DEF LockInv, OneLookupAtWork, LockFreed

LEMMA LockCrash == ASSUME TypeInv, LockInv, Crash PROVE LockInv'
<1>1. \A r \in Lookups : ~AtWork(r)'
  BY DEF Crash, AtWork, Asking, Working
<1>2. \A c \in Creators : locks'[c][Brand] = NoRow
  BY OwnBrandsAssumption DEF Crash, Recovered
<1> QED BY <1>1, <1>2 DEF LockInv, OneLookupAtWork, LockFreed

LEMMA LockInit == Init => LockInv
<1> SUFFICES ASSUME Init PROVE LockInv
  OBVIOUS
<1>1. \A r \in Lookups : ~AtWork(r)
  BY DEF Init, AtWork, Asking, Working
<1>2. \A c \in Creators : locks[c][Brand] = NoRow
  BY OwnBrandsAssumption DEF Init, UsageInit
<1> QED BY <1>1, <1>2 DEF LockInv, OneLookupAtWork, LockFreed

LEMMA LockStep == TypeInv /\ LockInv /\ [Next]_vars => LockInv'
<1> SUFFICES ASSUME TypeInv, LockInv, [Next]_vars PROVE LockInv'
  OBVIOUS
<1>1. CASE UNCHANGED vars
  BY <1>1, LockKept DEF vars, lookupVars, AtWork, Asking, Working
<1>2. ASSUME NEW p \in Claims, Follow(p) PROVE LockInv'
  <2>1. UNCHANGED <<locks, pc, run>>
    BY <1>2 DEF Follow, ClaimRead, ClaimWrite, SkipStep, PayStep, EndStep, FollowupDone, NoConnection, lookupVars
  <2> QED BY <2>1, LockKept DEF AtWork, Asking, Working
<1> QED BY <1>1, <1>2, LockRequest, LockWatch, LockWork, LockTick, LockCrash DEF Next

\* "one active lookup per user" (own_brands.py): between its lock and the release of it, by
\* the request or by the job it queued, a lookup is the only one of its creator at work.
THEOREM OneLookup == Spec => []OneLookupAtWork
<1>1. LockInv => OneLookupAtWork
  BY DEF LockInv
<1> QED BY <1>1, InitType, NextType, LockInit, LockStep, PTL DEF Spec

\* A lock row is there only while a lookup of its creator is at work: every refusal, failure
\* and restart frees it (own_brands.py).
THEOREM LocksFreed == Spec => []LockFreed
<1>1. LockInv => LockFreed
  BY DEF LockInv
<1> QED BY <1>1, InitType, NextType, LockInit, LockStep, PTL DEF Spec

-----------------------------------------------------------------------------
(* The uses of the day.                                                    *)

ChargedOf(c) == {r \in Lookups : Owner[r] = c /\ charged[r]}

\* Lookups are finitely many.
LEMMA ChargedFinite == \A c : IsFiniteSet(ChargedOf(c))
BY FS_Subset, OwnBrandsAssumption DEF ChargedOf

LEMMA ChargeKept ==
    ASSUME ChargeInv, UNCHANGED <<uses, charged>>,
           \A q \in Lookups : /\ pc'[q] \in {"start", "twin", "charge"} => ~charged[q]
                              /\ pc'[q] \in {"find", "create", "submit", "undo", "refund"} => charged[q]
    PROVE  ChargeInv'
BY DEF ChargeInv, UsesCounted

LEMMA ChargeTaken ==
    ASSUME TypeInv, ChargeInv, NEW r \in Lookups, pc[r] = "charge", Consume(Owner[r], "own_brands"),
           charged' = [charged EXCEPT ![r] = TRUE], GoTo(r, "find")
    PROVE  ChargeInv'
<1>0. Owner[r] \in Creators /\ "own_brands" \in Features
  BY OwnBrandsAssumption
<1>1. ASSUME NEW c \in Creators
      PROVE  /\ uses[c]["own_brands"] \in Nat
             /\ uses'[c]["own_brands"] = IF c = Owner[r] THEN uses[c]["own_brands"] + 1 ELSE uses[c]["own_brands"]
  BY <1>0 DEF Consume, TypeInv, TypeOK, UsageTypeOK
<1>2. ASSUME NEW c \in Creators
      PROVE  /\ r \notin ChargedOf(c)
             /\ ChargedOf(c)' = IF c = Owner[r] THEN ChargedOf(c) \cup {r} ELSE ChargedOf(c)
  BY DEF ChargedOf, ChargeInv, TypeInv, TypeOK
<1>3. \A c \in Creators : uses[c]["own_brands"] = Cardinality(ChargedOf(c))
  BY DEF ChargeInv, UsesCounted, ChargedOf
<1>4. ASSUME NEW c \in Creators
      PROVE  uses'[c]["own_brands"] = Cardinality(ChargedOf(c)')
  BY <1>1, <1>2, <1>3, ChargedFinite, FS_AddElement
<1>5. UsesCounted'
  BY <1>4 DEF UsesCounted, ChargedOf
<1> QED BY <1>5 DEF ChargeInv, GoTo, TypeInv, TypeOK

\* What was charged is counted, so that the refund finds a use to give back.
LEMMA ChargeBack ==
    ASSUME TypeInv, ChargeInv, NEW r \in Lookups, GiveBack(r)
    PROVE  ChargeInv'
<1>0. Owner[r] \in Creators /\ "own_brands" \in Features
  BY OwnBrandsAssumption
<1>3. \A c \in Creators : uses[c]["own_brands"] = Cardinality(ChargedOf(c)) /\ uses[c]["own_brands"] \in Nat
  <2>1. \A c \in Creators : uses[c]["own_brands"] = Cardinality(ChargedOf(c))
    BY DEF ChargeInv, UsesCounted, ChargedOf
  <2>2. \A c \in Creators : uses[c]["own_brands"] \in Nat
    BY <1>0 DEF TypeInv, TypeOK, UsageTypeOK
  <2> QED BY <2>1, <2>2
<1>2. ASSUME NEW c \in Creators
      PROVE  /\ r \in ChargedOf(c) <=> c = Owner[r]
             /\ ChargedOf(c)' = IF c = Owner[r] THEN ChargedOf(c) \ {r} ELSE ChargedOf(c)
  BY DEF GiveBack, ChargedOf, ChargeInv, TypeInv, TypeOK
<1>4. uses[Owner[r]]["own_brands"] > 0
  <2>1. Cardinality(ChargedOf(Owner[r])) # 0
    BY <1>0, <1>2, ChargedFinite, FS_EmptySet
  <2> QED BY <1>0, <1>3, <2>1
<1>1. ASSUME NEW c \in Creators
      PROVE  uses'[c]["own_brands"] = IF c = Owner[r] THEN uses[c]["own_brands"] - 1 ELSE uses[c]["own_brands"]
  BY <1>0, <1>4 DEF GiveBack, Refund, TypeInv, TypeOK, UsageTypeOK
<1>5. ASSUME NEW c \in Creators
      PROVE  uses'[c]["own_brands"] = Cardinality(ChargedOf(c)')
  BY <1>1, <1>2, <1>3, ChargedFinite, FS_RemoveElement
<1>6. UsesCounted'
  BY <1>5 DEF UsesCounted, ChargedOf
<1> QED BY <1>6 DEF ChargeInv, GiveBack, GoTo, TypeInv, TypeOK

LEMMA ChargeRequest ==
    ASSUME TypeInv, ChargeInv, NEW r \in Lookups, Request(r)
    PROVE  ChargeInv'
<1> USE DEF GoTo
<1>1. CASE GiveBack(r)
  BY <1>1, ChargeBack
<1>2. CASE Charge(r)
  <2>1. CASE pc' = [pc EXCEPT ![r] = "unlock"] /\ UNCHANGED <<uses, charged>>
    BY <2>1, ChargeKept DEF ChargeInv, TypeInv, TypeOK
  <2> QED BY <1>2, <2>1, ChargeTaken DEF Charge
<1>3. CASE StartJob(r)
  <2>1. pc[r] = "create" /\ UNCHANGED <<uses, charged>> /\ \E st \in {"submit", "unlock"} : pc' = [pc EXCEPT ![r] = st]
    BY <1>3 DEF StartJob, Reuse, Create
  <2> QED BY <2>1, ChargeKept DEF ChargeInv, TypeInv, TypeOK
<1>4. CASE TakeLock(r) \/ Twin(r)
  <2>1. pc[r] \in {"start", "twin"} /\ UNCHANGED <<uses, charged>>
        /\ \E st \in {"over", "charge", "twin", "fail"} : pc' = [pc EXCEPT ![r] = st]
    BY <1>4 DEF TakeLock, Twin
  <2> QED BY <2>1, ChargeKept DEF ChargeInv, TypeInv, TypeOK
<1>5. CASE Find(r) \/ Submit(r) \/ Undo(r) \/ Unlock(r) \/ Abort(r)
  <2>1. /\ UNCHANGED <<uses, charged>>
        /\ \/ pc[r] \in {"find", "submit", "undo"} /\ \E st \in {"create", "undo", "refund", "over"} : pc' = [pc EXCEPT ![r] = st]
           \/ \E st \in {"unlock", "over"} : pc' = [pc EXCEPT ![r] = st]
    BY <1>5 DEF Find, Submit, Undo, Unlock, Abort
  <2> QED BY <2>1, ChargeKept DEF ChargeInv, TypeInv, TypeOK
<1> QED BY <1>1, <1>2, <1>3, <1>4, <1>5 DEF Request

LEMMA ChargeStep == TypeInv /\ ChargeInv /\ [Next]_vars => ChargeInv'
<1> SUFFICES ASSUME TypeInv, ChargeInv, [Next]_vars PROVE ChargeInv'
  OBVIOUS
<1>1. CASE UNCHANGED <<uses, charged, pc>>
  BY <1>1, ChargeKept DEF ChargeInv
<1>2. CASE UNCHANGED vars
  BY <1>1, <1>2 DEF vars, lookupVars
<1>3. ASSUME NEW p \in Claims, Follow(p) PROVE UNCHANGED <<uses, charged, pc>>
  BY <1>3 DEF Follow, ClaimRead, ClaimWrite, SkipStep, PayStep, EndStep, FollowupDone, NoConnection, lookupVars
<1>4. ASSUME NEW r \in Lookups, Work(r) PROVE UNCHANGED <<uses, charged, pc>>
  BY <1>4 DEF Work, Dequeue, Inspect, Begin, Scrape, Write, Fail, End, lookupVars
<1>5. ASSUME NEW r \in Lookups, Watch(r) PROVE ChargeInv'
  <2>1. UNCHANGED <<uses, charged>> /\ \E st \in {"fail", "over"} : pc' = [pc EXCEPT ![r] = st]
    BY <1>5 DEF Watch, Poll, ReportStale, GoTo
  <2> QED BY <2>1, ChargeKept DEF ChargeInv, TypeInv, TypeOK
<1>6. CASE Tick
  BY <1>1, <1>6 DEF Tick, lookupVars
<1>7. CASE Crash
  <2>0. /\ UNCHANGED <<uses, charged>>
        /\ pc' = [r \in Lookups |-> IF pc[r] = "start" THEN "start" ELSE "over"]
    BY <1>7 DEF Crash
  <2>1. \A r \in Lookups : pc'[r] = "over" \/ (pc'[r] = "start" /\ pc[r] = "start")
    BY <2>0
  <2> QED BY <2>0, <2>1, ChargeKept DEF ChargeInv
<1> QED BY <1>1, <1>2, <1>3, <1>4, <1>5, <1>6, <1>7, ChargeRequest DEF Next

LEMMA ChargeInit == Init => ChargeInv
<1> SUFFICES ASSUME Init PROVE ChargeInv
  OBVIOUS
<1>1. \A c \in Creators : ChargedOf(c) = {} /\ uses[c]["own_brands"] = 0
  BY OwnBrandsAssumption DEF Init, UsageInit, ChargedOf
<1>2. UsesCounted
  BY <1>1, FS_EmptySet DEF UsesCounted, ChargedOf
<1> QED BY <1>2 DEF Init, ChargeInv

\* Who is charged and has let go of its lookup is told of a job, unless it was cut short.
AnswerInv ==
    \A r \in Lookups : charged[r] /\ pc[r] \in {"unlock", "over"} /\ r \notin cut => target[r] # 0

LEMMA AnswerRequest ==
    ASSUME TypeInv, ChargeInv, AnswerInv, NEW r \in Lookups, Request(r)
    PROVE  AnswerInv'
<1> USE DEF GoTo
<1>1. CASE TakeLock(r) \/ Twin(r)
  <2>1. pc[r] \in {"start", "twin"} /\ UNCHANGED <<charged, cut>>
        /\ \A q \in Lookups \ {r} : pc'[q] = pc[q] /\ target'[q] = target[q]
    BY <1>1 DEF TakeLock, Twin, TypeInv, TypeOK
  <2> QED BY <2>1 DEF AnswerInv, ChargeInv
<1>2. CASE Charge(r)
  BY <1>2 DEF Charge, AnswerInv, ChargeInv, TypeInv, TypeOK
<1>3. CASE Find(r) \/ Submit(r) \/ Undo(r)
  <2>1. /\ UNCHANGED <<target, charged, cut>>
        /\ \E st \in {"create", "undo", "refund", "over"} : pc' = [pc EXCEPT ![r] = st]
        /\ pc'[r] = "over" => pc[r] = "submit"
    BY <1>3 DEF Find, Submit, Undo, TypeInv, TypeOK
  <2> QED BY <2>1 DEF AnswerInv, TypeInv, TypeOK, RowsInv
<1>4. CASE StartJob(r)
  <2>1. \E t \in {Len(jobs) + 1} \cup DOMAIN jobs : target' = [target EXCEPT ![r] = t]
    BY <1>4 DEF StartJob, Reuse, Create, Active, PendingJobs
  <2>2. target'[r] # 0
    BY <2>1, Tables DEF TypeInv, TypeOK
  <2>3. /\ UNCHANGED <<charged, cut>>
        /\ \A q \in Lookups \ {r} : pc'[q] = pc[q] /\ target'[q] = target[q]
    BY <1>4, <2>1 DEF StartJob, Reuse, Create, TypeInv, TypeOK
  <2> QED BY <2>2, <2>3 DEF AnswerInv
<1>5. CASE GiveBack(r) \/ Abort(r)
  <2>1. /\ ~charged'[r] \/ r \in cut'
        /\ \A q \in Lookups \ {r} : /\ pc'[q] = pc[q] /\ target'[q] = target[q]
                                      /\ charged'[q] = charged[q] /\ (q \in cut' <=> q \in cut)
    BY <1>5 DEF GiveBack, Abort, TypeInv, TypeOK
  <2> QED BY <2>1 DEF AnswerInv
<1>6. CASE Unlock(r)
  BY <1>6 DEF Unlock, AnswerInv, TypeInv, TypeOK
<1> QED BY <1>1, <1>2, <1>3, <1>4, <1>5, <1>6 DEF Request

LEMMA AnswerStep == TypeInv /\ ChargeInv /\ AnswerInv /\ [Next]_vars => AnswerInv'
<1> SUFFICES ASSUME TypeInv, ChargeInv, AnswerInv, [Next]_vars PROVE AnswerInv'
  OBVIOUS
<1>1. CASE UNCHANGED lookupVars
  BY <1>1 DEF AnswerInv, lookupVars
<1>2. CASE UNCHANGED vars
  BY <1>1, <1>2 DEF vars
<1>3. ASSUME NEW p \in Claims, Follow(p) PROVE UNCHANGED lookupVars
  BY <1>3 DEF Follow, ClaimRead, ClaimWrite, SkipStep, PayStep, EndStep, FollowupDone, NoConnection
<1>4. ASSUME NEW r \in Lookups, Work(r) PROVE UNCHANGED lookupVars
  BY <1>4 DEF Work, Dequeue, Inspect, Begin, Scrape, Write, Fail, End
<1>5. ASSUME NEW r \in Lookups, Watch(r) PROVE AnswerInv'
  <2>1. UNCHANGED <<target, charged, cut>>
        /\ \E st \in {"fail", "over"} : pc' = [pc EXCEPT ![r] = st] /\ pc[r] \in {"fail", "over"}
    BY <1>5 DEF Watch, Poll, ReportStale, GoTo
  <2> QED BY <2>1 DEF AnswerInv, TypeInv, TypeOK, RowsInv
<1>6. CASE Tick
  BY <1>1, <1>6 DEF Tick
<1>7. CASE Crash
  <2>1. ASSUME NEW r \in Lookups, charged'[r], pc'[r] = "over", r \notin cut'
        PROVE  target'[r] # 0
    <3>1. charged[r] /\ ~Asking(r) /\ r \notin cut /\ pc[r] # "start"
      BY <1>7, <2>1 DEF Crash, ChargeInv
    <3>2. pc[r] \in {"fail", "over"}
      BY <3>1 DEF Asking, ChargeInv, TypeInv, TypeOK
    <3> QED BY <1>7, <3>1, <3>2 DEF Crash, AnswerInv, TypeInv, RowsInv
  <2>2. \A r \in Lookups : pc'[r] # "unlock"
    BY <1>7 DEF Crash
  <2> QED BY <2>1, <2>2 DEF AnswerInv
<1> QED BY <1>1, <1>2, <1>3, <1>4, <1>5, <1>6, <1>7, AnswerRequest DEF Next

\* The counter of the day is the number of lookups that were charged and not refunded, and
\* whoever is told of no job, a lost place in the queue included, was not charged, unless a
\* raising statement or a restart cut the lookup short (own_brands.py).
THEOREM UsesExact == Spec => []UsesAccounted
<1>1. ChargeInv /\ AnswerInv => UsesAccounted
  BY DEF ChargeInv, AnswerInv, UsesAccounted, ChargedHasJob
<1>2. Init => AnswerInv
  BY DEF Init, AnswerInv
<1> QED BY <1>1, <1>2, InitType, NextType, ChargeInit, ChargeStep, AnswerStep, PTL DEF Spec

-----------------------------------------------------------------------------
(* The runners of the follow-ups.                                          *)

\* A lookup's or a job's statement leaves followup_started_at of every row as it is.
StartedKept == \A j \in DOMAIN jobs : jobs'[j].started = jobs[j].started

LEMMA WrittenKeepsStarted ==
    ASSUME TypeOK, NEW j \in DOMAIN jobs, NEW st \in {"queued", "running", "ready", "failed"},
           SetStatus(j, st) \/ WriteJob(j, jobs[j])
    PROVE  StartedKept
<1>1. jobs[j] \in Jobs
  BY Tables
<1>2. CASE SetStatus(j, st)
  <2>1. [jobs[j] EXCEPT !.status = st, !.age = 0].started = jobs[j].started
    BY <1>1 DEF Jobs
  <2> QED BY <1>2, <2>1, StatusWritten DEF JobWritten, StartedKept
<1>3. CASE WriteJob(j, jobs[j])
  <2>1. [jobs[j] EXCEPT !.age = 0].started = jobs[j].started
    BY <1>1 DEF Jobs
  <2> QED BY <1>3, <2>1, AgeWritten DEF JobWritten, StartedKept
<1> QED BY <1>2, <1>3

LEMMA LookupStarted ==
    ASSUME TypeInv, NEW r \in Lookups, Request(r) \/ Watch(r) \/ Work(r)
    PROVE  StartedKept /\ claim' = claim
<1>0. claim' = claim
  BY DEF Request, TakeLock, Twin, Charge, Find, StartJob, Submit, Undo, GiveBack, Unlock, Abort,
         Watch, Poll, ReportStale, Work, Dequeue, Inspect, Begin, Scrape, Write, Fail, End
<1>1. CASE jobs' = jobs
  BY <1>0, <1>1 DEF StartedKept
<1>2. ASSUME NEW st \in {"queued", "running", "ready", "failed"}, target[r] \in DOMAIN jobs,
             SetStatus(target[r], st) \/ WriteJob(target[r], jobs[target[r]])
      PROVE  StartedKept
  BY <1>2, WrittenKeepsStarted DEF TypeInv
<1>3. ASSUME NEW row, jobs' = Append(jobs, row) PROVE StartedKept
  <2>1. Len(jobs) \in Nat /\ DOMAIN jobs = 1 .. Len(jobs) /\ jobs \in Seq(Jobs)
    BY Tables DEF TypeInv, TypeOK
  <2>2. \A j \in 1 .. Len(jobs) : jobs'[j] = jobs[j]
    BY <1>3, <2>1
  <2> QED BY <2>1, <2>2 DEF StartedKept
<1>4. CASE Request(r)
  <2>1. CASE StartJob(r)
    <3>1. jobs' = jobs \/ \E row : jobs' = Append(jobs, row)
      BY <2>1 DEF StartJob, Reuse, Create
    <3> QED BY <1>0, <1>1, <1>3, <3>1
  <2>2. CASE Undo(r)
    BY <1>0, <1>2, <2>2, Working1 DEF Undo
  <2> QED BY <1>1, <1>4, <2>1, <2>2 DEF Request, TakeLock, Twin, Charge, Find, Submit, GiveBack, Unlock, Abort
<1>5. CASE Watch(r)
  BY <1>0, <1>1, <1>2, <1>5, Working1 DEF Watch, Poll, ReportStale
<1>6. CASE Work(r)
  <2>1. target[r] \in DOMAIN jobs
    BY <1>6, Working1 DEF Work, Dequeue, Inspect, Begin, Scrape, Write, Fail, End, Working
  <2>2. \/ jobs' = jobs
        \/ \E st \in {"running", "ready", "failed"} : SetStatus(target[r], st)
        \/ WriteJob(target[r], jobs[target[r]])
    BY <1>6 DEF Work, Dequeue, Inspect, Begin, Scrape, Write, Fail, End
  <2> QED BY <1>0, <1>1, <1>2, <2>1, <2>2
<1> QED BY <1>4, <1>5, <1>6

\* The rows a claim or follow-up refers to are there.
LEMMA ClaimedRow ==
    ASSUME TypeInv, NEW p \in Claims, Claimed(p)
    PROVE  claim[p].job \in DOMAIN jobs
BY Tables DEF TypeInv, TypeOK, RowsInv, Claimed

LEMMA RunnerKept ==
    ASSUME TypeInv, RunnerInv, StartedKept,
           \A p \in Claims : (Claimed(p)' => Claimed(p) /\ claim'[p].job = claim[p].job)
                             /\ (Following(p)' => Following(p))
    PROVE  RunnerInv'
<1>1. \A p \in Claims : Following(p) => claim[p].job \in DOMAIN jobs
  BY ClaimedRow DEF Claimed, Following
<1>2. \A p \in Claims : Following(p)' => Claimed(p)'
  BY DEF Claimed, Following
<1> QED BY <1>1, <1>2 DEF RunnerInv, StartedKept

\* A claim takes a job that nobody is claiming, whose row is free, and nobody follows up.
LEMMA RunnerClaim ==
    ASSUME TypeInv, RunnerInv, NEW p \in Claims, ClaimRead(p)
    PROVE  RunnerInv'
<1>1. claim[p].step = "start" /\ jobs' = jobs
  BY DEF ClaimRead
<1>2. PICK b \in DOMAIN brands :
         \/ ClaimTo(p, "over")
         \/ /\ Claimable(p, b) # {} /\ RowFree(Latest(Claimable(p, b)))
            /\ \E busy \in BOOLEAN :
                  claim' = [claim EXCEPT ![p] = [step |-> "claiming", job |-> Latest(Claimable(p, b)),
                                                 at |-> 1, busy |-> busy]]
  BY DEF ClaimRead, IsBusy
<1>3. CASE ClaimTo(p, "over")
  BY <1>1, <1>3, RunnerKept DEF ClaimTo, Claimed, Following, StartedKept, TypeInv, TypeOK
<1>4. ASSUME Claimable(p, b) # {}, RowFree(Latest(Claimable(p, b))), NEW busy \in BOOLEAN,
             claim' = [claim EXCEPT ![p] = [step |-> "claiming", job |-> Latest(Claimable(p, b)),
                                            at |-> 1, busy |-> busy]]
      PROVE  RunnerInv'
  <2> DEFINE j == Latest(Claimable(p, b))
  <2>1. j \in Claimable(p, b)
    BY <1>4, Tables, LatestOf DEF Claimable, TypeInv
  <2>2. ~jobs[j].started /\ RowFree(j)
    BY <1>4, <2>1 DEF Claimable
  <2>3. \A q \in Claims : Claimed(q) => claim[q].job # j
    BY <2>2 DEF RunnerInv, RowFree, Claimed, Following
  <2>4. \A q \in Claims : claim'[q] = IF q = p THEN [step |-> "claiming", job |-> j, at |-> 1, busy |-> busy]
                                               ELSE claim[q]
    BY <1>4 DEF TypeInv, TypeOK
  <2> HIDE DEF j
  <2>5. \A q \in Claims : q # p => (Claimed(q)' <=> Claimed(q)) /\ (Following(q)' <=> Following(q))
    BY <2>4 DEF Claimed, Following
  <2>6. ~Following(p)' /\ claim'[p].job = j
    BY <2>4 DEF Following
  <2> QED BY <1>1, <2>3, <2>4, <2>5, <2>6 DEF RunnerInv
<1> QED BY <1>2, <1>3, <1>4

\* A follow-up writes its own row, which no other is for.
LEMMA RunnerWrites ==
    ASSUME TypeInv, RunnerInv, NEW p \in Claims, Claimed(p), NEW s \in BOOLEAN, NEW st \in {"run", "over"},
           NEW f \in {"none", "running", "skipped", "done", "failed"}, SetFollowup(p, f, s), ClaimTo(p, st),
           st = "run" => s
    PROVE  RunnerInv'
<1> DEFINE j == claim[p].job
<1>1. j \in DOMAIN jobs /\ jobs[j] \in Jobs
  BY ClaimedRow, Tables DEF TypeInv
<1>2. [jobs[j] EXCEPT !.followup = f, !.started = s].started = s
  BY <1>1 DEF Jobs
<1>3. \A k \in DOMAIN jobs : jobs'[k].started = IF k = j THEN s ELSE jobs[k].started
  <2> DEFINE row == [jobs[j] EXCEPT !.followup = f, !.started = s]
  <2>1. JobWritten(j, row)
    BY <1>1, FollowupWritten DEF TypeInv
  <2> HIDE DEF row, j
  <2>2. \A k \in DOMAIN jobs : jobs'[k] = IF k = j THEN row ELSE jobs[k]
    BY <2>1 DEF JobWritten
  <2>3. row.started = s
    BY <1>2 DEF row
  <2> QED BY <2>2, <2>3
<1>4. \A q \in Claims : /\ claim'[q].job = claim[q].job
                        /\ claim'[q].step = IF q = p THEN st ELSE claim[q].step
  BY DEF ClaimTo, TypeInv, TypeOK
<1>5. \A q \in Claims : Following(q) => claim[q].job \in DOMAIN jobs
  BY ClaimedRow DEF Claimed, Following
<1>6. \A q \in Claims : Claimed(q)' => Claimed(q)
  BY <1>4 DEF Claimed
<1>7. ASSUME NEW q \in Claims, Following(q)'
      PROVE  jobs'[claim'[q].job].started
  <2>1. CASE q = p
    BY <1>1, <1>3, <1>4, <1>7, <2>1 DEF Following
  <2>2. CASE q # p
    <3>1. Following(q) /\ Claimed(q)
      BY <1>4, <1>7, <2>2 DEF Following, Claimed
    <3>2. claim[q].job # j /\ jobs[claim[q].job].started
      BY <2>2, <3>1 DEF RunnerInv
    <3> QED BY <1>3, <1>4, <1>5, <3>1, <3>2
  <2> QED BY <2>1, <2>2
<1> QED BY <1>4, <1>6, <1>7 DEF RunnerInv

LEMMA RunnerFollow ==
    ASSUME TypeInv, RunnerInv, NEW p \in Claims, Follow(p)
    PROVE  RunnerInv'
<1>1. CASE ClaimRead(p)
  BY <1>1, RunnerClaim
<1>2. CASE ClaimWrite(p)
  <2>1. \/ SetFollowup(p, "skipped", TRUE) /\ ClaimTo(p, "over")
        \/ SetFollowup(p, "running", TRUE) /\ ClaimTo(p, "run")
    BY <1>2 DEF ClaimWrite
  <2>2. Claimed(p)
    BY <1>2 DEF ClaimWrite, Claimed
  <2> QED BY <2>1, <2>2, RunnerWrites
<1>3. CASE UNCHANGED jobs /\ Following(p) /\ (NextStep(p) \/ ClaimTo(p, "pay"))
  <2>1. \A q \in Claims : /\ claim'[q].job = claim[q].job
                          /\ q # p => claim'[q].step = claim[q].step
    BY <1>3 DEF NextStep, ClaimTo, TypeInv, TypeOK
  <2>2. StartedKept
    BY <1>3 DEF StartedKept
  <2> QED BY <1>3, <2>1, <2>2, RunnerKept DEF Claimed, Following
<1>4. CASE SkipStep(p) \/ PayStep(p)
  BY <1>3, <1>4 DEF SkipStep, PayStep, Following
<1>5. CASE EndStep(p)
  <2>1. CASE SetFollowup(p, "failed", TRUE) /\ ClaimTo(p, "over")
    BY <1>5, <2>1, RunnerWrites DEF EndStep, Claimed
  <2> QED BY <1>3, <1>5, <2>1 DEF EndStep, Following
<1>6. CASE FollowupDone(p)
  BY <1>6, RunnerWrites DEF FollowupDone, Claimed
<1>7. CASE NoConnection(p)
  BY <1>7, RunnerWrites DEF NoConnection, Claimed
<1> QED BY <1>1, <1>2, <1>4, <1>5, <1>6, <1>7 DEF Follow

LEMMA RunnerStep == TypeInv /\ RunnerInv /\ [Next]_vars => RunnerInv'
<1> SUFFICES ASSUME TypeInv, RunnerInv, [Next]_vars PROVE RunnerInv'
  OBVIOUS
<1>1. CASE StartedKept /\ claim' = claim
  BY <1>1, RunnerKept DEF Claimed, Following
<1>2. CASE UNCHANGED vars
  BY <1>1, <1>2 DEF vars, StartedKept
<1>3. CASE Tick
  <2>1. /\ claim' = claim
        /\ jobs' = [j \in DOMAIN jobs |->
                      IF j \in PendingJobs /\ jobs[j].age <= JobStale
                        THEN [jobs[j] EXCEPT !.age = @ + 1] ELSE jobs[j]]
    BY <1>3 DEF Tick
  <2>2. \A j \in DOMAIN jobs : [jobs[j] EXCEPT !.age = @ + 1].started = jobs[j].started
    BY Tables DEF TypeInv, Jobs
  <2> QED BY <1>1, <2>1, <2>2 DEF StartedKept
<1>4. CASE Crash
  <2>1. \A p \in Claims : claim'[p].step \in {"start", "over"}
    <3>1. claim' = [p \in Claims |-> IF claim[p].step = "start" THEN claim[p] ELSE [claim[p] EXCEPT !.step = "over"]]
      BY <1>4 DEF Crash
    <3>2. \A p \in Claims : [claim[p] EXCEPT !.step = "over"].step = "over"
      BY DEF TypeInv, TypeOK
    <3> QED BY <3>1, <3>2
  <2> QED BY <2>1 DEF RunnerInv, Claimed, Following
<1> QED BY <1>1, <1>2, <1>3, <1>4, LookupStarted, RunnerFollow DEF Next

\* However many pitches for a brand are written at once, a job has one follow-up at a time:
\* the claim locks the row it reads and marks it before it lets go (claim_followup).
THEOREM OneRunner == Spec => []OneRunnerPerJob
<1>1. Init => RunnerInv
  BY DEF Init, RunnerInv, Claimed, Following, NoClaim
<1>2. RunnerInv => OneRunnerPerJob
  BY DEF RunnerInv, OneRunnerPerJob, Claimed, Following
<1> QED BY <1>1, <1>2, InitType, NextType, RunnerStep, PTL DEF Spec
=============================================================================
