# MAVLIT in TLA+

MAVLIT matches content creators with brands. The repository is a FastAPI service
(`src/api`), the pipelines that seed, enrich and score brands and creators
(`src/pipeline`), and the scripts that run them (`src/run_*.py`, `src/main.py`). This
directory models the parts whose correctness depends on an order of events that a test
hardly produces, checks them with TLC on small instances, and proves the most important
results with TLAPS for every instance.

`tlc -workers 2 -config X.cfg M` checks a run, `tlapm M.tla` a proof module.

## The system

| Component | Code | State it keeps | Model |
|---|---|---|---|
| User jobs: descriptions, AI rankings, profile saves | `api/app.py`, `api/jobs.py` | status/error/job columns of `creator_profiles`, the executor's queue | `UserJobs` |
| Usage limits | `api/usage_limits.py` | `feature_usage`, `feature_locks` | `UsageLimits` |
| Startup recovery | `api/recovery.py` | (repairs the tables of the two above and below) | in `UserJobs`, `OwnBrands` |
| Pitches and pitch streams | `api/pitches.py`, `pipeline/pitching.py` | `pitches`, the process's stream slots | `Pitches` |
| Own brands and their follow-ups | `api/own_brands.py`, `pipeline/own_brand.py` | `brands_raw`, `own_brand_jobs` | `OwnBrands` |
| Operator jobs | `api/app.py`, `api/jobs.py` | the in-memory `_jobs` table, a queue of one worker | `OperatorJobs` |
| Stored pitches | `api/pitches.py` | `pitches` | `PitchEdits` |
| Accounts, resets, invites, login limits | `api/auth.py`, `password_reset.py`, `invites.py`, `login_limits.py`, `attempt_limits.py`, the creator form of `/admin` | password, token version and activity of `creator_profiles`, link rows, `login_failures` | `Accounts` |
| Creator posts | `api/creator_posts.py`, `pipeline/creator_posts.py`, `creator_content/` | `creator_instagram_posts` | `CreatorPosts` |
| Contact reveals, saved brands | `api/contact_access.py`, `api/saved_brands.py` | `contact_reveals`, `saved_brands` | `Contacts` |
| TTL cache, request limits | `api/ttl_cache.py`, `concurrency.py`, `body_limits.py` | one in-memory map or counter each | `NicheCache`, `RequestLimits` |
| Matching and AI rankings | `pipeline/matching`, the ranking pages of `api/app.py`, `pipeline/dashboard.py` | two ranking tables | `MatchRules`, `Rankings` |
| LLM client | `pipeline/helpers/gpt_llm.py` | failures in a row, breaker | `LlmPromise`, `LlmCalls` |
| HTTP and page helpers | `pipeline/helpers/http.py`, `link_pages.py` | the Firecrawl window | `Fetching`, `LinkPages` |
| Enrichment: runners | `src/run_end_to_end_pipeline.py`, `enrichment/orchestrator.py`, `src/run_reverse_engineering.py` | "checked" columns and result rows of a brand | `Enrichment` |
| Enrichment: steps | `pipeline/enrichment/` | the same, in detail | `YoutubeSearch`, `PostScrape`, `BrandScore`, `BrandSignals`, `ContactSearch`, `GeoReach` |
| Reverse engineering | `pipeline/enrichment_re/` | `content_creator_re`, `instagram_users`, brands found | `CreatorDiscovery`, `PartnerScrape`, `BrandProfiles`, `ContentChecks` |
| Schema, migrations, grants, seeding, brand detail, rates, settings, front end | | | not modelled, see below |

`Services` and `Pipeline` put the modules of the API's small services and of the batch
pipeline side by side.

How they interact:

* A request thread takes a *lock row* (one per creator and feature), counts a *daily
  use*, writes a status and queues a closure on a bounded executor. The closure frees
  the lock when it ends. Each of these is its own commit, so a crash or an error can
  fall between any two.
* Lock rows name no holder. Whoever deletes `(creator, feature)` frees it.
* Sessions are opened with `expire_on_commit=False`: a request or a job decides on the
  copy of a row it read, perhaps minutes ago, and an UPDATE writes only the columns that
  changed against that copy.
* A status is also written by readers: polling a profile or a lookup runs the sweep that
  reports dead jobs as failed.
* `recover_stuck_jobs` runs at startup, fails what was pending and deletes every lock
  row.
* A pitch that was saved may start the follow-up of an own brand.
* A password, a reset, an invite and the admin's form all write the same account row,
  each after a slow step; sessions carry the token version they were opened with.
* The steps of the pipeline talk to each other only through the columns of a brand's
  row: what one step selects is what others have marked. Every step calls the LLM
  client, whose breaker all threads share, or a scraper with a quota.

What is hard here: interleavings of requests, workers and polls on one row; failures
between two commits; jobs that hang; a process restart; deadlines that race the result;
caps and bounds at their limit. `PROJECT.json` lists each hazard at its line under
`hazards`, with the properties that cover it or the reason why none does.

## Modules

### UsageLimits

The two tables of `api/usage_limits.py`, one operator per SQL statement: `Consume`,
`Refund`, `Available`/`Acquire`, `Alive` (`active_locks`), `Release`. Only today's
counter is ever read, so `uses[c][f]` is today's row and midnight resets it. A lock is
the age of its row, or `NoRow`; ages beyond the stale limit are not told apart. The
other modules extend this one.

### UserJobs

A request is a thread that runs through `pc`, one action per commit: read the row and
decide (`Load`), sweep (`Sweep`, `SweepWrite`), lock (`TakeLock`, `TakeRankingLocks`),
charge, write "queued", submit, and the undo steps when the queue is full. A job is
named after the request that queued it and runs through `job`: it waits in the queue, is
taken by a worker, loads its row, works, stores its outcome and releases its locks.
`seen` and `cache` are the sessions' copies, and `Flush` is what an ORM flush of such a
copy writes. What a job computes is left out: it succeeds, fails, or never ends. The
requests cover `generate-description`, the two ranking refreshes, the profile save, the
draft save and the poll.

`Faults` chooses what can go wrong in an instance: `overrun` (a lock outlives the stale
limit in its holder's hands), `database` (a statement fails), `crash`, `midnight`.

### Pitches

A plain pitch is one thread. A stream has four: the request that sets it up and the
`events()` generator (`step`), the worker that writes the pitch (`gen`), the thread that
deletes the lock row (`releaser`), and the background task after the response. The
pieces of the text are left out, as only the last event matters. `slots` holds the age
of each stream's slot. The brand's follow-up is one flag per creator here; its own life
is in `OwnBrands`.

### OwnBrands

A lookup (`POST /own-brands`) takes the lock, looks for the brand, creates or reuses a
job and queues it; a double click goes through `Twin`. The user job reads the brand once
(`Inspect`), scrapes, asks the LLM and writes what its copy says is empty. The page
polls (`Poll`, `ReportStale`). A pitch claims the follow-up with a row lock
(`ClaimRead`, `ClaimWrite`) and runs its steps. The fields a pitch needs are one value,
`profile`: empty, there before, or the lookup that filled it. Whether the queue has room
and when a worker is free is decided nondeterministically, since `UserJobs` models that
queue.

### Services: the small services of the API

Each module has its own variables, and its requests run through steps, one per
transaction. They share nothing, so `Services` lets one of them (`part`) act in a
behaviour: their state spaces add up instead of multiplying.

* `Accounts`: one account and every request that writes its password or its sessions. A
  password is named after the request that set it and a token after the version and the
  password it was obtained with, so a session of a former password can be told. `seen`
  is the row as a request read it. `LinkOpen` takes the row lock of a reset or invite
  link (`FOR UPDATE`), `ResetWrite` and `AcceptWrite` spend it. The counters of failures
  are read before the slow check and raised after it. `outdated` records that a version
  was computed from a row changed since (`token_version + 1` in a reset, the admin's
  form, a rehash).
* `PitchEdits`: one stored pitch, edited by requests that decide on the row they read
  (`readRow`); the session writes only the columns they changed (`Applied`).
* `Contacts`: a day's reveals under the advisory lock, the three ways to be entitled to
  a brand's contact, and a midnight.
* `CreatorPosts`: the posts of a creator, added by copy or fetch, marked, deleted,
  stored by a generated description, emptied with a new username. A deletion counts the
  posts in one step and deletes in another, as in the code.
* `NicheCache`: `get_or_compute` step by step; `value` is the version of the table an
  answer was computed from. The thumbnail cache of `creator_posts.py` has the same
  shape.
* `RequestLimits`: the two middlewares around an application that reads, answers, goes
  on after its answer, raises or is cancelled. The chunk that takes a body over the
  limit becomes a disconnect; later ones are passed on to whoever still reads.
* `MatchRules`: filters, taglines and points of one creator and one brand, as functions
  of what the tables say (no state but the input and the verdict). Points are in
  thousandths and the score in ten-thousandths, so that rounding is exact. `sure` says
  whether a partnership is above the confidence the taglines ask for.
* `Rankings`: the runs that replace a creator's AI ranking, batch by batch, and the
  pages and dashboard that read it; a page lists the stored rows by rank.

### Pipeline: the batch side

* `OperatorJobs`: `_start_operator_job` stores a row and then queues it (`OpStore`,
  `OpSubmit`); the worker sets it running whatever was reported of it meanwhile
  (`OpBegin`); a poll purges and reports (`OpPoll`).
* `LlmPromise` is what callers of the LLM client count on: a call is sent a bounded
  number of times within a bounded time, ends, and ends in one of three ways. `LlmCalls`
  is the client: attempts, timeouts cut to the remaining deadline, pauses, streamed
  calls, and the breaker the threads share. It implements the promise under the mapping
  at its end.
* `Fetching`: the direct fetch, and the Firecrawl window all threads share, whose waiter
  sleeps with the lock held. `LinkPages`: the site behind a shortener or a page of
  links. A link page is known by its domain, or by the fingerprint of its HTML (kind
  "custom"); each test is made where the code makes it.
* `Enrichment`: a brand's row as the marks its steps leave, what each of the nine steps
  selects and may write, and the four runners: drain, by brand ids, the operator's
  signals, and reverse engineering. Calls fail now and then (`EnrFaults` bounds how
  often) or for a brand every time (`fails` in its row), quotas end, the LLM becomes
  unavailable, and a run may stop at any point; the next one goes on from the rows.
* `YoutubeSearch`, `PostScrape`, `BrandScore`, `BrandSignals`, `ContactSearch`,
  `GeoReach`: one step each, in detail - keys that run out, commits per post, points and
  bands, the order of contacts (a person a search gives twice is stored once), the crawl
  of a site, whose queue holds each link with its weight and the order of its discovery.
  `PostScrape` keeps `instagram_users` as a row for each post with the username it was
  first stored under, since the upsert of a known post does not change it.
* `CreatorDiscovery`, `PartnerScrape`, `BrandProfiles`, `ContentChecks`: the
  reverse-engineering scripts - which usernames count as handled, which posts a refresh
  misses, whose website is kept, how many checks a proxy carries.

`Enrichment` and the module of a step each have a view of their own of the row they
share: the first knows when the step runs, the second what it does. In `Pipeline`, as in
`Services`, one part acts in a behaviour.

The `MC` modules hold the constants of the instances. Definitions whose comment says
"Mutant" are variants of the code, used to see that each property can fail.

## Runs

| Run | What it shows | Bounds, and why they are enough |
|---|---|---|
| `user_jobs` | Exclusion, no pending status without a worker, exact counting, the cap, with crashes at every step | Two creators, three requests and a poller, a queue of one, a cap of one: a full queue, a busy lock, a used-up cap and a competitor of either kind all occur. Creators meet only in the queue, so a third adds nothing. |
| `both_rankings` | The same with both rankings active, where a save needs two locks and a refresh one; the job at work is the one the row names; a charge means a queued job; and the types | Two requests compete and a poller sweeps; midnight may fall anywhere. |
| `hung_jobs` | Every pending status ends although jobs may hang and statements fail | Stale limit of one tick, one worker. Fairness below. |
| `sweep_race` | *finding*: the sweep overwrites an outcome | |
| `superseded` | *finding*: the job-id guard compares the session's own copy | |
| `pitches` | Open streams stay within the bound, nothing is left held, the cap holds over plain and streamed pitches, a claimed follow-up runs | Two streams and a plain pitch of one creator with one slot and two uses, deadline and grace of one tick: the deadline falls before, between and after all steps of the worker. |
| `pitch_overlap` | *finding*: the second deletion of the lock row lets two pitches overlap | Three streams are needed: one to delete, one to lose its lock, one to enter. |
| `own_brands` | One lookup at a time, lock and use given back, one follow-up per job, a polled job ends, under crash, database and pool faults | Two lookups of one handle and two pitches: double click, repeat after failure, two jobs for one brand. |
| `own_brand_fields` | *finding*: a field that was filled is overwritten | Two creators, one brand without a profile. |
| `own_brand_paid_twice` | *finding*: two follow-ups pay for the same step | Two creators, one complete brand, one paid step. |
| `services` | Sessions end with their password, links work once, sent pitches keep their day, the minimum of posts, the reveals of a day, cache and places within bounds, one answer per request, sound matches and rankings | Three requests on one account (two that race and one whose session or link they may break), limits of one or two; two edits of a pitch; three posts with bounds 2..3; three requests for two brands and one reveal; two keys, one place and a TTL of two ticks in the cache; three requests with one slow place, bodies of up to three chunks with a limit of one, so that a chunk follows the refusal; creators and brands on both sides of each threshold of the matching; three ranked brands in batches of one. |
| `pipeline` | One fresh operator job per kind and an end for each poll; the promise of the LLM client; the pace of services; marks only for work done; conclusions that stand on what was found; runs that end and leave nothing | Three operator jobs of two kinds, a queue of one; three calls (one streamed) with two tries and a deadline of four ticks, so that tries, pauses and the breaker overlap; three fetches over five ticks at one per two; two brands, videos or posts that share a creator; two brands for the runners, each as it was found or as an earlier run left it half done, with calls that succeed or fail every time, and one run over them with one more failure or stop at any point; two proxies left early twice between round pauses (`MaxEarlyRounds`); inputs on both sides of each band. |

`pitches`, the `own_brand*` runs, `services` and `pipeline` say `CHECK_DEADLOCK FALSE`:
their requests, calls and runs are finitely many, and after the last one nothing is left
to happen. In `UserJobs` the pollers go on for ever, so deadlock is checked there.
Symmetry is used only in runs without liveness, over requests that are not pollers
(`services`: the requests of the account).

Some properties of `services` and `pipeline` are the conjunction of one property per
module, named after what they have in common: `PaceKept`, `MarkedMeansDone`,
`ConclusionsStand`, `MatchesSound`. Each conjunct is stated and explained in the module
of its component, and has a mutant of its own.

Bounds that are the model's own: ages are capped one above the limit they are compared
with; a request or lookup is made once (a retry is another request); one tick is the
unit of every limit, so only their order is kept; a creator's pitches of a run concern
one brand in `Pitches`.

### Fairness

`HungSpec` (`UserJobs`): request threads are scheduled, a page keeps polling (strong
fairness of the poll's two sweep steps: a database error may hit one poll, not every
poll for ever), the clock ticks and a stopped process is started again. A job has *no*
fairness at all, since it may hang. That is what the code promises to survive: the next
poll after the stale limit reports the job. `FairSpec` (`OwnBrands`): requests, polls,
the clock, and also the user job, whose scrape is limited to 90 seconds (`request_path`)
and whose LLM call to `OPENAI_CALL_DEADLINE_SECONDS`; a job that was dropped for want of
a connection is never run, and a poll must end it.

`OperatorJobsFairness`: a request that stored its job queues it, the page keeps polling,
the clock ticks, and the worker takes the next job when it is free. A job at work has no
fairness: it may hang, and the poll must still end. `LlmCallsFairness`: every thread
goes on, and a request ends because it carries a timeout. `EnrichmentFairness`: a run is
one process that goes on; the calls it makes have timeouts, so each succeeds or fails.
It does not ask that any of them succeeds: a brand may fail every time. `LlmPromised`
includes the promise's own fairness, that a call which was asked for is sent or ends.

### Assumptions

* `Tick` in `OwnBrands`, and in `UserJobs` without the fault `overrun`, does not let a
  lock pass the stale limit while its holder works (an hour, against jobs of minutes).
  `OneHolder` and `OneLookupAtWork` are false without it: the code then hands the lock
  on by design.
* In `Pitches`, statements before a stream opens end within the 60 seconds of grace
  (their timeout is 15 seconds), and the event loop serves a deadline in time.
* A disconnect is noticed and the background task runs, unless the fault `lost` says
  otherwise.
* Some variables only remember what happened; no action reads them but for a bound. A
  property that holds only while something did not happen names it, and the code does
  not close these cases: `outdated` (a write over an account row that was not read:
  `SessionsKnowPassword`), `datedDraft` and `crossed` together (a pitch recorded as not
  sent but with a date, and an edit committed to another row than it had read:
  `SentHasDate`), `renamed` (posts emptied for a new username: `MinimumKept`), `cut` (a
  lookup ended by a statement that raised or by a restart: `UsesAccounted`), `cutOff`
  (stored posts whose brand check was stopped or not answered: `MarkedMeansDone`).
  `atOnce` and `earlyRounds` are numbers a bound is stated in: deletions under way at
  once, rounds of proxies begun early. `lost`, `dismissed`, `beyond`, `resolvedSite`,
  `evidencedBy` and `clean` record what a call left out, what a lookup found or whether
  a run met a failure.
* The newest posts an Instagram account shows do not change while `PostScrape` runs
  (`PostsOf`, `ShownBy`), and the posts of a creator's partners are stored under that
  creator alone in `PartnerScrape`.
* One runner script at a time works on a table: an operator starts them by hand, or one
  after another through `OperatorJobs`.
* An LLM request ends within the timeout it carries, and a Firecrawl request is sent in
  the tick its slot was taken. API keys are set. Commenters are not scraped
  (`SCRAPE_COMMENTERS`, as shipped).
* Whether a brand is eligible for a step of `BrandProfiles` and `GeoReach` does not
  change while the step runs; the batch of a promotion (50) holds all its usernames.
* The `ASSUME`s of the modules say what the constants stand for: positive limits, finite
  sets of requests, rows with ids that are numbers, tables whose rows have the types of
  their columns (`MatchRules`, `Enrichment`, `BrandScore`, `BrandSignals`, `LinkPages`,
  `BrandProfiles`), answers of the shape the code reads (`ContactSearch`), posts that are
  numbered in the order of their days (`PartnerScrape`), brands that are seeded being
  brands (`OwnBrands`), and that the model's words for "nobody" and "nothing" are no
  names. They describe what the code's settings and tables can hold. `BrandSignals` also
  takes the profile it finds to be one an earlier run wrote: only
  `compute_creator_tier_profile` writes the columns in question.

## Findings

Five runs are expected to end in a violation; `PROJECT.json` quotes the line each
contradicts.

1. `sweep_race`: `sweep_stale` fails a job on the strength of an old copy of its row.
2. `superseded`: the guard against a superseded job cannot see the new job's id.
3. `pitch_overlap`: a stream's lock row is deleted twice, the second time perhaps under
   the next stream.
4. `own_brand_fields`: a value filled during the scrape and the LLM call is overwritten.
5. `own_brand_paid_twice`: two creators' first pitches for a brand both start its
   follow-up.

The following was met while modelling, is in the models, and has no run of its own,
because no line of the repository promises the opposite or a run above shows the like:

* `apollo_contacts.py:499` creates the `brand_match_profile` row whose existence the
  runners take for "signals done" (`run_end_to_end_pipeline.py:200`, `283`):
  `brand_signals` is not run for a brand that Apollo handled before. A profile row
  written before `LLMUnavailableError` has the same effect: the embedding is not
  computed on resume.
* `drain_youtube_sponsorships` selects brands which the step's own filter leaves out
  (referrals, a high geo reach) and goes round with them, as it does with a brand whose
  searches fail every time; a brand whose signals always raise keeps
  `drain_brand_signals` going in the same way. `RunEnds` names these brands `Stuck`, and
  TLC reaches them; every other run ends.
* `creator_posts.py:25`: "a user always keeps at least this many posts". Two deletions
  that count before either commits both pass, and leave one post less. `MinimumKept`
  says how far below the minimum overlapping deletions can lead, and no other call.
* `update_pitch`: of a pitch recorded by hand as not sent but with a date, one edit
  clears the date while another, which has read it, marks the pitch sent
  (`pitches.py:358-366`): a sent pitch without its day.
* `body_limits.py:5` stops a request at the limit; a chunk after the refusal is returned
  to an application that reads on, as `counting_receive` looks at `refused` first (:79).
* `own_brands.py:101-105`: when the queue is full and the commit before the refund
  raises, or the process stops there, the lookup stays charged.
* `facebook_branded_content_checker.py:80-82` promises a long pause once every proxy has
  had its batch. `_rotate_proxy_now` takes the step from the last proxy to the first
  without it, so with one proxy, or with failures at the right places, an address serves
  several batches in a row, above the 17-20 checks the comment names.
* `instagram_users.py:731-738` updates only the collaborators of a post it knows. A
  creator all of whose posts are stored under other usernames, or carry no id, gets no
  row, `_link_to_brand` (:482-490) says nothing, and the brand's post is marked as
  scraped (:827): the creator is lost for this brand.
* `brand_signals.py:339-341` promises a real 0.0 for a brand without activity. Meta Ads
  counts a fixed 15 of 75 points, so that no activity is below 20.0.
* `brand_instagram_profile.py:398-402`: "Never save a shortener / link-in-bio URL". The
  domain is tested everywhere, the fingerprint only of the page a profile's URL leads
  to: a link page under a custom domain is saved when it comes from the links of a page
  (:418), from the search (:507), or could not be read. So it is in `link_pages.py`,
  where `_is_candidate` (:107) looks at the domain alone.
* `run_brand_signals` filters on a score of 30 where its log and docs say 50; the
  docstrings of `discover_collaborator_creators.py` and `promote_brand_post_creators.py`
  name other confidence limits than the code. 49.5 points are stored as 50 with the band
  of 49.5.
* An Apollo search that failed leaves an empty marker and is not repeated; an aborted
  Meta step returns the number of brands that are left; a batch of YouTube returns its
  size even when all failed.
* A refresh in `content_creator_re.py` brand-checks only posts that were not stored
  before: those, it says, "were brand-checked on an earlier scrape" (:499-500). Posts
  stored before an interruption were not, and are not checked again (`cutOff`). A check
  without usable answer counts as "no brands".
* `PartnerScrape`, `CreatorDiscovery`: `content_creator_re.username` is not unique, so
  two scripts, or a script and a bulk-add, may insert one creator twice.
* Wikidata's full match on a bare row overwrites a website the profile lookup had found
  (`WebsitesSettled` allows it); a geo reach stays when the website is replaced later.
* A ranking run replaces the stored ranking although some of its batches failed: their
  brands are missing until the next run.
* Parallel attempts overshoot the login limits by the requests in flight; a rehash, a
  reset and the admin's form may overwrite an account change they did not read. A change
  between the read and the write of a reset leaves a session of the old password in
  force (both arrive at one version), and a rehash may bring the old password back.
* An operator job reported stale is set running again when its turn comes, before its
  successor (`OneFreshJobPerKind` only says that it does not count as young again).

## Proofs

Eight modules hold the theorems; each EXTENDS the modules it speaks of. All lemmas about
counting rest on `FiniteSetTheorems`; where an argument needs a least or a last element
of a set of numbers (the row with the smallest id, the last post), it is taken with
`WFMin` of `WellFoundedInduction`. Unless an entry says otherwise a theorem has no
hypothesis but the `ASSUME`s of its module, which the runs evaluate.

| Module | Theorem | States, for every instance |
|---|---|---|
| `UserJobsProofs` | `TypeCorrect` | `TypeOK` |
| | `MutualExclusion` | `OneHolder`, without the fault `overrun` |
| | `NoTwoWorkers` | `OneRunPerKind`, without `overrun` |
| | `RowNamesTheJob` | `AtWorkIsCurrent`, without `overrun` |
| | `PendingIsOwned` | `PendingHasWorker`, without `overrun` and `database` |
| | `ChargeHasJob` | `ChargedForAJob`, without `database` and `crash` |
| | `CounterExact`, `ChargedWithinCap` | `UsesAccounted` and `CapHolds`, without `midnight` |
| `PitchesProofs` | `TypeCorrect`, `CapHolds` | `TypeOK`, `WrittenWithinCap` |
| | `SlotsBoundStreams`, `RestsEmpty`, `DoneLeavesNoClaim` | `StreamsBounded`, `NothingLeft`, `DoneRanFollowup` |
| `OwnBrandsProofs` | `TypeCorrect`, `OneLookup`, `LocksFreed` | `TypeOK`, `OneLookupAtWork`, `LockFreed` |
| | `UsesExact`, `OneRunner` | `UsesAccounted`, `OneRunnerPerJob` |
| `AccountsProofs` | `TypeCorrect`, `SessionsEnd`, `OneUsePerLink` | types, `SessionsKnowPassword`, `LinksWorkOnce` |
| `ServicesProofs` | `EditsTypeCorrect`, `DatesKept` | types and `SentHasDate` of `PitchEdits` |
| | `ContactsTypeCorrect`, `RevealsCapped` | types and `RevealsWithinCap` of `Contacts` |
| | `PlacesExact`, `AnsweredOnce` | `PlacesCounted`, `OneAnswer` |
| | `MinimumStands`, `CacheHolds` | `MinimumKept`, `CacheFreshAndBounded` |
| | `MatchesExplained`, `ServicesTypeCorrect` | `MatchesSound`, `ServicesTypeOK` |
| `OperatorJobsProofs` | `TypeCorrect`, `OneJobPerKind` | types, `OneFreshJobPerKind` |
| `PipelineProofs` | `LlmTypeCorrect`, `KeepsPromise` | `LlmCalls` implements the safety part of `LlmPromise` |
| | `PipelineTypes`, `PaceIsKept`, `MarkedIsDone` | `PipelineTypeOK`, `PaceKept`, `MarkedMeansDone` |
| | `RunsLeaveNothing`, `ConclusionsFollow` | `CleanRunLeavesNothing`, `ConclusionsStand` |

`UsageLimitsProofs` has the lemmas on the two tables (every operation keeps their types)
which the modules that use the tables share.

### Where faults are excluded

A theorem of `UserJobs` names the faults under which it would be false, and each is a
behaviour of the code: with `overrun` the stale limit hands a lock on while its holder
works; with `database` a status may be written whose outcome is not; with `crash` or
`database` a request may end between its charge and its job; with `midnight` the counter
starts anew. All other faults are allowed: `MutualExclusion`, `NoTwoWorkers` and
`CounterExact` hold through crashes, restarts and failed statements.

### The invariants

Few of these properties are inductive as they stand. What each needs:

* `UserJobs`. `TypeInv` adds to `TypeOK` which operations reach which steps of a request
  or job. `LockInv` (for `OneHolder`): a held lock has a row younger than the stale
  limit, two requests of one creator hold disjoint sets, nobody holds anything while the
  process is down. Taking a lock needs `Available`, false only for a live row
  (`LockTaken`); giving one back removes rows its holder owns (`LockGiven`). `ChargeInv`
  ties every step to whether its request is charged; with it `CountInv` counts uses,
  each step moving the counter and the set of the charged by the same request. `WorkInv`
  follows the locks from the request into its job and keeps the queue's jobs apart, so
  that who works still holds its lock. `FreshInv` and `NamedInv`: an id that was not yet
  written is in no row and no session's copy, so that undoing a full queue (which writes
  the id of an older copy) never brings back another's. `ReadInv` and `OwnedInv`: who
  queues a job has not read a pending row, hence whoever writes "queued" or "running" is
  the one who owes the outcome, and only giving it takes that away.
* `Pitches`. `PaidWithinUses` counts every request past `consume`, not only the written
  ones; `SlotInv` bounds the age of a slot by how long its stream has been open, so that
  `_StreamSlots.acquire` never drops the slot of a stream at work; `HeldInv` and
  `LockInv` name for each slot and lock row who still gives it back (rows name no owner,
  so somebody of that creator); `ReplyInv` orders "done", the end of the worker and the
  claim.
* `OwnBrands`. `RowsInv`: a row that is referred to exists and a job is queued by the
  last step of its lookup. `LockInv` gives a lookup at work a lock that is not stale and
  every lock row a lookup; `ChargeInv` says which steps come before the charge and
  `AnswerInv` that who is charged and lets go has a job to tell of, or was cut short;
  `RunnerInv` that claims in the making are of different jobs as well, since the claim
  marks its job started under the row lock.
* `Accounts`. `SessionsInv` says of every token and of every row a request remembers
  that its version is at most the account's, and that the same version means the same
  password. `LinksInv`: links are named after requests that are over, and a link that
  was used is held under its row lock or spent until another replaces it.
* `PitchEdits`: `EditsInv` says of every edit to be committed what it does to the row it
  has read: applied to that row it keeps the date of a sent pitch (`SoundInTurn`), and
  unless a draft was recorded with a date it does so for any row the pitch may have
  moved on to (`SafeChange`). `Contacts`: a request between its count and its insert
  knows that the count is still true, because it has the advisory lock.
  `RequestLimits`: `PlacesInv` identifies the counter with the set of holders;
  `AnswerInv` counts that every chunk but the one over the limit was given, and that
  nothing was sent to who was neither refused nor begun to be answered. `CreatorPosts`:
  every deletion under way is of one post, and the posts less the deletions under way
  never fall below the bound, so committing one changes nothing in it. `NicheCache`:
  `CacheInv` bounds how long ago a value at each step of its way was true, and says that
  there is one entry per key.
* `Rankings`: `RunInv` (batches share no brand, the scored were taken from them) makes
  the stored rows one per brand; `InOrder` says that their ranks are those of `Better`,
  a strict order (`BetterOrder`); the page's list is then increasing in rank.
  `MatchRules` needs no invariant but that the verdict was computed from the pair it is
  shown for; the rest is arithmetic on the rules.
* `OperatorJobs`: `JobsInv` adds that a job waits in one place at most, and that the row
  of one that waits says "queued" or is past the stale limit: otherwise the worker could
  make a job that was reported failed count again, beside its successor.
* `LlmCalls` implements `LlmPromise` action by action; behind it is `InTime`: elapsed
  time and what a request or a pause may still take stay within the deadline.
* `Fetching`: `PaceInv` says that the window holds the slots of the whole last minute,
  so that no minute sees more posts than slots. `ContentChecks`: with a batch on every
  proxy for each round that began early, the proxy at work carries no more than the
  checks since the pause above that, those after it none, and those before it a batch.
* `YoutubeSearch`: the brand at work is neither marked nor to come, and a call of its
  turn that was not answered is counted, so that the turn does not mark it.
  `PostScrape`: what a brand or post at work need no longer handle is stored or linked.
  `CreatorDiscovery`: every account a row of the batch names is handled, queued or
  failed; the lemma `BatchCovers` shows that an account named by several rows is queued
  by the first. `PartnerScrape`: posts appear in order, so that what a scrape misses
  lies before the last post it stored.
* `Enrichment`: `CleanInv` says what a run without a failure has behind it: nothing is
  left to do in the steps before the present one, and in a scoped batch nothing outside
  of what is to come. It is inductive because no step makes work for one before it
  (`DoneWith`); with the YouTube step before those that find a brand's name it is not.
* `GeoReach`: `CrawlOK` says of the crawl what `ReachFounded` says of the row: what was
  read was visited and is of one site, nothing is read of a page of links, and codes or
  a score come from pages. `LinkPages`, `BrandScore` and `BrandProfiles`: the result
  follows from the input, by cases over the functions that compute it.
* `ContactSearch` has the result of the input as well, but the input is of any length:
  `ListedByOrder` shows that listing a finite set by how many elements come before each
  puts every element in one place, for any total order; `RankedIs`, `LeftOutIs` and
  `RankAllIs` follow the ranking through its three steps, and `PaidIs` shows that the
  paid calls are a head of it.
* `BrandSignals`: `SumUnfolds` opens the fold behind the averages, `SumExists` builds the
  function it defines from the subsets of n elements to those of n + 1, and `SumBetween`
  bounds it by taking a smallest subset that breaks the bound. `RoundBetween` (rounding
  half to even stays between whole numbers) and `TiersGrow` then place the average and
  the tier; `TierAgrees` is in the invariant for the profile an earlier run left.

In `Services` and `Pipeline` one part acts at a time; the theorems about them put the
invariants of the parts together (`PartsBegin`, `PartsGoOn`).

### Only model-checked

* Liveness: `PendingResolves`, `LookupResolves`, `OperatorJobResolves`, `RunEnds`, and
  that of `LlmPromised`. Liveness under fairness is outside what the proof system
  handles.
* The five findings, which are counterexamples.

## Not modelled

* What an LLM, Apify, YouTube or a scraper returns (a choice), prompts (`prompts.py`),
  wording, and the SQL of reads.
* A `release_lock` that fails is in `UserJobs` and `Pitches` (fault `database`), not in
  `OwnBrands`.
* The executors' own start and stop (`_ensure_threads`, `shutdown`): a restart loses the
  queue, which is modelled.
* Endpoints without state of their own: status pages, brand pages, plain logout, the
  sign-up to the waiting list (one insert); `must_change_password`, which gates other
  routes.
* Migrations, grants and settings: text and SQL run once by one process.
* Seeding and its sources: parsing and one insert. `rate_intelligence.py`,
  `contract_advice.py`, `brand_detail.py`: computations and prompts for one page; a
  restatement of the tables of rates would have nothing to be compared with.
* `hunter_verify.py`, `linkedin_verify.py`, `creator_niches.py`, `creator_signals.py`,
  `brand_tier.py`, `brand_branded_content_check.py`, the batch scripts in
  `src/run_*_batch.py` and the one-off scripts: single passes an operator starts by
  hand, in no runner's order.
* The scraping of commenters, which is switched off.

## Plan

What is left, in order of worth:

1. The start and stop of the executor's threads, with a submit that races a shutdown.
2. Several runner scripts at once on the same rows.
3. The order of the migration steps, and a migration that is interrupted.
