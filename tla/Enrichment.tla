----------------------------- MODULE Enrichment -----------------------------
(***************************************************************************)
(* The runners of the enrichment steps: run_end_to_end_pipeline.py over    *)
(* all brands ("drain") or those of a niche ("scoped"), the operator's     *)
(* enrichment/orchestrator.py ("signals") and run_reverse_engineering.py   *)
(* over the brands it found ("reverse").  A step is what it selects and    *)
(* what it may write on a brand's row; a run may stop anywhere, and the    *)
(* next one goes on from what the rows say.                                *)
(***************************************************************************)
EXTENDS Integers, Sequences, FiniteSets

CONSTANTS
    EnrBrands,     \* brands_raw
    EnrRows,       \* the rows a brand may begin with
    EnrModes,      \* runners: a set of "drain", "scoped", "signals", "reverse"
    EnrBatch,      \* limit of a batch
    EnrRuns,       \* bound: runs
    EnrFaults      \* bound: calls that fail now and then

VARIABLES
    rowOf,         \* for each brand its row, with what the other tables hold of it, and the
                   \* steps whose calls for it fail every time
    runner,        \* the run at work: mode, step, phase, todo, what the batch counted
    enrRuns,       \* runs so far
    enrFaults      \* failures so far

enrichmentVars == <<rowOf, runner, enrRuns, enrFaults>>

\* The steps that mark a row, and those that do not.
Flags == {"shopify", "wikidata", "tranco", "meta", "youtube", "instagram", "scoring"}
StepNames == Flags \cup {"users", "apollo", "signals"}

EnrRow == [site : BOOLEAN, name : BOOLEAN, qid : BOOLEAN, handle : BOOLEAN, fb : BOOLEAN, refferal : BOOLEAN,
           tier : {"none", "fit", "extreme"}, geo : {"none", "low", "high"},
           partner : {"none", "unsure", "confident"}, posts : {"none", "old", "recent"}, users : BOOLEAN,
           done : SUBSET Flags, score : {"none", "low", "high"},
           contact : BOOLEAN, profile : BOOLEAN, embedded : BOOLEAN, fails : SUBSET StepNames]

ASSUME EnrichmentAssumption ==
    /\ EnrRows \subseteq EnrRow /\ EnrModes \subseteq {"drain", "scoped", "signals", "reverse"}
    /\ EnrBatch \in Nat \ {0} /\ EnrRuns \in Nat /\ EnrFaults \in Nat

Standard == <<"shopify", "wikidata", "tranco", "youtube", "instagram", "users", "scoring", "apollo", "signals">>

\* Mutant: YouTube first, before the steps that find a brand's name.
YoutubeFirst(mode) ==
    IF mode \in {"drain", "scoped"}
      THEN <<"youtube", "shopify", "wikidata", "tranco", "instagram", "users", "scoring">>
      ELSE <<"wikidata", "shopify">>

\* The order of a runner's steps.
StepsOf(mode) ==
    IF mode \in {"drain", "scoped"} THEN Standard
    ELSE IF mode = "signals" THEN <<"wikidata", "shopify", "tranco", "meta", "youtube">>
    ELSE <<"wikidata", "shopify", "tranco", "youtube", "meta", "instagram", "users", "scoring">>

NoRun == [mode |-> "none", step |-> 0, phase |-> "load", todo |-> {}, counted |-> FALSE, quota |-> FALSE,
          clean |-> TRUE]

EnrichmentTypeOK ==
    /\ rowOf \in [EnrBrands -> EnrRow]
    /\ runner.mode \in EnrModes \cup {"none"} /\ runner.step \in 0 .. Len(Standard)
    /\ runner.phase \in {"load", "work"} /\ runner.todo \subseteq EnrBrands
    /\ {runner.counted, runner.quota, runner.clean} \subseteq BOOLEAN
    /\ enrRuns \in 0 .. EnrRuns /\ enrFaults \in 0 .. EnrFaults

EnrichmentInit ==
    /\ rowOf \in [EnrBrands -> EnrRows]
    /\ runner = NoRun
    /\ enrRuns = 0 /\ enrFaults = 0

-----------------------------------------------------------------------------
\* No referral, and geo reach unknown or within 0..40.
Open(r) == ~r.refferal /\ r.geo # "high"
\* A sponsorship of the last year, by a stored post or a partnership found in reverse.
Sponsors(r) == r.posts = "recent" \/ r.partner = "confident"

\* What a step's own query asks of a brand it is given by its id.
Takes(step, r) ==
    CASE step = "shopify"   -> r.site /\ r.tier # "extreme"
      [] step = "wikidata"  -> r.site /\ r.qid
      [] step = "tranco"    -> r.site
      [] step = "meta"      -> r.site /\ r.fb
      [] step = "youtube"   -> r.site /\ r.name /\ Open(r)
      [] step = "instagram" -> /\ r.handle /\ Open(r) /\ r.geo = "low" /\ r.tier = "fit"
                               /\ r.partner # "unsure" /\ "instagram" \notin r.done
      [] step = "users"     -> r.posts # "none" /\ ~r.users /\ r.geo = "low"
      [] step = "scoring"   -> Open(r) /\ Sponsors(r)
      [] OTHER              -> r.score # "none"

\* What it selects by itself.
Unchecked(step, r) ==
    /\ Takes(step, r)
    /\ CASE step = "scoring" -> r.site /\ {"shopify", "tranco"} \subseteq r.done /\ "scoring" \notin r.done
         [] step = "apollo"  -> r.site /\ ~r.contact
         [] OTHER            -> step \notin r.done

\* pending_youtube_ids and pending_brand_signal_ids ask for less, _pending_for_scoring for
\* more than the step, and a run over brand ids leaves the rest to the step's own query.
Pending(mode, step, r) ==
    IF mode = "drain" /\ step = "youtube"      THEN r.site /\ r.name /\ "youtube" \notin r.done
    ELSE IF mode = "drain" /\ step = "signals" THEN r.score = "high" /\ r.site /\ ~r.profile
    ELSE IF mode \in {"drain", "signals"}      THEN Unchecked(step, r)
    ELSE IF step = "scoring" THEN
       r.site /\ Flags \ {"scoring"} \subseteq r.done \cup (IF mode = "scoped" THEN {"meta"} ELSE {})
       /\ "scoring" \notin r.done
    ELSE IF step = "users"     THEN TRUE
    ELSE IF mode = "reverse"   THEN step = "instagram" => r.site
    ELSE IF step = "apollo"    THEN r.score = "high" /\ ~r.contact
    ELSE IF step = "signals"   THEN r.score = "high" /\ ~r.profile
    ELSE step \notin r.done

Found(known) == IF known THEN {TRUE} ELSE BOOLEAN

\* A shop's name is only replaced when Wikidata has not given it, an unreachable page is
\* checked and gives nothing.
ShopRows(r) ==
    {[r EXCEPT !.done = @ \cup {"shopify"}, !.handle = k.handle, !.fb = k.fb, !.name = k.name] :
        k \in [handle : Found(r.handle), fb : Found(r.fb), name : IF r.qid THEN {r.name} ELSE Found(r.name)]}

WikidataRows(r) ==
    {[r EXCEPT !.done = @ \cup {"wikidata"}, !.handle = k.handle, !.fb = k.fb] :
        k \in [handle : Found(r.handle), fb : Found(r.fb)]}

\* The rows a step may leave of one it has worked on.
Worked(step, r) ==
    IF step = "shopify"        THEN ShopRows(r)
    ELSE IF step = "wikidata"  THEN WikidataRows(r)
    ELSE IF step = "instagram" THEN {[r EXCEPT !.done = @ \cup {step}, !.posts = p] : p \in {r.posts, "old", "recent"}}
    ELSE IF step = "users"     THEN {[r EXCEPT !.users = TRUE]}
    ELSE IF step = "scoring"   THEN {[r EXCEPT !.done = @ \cup {step}, !.score = s] : s \in {"low", "high"}}
    ELSE IF step = "apollo"    THEN {[r EXCEPT !.contact = TRUE, !.profile = TRUE]}
    ELSE IF step = "signals"   THEN {[r EXCEPT !.profile = TRUE, !.embedded = TRUE]}
    ELSE {[r EXCEPT !.done = @ \cup {step}]}

Step == StepsOf(runner.mode)[runner.step]

NextStep(q) ==
    IF q.step < Len(StepsOf(q.mode))
      THEN [q EXCEPT !.step = @ + 1, !.phase = "load", !.todo = {}, !.counted = FALSE]
      ELSE [q EXCEPT !.step = 0, !.phase = "load", !.todo = {}, !.counted = FALSE]

\* main, run_signal_enrichment.  The calls go into a new day: the quota is there again.
StartRun(mode) ==
    /\ runner.step = 0
    /\ enrRuns < EnrRuns /\ enrRuns' = enrRuns + 1
    /\ runner' = [NoRun EXCEPT !.mode = mode, !.step = 1]
    /\ UNCHANGED <<rowOf, enrFaults>>

\* The brands of the next batch: some of the pending ones, or all of them by their ids.
LoadBatch ==
    /\ runner.step # 0 /\ runner.phase = "load"
    /\ LET pending == {b \in EnrBrands : Pending(runner.mode, Step, rowOf[b])}
       IN IF pending = {}
            THEN runner' = NextStep(runner)
            ELSE \E batch \in SUBSET pending :
                   /\ batch # {}
                   /\ IF runner.mode \in {"drain", "signals"}
                        THEN Cardinality(batch) = IF Cardinality(pending) < EnrBatch THEN Cardinality(pending) ELSE EnrBatch
                        ELSE batch = pending
                   /\ runner' = [runner EXCEPT !.phase = "work", !.todo = batch, !.counted = FALSE]
    /\ UNCHANGED <<rowOf, enrRuns, enrFaults>>

AtWork(b) == runner.step # 0 /\ runner.phase = "work" /\ b \in runner.todo

\* Wikidata and Tranco commit what they found for a batch at once.
TogetherSteps == {"wikidata", "tranco"}

Failing(b) == Takes(Step, rowOf[b]) /\ Step \in rowOf[b].fails

\* One brand goes through the step, or the step's query leaves it out.
WorkOn(b) ==
    /\ AtWork(b) /\ Step \notin TogetherSteps /\ ~Failing(b)
    /\ Step = "youtube" /\ Takes(Step, rowOf[b]) => ~runner.quota
    /\ IF Takes(Step, rowOf[b])
         THEN /\ \E r \in Worked(Step, rowOf[b]) : rowOf' = [rowOf EXCEPT ![b] = r]
              /\ runner' = [runner EXCEPT !.todo = @ \ {b}, !.counted = TRUE]
         ELSE /\ runner' = [runner EXCEPT !.todo = @ \ {b}]
              /\ UNCHANGED rowOf
    /\ UNCHANGED <<enrRuns, enrFaults>>

WorkTogether ==
    /\ runner.step # 0 /\ runner.phase = "work" /\ runner.todo # {} /\ Step \in TogetherSteps
    /\ \A b \in runner.todo : ~Failing(b)
    /\ LET taken == {b \in runner.todo : Takes(Step, rowOf[b])}
       IN /\ \E new \in [taken -> UNION {Worked(Step, rowOf[b]) : b \in taken}] :
               /\ \A b \in taken : new[b] \in Worked(Step, rowOf[b])
               /\ rowOf' = [b \in EnrBrands |-> IF b \in taken THEN new[b] ELSE rowOf[b]]
          /\ runner' = [runner EXCEPT !.todo = {}, !.counted = taken # {}]
    /\ UNCHANGED <<enrRuns, enrFaults>>

Fault ==
    /\ enrFaults < EnrFaults /\ enrFaults' = enrFaults + 1
    /\ UNCHANGED enrRuns

\* As every time, or this once.
Fails(b) ==
    \/ Failing(b) /\ UNCHANGED <<enrRuns, enrFaults>>
    \/ Fault

\* A call fails or the brand raises: it is left as it is and not counted.
BrandFails(b) ==
    /\ AtWork(b) /\ Step \notin TogetherSteps /\ Takes(Step, rowOf[b])
    /\ Fails(b)
    /\ runner' = [runner EXCEPT !.todo = @ \ {b}, !.clean = FALSE]
    /\ UNCHANGED rowOf

\* Wikidata marks a batch that failed, Tranco without its list does nothing; neither counts it.
BatchFails ==
    /\ runner.step # 0 /\ runner.phase = "work" /\ runner.todo # {} /\ Step \in TogetherSteps
    /\ \E b \in runner.todo : Fails(b)
    /\ rowOf' = [b \in EnrBrands |-> IF b \in runner.todo /\ Step = "wikidata" /\ Takes(Step, rowOf[b])
                                       THEN [rowOf[b] EXCEPT !.done = @ \cup {Step}] ELSE rowOf[b]]
    /\ runner' = [runner EXCEPT !.todo = {}, !.clean = FALSE]

\* A key of Apollo or Meta is refused: the rest of the batch is left, and Meta counts it.
StepAborts(b) ==
    /\ AtWork(b) /\ Step \in {"apollo", "meta"} /\ Takes(Step, rowOf[b])
    /\ Fails(b)
    /\ runner' = [runner EXCEPT !.clean = FALSE, !.counted = @ \/ Step = "meta",
                                !.todo = IF runner.mode \in {"drain", "signals"} THEN {} ELSE @ \ {b}]
    /\ UNCHANGED rowOf

\* LLMUnavailableError ends the run; by brand ids (run_per_brand) it only ends the brand.
\* The signals before the embedding are stored, and the profile's row with them.
LlmUnavailable(b) ==
    /\ AtWork(b) /\ Takes(Step, rowOf[b])
    /\ Step \in {"shopify", "youtube", "instagram", "users", "apollo", "signals"}
    /\ Fault
    /\ rowOf' = IF Step = "signals" THEN [rowOf EXCEPT ![b].profile = TRUE] ELSE rowOf
    /\ runner' = IF runner.mode \in {"drain", "signals"} \/ Step = "users"
                   THEN [NoRun EXCEPT !.mode = runner.mode, !.clean = FALSE]
                   ELSE [runner EXCEPT !.todo = @ \ {b}, !.clean = FALSE]

\* Mutant: the quota is not asked for, the drain goes on with the next brand.
QuotaIgnored(q) == [q EXCEPT !.phase = "work"]

\* drain_youtube_sponsorships leaves the step, a batch of the step itself ends.
AfterQuota(q) ==
    IF q.mode = "drain" THEN NextStep(q)
    ELSE IF q.mode = "signals" THEN [q EXCEPT !.todo = {}]
    ELSE q

\* Every key has run out: each call of the step gives the same, today.
QuotaOut(b) ==
    /\ AtWork(b) /\ Step = "youtube" /\ Takes(Step, rowOf[b])
    /\ runner' = AfterQuota([runner EXCEPT !.todo = @ \ {b}, !.quota = TRUE, !.clean = FALSE])
    /\ UNCHANGED <<rowOf, enrRuns, enrFaults>>

\* A drain takes another batch: while the step counts brands, or until its ids are gone.
EndBatch ==
    /\ runner.step # 0 /\ runner.phase = "work" /\ runner.todo = {}
    /\ runner' = IF runner.mode = "drain" /\ (runner.counted \/ Step \in {"youtube", "signals"})
                   THEN [runner EXCEPT !.phase = "load"]
                   ELSE NextStep(runner)
    /\ UNCHANGED <<rowOf, enrRuns, enrFaults>>

\* The process is stopped; what was committed stays.
StopRun ==
    /\ runner.step # 0
    /\ Fault
    /\ runner' = [NoRun EXCEPT !.mode = runner.mode, !.clean = FALSE]
    /\ UNCHANGED rowOf

RunnerGoesOn ==
    \/ LoadBatch \/ WorkTogether \/ BatchFails \/ EndBatch
    \/ \E b \in EnrBrands : WorkOn(b) \/ BrandFails(b) \/ QuotaOut(b)

EnrichmentNext ==
    \/ \E mode \in EnrModes : StartRun(mode)
    \/ LoadBatch \/ WorkTogether \/ EndBatch \/ BatchFails \/ StopRun
    \/ \E b \in EnrBrands : WorkOn(b) \/ QuotaOut(b) \/ BrandFails(b) \/ StepAborts(b) \/ LlmUnavailable(b)

\* A run is one process that goes on; calls have timeouts, and succeed or fail.
EnrichmentFairness == WF_enrichmentVars(RunnerGoesOn)

-----------------------------------------------------------------------------
\* Two drains take another batch until no brand is selected, whatever the step did:
\* drain_youtube_sponsorships with a brand that the step never does, since its own query
\* leaves it out or its calls fail every time, and drain_brand_signals with one whose
\* signals fail every time.  Such a loop has no end, unless YouTube's quota runs out.
Stuck(b) ==
    /\ runner.mode = "drain" /\ runner.step # 0 /\ Pending("drain", Step, rowOf[b])
    /\ \/ Step = "youtube" /\ ~Takes("youtube", rowOf[b])
       \/ Step \in {"youtube", "signals"} /\ Failing(b)

\* Every other run ends, with brands whose calls fail every time as with failures now and
\* then, and when the quota runs out: the rest of the drains repeat a step only while that
\* makes some brand less to do, the other runners take each brand once
\* (run_end_to_end_pipeline.py:233-378).
RunEnds == (runner.step # 0) ~> (runner.step = 0 \/ \E b \in EnrBrands : Stuck(b))

\* A run over all brands or a niche that met no failure leaves nothing it could do: no
\* step makes work for one before it, whatever earlier runs left half done
\* (run_end_to_end_pipeline.py:214-230, 380-405).
CleanRunLeavesNothing ==
    runner.step = 0 /\ runner.clean /\ runner.mode \in {"drain", "scoped"} =>
        \A b \in EnrBrands : \A n \in DOMAIN Standard :
            ~(Pending(runner.mode, Standard[n], rowOf[b]) /\ Takes(Standard[n], rowOf[b]))
=============================================================================
