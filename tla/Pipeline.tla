------------------------------ MODULE Pipeline ------------------------------
(***************************************************************************)
(* The batch pipeline: the jobs an operator starts, what every step calls  *)
(* (LLM, pages), the enrichment steps with their order, and the            *)
(* reverse-engineering scripts.  The modules share no variable (Enrichment *)
(* and the module of a step have views of their own of the row they        *)
(* share), so one acts in a behaviour and the others stay as they began.   *)
(***************************************************************************)
EXTENDS OperatorJobs, LlmCalls, Fetching, LinkPages, YoutubeSearch, PostScrape, BrandSignals, ContactSearch,
        Enrichment, CreatorDiscovery, PartnerScrape, BrandProfiles, ContentChecks, GeoReach

VARIABLE acting    \* the part of the pipeline that acts

PipelineParts ==
    {"operator jobs", "llm", "fetching", "link pages", "youtube", "posts", "scores", "signals", "contacts",
     "steps", "discovery", "partners", "profiles", "content checks", "reach"}

pipelineVars == <<acting, operatorJobsVars, llmCallsVars, fetchingVars, linkPagesVars, youtubeVars, postScrapeVars,
                  brandScoreVars, brandSignalsVars, contactSearchVars, enrichmentVars, discoveryVars,
                  partnerVars, profilesVars, checksVars, geoVars>>

SomeLink == CHOOSE p \in LinkInputs : TRUE
SomeEvidence == CHOOSE e \in ScoreInputs : TRUE
SomeRows == CHOOSE r \in SignalInputs : TRUE
SomeSearch == CHOOSE s \in ContactInputs : TRUE
SomeRow == CHOOSE r \in EnrRows : TRUE

\* A part that does not act has one state, one of its initial states.
AtRest(p, state) == acting = p \/ state

PipelineInit ==
    /\ acting \in PipelineParts
    /\ OperatorJobsInit
    /\ AtRest("llm", llmKey = TRUE) /\ LlmCallsInit
    /\ FetchingInit
    /\ AtRest("link pages", linkPage = SomeLink) /\ LinkPagesInit
    /\ YoutubeInit
    /\ PostScrapeInit
    /\ AtRest("scores", evidence = SomeEvidence) /\ BrandScoreInit
    /\ AtRest("signals", signalRows = SomeRows /\ profileRow = NoProfile) /\ BrandSignalsInit
    /\ AtRest("contacts", contactSearch = SomeSearch) /\ ContactSearchInit
    /\ AtRest("steps", rowOf = [b \in EnrBrands |-> SomeRow]) /\ EnrichmentInit
    /\ CreatorDiscoveryInit
    /\ PartnerScrapeInit
    /\ AtRest("profiles", brandRow = [b \in ReBrands |-> BareRow]) /\ BrandProfilesInit
    /\ ContentChecksInit
    /\ AtRest("reach", geoSite = LinkSite) /\ GeoReachInit

PipelineNext ==
    /\ UNCHANGED acting
    /\ \/ /\ acting = "operator jobs" /\ OperatorJobsNext
          /\ UNCHANGED <<llmCallsVars, fetchingVars, linkPagesVars, youtubeVars, postScrapeVars,
                         brandScoreVars, brandSignalsVars, contactSearchVars, enrichmentVars,
                         discoveryVars, partnerVars, profilesVars, checksVars, geoVars>>
       \/ /\ acting = "llm" /\ LlmCallsNext
          /\ UNCHANGED <<operatorJobsVars, fetchingVars, linkPagesVars, youtubeVars, postScrapeVars,
                         brandScoreVars, brandSignalsVars, contactSearchVars, enrichmentVars,
                         discoveryVars, partnerVars, profilesVars, checksVars, geoVars>>
       \/ /\ acting = "fetching" /\ FetchingNext
          /\ UNCHANGED <<operatorJobsVars, llmCallsVars, linkPagesVars, youtubeVars, postScrapeVars,
                         brandScoreVars, brandSignalsVars, contactSearchVars, enrichmentVars,
                         discoveryVars, partnerVars, profilesVars, checksVars, geoVars>>
       \/ /\ acting = "link pages" /\ LinkPagesNext
          /\ UNCHANGED <<operatorJobsVars, llmCallsVars, fetchingVars, youtubeVars, postScrapeVars,
                         brandScoreVars, brandSignalsVars, contactSearchVars, enrichmentVars,
                         discoveryVars, partnerVars, profilesVars, checksVars, geoVars>>
       \/ /\ acting = "youtube" /\ YoutubeNext
          /\ UNCHANGED <<operatorJobsVars, llmCallsVars, fetchingVars, linkPagesVars, postScrapeVars,
                         brandScoreVars, brandSignalsVars, contactSearchVars, enrichmentVars,
                         discoveryVars, partnerVars, profilesVars, checksVars, geoVars>>
       \/ /\ acting = "posts" /\ PostScrapeNext
          /\ UNCHANGED <<operatorJobsVars, llmCallsVars, fetchingVars, linkPagesVars, youtubeVars,
                         brandScoreVars, brandSignalsVars, contactSearchVars, enrichmentVars,
                         discoveryVars, partnerVars, profilesVars, checksVars, geoVars>>
       \/ /\ acting = "scores" /\ BrandScoreNext
          /\ UNCHANGED <<operatorJobsVars, llmCallsVars, fetchingVars, linkPagesVars, youtubeVars,
                         postScrapeVars, brandSignalsVars, contactSearchVars, enrichmentVars,
                         discoveryVars, partnerVars, profilesVars, checksVars, geoVars>>
       \/ /\ acting = "signals" /\ BrandSignalsNext
          /\ UNCHANGED <<operatorJobsVars, llmCallsVars, fetchingVars, linkPagesVars, youtubeVars,
                         postScrapeVars, brandScoreVars, contactSearchVars, enrichmentVars,
                         discoveryVars, partnerVars, profilesVars, checksVars, geoVars>>
       \/ /\ acting = "contacts" /\ ContactSearchNext
          /\ UNCHANGED <<operatorJobsVars, llmCallsVars, fetchingVars, linkPagesVars, youtubeVars,
                         postScrapeVars, brandScoreVars, brandSignalsVars, enrichmentVars, discoveryVars,
                         partnerVars, profilesVars, checksVars, geoVars>>
       \/ /\ acting = "steps" /\ EnrichmentNext
          /\ UNCHANGED <<operatorJobsVars, llmCallsVars, fetchingVars, linkPagesVars, youtubeVars,
                         postScrapeVars, brandScoreVars, brandSignalsVars, contactSearchVars,
                         discoveryVars, partnerVars, profilesVars, checksVars, geoVars>>
       \/ /\ acting = "discovery" /\ CreatorDiscoveryNext
          /\ UNCHANGED <<operatorJobsVars, llmCallsVars, fetchingVars, linkPagesVars, youtubeVars,
                         postScrapeVars, brandScoreVars, brandSignalsVars, contactSearchVars,
                         enrichmentVars, partnerVars, profilesVars, checksVars, geoVars>>
       \/ /\ acting = "partners" /\ PartnerScrapeNext
          /\ UNCHANGED <<operatorJobsVars, llmCallsVars, fetchingVars, linkPagesVars, youtubeVars,
                         postScrapeVars, brandScoreVars, brandSignalsVars, contactSearchVars,
                         enrichmentVars, discoveryVars, profilesVars, checksVars, geoVars>>
       \/ /\ acting = "profiles" /\ BrandProfilesNext
          /\ UNCHANGED <<operatorJobsVars, llmCallsVars, fetchingVars, linkPagesVars, youtubeVars,
                         postScrapeVars, brandScoreVars, brandSignalsVars, contactSearchVars,
                         enrichmentVars, discoveryVars, partnerVars, checksVars, geoVars>>
       \/ /\ acting = "content checks" /\ ContentChecksNext
          /\ UNCHANGED <<operatorJobsVars, llmCallsVars, fetchingVars, linkPagesVars, youtubeVars,
                         postScrapeVars, brandScoreVars, brandSignalsVars, contactSearchVars,
                         enrichmentVars, discoveryVars, partnerVars, profilesVars, geoVars>>
       \/ /\ acting = "reach" /\ GeoReachNext
          /\ UNCHANGED <<operatorJobsVars, llmCallsVars, fetchingVars, linkPagesVars, youtubeVars,
                         postScrapeVars, brandScoreVars, brandSignalsVars, contactSearchVars,
                         enrichmentVars, discoveryVars, partnerVars, profilesVars, checksVars>>

PipelineSpec ==
    /\ PipelineInit /\ [][PipelineNext]_pipelineVars
    /\ OperatorJobsFairness /\ LlmCallsFairness /\ EnrichmentFairness

-----------------------------------------------------------------------------
PipelineTypeOK ==
    /\ acting \in PipelineParts
    /\ OperatorJobsTypeOK /\ LlmCallsTypeOK /\ FetchingTypeOK /\ YoutubeTypeOK /\ PostScrapeTypeOK
    /\ EnrichmentTypeOK /\ DiscoveryTypeOK /\ PartnerTypeOK /\ ProfilesTypeOK /\ ChecksTypeOK /\ GeoTypeOK

\* The services the pipeline calls are called at their pace: Firecrawl within its rate per
\* minute whatever the threads (http.py), each proxy of the Branded Content checker a
\* batch between pauses, and one more for each time the last proxy was left in the middle
\* of its batch (facebook_branded_content_checker.py).
PaceKept == RateKept /\ ProxiesRest

\* What is marked as done was done, however calls fail, quotas end and runs stop: the
\* searches of YouTube, the scrapes of posts and of their creators that have a row, the
\* usernames of a row, the posts between two scrapes that no stop left unchecked.
MarkedMeansDone == CheckedWasAnswered /\ ScrapesFinished /\ RowsHandled /\ PostsAccounted

\* What the steps conclude stands on what they found: the site behind a link, the score and
\* its band, the contacts' order, the profile for the matching, the websites and the reach.
ConclusionsStand ==
    /\ ResolvedIsTheBrands /\ ScoresInBand /\ ContactsRanked
    /\ SignalsAgree /\ WebsitesSettled /\ ReachFounded
=============================================================================
