------------------------------ MODULE Rankings ------------------------------
(***************************************************************************)
(* llm_ranking_v2.py and llm_ranking_v3.py of one creator, the pages that  *)
(* show the stored rankings (app.py) and the count on the dashboard        *)
(* (dashboard.py), while brands are blocked and unblocked.  That at most   *)
(* one run of a ranking is at work is UserJobs' concern.                   *)
(***************************************************************************)
EXTENDS Integers, FiniteSets, SequencesExt

CONSTANTS
    RankBrands,         \* numbered nearest first by embedding
    GenderMatches,      \* brands the gender filter of v1 and v2 lets through
    MaxRanked,          \* _MAX_BRANDS
    RankBatch,          \* _BATCH_SIZE
    Confidences,
    MinMatchConfidence

ASSUME RankingsAssumption ==
    /\ IsFiniteSet(RankBrands) /\ RankBrands \subseteq Nat /\ GenderMatches \subseteq RankBrands
    /\ MaxRanked \in Nat /\ RankBatch \in Nat \ {0}
    /\ Confidences \subseteq 0 .. 100 /\ MinMatchConfidence \in 0 .. 100

VARIABLES
    blocked,    \* brands that fail the brand-only hard filters (geo, referral, niche)
    ranked,     \* the stored rows of each version
    ranking     \* the run at work: its batches and what the LLM scored

rankingsVars == <<blocked, ranked, ranking>>

Versions == {"v2", "v3"}
NoRanking == [version |-> "none", batches |-> {}, scored |-> {}]
ScoredBrands == [brand : RankBrands, confidence : Confidences]

RankingsTypeOK ==
    /\ blocked \subseteq RankBrands
    /\ ranked \in [Versions -> SUBSET [brand : RankBrands, confidence : Confidences,
                                       rank : 1 .. Cardinality(RankBrands)]]
    /\ ranking \in [version : Versions \cup {"none"}, batches : SUBSET SUBSET RankBrands,
                    scored : SUBSET ScoredBrands]

RankingsInit ==
    /\ blocked = {} /\ ranking = NoRanking
    /\ ranked = [v \in Versions |-> {}]

Place(b, brands) == Cardinality({c \in brands : c < b})

\* hard_filtered_brands: v3 leaves the gender filter to the LLM.
RankCandidates(v) ==
    LET pass == IF v = "v3" THEN RankBrands \ blocked ELSE GenderMatches \ blocked
    IN {b \in pass : Place(b, pass) < MaxRanked}

BatchesOf(brands) ==
    {{c \in brands : Place(c, brands) \div RankBatch = Place(b, brands) \div RankBatch} : b \in brands}

StartRanking(v) ==
    /\ ranking = NoRanking
    /\ ranking' = [version |-> v, batches |-> BatchesOf(RankCandidates(v)), scored |-> {}]
    /\ UNCHANGED <<blocked, ranked>>

\* _rank_batch: brands of the batch the LLM scored, perhaps none.
BatchRanked(batch) ==
    /\ batch \in ranking.batches
    /\ \E some \in SUBSET batch : \E score \in [some -> Confidences] :
         ranking' = [ranking EXCEPT !.batches = @ \ {batch},
                       !.scored = @ \cup {[brand |-> b, confidence |-> score[b]] : b \in some}]
    /\ UNCHANGED <<blocked, ranked>>

\* LLMUnavailableError in a batch: the stored ranking stays.
RankingUnavailable ==
    /\ ranking.batches # {}
    /\ ranking' = NoRanking
    /\ UNCHANGED <<blocked, ranked>>

Better(r, s) == r.confidence > s.confidence \/ (r.confidence = s.confidence /\ r.brand < s.brand)

RowsOf(scored) ==
    {[brand |-> s.brand, confidence |-> s.confidence,
      rank |-> 1 + Cardinality({r \in scored : Better(r, s)})] : s \in scored}

\* Mutant: the rows are upserted by brand, those of brands not scored stay.
UpsertRanking ==
    LET v == ranking.version
    IN /\ v # "none" /\ ranking.batches = {}
       /\ ranked' = [ranked EXCEPT ![v] =
            RowsOf(ranking.scored) \cup {r \in @ : \A s \in ranking.scored : s.brand # r.brand}]
       /\ ranking' = NoRanking
       /\ UNCHANGED blocked

\* rank_brands_with_llm(_v3): the creator's rows are deleted and the new ones inserted.
StoreRanking ==
    LET v == ranking.version
    IN /\ v # "none" /\ ranking.batches = {}
       /\ ranked' = [ranked EXCEPT ![v] = RowsOf(ranking.scored)]
       /\ ranking' = NoRanking
       /\ UNCHANGED blocked

\* Geo reach, a referral code or an avoided niche found, or withdrawn.
BlockOrUnblock(b) ==
    /\ blocked' = IF b \in blocked THEN blocked \ {b} ELSE blocked \cup {b}
    /\ UNCHANGED <<ranked, ranking>>

\* Mutant: what the stored ranking holds is shown as it is.
StoredRows(v) == {r \in ranked[v] : v = "v3" => r.confidence >= MinMatchConfidence}

\* _ai_matches_response
ShownRows(v) ==
    {r \in ranked[v] : r.brand \notin blocked /\ (v = "v3" => r.confidence >= MinMatchConfidence)}

ShownList(v) ==
    LET rows == ShownRows(v)
    IN CHOOSE l \in [1 .. Cardinality(rows) -> rows] :
         IsInjective(l) /\ \A i, j \in DOMAIN l : i < j => l[i].rank <= l[j].rank

\* get_dashboard_summary: brand_matches
BrandMatches ==
    Cardinality({r.brand : r \in {q \in ranked["v3"] : q.confidence >= MinMatchConfidence}} \ blocked)

RankingsNext ==
    \/ \E v \in Versions : StartRanking(v)
    \/ \E batch \in SUBSET RankBrands : BatchRanked(batch)
    \/ RankingUnavailable \/ StoreRanking
    \/ \E b \in RankBrands : BlockOrUnblock(b)

-----------------------------------------------------------------------------
\* The list of matches is best first and nearest first among equals, names no brand twice
\* and none that is blocked now, is never a mix of two runs, and is as long as the dashboard
\* says, whatever failed in a run and whichever brands were blocked since (app.py:2036-2085,
\* dashboard.py:20-32, llm_ranking_v2.py:165-202).
ShownIsRanked ==
    /\ \A v \in Versions :
         /\ \A i, j \in DOMAIN ShownList(v) : i < j => Better(ShownList(v)[i], ShownList(v)[j])
         /\ \A r, s \in ShownRows(v) : r # s => r.brand # s.brand /\ r.rank # s.rank
         /\ \A r \in ShownRows(v) : r.brand \notin blocked
    /\ BrandMatches = Cardinality(ShownRows("v3"))
=============================================================================
