----------------------------- MODULE BrandScore -----------------------------
(***************************************************************************)
(* enrichment/initial_brand_scoring.py: a brand's score from what the      *)
(* steps before have stored.  Points are counted in halves, as the code    *)
(* has 12.5 and 6.5 while the column total_score holds whole points.       *)
(***************************************************************************)
EXTENDS Integers, Sequences

CONSTANTS
    ScoreVideos,     \* what the videos of a brand give: [count, days, subs]; days = Undated if none has a date
    ScorePosts,      \* its qualifying posts: [count, days, creators, mid]
    ScoreSites,      \* its site: [rank, shop, socials]; rank = Unranked if it has none
    ScoreGates       \* [refferal, geo]; geo = NotScored if it has none

\* Counts, days, ranks and followers are natural numbers; without a date or a rank the
\* words below stand in.
ASSUME BrandScoreAssumption ==
    /\ ScoreVideos \subseteq [count : Nat, days : Nat, subs : Nat]
    /\ ScorePosts \subseteq [count : Nat, days : Nat, creators : Nat, mid : BOOLEAN]
    /\ \A site \in ScoreSites : site.rank \in Nat

VARIABLES
    evidence,        \* the brand's rows
    scoreRow         \* initial_brand_score, or NoScore

brandScoreVars == <<evidence, scoreRow>>

Undated == 10000
Unranked == 10000000
NotScored == -1
NoScore == [total |-> -1, band |-> "none"]

\* The points of the first step whose limit is not exceeded.
StepPoints(value, steps) ==
    LET within == {i \in DOMAIN steps : value <= steps[i][1]}
    IN IF within = {} THEN 0 ELSE steps[CHOOSE i \in within : \A j \in within : i <= j][2]

Capped(points, cap) == IF points > cap THEN cap ELSE points

\* In halves, as all points below.
YoutubePoints(v) ==
    LET recency == StepPoints(v.days, <<<<30, 20>>, <<90, 16>>, <<180, 10>>, <<365, 6>>>>)
        number == IF v.count = 0 THEN 0 ELSE IF v.count <= 2 THEN 8 ELSE IF v.count <= 7 THEN 12 ELSE 16
        reach == IF v.subs >= 700000 THEN 14 ELSE IF v.subs >= 100000 THEN 10 ELSE IF v.subs >= 10000 THEN 6 ELSE 0
    IN Capped(recency + number + reach, 50)

InstagramPoints(p) ==
    LET recency == StepPoints(p.days, <<<<60, 25>>, <<120, 21>>, <<180, 15>>, <<365, 11>>>>)
        paid == IF p.count = 0 THEN 0 ELSE IF p.count <= 2 THEN 13 ELSE IF p.count <= 3 THEN 17 ELSE 23
        network == IF p.creators = 0 THEN 0 ELSE IF p.creators <= 3 THEN 9 ELSE 13
    IN Capped(recency + paid + network + (IF p.mid THEN 9 ELSE 0), 70)

\* Fixed while Meta Ads is disabled.
MetaAdsPoints == 30

LegitimacyPoints(site) ==
    LET tranco == IF site.rank = Unranked THEN 10
                  ELSE IF site.rank > 500000 THEN 12
                  ELSE StepPoints(site.rank, <<<<50000, 20>>, <<70000, 18>>, <<100000, 16>>, <<500000, 14>>>>)
        shop == CASE site.shop = "shopify" -> 14 [] site.shop = "woocommerce" -> 10 [] OTHER -> 8
        social == (IF "instagram" \in site.socials THEN 8 ELSE 0) + (IF "youtube" \in site.socials THEN 4 ELSE 0)
                  + (IF "facebook" \in site.socials THEN 4 ELSE 0)
    IN Capped(tranco + shop + social, 50)

Band(points) ==
    IF points >= 140 THEN "HOT" ELSE IF points >= 100 THEN "WARM" ELSE IF points >= 60 THEN "COOL" ELSE "COLD"

\* Mutant: a brand without a qualifying post is scored too.
GateOpenToAll(e) == ~e.gate.refferal /\ (e.gate.geo = NotScored \/ e.gate.geo \in 0 .. 40)

\* Not a referral, geo reach unknown or within 0..40, and a qualifying sponsorship.
GateOpen(e) == ~e.gate.refferal /\ (e.gate.geo = NotScored \/ e.gate.geo \in 0 .. 40) /\ e.posts.count > 0

\* score_brand: the band is that of the sum, the column gets the sum rounded half up.
ScoreBrand(e) ==
    LET sum == YoutubePoints(e.videos) + InstagramPoints(e.posts) + MetaAdsPoints + LegitimacyPoints(e.site)
    IN IF GateOpen(e) THEN [total |-> (sum + 1) \div 2, band |-> Band(sum)] ELSE NoScore

ScoreInputs == [videos : ScoreVideos, posts : ScorePosts, site : ScoreSites, gate : ScoreGates]

BrandScoreInit ==
    /\ evidence \in ScoreInputs
    /\ scoreRow = NoScore

\* run_brand_scoring
BrandScoreNext ==
    /\ scoreRow' = ScoreBrand(evidence)
    /\ UNCHANGED evidence

-----------------------------------------------------------------------------
\* The gate and the weights together: a score lies in 30..100, so none is COLD and the
\* filter total_score >= 30 of brand_signals.py:542 lets every scored brand through;
\* the band is that of the stored total, but for a sum half a point short of a band
\* (49.5 is COOL and stored as 50; initial_brand_scoring.py:348-355, 404-446).
ScoresInBand ==
    scoreRow # NoScore =>
        /\ scoreRow.total \in 30 .. 100
        /\ scoreRow.band # "COLD"
        /\ scoreRow.band = Band(2 * scoreRow.total) \/ scoreRow.total \in {50, 70}
=============================================================================
