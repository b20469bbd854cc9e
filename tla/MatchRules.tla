----------------------------- MODULE MatchRules -----------------------------
(***************************************************************************)
(* matching/matcher.py, match_text.py and scoring.py for one creator and   *)
(* one brand: is the brand shown, which taglines say why, and how many     *)
(* points they earn.  Points are in thousandths, the score, as it is       *)
(* rounded, in ten-thousandths; a niche, a gender or a tag is a name: case *)
(* and spaces are left out, and tags overlap when they are the same.  The  *)
(* taglines that only repeat a column (ages, the products' gender) are     *)
(* left out.                                                               *)
(***************************************************************************)
EXTENDS Integers, FiniteSets, FiniteSetsExt

CONSTANTS
    MatchPairs,     \* [creator, brand]: what the rows of the two say
    CoreNiches,     \* _CORE_NICHES
    AvoidedNiches,  \* _EXCLUDED_BRAND_NICHES
    SimilarMany,    \* 3: similar partners that count as many
    SameNicheMany   \* 5: partners of the creator's niche that count as many

ASSUME MatchRulesAssumption ==
    /\ CoreNiches \cap AvoidedNiches = {} /\ SimilarMany \in Nat \ {0} /\ SameNicheMany \in Nat \ {0}
    /\ \A p \in MatchPairs : IsFiniteSet(p.brand.partners) /\ p.brand.average \in Int /\ p.creator.followers \in Int

VARIABLES
    matchPair,      \* a creator and a brand
    verdict         \* shown or not, the taglines' groups, tier and total

matchRulesVars == <<matchPair, verdict>>

NotKnown == -1
NoVerdict == [shown |-> FALSE, groups |-> {}, tier |-> NotKnown, total |-> NotKnown]

-----------------------------------------------------------------------------
\* Who worked with the brand.  via: "post" a collaborator linked to it, "named" on one of
\* its posts only, "reverse" found by the reverse engineering; sure: on a post at 90 or more.
Collaborators(brand) == {p \in brand.partners : p.via = "post"}
ReverseOf(brand) == {p \in brand.partners : p.via = "reverse"}
SurePartners(brand) == {p \in brand.partners : p.sure}

\* apply_brand_hard_filters: what depends on the brand only.
BrandIsShowable(brand) ==
    /\ brand.geo \in 0 .. 40
    /\ ~brand.refferal
    /\ brand.sponsors
    /\ brand.niche \notin AvoidedNiches

\* The creator's followers against the brand's range, widened to a third and to the double.
InWidened(count, range) == range.low <= 3 * count /\ count <= 2 * range.high

PlatformFits(creator, brand) ==
    CASE creator.platform = "instagram" ->
           /\ brand.onInstagram # "no"
           /\ brand.instagram.low # NotKnown
           /\ creator.followers = NotKnown \/ InWidened(creator.followers, brand.instagram)
      [] creator.platform = "youtube" /\ creator.subscribers # NotKnown ->
           brand.youtube.low # NotKnown /\ InWidened(creator.subscribers, brand.youtube)
      [] OTHER -> TRUE

\* Mutant: the brand's own niche is not asked for.
ExemptByPartners(brand) ==
    LET niches == {p.niche : p \in {q \in SurePartners(brand) : q.via # "post"}} \ {"none"}
    IN niches # {} /\ niches \cap CoreNiches = {} /\ brand.niche \notin AvoidedNiches \cup {"none"}

\* _niche_exempt_brand_ids: a sure partner, named or found in reverse, has a niche, and
\* neither it nor the brand's is a core one.
NicheExempt(brand) ==
    LET niches == {p.niche : p \in {q \in SurePartners(brand) : q.via # "post"}} \ {"none"}
    IN niches # {} /\ (niches \cup {brand.niche}) \cap CoreNiches = {}

\* The collaborators and the reverse-engineered creators of one of the creator's niches.
OfTheirNiche(creator, brand) == {p \in Collaborators(brand) \cup ReverseOf(brand) : p.niche \in creator.niches}

NicheFits(creator, brand) ==
    creator.niches = {} \/ brand.niche \in creator.niches \/ OfTheirNiche(creator, brand) # {} \/ NicheExempt(brand)

\* _creator_gender_evidence
GenderFits(creator, brand) ==
    \/ creator.gender \notin {"male", "female"}
    \/ brand.audience \in {creator.gender, "both"}
    \/ \E p \in SurePartners(brand) : p.gender = creator.gender

\* Step A, _hard_filtered_query; v3 leaves out the gender.
HardFilters(creator, brand, withGender) ==
    /\ brand.named /\ brand.embedded
    /\ brand.activity = NotKnown \/ brand.activity > 0
    /\ BrandIsShowable(brand)
    /\ brand.tags \cap creator.avoids = {}
    /\ PlatformFits(creator, brand)
    /\ NicheFits(creator, brand)
    /\ withGender => GenderFits(creator, brand)

-----------------------------------------------------------------------------
Similar(brand) == {p.who : p \in {q \in brand.paid : q.similar}}

\* _recent_sponsorship_candidates: by the latest paid post of 180 days and its similar creators.
RecentPriority(brand) ==
    LET recent == {p \in brand.paid : p.age <= 180}
        latest == Min({p.age : p \in recent})
        similar == {p.who : p \in {q \in recent : q.age = latest /\ q.similar}}
        Of(many, one, noneOf) == IF Cardinality(similar) >= 2 THEN many ELSE IF similar # {} THEN one ELSE noneOf
    IN IF recent = {} THEN 0
       ELSE IF latest <= 30 THEN Of(100, 95, 82) ELSE IF latest <= 90 THEN Of(92, 90, 75) ELSE Of(85, 81, 71)

\* Within a quarter of the brand's average.
NearSize(creator, brand) ==
    /\ {brand.average, creator.followers} \cap {NotKnown, 0} = {}
    /\ 4 * Max({creator.followers - brand.average, brand.average - creator.followers}) <= brand.average

\* Thousandths of 5 points: all at the average, none a quarter away from it, and 50 parts
\* of 80 without a partner like the creator.
SizePoints(creator, brand) ==
    LET away == Max({creator.followers - brand.average, brand.average - creator.followers})
        alike == Similar(brand) # {} \/ \E p \in Collaborators(brand) : p.niche \in creator.niches
        close == (5000 * (brand.average - 4 * away)) \div brand.average
    IN IF ~NearSize(creator, brand) THEN 0 ELSE IF alike THEN close ELSE (close * 50) \div 80

SimilarPriority(creator, brand) ==
    LET sameNiche == {q \in Collaborators(brand) : q.sure /\ q.niche \in creator.niches}
    IN IF Cardinality(Similar(brand)) >= SimilarMany THEN 78
       ELSE IF Cardinality({p.who : p \in sameNiche}) >= SameNicheMany THEN 70
       ELSE IF Similar(brand) # {} THEN 65 ELSE 0

InRange(creator, brand) ==
    LET range == IF creator.platform = "youtube" THEN brand.youtube ELSE brand.instagram
        count == IF creator.platform = "youtube" THEN creator.subscribers ELSE creator.followers
    IN range.low # NotKnown /\ count # NotKnown /\ range.low <= count /\ count <= range.high

SameNiche(creator, brand) == brand.niche # "none" /\ brand.niche \in creator.niches

\* "Although it is a ... brand, it also sponsors creators in your niche".
Bridged(creator, brand) ==
    brand.niche # "none" /\ brand.niche \notin creator.niches /\ OfTheirNiche(creator, brand) # {}

\* score_match, _niche_creator_points: partners of the creator's niche, where the brand's is one too.
NicheCreatorPoints(creator, brand) ==
    LET number == Cardinality({p.who : p \in OfTheirNiche(creator, brand)})
    IN IF ~SameNiche(creator, brand) \/ number = 0 THEN 0 ELSE IF number = 1 THEN 4666 ELSE 7000

\* Mutant: the tier is taken from any partner, sure or not.
NicheTierOfAll(creator, brand) ==
    IF SameNiche(creator, brand)
      THEN IF \E p \in Collaborators(brand) \cup ReverseOf(brand) : p.niche = brand.niche THEN [tier |-> 3, points |-> 10000]
           ELSE [tier |-> 2, points |-> 5000]
      ELSE IF OfTheirNiche(creator, brand) # {} THEN [tier |-> 1, points |-> 2000] ELSE [tier |-> 0, points |-> 0]

\* _niche_tier
NicheTier(creator, brand) ==
    LET sure == {p \in OfTheirNiche(creator, brand) : p.sure}
        number == Cardinality({p.who : p \in sure})
    IN IF SameNiche(creator, brand)
         THEN IF \E p \in sure : p.niche = brand.niche THEN [tier |-> 3, points |-> 10000]
              ELSE [tier |-> 2, points |-> 5000]
         ELSE IF number > 0 THEN [tier |-> 1, points |-> Min({2000 * number, 10000})] ELSE [tier |-> 0, points |-> 0]

\* collect_match_reasons with score_match: the points of each group, in thousandths.
Points(creator, brand) ==
    [recent_partnership |-> 80 * RecentPriority(brand),
     niche_creators     |-> NicheCreatorPoints(creator, brand),
     similar_partners   |-> (6000 * SimilarPriority(creator, brand)) \div 78,
     same_niche         |-> IF SameNiche(creator, brand) THEN 5000 ELSE 0,
     creator_size       |-> SizePoints(creator, brand),
     follower_range     |-> IF InRange(creator, brand) THEN 4000 ELSE 0,
     verified_contact   |-> IF brand.contact THEN 4000 ELSE 0,
     tag_overlap        |-> IF brand.tags \cap creator.tags # {} THEN 2000 ELSE 0,
     youtube_sponsor    |-> IF brand.onYoutube THEN 2000 ELSE 0,
     brand_tier         |-> IF brand.tier = "lower-range" THEN 1000 ELSE IF brand.tier = "midlower-range" THEN 875 ELSE 0,
     latest_product     |-> IF brand.product THEN 1000 ELSE 0]

\* _target_gender_reason: a brand for the other gender speaks of partners of the creator's.
TellsGender(creator, brand) ==
    \/ brand.audience \in {"both", creator.gender} \ {"none"}
    \/ /\ brand.audience # "none" /\ creator.gender \in {"male", "female"}
       /\ \E p \in SurePartners(brand) : p.via # "named" /\ p.gender = creator.gender

\* The groups that have a text, in points or not.
Taglines(creator, brand) ==
    {g \in DOMAIN Points(creator, brand) \ {"niche_creators"} : Points(creator, brand)[g] > 0}
    \cup (IF NearSize(creator, brand) THEN {"creator_size"} ELSE {})
    \cup (IF Bridged(creator, brand) THEN {"niche_bridge"} ELSE {})
    \cup (IF TellsGender(creator, brand) THEN {"target_gender"} ELSE {})

\* The points of every group and of the tier, as a share of the second half.
Score(creator, brand) ==
    LET p == Points(creator, brand)
        sum == NicheTier(creator, brand).points + p.recent_partnership + p.niche_creators + p.similar_partners
               + p.same_niche + p.creator_size + p.follower_range + p.verified_contact + p.tag_overlap
               + p.youtube_sponsor + p.brand_tier + p.latest_product
    IN 5500 + (9 * sum) \div 110

\* One result of get_matches.
Match(creator, brand) ==
    IF HardFilters(creator, brand, TRUE)
      THEN [shown |-> TRUE, groups |-> Taglines(creator, brand), tier |-> NicheTier(creator, brand).tier,
            total |-> Score(creator, brand)]
      ELSE NoVerdict

MatchRulesInit == matchPair \in MatchPairs /\ verdict = NoVerdict

MatchRulesNext == verdict' = Match(matchPair.creator, matchPair.brand) /\ UNCHANGED matchPair

-----------------------------------------------------------------------------
\* The filters, the taglines and the tiers agree, though each asks the tables anew: a
\* brand of another niche that is shown says that it sponsors the creator's (but one of no
\* niche, or one exempt, which is of no core niche); the first tiers need a partner of
\* the creator's niche who is sure, and a score lies in 55%..100% (matcher.py:304-400, match_text.py:181-225,
\* scoring.py:104-215).
ShownIsExplained ==
    LET creator == matchPair.creator
        brand == matchPair.brand
    IN verdict.shown =>
        /\ creator.niches # {} /\ brand.niche \notin creator.niches \cup {"none"} =>
             "niche_bridge" \in verdict.groups \/ brand.niche \notin CoreNiches
        /\ verdict.tier \in {1, 3} => \E p \in brand.partners : p.sure /\ p.niche \in creator.niches
        /\ verdict.tier = 3 => {"same_niche"} \subseteq verdict.groups
        /\ verdict.tier = 1 => "niche_bridge" \in verdict.groups \/ brand.niche = "none"
        /\ verdict.total \in 5500 .. 10000
=============================================================================
