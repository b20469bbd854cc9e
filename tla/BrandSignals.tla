---------------------------- MODULE BrandSignals ----------------------------
(***************************************************************************)
(* enrichment/brand_signals.py: what the matching knows of a brand's       *)
(* collaborators, of their audience and of its activity, and the text that *)
(* is embedded.  Shares are in thousandths, the activity in tenths.        *)
(***************************************************************************)
EXTENDS BrandScore, FiniteSets, Functions, FiniteSetsExt

CONSTANTS
    SignalInputs,    \* [subs, creators, linked, videos, posts, platforms, embeds]
    SignalBefore,    \* the profile an earlier run may have left
    SignalCountries  \* how many of an audience's countries are kept (5)

Unset == -1
NoProfile == [avg |-> [yt |-> Unset, ig |-> Unset], low |-> [yt |-> Unset, ig |-> Unset],
              high |-> [yt |-> Unset, ig |-> Unset], tier |-> "unset",
              male |-> Unset, female |-> Unset, ages |-> <<>>, countries |-> <<>>,
              platforms |-> {}, activity |-> Unset, text |-> {}]

\* bucket_creator_tier
TierOf(count) ==
    IF count < 10000 THEN "nano" ELSE IF count < 100000 THEN "micro" ELSE IF count < 500000 THEN "macro" ELSE "mega"

Between(low, value, high) == (low = Unset /\ value = Unset /\ high = Unset) \/ (low <= value /\ value <= high)
TierNames == <<"nano", "micro", "macro", "mega">>
Rank(tier) == CHOOSE n \in DOMAIN TierNames : TierNames[n] = tier

\* The averages lie in their ranges, the typical tier between those of the smallest and the
\* largest collaborator.
TierAgrees(p) ==
    /\ \A on \in {"yt", "ig"} : Between(p.low[on], p.avg[on], p.high[on])
    /\ p.tier # "unset" => Rank(p.tier) \in Rank(TierOf(Min({p.low.yt, p.low.ig} \ {Unset})))
                                            .. Rank(TierOf(Max({p.high.yt, p.high.ig})))

\* The tables give counts.  An earlier run left what it wrote; of its activity, which is
\* overwritten unread, Unset stands for any.
ASSUME BrandSignalsAssumption ==
    /\ SignalCountries \in Nat \ {0}
    /\ \A rows \in SignalInputs :
         /\ rows.subs \in Seq(Nat)
         /\ IsFiniteSet(rows.creators) /\ \A row \in rows.creators : row.followers \in Nat \cup {Unset}
         /\ rows.videos \in [count : Nat, days : Nat, subs : Nat]
         /\ rows.posts \in [count : Nat, days : Nat, creators : Nat, mid : BOOLEAN]
    /\ \A p \in SignalBefore : DOMAIN p = DOMAIN NoProfile /\ p.activity = Unset /\ TierAgrees(p)

VARIABLES
    signalRows,      \* a brand's rows in the tables of the steps before
    profileRow       \* brand_match_profile

brandSignalsVars == <<signalRows, profileRow>>

\* Python's round of n / d: half to even.
RoundEven(n, d) ==
    LET down == n \div d
        twice == 2 * (n % d)
    IN IF twice > d \/ (twice = d /\ down % 2 = 1) THEN down + 1 ELSE down

\* A creator stored for a qualifying post of the brand, named on one, or found by the
\* reverse engineering; of the last only some roles, and never a commenter.
Collaborated(row) ==
    /\ row.followers # Unset
    /\ \/ row.role # "commenter" /\ row.via \cap {"post", "named"} # {}
       \/ row.role = "creator" /\ "reverse" \in row.via

\* Mutant: the followers of each row, whoever it belongs to.
FollowersByRow(rows) == [row \in {r \in rows : Collaborated(r)} |-> row.followers]

\* The most followers of each creator, whose rows may spell the name differently.
FollowersOf(rows) ==
    LET counting == {r \in rows : Collaborated(r)}
    IN [name \in {r.name : r \in counting} |-> Max({r.followers : r \in {s \in counting : s.name = name}})]

SumOf(counts) == FoldFunction(LAMBDA a, b : a + b, 0, counts)
Average(counts) == IF DOMAIN counts = {} THEN Unset ELSE RoundEven(SumOf(counts), Cardinality(DOMAIN counts))
Least(counts) == IF DOMAIN counts = {} THEN Unset ELSE Min(Range(counts))
Greatest(counts) == IF DOMAIN counts = {} THEN Unset ELSE Max(Range(counts))

\* compute_creator_tier_profile: without any count the profile keeps what it had.
WithTier(profile, rows) ==
    LET yt == rows.subs
        ig == FollowersOf(rows.creators)
        number == Cardinality(DOMAIN yt) + Cardinality(DOMAIN ig)
    IN IF number = 0 THEN profile
       ELSE [profile EXCEPT !.avg = [yt |-> Average(yt), ig |-> Average(ig)],
                            !.low = [yt |-> Least(yt), ig |-> Least(ig)],
                            !.high = [yt |-> Greatest(yt), ig |-> Greatest(ig)],
                            !.tier = TierOf(RoundEven(SumOf(yt) + SumOf(ig), number))]

\* How often `value' is among the known ones, in thousandths.
KnownOf(users, field) == {n \in DOMAIN users : users[n][field] # "unknown"}
Number(users, field, value) == Cardinality({n \in DOMAIN users : users[n][field] = value})
Share(users, field, value) ==
    IF KnownOf(users, field) = {} THEN Unset
    ELSE RoundEven(1000 * Number(users, field, value), Cardinality(KnownOf(users, field)))

\* Counter.most_common: by number, equal numbers in the order of their first user.
MostCommon(users, field) ==
    LET values == {users[n][field] : n \in KnownOf(users, field)}
        First(value) == Min({n \in DOMAIN users : users[n][field] = value})
        Ahead(a, b) == \/ Number(users, field, a) > Number(users, field, b)
                       \/ Number(users, field, a) = Number(users, field, b) /\ First(a) <= First(b)
        Place(value) == Cardinality({other \in values : Ahead(other, value)})
    IN [n \in 1 .. Cardinality(values) |-> CHOOSE value \in values : Place(value) = n]

\* compute_audience_demographics: without linked users the profile keeps what it had.
WithAudience(profile, users) ==
    LET countries == MostCommon(users, "country")
    IN IF users = <<>> THEN profile
       ELSE [profile EXCEPT !.male = Share(users, "gender", "male"), !.female = Share(users, "gender", "female"),
                            !.ages = MostCommon(users, "age"),
                            !.countries = SubSeq(countries, 1, Min({SignalCountries, Len(countries)}))]

\* compute_sponsorship_activity: the points of YouTube, Instagram and Meta Ads out of 75.
\* Meta Ads counts its fixed 15 points.
Activity(videos, sponsored) ==
    (40 * (YoutubePoints(videos) + InstagramPoints(sponsored) + MetaAdsPoints) + 3) \div 6

\* build_brand_embedding_text: a clause for each field that is known.
EmbeddingText(p) ==
    {IF p.activity >= 700 THEN "highly active" ELSE IF p.activity >= 300 THEN "moderate" ELSE "limited"}
    \cup (IF p.male >= 600 THEN {"mostly male"} ELSE IF p.female >= 600 THEN {"mostly female"}
          ELSE IF p.male = Unset /\ p.female = Unset THEN {} ELSE {"balanced"})
    \cup (IF p.ages = <<>> THEN {} ELSE {p.ages[1]})
    \cup {p.countries[n] : n \in 1 .. Min({3, Len(p.countries)})}
    \cup (IF p.tier = "unset" THEN {} ELSE {p.tier})
    \cup p.platforms

\* One brand of run_brand_signals; without a vector the text stays the one it was.
Signals(profile, rows) ==
    LET known == [WithAudience(WithTier(profile, rows), rows.linked) EXCEPT
                    !.platforms = rows.platforms, !.activity = Activity(rows.videos, rows.posts)]
    IN IF rows.embeds THEN [known EXCEPT !.text = EmbeddingText(known)] ELSE known

BrandSignalsInit ==
    /\ signalRows \in SignalInputs
    /\ profileRow \in SignalBefore

BrandSignalsNext ==
    /\ profileRow' = Signals(profileRow, signalRows)
    /\ UNCHANGED signalRows

-----------------------------------------------------------------------------
\* A profile agrees with itself whatever an earlier run left in it: the averages lie in
\* their ranges; the range on Instagram spans the creators, each with its largest count,
\* however many rows it has; the typical tier is no smaller than that of the smallest
\* collaborator and no larger than that of the largest; the activity is a part of 100, and a
\* text embedded in this run tells the tier and the platforms (brand_signals.py:107-238, 328-518).
SignalsAgree ==
    LET p == profileRow
        names == {r.name : r \in {s \in signalRows.creators : Collaborated(s)}}
        Largest(name) == Max({r.followers : r \in {s \in signalRows.creators : Collaborated(s) /\ s.name = name}})
    IN p.activity # Unset =>
        /\ TierAgrees(p)
        /\ names # {} => p.low.ig = Min({Largest(n) : n \in names}) /\ p.high.ig = Max({Largest(n) : n \in names})
        /\ p.activity \in 0 .. 1000
        /\ signalRows.embeds => (p.tier = "unset" \/ p.tier \in p.text) /\ p.platforms \subseteq p.text
=============================================================================
