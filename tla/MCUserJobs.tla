---------------------------- MODULE MCUserJobs ----------------------------
(* Small instances of UserJobs for TLC: the kinds, caps and tasks of each. *)
EXTENDS UserJobs, TLC

CONSTANTS a, b   \* creators

Insta == "description:instagram"
Tube == "description:youtube"
Rank2 == "ranking:v2"
Rank3 == "ranking:v3"

InstaAndRankings == {Insta, Rank2, Rank3}
InstaAndRank3 == {Insta, Rank3}

MCFeatures == {"description_generation", "match_refresh"}
CapOne == [f \in MCFeatures |-> 1]
CapTwo == [f \in MCFeatures |-> 2]

Generate(c, k) == [op |-> "generate", c |-> c, k |-> k]
Refresh(c, k) == [op |-> "refresh", c |-> c, k |-> k]
Profile(op, c) == [op |-> op, c |-> c, k |-> None]

\* One creator asks for everything, ranking v2 being paused as in the code.
Everything ==
    {Generate(a, Insta), Refresh(a, Rank3), Profile("save", a), Profile("draft", a), Profile("view", a)}

\* One of each, for the runs that check liveness.
SaveOrGenerate == {Generate(a, Insta), Profile("save", a), Profile("view", a)}

\* Generations of two creators, and a profile save that competes with one of them.
TwoCreators ==
    {Generate(a, Insta), Generate(b, Insta), Profile("save", a), Profile("view", a)}

\* Both rankings are active: a save needs both locks, a refresh one of them.
Competing ==
    {Generate(a, Insta), Refresh(a, Rank2), Refresh(a, Rank3), Profile("save", a), Profile("view", a)}

Symmetric == Permutations(Requests \ Viewers)
=============================================================================
