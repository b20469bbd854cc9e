----------------------------- MODULE MCServices -----------------------------
(* The instance of Services for TLC.                                       *)
EXTENDS Services, TLC

CONSTANTS c1, c2, c3

\* The requests of an account are told apart by nothing.
MCSymmetry == Permutations({c1, c2, c3})

\* Two posts of one username and one of another.
MCHandleOf == 1 :> "first" @@ 2 :> "first" @@ 3 :> "second"

\* Matches: the rules a few at a time around a pair that fits.
Partner(who, niche, gender, via, sure) == [who |-> who, niche |-> niche, gender |-> gender, via |-> via, sure |-> sure]
FitCreator ==
    [niches |-> {"beauty"}, gender |-> "female", platform |-> "instagram", followers |-> 1000, subscribers |-> 300,
     avoids |-> {"vape"}, tags |-> {"skin"}]
FitBrand ==
    [niche |-> "beauty", geo |-> 40, refferal |-> FALSE, sponsors |-> TRUE, named |-> TRUE, embedded |-> TRUE,
     activity |-> 20, onInstagram |-> "unset", instagram |-> [low |-> 900, high |-> 1100],
     youtube |-> [low |-> 100, high |-> 200], average |-> 1000, partners |-> {}, paid |-> {}, audience |-> "both",
     tags |-> {"skin"}, contact |-> TRUE, onYoutube |-> TRUE, tier |-> "lower-range", product |-> TRUE]
MCPartners ==
    {Partner("ann", n, "male", v, s) : n \in {"beauty", "games"}, v \in {"post", "reverse"}, s \in BOOLEAN}
    \cup {Partner("ben", "beauty", "female", "reverse", TRUE), Partner("ben", "none", "male", "named", TRUE)}
Paid(who, age, similar) == [who |-> who, age |-> age, similar |-> similar]
MCPaid == {{}, {Paid("ann", 30, TRUE)}, {Paid("ann", 30, TRUE), Paid("ben", 30, TRUE)}, {Paid("cat", 31, FALSE)},
           {Paid("dan", 181, TRUE)}}
MCMatchPairs ==
    {[creator |-> [FitCreator EXCEPT !.niches = n, !.gender = g],
      brand |-> [FitBrand EXCEPT !.niche = b, !.partners = p, !.audience = a]] :
        n \in {{}, {"beauty"}, {"games", "beauty"}}, g \in {"none", "female"},
        b \in {"beauty", "music", "cars", "none", "band"}, p \in {q \in SUBSET MCPartners : Cardinality(q) <= 2},
        a \in {"none", "male", "both"}}
    \cup
    {[creator |-> [FitCreator EXCEPT !.platform = p, !.followers = f, !.subscribers = s],
      brand |-> [FitBrand EXCEPT !.onInstagram = o, !.instagram = r, !.youtube = r, !.average = a, !.paid = q]] :
        p \in {"instagram", "youtube", "tiktok"}, f \in {NotKnown, 749, 1000, 2201}, s \in {NotKnown, 299, 300},
        o \in {"unset", "no"}, r \in {[low |-> 900, high |-> 1100], [low |-> NotKnown, high |-> NotKnown]},
        a \in {NotKnown, 1000}, q \in MCPaid}
    \cup
    {[creator |-> [FitCreator EXCEPT !.tags = t],
      brand |-> [FitBrand EXCEPT !.geo = g, !.refferal = r, !.sponsors = s, !.tags = u, !.activity = a]] :
        t \in {{}, {"skin"}}, u \in {{"skin"}, {"vape"}}, g \in {NotKnown, 0, 40, 41}, r \in BOOLEAN,
        s \in BOOLEAN, a \in {NotKnown, 0, 20}}

MCRankBrands == 1 .. 3
=============================================================================
