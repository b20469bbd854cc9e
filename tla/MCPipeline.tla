----------------------------- MODULE MCPipeline -----------------------------
(* The instance of Pipeline for TLC: small tables and inputs of each part. *)
EXTENDS Pipeline, TLC

\* Link pages: links that a page, its rendered form or a search may have.
Link(domain, kind, named) == [domain |-> domain, kind |-> kind, named |-> named]
MCLinkLists ==
    {<<>>, <<Link("d1", "own", FALSE)>>,
     <<Link("d1", "service", TRUE), Link("d2", "platform", TRUE), Link("d1", "custom", FALSE), Link("d2", "own", TRUE)>>}

\* Posts on which two brands and two creators meet.
MCPostsOf == "b1" :> {"p1", "p2"} @@ "b2" :> {"p2"}
MCCreatorsOf == "p1" :> {"c1", "c2"} @@ "p2" :> {"c1"}
MCShownBy == "c1" :> {"q1", "q2"} @@ "c2" :> {"q2"}

\* Score: counts and days on both sides of the limits of initial_brand_scoring.py.
MCVideos == {[count |-> 0, days |-> Undated, subs |-> 0]}
            \cup [count : {1, 8}, days : {30, 366}, subs : {0, 100000}]
MCPosts == {[count |-> 0, days |-> Undated, creators |-> 0, mid |-> FALSE]}
           \cup [count : {1, 4}, days : {60, 365, Undated}, creators : {0, 4}, mid : BOOLEAN]
MCSites == [rank : {50000, Unranked}, shop : {"shopify", "none"}, socials : {{}, {"instagram", "youtube", "facebook"}}]
MCGates == {[refferal |-> FALSE, geo |-> NotScored], [refferal |-> FALSE, geo |-> 41], [refferal |-> TRUE, geo |-> 40]}

\* Signals: creators on both sides of a tier's limits, named in two ways, with several rows.
Row(name, role, via, n) == [name |-> name, role |-> role, via |-> via, followers |-> n]
SignalCreators ==
    {Row("ann", "creator", {"post"}, 9999), Row("ann", "creator", {"named", "reverse"}, 20001),
     Row("ben", "brand", {"reverse"}, 700000), Row("cat", "commenter", {"post"}, 5),
     Row("ben", "creator", {"reverse"}, 100000), Row("dan", "creator", {"named"}, Unset)}
Viewer(gender, country, age) == [gender |-> gender, country |-> country, age |-> age]
Linked ==
    {<<>>, <<Viewer("unknown", "unknown", "unknown")>>,
     <<Viewer("male", "AE", "unknown"), Viewer("female", "US", "18-24"), Viewer("male", "US", "18-24")>>,
     <<Viewer("female", "AE", "25-34"), Viewer("female", "US", "18-24"), Viewer("unknown", "US", "unknown")>>}
NoVideo == [count |-> 0, days |-> Undated, subs |-> 0]
NoPosts == [count |-> 0, days |-> Undated, creators |-> 0, mid |-> FALSE]
MCSignalInputs ==
    [subs : {<<>>, <<9999>>, <<10000, 500000>>, <<10000, 10001>>}, creators : SUBSET SignalCreators,
     linked : {<<>>}, videos : {NoVideo}, posts : {NoPosts}, platforms : {{"instagram"}}, embeds : {TRUE}]
    \cup
    [subs : {<<>>, <<9999>>}, creators : {{}}, linked : Linked,
     videos : {NoVideo, [count |-> 8, days |-> 30, subs |-> 700000]},
     posts : {NoPosts, [count |-> 4, days |-> 60, creators |-> 4, mid |-> TRUE],
              [count |-> 1, days |-> 180, creators |-> 1, mid |-> FALSE]},
     platforms : {{}, {"instagram", "youtube"}}, embeds : BOOLEAN]
MCSignalBefore ==
    {NoProfile, [NoProfile EXCEPT !.tier = "mega", !.avg.ig = 500000, !.low.ig = 500000, !.high.ig = 500000]}

\* Contacts: searches that give somebody twice, picks that repeat people, leave them out or
\* invent them.
MCFound == {<<>>, <<"a">>, <<"a", "b", "c">>, <<"b", "a", "b">>}
MCPicks == UNION {[1 .. n -> [id : {"a", "b", "z"}, confidence : {-5, 59, 60}]] : n \in 0 .. 2}
           \cup {<<[id |-> "c", confidence |-> 101], [id |-> "b", confidence |-> 60], [id |-> "a", confidence |-> 60]>>}

\* Kinds of brands: one found through Instagram, one from Wikidata that runs left half done,
\* and two for which every call fails, one of them with YouTube and the score behind it.
OfInstagram ==
    [site |-> TRUE, name |-> FALSE, qid |-> FALSE, handle |-> TRUE, fb |-> TRUE, refferal |-> FALSE,
     tier |-> "fit", geo |-> "low", partner |-> "confident", posts |-> "none", users |-> FALSE, done |-> {},
     score |-> "none", contact |-> FALSE, profile |-> FALSE, embedded |-> FALSE, fails |-> {}]
FailsAll == [OfInstagram EXCEPT !.name = TRUE, !.qid = TRUE, !.posts = "recent", !.fails = StepNames]
MCEnrRows ==
    {OfInstagram, [OfInstagram EXCEPT !.qid = TRUE, !.name = TRUE, !.handle = FALSE, !.partner = "none",
                                      !.done = {"tranco", "youtube"}],
     FailsAll, [FailsAll EXCEPT !.done = {"youtube"}, !.score = "high"]}

\* Rows of collaborators that share usernames, within a batch and over two.
MCUserRows == 1 .. 3
MCCollaborators == 1 :> {"b"} @@ 2 :> {"a", "b"} @@ 3 :> {"a"}

\* Days of posts, two on one day at each end of a scrape.
MCPostDay == <<1, 1, 2, 2, 3>>

\* Profile links: a site, a shortener, one that is down, a page of links, one of a custom
\* domain, the same unread, a platform, and the service's own account.
Bio(url, landed, read, own, links) == [url |-> url, landed |-> landed, read |-> read, own |-> own, links |-> links]
MCBios ==
    {Bio("a", "a", TRUE, FALSE, {}), Bio("lnk", "b", TRUE, FALSE, {}), Bio("lnk", "lnk", FALSE, FALSE, {}),
     Bio("lnk", "lnk", TRUE, FALSE, {"lnk", "b"}), Bio("c", "c", TRUE, FALSE, {"lnk", "a"}),
     Bio("c", "c", FALSE, FALSE, {}), Bio("p", "p", TRUE, FALSE, {}), Bio("lnk", "lnk", TRUE, TRUE, {})}
Result(domain, named, hits, root, tld) ==
    [domain |-> domain, named |-> named, hits |-> hits, root |-> root, tld |-> tld]
MCResults ==
    {{}, {Result("a", FALSE, 1, FALSE, 2), Result("b", TRUE, 1, TRUE, 0),
          Result("c", FALSE, 1, FALSE, 0), Result("lnk", FALSE, 6, TRUE, 2), Result("p", TRUE, 6, TRUE, 2)}}

\* Geo reach: a page's links, and answers with and without score, codes and confidence.
MCLinksOnPage ==
    <<[path |-> "home", weight |-> 0], [path |-> "about", weight |-> 1], [path |-> "ship", weight |-> 2]>>
Reach(score, codes, sure) == [score |-> score, codes |-> codes, sure |-> sure]
MCGeoAnswers ==
    {Reach("null", {}, FALSE), Reach("0", {"GLOBAL"}, FALSE), Reach("40", {"US"}, TRUE),
     Reach("40", {}, FALSE), Reach("null", {"US"}, TRUE)}
=============================================================================
