--------------------------- MODULE PartnerScrape ---------------------------
(***************************************************************************)
(* content_creator_re.py, refresh_content_creator_re.py and                *)
(* score_post_sponsorship.py for one creator: the posts are scraped and    *)
(* stored, each is checked for brands by the LLM, the partnerships found   *)
(* are scored, and 30 days later the creator is scraped again from the day *)
(* of the latest stored post.  Commenters are off, as shipped.             *)
(***************************************************************************)
EXTENDS Integers, Sequences, FiniteSets

CONSTANTS
    PostDay,          \* the day of each post of the creator, in order
    PartnerPosts,     \* posts the LLM finds a brand on
    PostsFirstScrape, \* newest posts of a first scrape
    PostsRefreshMax   \* newest posts of a refresh

RePosts == DOMAIN PostDay

ASSUME PartnerScrapeAssumption ==
    /\ PostDay \in Seq(Nat)
    /\ \A p, q \in RePosts : p <= q => PostDay[p] <= PostDay[q]
    /\ PartnerPosts \subseteq RePosts
    /\ PostsFirstScrape \in Nat \ {0} /\ PostsRefreshMax \in Nat \ {0}

VARIABLES
    posted,      \* posts on the creator's account
    scrape,      \* the scrape at work: refresh or first, and the posts still to check
    storedPosts, \* instagram_users rows of the creator
    reScraped,   \* is_scraped
    monthOld,    \* currenttime is older than REFRESH_AFTER_DAYS
    partnership, \* the post's partnership row and its sponsorship_confidence
    asked,       \* history: posts the brand check answered for
    cutOff,      \* history: stored posts of which the run stopped before the check, or the
                 \* check gave no answer; a refresh takes them for checked
    beyond       \* history: posts older than what a scrape returned at its limit

partnerVars == <<posted, scrape, storedPosts, reScraped, monthOld, partnership, asked, cutOff, beyond>>

NoScrape == [kind |-> "none", todo |-> {}]

PartnerTypeOK ==
    /\ posted \subseteq RePosts /\ storedPosts \subseteq posted
    /\ scrape \in [kind : {"none", "first", "refresh"}, todo : SUBSET RePosts]
    /\ reScraped \in BOOLEAN /\ monthOld \in BOOLEAN
    /\ partnership \in [RePosts -> {"none", "unscored", "low", "high"}]
    /\ asked \subseteq RePosts /\ cutOff \subseteq RePosts /\ beyond \subseteq RePosts

PartnerScrapeInit ==
    /\ posted = {} /\ storedPosts = {} /\ scrape = NoScrape
    /\ reScraped = FALSE /\ monthOld = FALSE
    /\ partnership = [p \in RePosts |-> "none"]
    /\ asked = {} /\ cutOff = {} /\ beyond = {}

Publish ==
    /\ \E p \in RePosts \ posted : (\A q \in RePosts \ posted : p <= q) /\ posted' = posted \cup {p}
    /\ UNCHANGED <<scrape, storedPosts, reScraped, monthOld, partnership, asked, cutOff, beyond>>

MonthPasses ==
    /\ ~monthOld /\ monthOld' = TRUE
    /\ UNCHANGED <<posted, scrape, storedPosts, reScraped, partnership, asked, cutOff, beyond>>

\* eligible_creators: at least one partnership with confidence >= 90.
DueForRefresh == reScraped /\ monthOld /\ \E p \in RePosts : partnership[p] = "high"

\* Mutant: only posts of a later day.
SinceNextDay(p) == \A q \in storedPosts : PostDay[q] < PostDay[p]

\* onlyPostsNewerThan, with the day _latest_post_dates gives; same-day posts come again.
Since(p) == \A q \in storedPosts : PostDay[q] <= PostDay[p]

Newest(posts, n) == {p \in posts : Cardinality({q \in posts : q > p}) < n}

\* Every returned post is upserted before the first brand check; a refresh checks those
\* that were not stored.  No posts, or none since: the creator is done.
StoreScraped(kind, shown, limit) ==
    LET items == Newest(shown, limit)
    IN /\ storedPosts' = storedPosts \cup items
       /\ beyond' = beyond \cup (shown \ (items \cup storedPosts))
       /\ scrape' = [kind |-> kind, todo |-> IF kind = "refresh" THEN items \ storedPosts ELSE items]
       /\ UNCHANGED <<posted, reScraped, monthOld, partnership, asked, cutOff>>

\* enrich_content_creator_re, of a pending row.
FirstScrape ==
    /\ scrape = NoScrape /\ ~reScraped
    /\ StoreScraped("first", posted, PostsFirstScrape)

\* ... and with skip_seen_posts; without a stored post it is a plain first scrape.
Refresh ==
    /\ scrape = NoScrape /\ DueForRefresh
    /\ StoreScraped("refresh", {p \in posted : Since(p)},
               IF storedPosts = {} THEN PostsFirstScrape ELSE PostsRefreshMax)

\* _check_post_for_brands and _record_llm_partnership_post, an upsert that keeps the
\* confidence.  No usable answer is taken for a post without brands.
CheckPost(p, answered) ==
    /\ p \in scrape.todo
    /\ scrape' = [scrape EXCEPT !.todo = @ \ {p}]
    /\ partnership' = [partnership EXCEPT ![p] =
                      IF answered /\ p \in PartnerPosts /\ @ = "none" THEN "unscored" ELSE @]
    /\ asked' = IF answered THEN asked \cup {p} ELSE asked
    /\ cutOff' = IF p \in asked' THEN cutOff \ {p} ELSE cutOff \cup {p}
    /\ UNCHANGED <<posted, storedPosts, reScraped, monthOld, beyond>>

EndScrape ==
    /\ scrape # NoScrape /\ scrape.todo = {}
    /\ scrape' = NoScrape
    /\ reScraped' = TRUE /\ monthOld' = FALSE
    /\ UNCHANGED <<posted, storedPosts, partnership, asked, cutOff, beyond>>

\* LLMUnavailableError, the end of the process: the posts stay stored.
ScrapeStops ==
    /\ scrape # NoScrape
    /\ scrape' = NoScrape
    /\ cutOff' = cutOff \cup (scrape.todo \ asked)
    /\ UNCHANGED <<posted, storedPosts, reScraped, monthOld, partnership, asked, beyond>>

\* score_post_sponsorship, the rows without a confidence; a failed answer leaves the row.
ScorePartnership(p) ==
    /\ partnership[p] = "unscored"
    /\ \E confidence \in {"low", "high"} : partnership' = [partnership EXCEPT ![p] = confidence]
    /\ UNCHANGED <<posted, scrape, storedPosts, reScraped, monthOld, asked, cutOff, beyond>>

PartnerScrapeNext ==
    \/ Publish \/ MonthPasses \/ FirstScrape \/ Refresh \/ EndScrape \/ ScrapeStops
    \/ \E p \in RePosts : ScorePartnership(p) \/ \E answered \in BOOLEAN : CheckPost(p, answered)

-----------------------------------------------------------------------------
\* Between the oldest and the newest stored post of a scraped creator nothing is missing:
\* each post is stored, or was beyond the limit of a scrape.  A stored post that no scrape
\* still has to check was asked about, and has its partnership row if it shows a partner
\* (content_creator_re.py:489-545; refresh docstring, 17-24).  The exception is `cutOff`:
\* all posts are stored before the first check and a refresh skips what is stored, so a
\* post whose check did not come or was not answered need never be asked about again.
PostsAccounted ==
    /\ \A p, q \in storedPosts : \A r \in p .. q : r \in storedPosts \cup beyond
    /\ \A p \in storedPosts \ scrape.todo :
         \/ p \in cutOff
         \/ p \in asked /\ (p \in PartnerPosts => partnership[p] # "none")
=============================================================================
