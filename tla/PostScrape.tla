----------------------------- MODULE PostScrape -----------------------------
(***************************************************************************)
(* enrichment/instagram_posts.py and instagram_users.py: the posts of the  *)
(* brands, then the creators those posts name.  Each post and each creator *)
(* is a commit of its own; a run may end at any point by Apify's quota, by *)
(* LLMUnavailableError or with the process.  Commenters are off, as        *)
(* SCRAPE_COMMENTERS is shipped.                                           *)
(***************************************************************************)
EXTENDS Integers, FiniteSets

CONSTANTS
    IgBrands,      \* brands with an instagram_handle that both steps select
    IgPosts,       \* posts, by post_id
    PostsOf,       \* the posts an account shows; a joint post is shown by two
    Creators,
    CreatorsOf,    \* _collect_creators: whom a post names, the brand itself left out
    UserPosts,     \* posts with an id that creators' accounts show
    ShownBy        \* those a creator's account shows; a joint post is on two, {}: none has an id

ASSUME PostScrapeAssumption ==
    /\ PostsOf \in [IgBrands -> SUBSET IgPosts] /\ CreatorsOf \in [IgPosts -> SUBSET Creators]
    /\ ShownBy \in [Creators -> SUBSET UserPosts]
    /\ "none" \notin IgBrands \cup IgPosts \cup Creators   \* the word for none of them

VARIABLES
    batch,         \* brands of the run that are still being scraped
    turn,          \* the brand at work, the items still to save, how many were new
    igPost,        \* instagram_posts: a post's brand, confidence and is_users_scraped
    profileOnly,   \* brands with a row without a post_id
    igChecked,     \* instagram_checked
    userTurn,      \* the post whose creators are being scraped, those left, scrape_failed
    storedUnder,   \* instagram_users, one row for a post_id: the username of the row
    linked,        \* brand_instagram_users
    nothing        \* creators of whom Instagram had no post

postScrapeVars == <<batch, turn, igPost, profileOnly, igChecked, userTurn, storedUnder, linked, nothing>>

NoTurn == [brand |-> "none", items |-> {}, inserted |-> FALSE]
NoUserTurn == [post |-> "none", left |-> {}, failed |-> FALSE]
NoPost == [brand |-> "none", confidence |-> "none", usersScraped |-> FALSE]

PostScrapeTypeOK ==
    /\ batch \subseteq IgBrands /\ profileOnly \subseteq IgBrands /\ igChecked \subseteq IgBrands
    /\ turn \in [brand : IgBrands \cup {"none"}, items : SUBSET IgPosts, inserted : BOOLEAN]
    /\ igPost \in [IgPosts -> [brand : IgBrands \cup {"none"}, confidence : {"none", "low", "high"},
                               usersScraped : BOOLEAN]]
    /\ userTurn \in [post : IgPosts \cup {"none"}, left : SUBSET Creators, failed : BOOLEAN]
    /\ storedUnder \in [UserPosts -> Creators \cup {"none"}] /\ nothing \subseteq Creators
    /\ linked \subseteq IgBrands \X Creators

PostScrapeInit ==
    /\ batch = {} /\ profileOnly = {} /\ igChecked = {}
    /\ turn = NoTurn /\ userTurn = NoUserTurn
    /\ igPost = [p \in IgPosts |-> NoPost]
    /\ storedUnder = [q \in UserPosts |-> "none"] /\ linked = {} /\ nothing = {}

usersVars == <<userTurn, storedUnder, linked, nothing>>

\* One runner runs the steps one after another.
Resting == batch = {} /\ turn = NoTurn /\ userTurn = NoUserTurn

PostsRun ==
    /\ Resting
    /\ batch' = IgBrands \ igChecked
    /\ UNCHANGED <<turn, igPost, profileOnly, igChecked, usersVars>>

\* A scrape is done, in whatever order: None leaves the brand for the next run ...
ScrapeFailed(b) ==
    /\ turn = NoTurn /\ b \in batch
    /\ batch' = batch \ {b}
    /\ UNCHANGED <<turn, igPost, profileOnly, igChecked, usersVars>>

\* Mutant: a failed scrape is an account without posts.
ScrapedOrNot(b) ==
    /\ turn = NoTurn /\ b \in batch
    /\ batch' = batch \ {b}
    /\ \E items \in {PostsOf[b], {}} : turn' = [brand |-> b, items |-> items, inserted |-> FALSE]
    /\ UNCHANGED <<igPost, profileOnly, igChecked, usersVars>>

\* ... and items are worked through.
Scraped(b) ==
    /\ turn = NoTurn /\ b \in batch
    /\ batch' = batch \ {b}
    /\ turn' = [brand |-> b, items |-> PostsOf[b], inserted |-> FALSE]
    /\ UNCHANGED <<igPost, profileOnly, igChecked, usersVars>>

\* _save_post_with_confidence, after _llm_filter_all: a new row, or the row that is
\* there, and a confidence if it has none yet and the LLM gives one.
SavePost(p) ==
    /\ p \in turn.items
    /\ \E confidence \in {"none", "low", "high"} :
         igPost' = [igPost EXCEPT ![p] =
           [brand |-> IF @ = NoPost THEN turn.brand ELSE @.brand,
            confidence |-> IF @.confidence = "none" THEN confidence ELSE @.confidence,
            usersScraped |-> @.usersScraped]]
    /\ turn' = [turn EXCEPT !.items = @ \ {p}, !.inserted = @ \/ igPost[p] = NoPost]
    /\ UNCHANGED <<batch, profileOnly, igChecked, usersVars>>

\* score_instagram_post_sponsorship: the posts that got no confidence.
ScorePost(p) ==
    /\ Resting
    /\ igPost[p] # NoPost /\ igPost[p].confidence = "none"
    /\ \E confidence \in {"low", "high"} : igPost' = [igPost EXCEPT ![p].confidence = confidence]
    /\ UNCHANGED <<batch, turn, profileOnly, igChecked, usersVars>>

\* No row was new: the account's profile in a row of its own.  The brand is checked.
EndBrand ==
    /\ turn # NoTurn /\ turn.items = {}
    /\ profileOnly' = IF turn.inserted THEN profileOnly ELSE profileOnly \cup {turn.brand}
    /\ igChecked' = igChecked \cup {turn.brand}
    /\ turn' = NoTurn
    /\ UNCHANGED <<batch, igPost, usersVars>>

creatorRows == {c \in Creators : \E q \in UserPosts : storedUnder[q] = c}

\* The upsert on post_id: a post that is there keeps its row and with it the username.
StoredFor(c) ==
    [q \in UserPosts |-> IF q \in ShownBy[c] /\ storedUnder[q] = "none" THEN c ELSE storedUnder[q]]

\* enrich_instagram_users: a post with confidence >= 90 not scraped yet; the creators
\* it names that have a row already are linked.
UsersRun(p) ==
    /\ Resting
    /\ igPost[p].confidence = "high" /\ ~igPost[p].usersScraped
    /\ linked' = linked \cup {igPost[p].brand} \X (CreatorsOf[p] \cap creatorRows)
    /\ userTurn' = [post |-> p, left |-> CreatorsOf[p] \ creatorRows, failed |-> FALSE]
    /\ UNCHANGED <<batch, turn, igPost, profileOnly, igChecked, storedUnder, nothing>>

\* Posts stored with demographics and niche, then _link_to_brand: a creator of whom no post
\* got a row is not linked, and nothing is said.
CreatorScraped(c) ==
    /\ c \in userTurn.left
    /\ storedUnder' = StoredFor(c)
    /\ linked' = linked \cup {igPost[userTurn.post].brand} \X ({c} \cap creatorRows')
    /\ userTurn' = [userTurn EXCEPT !.left = @ \ {c}]
    /\ UNCHANGED <<batch, turn, igPost, profileOnly, igChecked, nothing>>

CreatorEmpty(c) ==
    /\ c \in userTurn.left
    /\ nothing' = nothing \cup {c}
    /\ userTurn' = [userTurn EXCEPT !.left = @ \ {c}]
    /\ UNCHANGED <<batch, turn, igPost, profileOnly, igChecked, storedUnder, linked>>

CreatorFailed(c) ==
    /\ c \in userTurn.left
    /\ userTurn' = [userTurn EXCEPT !.left = @ \ {c}, !.failed = TRUE]
    /\ UNCHANGED <<batch, turn, igPost, profileOnly, igChecked, storedUnder, linked, nothing>>

EndPost ==
    /\ userTurn # NoUserTurn /\ userTurn.left = {}
    /\ igPost' = [igPost EXCEPT ![userTurn.post].usersScraped = ~userTurn.failed]
    /\ userTurn' = NoUserTurn
    /\ UNCHANGED <<batch, turn, profileOnly, igChecked, storedUnder, linked, nothing>>

\* ApifyQuotaExceeded, LLMUnavailableError or the end of the process: what is stored
\* stays; a creator may be stored and not linked.
RunStops ==
    /\ ~Resting
    /\ batch' = {} /\ turn' = NoTurn /\ userTurn' = NoUserTurn
    /\ storedUnder' \in {storedUnder} \cup {StoredFor(c) : c \in userTurn.left}
    /\ UNCHANGED <<igPost, profileOnly, igChecked, linked, nothing>>

PostScrapeNext ==
    \/ PostsRun \/ EndBrand \/ EndPost \/ RunStops
    \/ \E b \in IgBrands : ScrapeFailed(b) \/ Scraped(b)
    \/ \E p \in IgPosts : SavePost(p) \/ ScorePost(p) \/ UsersRun(p)
    \/ \E c \in Creators : CreatorScraped(c) \/ CreatorEmpty(c) \/ CreatorFailed(c)

-----------------------------------------------------------------------------
\* Instagram had no post of the creator, or none with an id that is not stored under another
\* username: no row of instagram_users carries the creator's.
NoRowToLink(c) == c \in nothing \/ \A q \in ShownBy[c] : storedUnder[q] \notin {c, "none"}

\* A checked brand has every post its account showed in the table, or a row of its own
\* with the profile (instagram_posts.py:558-588, 339-346); the creators a scraped post
\* names are linked to its brand, whichever runs stopped half-way before, unless there was
\* no row to link (instagram_users.py:482-490, 673-677, 716-719, 731-739, 817-827).
ScrapesFinished ==
    /\ \A b \in igChecked :
         /\ \A p \in PostsOf[b] : igPost[p] # NoPost
         /\ b \in profileOnly \/ \E p \in IgPosts : igPost[p].brand = b
    /\ \A p \in IgPosts : igPost[p].usersScraped =>
         \A c \in CreatorsOf[p] : <<igPost[p].brand, c>> \in linked \/ NoRowToLink(c)
=============================================================================
