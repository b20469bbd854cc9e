---------------------------- MODULE CreatorPosts ----------------------------
(***************************************************************************)
(* The Instagram posts saved for one creator (pipeline/creator_posts.py,   *)
(* api/creator_posts.py): added by their link, marked as partnerships and  *)
(* deleted by the creator, replaced when a description is generated        *)
(* (pipeline/creator_content/instagram_description.py) and emptied when    *)
(* the profile gets another username.  Every request reads, may wait for   *)
(* Instagram, and commits later.                                           *)
(***************************************************************************)
EXTENDS Integers, FiniteSets

CONSTANTS
    PostIds,      \* posts on Instagram
    Handles,      \* usernames
    HandleOf,     \* HandleOf[p]: the username that posted p
    PostCalls,    \* the requests and jobs
    MinPosts,     \* MIN_POSTS
    MaxPosts,     \* MAX_POSTS
    FullSet       \* _POSTS_LIMIT

ASSUME CreatorPostsAssumption ==
    /\ IsFiniteSet(PostIds) /\ IsFiniteSet(PostCalls)
    /\ HandleOf \in [PostIds -> Handles]
    /\ {MinPosts, MaxPosts, FullSet} \subseteq Nat

VARIABLES
    posts,         \* posts[p]: the creator's row of p
    others,        \* the posts saved for other creators
    username,      \* creator_profiles.instagram_handle
    ask,           \* ask[r]: what call r does, and where it is
    renamed,       \* history: the posts were emptied for a new username
    atOnce         \* history: the most deletions between their count and their commit

creatorPostsVars == <<posts, others, username, ask, renamed, atOnce>>

Rows == {"none", "plain", "marked"}
PostSteps == {"start", "scrape", "clear", "upsert", "copy", "fetch", "mark", "delete", "check", "over"}

\* handle: the username of the call; old: the one the profile had; items: the
\* posts the call works on.
Ask == [step : PostSteps, handle : Handles, old : Handles, items : SUBSET PostIds]

CreatorPostsTypeOK ==
    /\ posts \in [PostIds -> Rows]
    /\ others \subseteq PostIds
    /\ username \in Handles
    /\ ask \in [PostCalls -> Ask]
    /\ renamed \in BOOLEAN
    /\ atOnce \in Nat

SavedPosts == {p \in PostIds : posts[p] # "none"}
Of(h) == {p \in PostIds : HandleOf[p] = h}
Deleting == {r \in PostCalls : ask[r].step = "delete"}

CreatorPostsInit ==
    /\ posts \in [PostIds -> Rows]
    /\ Cardinality(SavedPosts) \in MinPosts .. MaxPosts
    /\ others \in SUBSET PostIds
    /\ username \in Handles
    /\ ask = [r \in PostCalls |-> [step |-> "start", handle |-> username, old |-> username,
                                   items |-> {}]]
    /\ renamed = FALSE
    /\ atOnce = 0

Goes(r, s) == ask' = [ask EXCEPT ![r].step = s]
NoPosts == [p \in PostIds |-> "none"]

\* The upsert leaves partnership_post alone.
Upserted(items) == [p \in PostIds |-> IF p \in items /\ posts[p] = "none" THEN "plain" ELSE posts[p]]

-----------------------------------------------------------------------------
(* generate_instagram_description                                          *)

\* _saved_items, of any creator: a full set needs no Apify run.
Describe(r, h) ==
    /\ ask[r].step = "start"
    /\ LET items == (SavedPosts \cup others) \cap Of(h) IN
       ask' = [ask EXCEPT ![r] =
         [step |-> IF Cardinality(items) >= FullSet THEN "clear" ELSE "scrape",
          handle |-> h, old |-> username, items |-> items]]
    /\ UNCHANGED <<posts, others, username, renamed, atOnce>>

\* A failed scrape leaves the saved items; without any, the job fails.
ScrapePosts(r) ==
    /\ ask[r].step = "scrape"
    /\ \/ /\ Goes(r, IF ask[r].items = {} THEN "over" ELSE "clear")
       \/ \E found \in SUBSET Of(ask[r].handle) :
            /\ Cardinality(found) <= FullSet
            /\ ask' = [ask EXCEPT ![r].step = "clear", ![r].items = found]
    /\ UNCHANGED <<posts, others, username, renamed, atOnce>>

\* clear_posts of a changed username, in a transaction of its own.
ClearOld(r) ==
    /\ ask[r].step = "clear"
    /\ IF ask[r].old # ask[r].handle
         THEN posts' = NoPosts /\ renamed' = TRUE
         ELSE UNCHANGED <<posts, renamed>>
    /\ Goes(r, "upsert")
    /\ UNCHANGED <<others, username, atOnce>>

\* save_creator_posts: a database error is logged.
SaveCreatorPosts(r) ==
    /\ ask[r].step = "upsert"
    /\ posts' \in {posts, Upserted(ask[r].items)}
    /\ Goes(r, "over")
    /\ UNCHANGED <<others, username, renamed, atOnce>>

-----------------------------------------------------------------------------
(* add_post, set_partnership, delete_post                                  *)

\* Already added, too many, saved for another creator, or to be scraped.
AddPost(r, p) ==
    /\ ask[r].step = "start"
    /\ ask' = [ask EXCEPT ![r] =
         [@ EXCEPT !.items = {p},
                   !.step = CASE p \in SavedPosts -> "mark"
                              [] p \notin SavedPosts /\ Cardinality(SavedPosts) >= MaxPosts -> "over"
                              [] p \in others \ SavedPosts /\ Cardinality(SavedPosts) < MaxPosts -> "copy"
                              [] OTHER -> "fetch"]]
    /\ UNCHANGED <<posts, others, username, renamed, atOnce>>

\* A row that appeared meanwhile is a violation of the unique constraint: a 500.
CopyPost(r) ==
    /\ ask[r].step = "copy"
    /\ IF ask[r].items \subseteq SavedPosts
         THEN Goes(r, "over") /\ UNCHANGED posts
         ELSE Goes(r, "mark") /\ posts' = Upserted(ask[r].items)
    /\ UNCHANGED <<others, username, renamed, atOnce>>

\* _scrape_posts, and the row it saved; or a post nobody can read.
FetchPost(r) ==
    /\ ask[r].step = "fetch"
    /\ \/ Goes(r, "over") /\ UNCHANGED posts
       \/ Goes(r, "mark") /\ posts' = Upserted(ask[r].items)
    /\ UNCHANGED <<others, username, renamed, atOnce>>

\* The toggle of a row that is gone is a 500.
SetPartnership(r) ==
    /\ ask[r].step = "mark"
    /\ \E value \in {"plain", "marked"} :
         posts' = [p \in PostIds |-> IF p \in ask[r].items \cap SavedPosts THEN value ELSE posts[p]]
    /\ Goes(r, "over")
    /\ UNCHANGED <<others, username, renamed, atOnce>>

\* Mutant: the row to delete is not counted.
MayDeleteOneLess(total) == total >= MinPosts

MayDelete(total) == total - 1 >= MinPosts

DeleteCount(r, p) ==
    /\ ask[r].step = "start"
    /\ p \in SavedPosts
    /\ ask' = [ask EXCEPT ![r] =
         [@ EXCEPT !.step = IF MayDelete(Cardinality(SavedPosts)) THEN "delete" ELSE "over",
                   !.items = {p}]]
    /\ atOnce' = IF Cardinality(Deleting') > atOnce THEN Cardinality(Deleting') ELSE atOnce
    /\ UNCHANGED <<posts, others, username, renamed>>

DeleteCommit(r) ==
    /\ ask[r].step = "delete"
    /\ posts' = [p \in PostIds |-> IF p \in ask[r].items THEN "none" ELSE posts[p]]
    /\ Goes(r, "over")
    /\ UNCHANGED <<others, username, renamed, atOnce>>

-----------------------------------------------------------------------------
(* The profile save: the username, then the posts of the old one.          *)

SaveUsername(r, h) ==
    /\ ask[r].step = "start"
    /\ username' = h
    /\ ask' = [ask EXCEPT ![r] = [@ EXCEPT !.step = "check", !.handle = h, !.old = username]]
    /\ UNCHANGED <<posts, others, renamed, atOnce>>

\* clear_posts_if_username_changed
ClearIfUsernameChanged(r) ==
    /\ ask[r].step = "check"
    /\ IF ask[r].old # ask[r].handle /\ SavedPosts \cap Of(ask[r].handle) = {}
         THEN posts' = NoPosts /\ renamed' = TRUE
         ELSE UNCHANGED <<posts, renamed>>
    /\ Goes(r, "over")
    /\ UNCHANGED <<others, username, atOnce>>

CreatorPostsNext ==
    \E r \in PostCalls :
        \/ \E h \in Handles : Describe(r, h) \/ SaveUsername(r, h)
        \/ \E p \in PostIds : AddPost(r, p) \/ DeleteCount(r, p)
        \/ ScrapePosts(r) \/ ClearOld(r) \/ SaveCreatorPosts(r)
        \/ CopyPost(r) \/ FetchPost(r) \/ SetPartnership(r)
        \/ DeleteCommit(r) \/ ClearIfUsernameChanged(r)

CreatorPostsSpec == CreatorPostsInit /\ [][CreatorPostsNext]_creatorPostsVars

-----------------------------------------------------------------------------
\* Deletions count the posts and delete one in two steps (creator_posts.py:94-100),
\* so "a user always keeps at least this many" (:25) holds of one deletion at a
\* time only.  What holds of all: when at most n overlapped, they took at most
\* n - 1 posts below the minimum together, however many ran, and whatever was
\* added, marked or described between.  Only a new username empties the posts.
TooMany == IF atOnce = 0 THEN 0 ELSE atOnce - 1
MinimumKept == renamed \/ Cardinality(SavedPosts) >= MinPosts - TooMany
=============================================================================
