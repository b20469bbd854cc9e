-------------------------- MODULE CreatorDiscovery --------------------------
(***************************************************************************)
(* discover_collaborator_creators.py and promote_brand_post_creators.py:   *)
(* the accounts that scraped creators work with, and those that brand      *)
(* posts name, become creators to scrape or brands.  Creators are added by *)
(* hand (POST /content-creator-re/bulk-add) at any time in between.        *)
(***************************************************************************)
EXTENDS Integers, FiniteSets

CONSTANTS
    Handles,         \* Instagram accounts, lower case
    UserRows,        \* instagram_users rows of qualifying creators, by id
    CollaboratorsOf, \* post_collaborators
    RowLimit,        \* rows with new usernames in one batch
    ConfirmedHandles \* named on an instagram_posts row with confidence 100

ASSUME CreatorDiscoveryAssumption ==
    /\ UserRows \subseteq Nat /\ RowLimit \in Nat \ {0}
    /\ CollaboratorsOf \in [UserRows -> SUBSET Handles] /\ ConfirmedHandles \subseteq Handles

VARIABLES
    creatorRe,     \* usernames in content_creator_re (those with niche Brand included)
    brandHandles,  \* instagram_handle of brands_raw
    rowsChecked,   \* collaborators_checked
    dismissed,     \* history: handled without being saved (no branded content, no posts)
    discovery,     \* the batch of discover_collaborator_creators at work
    promotion      \* promote_brand_post_creators: usernames to do and failed

discoveryVars == <<creatorRe, brandHandles, rowsChecked, dismissed, discovery, promotion>>

NoDiscovery == [step |-> "none", at |-> "none", v2 |-> FALSE, goesOn |-> FALSE,
                queue |-> {}, rows |-> {}, failed |-> {}, skip |-> {}]
NoPromotion == [todo |-> {}, failed |-> {}]

DiscoveryTypeOK ==
    /\ creatorRe \subseteq Handles /\ brandHandles \subseteq Handles
    /\ dismissed \subseteq Handles /\ rowsChecked \subseteq UserRows
    /\ discovery \in [step : {"none", "content", "username", "profile"}, at : Handles \cup {"none"},
                      v2 : BOOLEAN, goesOn : BOOLEAN, queue : SUBSET Handles, rows : SUBSET UserRows,
                      failed : SUBSET Handles, skip : SUBSET UserRows]
    /\ promotion \in [todo : SUBSET Handles, failed : SUBSET Handles]

CreatorDiscoveryInit ==
    /\ creatorRe = {} /\ brandHandles = {} /\ rowsChecked = {} /\ dismissed = {}
    /\ discovery = NoDiscovery /\ promotion = NoPromotion

ScriptsRest == discovery = NoDiscovery /\ promotion = NoPromotion

\* _collect_work: the open rows in id order, up to the RowLimit-th with a username that
\* is neither known nor queued by an earlier row.
NewIn(r, open) ==
    CollaboratorsOf[r] \ (creatorRe \cup brandHandles
                          \cup UNION {CollaboratorsOf[s] : s \in {q \in open : q < r}})

BatchRows(open) ==
    {r \in open : Cardinality({s \in open : s < r /\ NewIn(s, open) # {}}) < RowLimit}

\* A batch: run_all goes on after one that had usernames, --limit does only one.
Collected(closed, skip, v2, all) ==
    LET open == UserRows \ (closed \cup skip)
        queue == UNION {NewIn(r, open) : r \in BatchRows(open)}
    IN [step |-> "content", at |-> "none", v2 |-> v2, goesOn |-> all /\ queue # {},
        rows |-> BatchRows(open), queue |-> queue, failed |-> {}, skip |-> skip]

StartDiscovery(v2, all) ==
    /\ ScriptsRest
    /\ discovery' = Collected(rowsChecked, {}, v2, all)
    /\ discovery'.rows # {}
    /\ UNCHANGED <<creatorRe, brandHandles, rowsChecked, dismissed, promotion>>

\* _process_username returns: the username is off the queue, failed or not.
Done(h, failed) ==
    discovery' = [discovery EXCEPT !.step = "content", !.at = "none", !.queue = @ \ {h},
                                   !.failed = IF failed THEN @ \cup {h} ELSE @]

\* Step 1, the Branded Content library: an error fails the username, no branded post ends
\* it, and others go on to the check of the username.
ContentChecked(h) ==
    /\ discovery.step = "content" /\ h \in discovery.queue
    /\ \/ Done(h, TRUE) /\ UNCHANGED dismissed
       \/ Done(h, FALSE) /\ dismissed' = dismissed \cup {h}
       \/ discovery' = [discovery EXCEPT !.step = "username", !.at = h] /\ UNCHANGED dismissed
    /\ UNCHANGED <<creatorRe, brandHandles, rowsChecked, promotion>>

SaveCreator(h) == creatorRe' = creatorRe \cup {h} /\ UNCHANGED <<brandHandles, dismissed>>
SaveBrand(h) == brandHandles' = brandHandles \cup {h} /\ UNCHANGED <<creatorRe, dismissed>>
SaveNothing == UNCHANGED <<creatorRe, brandHandles, dismissed>>

\* Step 2: no verdict fails it, a brand is saved, and so is a creator in the v2 flow.
UsernameClassified ==
    /\ discovery.step = "username"
    /\ \/ Done(discovery.at, TRUE) /\ SaveNothing
       \/ Done(discovery.at, FALSE) /\ SaveBrand(discovery.at)
       \/ discovery.v2 /\ Done(discovery.at, FALSE) /\ SaveCreator(discovery.at)
       \/ ~discovery.v2 /\ discovery' = [discovery EXCEPT !.step = "profile"] /\ SaveNothing
    /\ UNCHANGED <<rowsChecked, promotion>>

\* Step 3, after a scrape of five posts: the scrape or the check fails, there are no
\* posts, or the account is a brand or a creator.
ProfileClassified ==
    /\ discovery.step = "profile"
    /\ \/ Done(discovery.at, TRUE) /\ SaveNothing
       \/ Done(discovery.at, FALSE) /\ SaveBrand(discovery.at)
       \/ Done(discovery.at, FALSE) /\ SaveCreator(discovery.at)
       \/ /\ Done(discovery.at, FALSE)
          /\ dismissed' = dismissed \cup {discovery.at}
          /\ UNCHANGED <<creatorRe, brandHandles>>
    /\ UNCHANGED <<rowsChecked, promotion>>

FinishedRows(failed) == {r \in discovery.rows : CollaboratorsOf[r] \cap failed = {}}

\* Mutant: only the username at work is left out.
UnavailableForOne ==
    /\ discovery.step \in {"username", "profile"}
    /\ rowsChecked' = rowsChecked \cup FinishedRows(discovery.failed \cup {discovery.at})
    /\ discovery' = NoDiscovery
    /\ UNCHANGED <<creatorRe, brandHandles, dismissed, promotion>>

\* LLMUnavailableError: this username and all that are left count as failed.
DiscoveryUnavailable ==
    /\ discovery.step \in {"username", "profile"}
    /\ rowsChecked' = rowsChecked \cup FinishedRows(discovery.failed \cup discovery.queue)
    /\ discovery' = NoDiscovery
    /\ UNCHANGED <<creatorRe, brandHandles, dismissed, promotion>>

\* The rows of the batch are marked; run_all goes on without the rows that failed.
EndBatchOfRows ==
    LET done == FinishedRows(discovery.failed)
        skip == discovery.skip \cup (discovery.rows \ done)
        next == Collected(rowsChecked \cup done, skip, discovery.v2, TRUE)
    IN /\ discovery.step = "content" /\ discovery.queue = {}
       /\ rowsChecked' = rowsChecked \cup done
       /\ discovery' = IF discovery.goesOn /\ next.rows # {} THEN next ELSE NoDiscovery
       /\ UNCHANGED <<creatorRe, brandHandles, dismissed, promotion>>

\* promote_brand_post_creators: the usernames of one batch, classified by what is stored;
\* a brand is saved too, with the niche Brand.
StartPromotion ==
    /\ ScriptsRest
    /\ ConfirmedHandles \ creatorRe # {}
    /\ promotion' = [todo |-> ConfirmedHandles \ creatorRe, failed |-> {}]
    /\ UNCHANGED <<creatorRe, brandHandles, rowsChecked, dismissed, discovery>>

Promoted(h) ==
    /\ h \in promotion.todo
    /\ \/ /\ promotion' = [promotion EXCEPT !.todo = @ \ {h}, !.failed = @ \cup {h}]
          /\ UNCHANGED creatorRe
       \/ /\ promotion' = [promotion EXCEPT !.todo = @ \ {h}]
          /\ creatorRe' = creatorRe \cup {h}
    /\ UNCHANGED <<brandHandles, rowsChecked, dismissed, discovery>>

\* The next batch leaves out the failed ones; when none is left the run is over.
EndPromotion ==
    /\ promotion # NoPromotion /\ promotion.todo = {}
    /\ LET left == ConfirmedHandles \ (creatorRe \cup promotion.failed)
       IN promotion' = IF left = {} THEN NoPromotion ELSE [promotion EXCEPT !.todo = left]
    /\ UNCHANGED <<creatorRe, brandHandles, rowsChecked, dismissed, discovery>>

\* LLMUnavailableError in a promotion, or the end of the process in either script.
ScriptStops ==
    /\ ~ScriptsRest
    /\ discovery' = NoDiscovery /\ promotion' = NoPromotion
    /\ UNCHANGED <<creatorRe, brandHandles, rowsChecked, dismissed>>

\* add_content_creator_re
AddByHand(h) ==
    /\ h \notin creatorRe
    /\ creatorRe' = creatorRe \cup {h}
    /\ UNCHANGED <<brandHandles, rowsChecked, dismissed, discovery, promotion>>

CreatorDiscoveryNext ==
    \/ \E v2, all \in BOOLEAN : StartDiscovery(v2, all)
    \/ UsernameClassified \/ ProfileClassified \/ DiscoveryUnavailable \/ EndBatchOfRows
    \/ StartPromotion \/ EndPromotion \/ ScriptStops
    \/ \E h \in Handles : ContentChecked(h) \/ Promoted(h) \/ AddByHand(h)

-----------------------------------------------------------------------------
\* A row is marked collaborators_checked only when every account it names was dealt with:
\* saved as a creator or a brand, or dismissed, whatever failed, stopped the run or was
\* queued by another row (discover_collaborator_creators.py:505-537).
RowsHandled ==
    \A r \in rowsChecked : CollaboratorsOf[r] \subseteq creatorRe \cup brandHandles \cup dismissed
=============================================================================
