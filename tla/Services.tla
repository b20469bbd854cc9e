------------------------------ MODULE Services ------------------------------
(***************************************************************************)
(* The small services of the API and the matching it shows, side by side.  *)
(* They share no variable, so one of them acts in a behaviour (part) while *)
(* the others stay as they began: their states add up instead of           *)
(* multiplying.                                                            *)
(***************************************************************************)
EXTENDS Accounts, PitchEdits, CreatorPosts, Contacts, NicheCache, RequestLimits,
        MatchRules, Rankings

VARIABLE part    \* the service that acts

Parts == {"accounts", "pitch edits", "posts", "contacts", "cache", "requests", "matches", "rankings"}

servicesVars == <<part, accountsVars, pitchEditsVars, creatorPostsVars, contactsVars, nicheCacheVars,
                  requestLimitsVars, matchRulesVars, rankingsVars>>

ServicesTypeOK ==
    /\ part \in Parts
    /\ AccountsTypeOK /\ PitchEditsTypeOK /\ CreatorPostsTypeOK /\ ContactsTypeOK
    /\ NicheCacheTypeOK /\ RequestLimitsTypeOK /\ RankingsTypeOK

\* A service that does not act has one state, one of its initial states.
Resting(p, state) == part # p => state

SomePair == CHOOSE p \in MatchPairs : TRUE

SomePosts == CHOOSE f \in [PostIds -> Rows] : Cardinality({p \in PostIds : f[p] # "none"}) \in MinPosts .. MaxPosts

ServicesInit ==
    /\ part \in Parts
    /\ AccountsInit
    /\ Resting("accounts", account = NoAccount /\ \A r \in Calls : call[r] = "login")
    /\ PitchEditsInit
    /\ Resting("pitch edits", pitch.status = "generated" /\ ~pitch.dated)
    /\ CreatorPostsInit
    /\ Resting("posts", posts = SomePosts /\ others = {} /\ username = CHOOSE h \in Handles : TRUE)
    /\ ContactsInit
    /\ Resting("contacts", entitled = {} /\ reachable = {})
    /\ NicheCacheInit
    /\ Resting("cache", \A r \in Readers : reader[r].key = CHOOSE key \in CacheKeys : TRUE)
    /\ RequestLimitsInit
    /\ RankingsInit
    /\ IF part = "matches" THEN MatchRulesInit ELSE matchPair = SomePair /\ verdict = NoVerdict

ServicesNext ==
    /\ UNCHANGED part
    /\ \/ /\ part = "accounts" /\ AccountsNext
          /\ UNCHANGED <<pitchEditsVars, creatorPostsVars, contactsVars, nicheCacheVars,
                         requestLimitsVars, matchRulesVars, rankingsVars>>
       \/ /\ part = "pitch edits" /\ PitchEditsNext
          /\ UNCHANGED <<accountsVars, creatorPostsVars, contactsVars, nicheCacheVars,
                         requestLimitsVars, matchRulesVars, rankingsVars>>
       \/ /\ part = "posts" /\ CreatorPostsNext
          /\ UNCHANGED <<accountsVars, pitchEditsVars, contactsVars, nicheCacheVars,
                         requestLimitsVars, matchRulesVars, rankingsVars>>
       \/ /\ part = "contacts" /\ ContactsNext
          /\ UNCHANGED <<accountsVars, pitchEditsVars, creatorPostsVars, nicheCacheVars,
                         requestLimitsVars, matchRulesVars, rankingsVars>>
       \/ /\ part = "cache" /\ NicheCacheNext
          /\ UNCHANGED <<accountsVars, pitchEditsVars, creatorPostsVars, contactsVars, requestLimitsVars,
                         matchRulesVars, rankingsVars>>
       \/ /\ part = "requests" /\ RequestLimitsNext
          /\ UNCHANGED <<accountsVars, pitchEditsVars, creatorPostsVars, contactsVars, nicheCacheVars,
                         matchRulesVars, rankingsVars>>
       \/ /\ part = "matches" /\ MatchRulesNext
          /\ UNCHANGED <<accountsVars, pitchEditsVars, creatorPostsVars, contactsVars, nicheCacheVars,
                         requestLimitsVars, rankingsVars>>
       \/ /\ part = "rankings" /\ RankingsNext
          /\ UNCHANGED <<accountsVars, pitchEditsVars, creatorPostsVars, contactsVars, nicheCacheVars,
                         requestLimitsVars, matchRulesVars>>

ServicesSpec == ServicesInit /\ [][ServicesNext]_servicesVars

-----------------------------------------------------------------------------
\* A brand is shown for what its rows say, and the AI's ranking as one run left it, whatever
\* was blocked or failed since (matcher.py, match_text.py, scoring.py; app.py:2036-2085).
MatchesSound == ShownIsExplained /\ ShownIsRanked
=============================================================================
