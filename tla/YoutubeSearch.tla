---------------------------- MODULE YoutubeSearch ----------------------------
(***************************************************************************)
(* enrichment/youtube_sponsorship.py: the searches, lookups and comment    *)
(* pages a brand needs, over API keys that run out one after another and   *)
(* calls that fail.  A run takes the unchecked brands one by one; runs of  *)
(* one process share the position in the list of keys.                     *)
(***************************************************************************)
EXTENDS Integers, FiniteSets

CONSTANTS
    YtBrands,      \* brands the step selects
    YtVideos,      \* videos that sponsor a brand
    YtKeys,        \* number of YOUTUBE_API_KEY*
    YtQueries,     \* number of searches of a brand
    YtRuns         \* bound: runs of enrich_youtube_sponsorships

ASSUME YoutubeAssumption == YtKeys \in Nat \ {0} /\ YtQueries \in Nat \ {0} /\ YtRuns \in Nat \ {0}

VARIABLES
    yt,            \* the brand at work, the next call, what it found, kept and how often it failed
    todo,          \* brands the run has not come to
    ytRuns,        \* runs so far
    keyIndex,      \* _key_index
    checked,       \* youtube_checked
    videoRows,     \* youtube_sponsorships: for each brand its videos
    lost           \* brands with a call of their last turn that got no answer

youtubeVars == <<yt, todo, ytRuns, keyIndex, checked, videoRows, lost>>

Idle == "idle"
YtCalls == {"search", "details", "channels", "comments"}

YtAtRest == [at |-> Idle, brand |-> Idle, query |-> 1, found |-> {}, left |-> {}, kept |-> {},
             video |-> Idle, transient |-> 0]

YoutubeTypeOK ==
    /\ yt \in [at : YtCalls \cup {Idle}, brand : YtBrands \cup {Idle}, query : 1 .. YtQueries,
               found : SUBSET YtVideos, left : SUBSET YtVideos, kept : SUBSET YtVideos,
               video : YtVideos \cup {Idle}, transient : 0 .. 1]
    /\ todo \subseteq YtBrands /\ checked \subseteq YtBrands /\ lost \subseteq YtBrands
    /\ ytRuns \in 0 .. YtRuns
    /\ keyIndex \in 0 .. YtKeys
    /\ videoRows \in [YtBrands -> SUBSET YtVideos]

YoutubeInit ==
    /\ yt = YtAtRest
    /\ todo = {} /\ ytRuns = 0 /\ keyIndex = 0
    /\ checked = {} /\ lost = {}
    /\ videoRows = [b \in YtBrands |-> {}]

\* A run selects the unchecked brands; the position in the keys stays, in a new
\* process it starts again.
YtRun ==
    /\ yt.at = Idle /\ todo = {}
    /\ ytRuns < YtRuns /\ ytRuns' = ytRuns + 1
    /\ todo' = YtBrands \ checked
    /\ keyIndex' \in {keyIndex, 0}
    /\ UNCHANGED <<yt, checked, videoRows, lost>>

TakeBrand(b) ==
    /\ yt.at = Idle
    /\ b \in todo
    /\ yt' = [YtAtRest EXCEPT !.at = "search", !.brand = b]
    /\ todo' = todo \ {b}
    /\ lost' = lost \ {b}
    /\ UNCHANGED <<ytRuns, keyIndex, checked, videoRows>>

\* upsert_rows on video_id: a video that sponsors two brands stays with the first.
NewVideos(kept) == kept \ UNION {videoRows[b] : b \in YtBrands}

\* Mutant: a search that failed looks like one that found nothing.
EndTurnAsEmpty(kept, failed) ==
    /\ videoRows' = [videoRows EXCEPT ![yt.brand] = @ \cup NewVideos(kept)]
    /\ checked' = IF failed /\ yt.at # "search" THEN checked ELSE checked \cup {yt.brand}
    /\ yt' = YtAtRest

\* The turn of a brand ends: its rows are stored, and it is checked unless a call failed.
EndTurn(kept, failed) ==
    /\ videoRows' = [videoRows EXCEPT ![yt.brand] = @ \cup NewVideos(kept)]
    /\ checked' = IF failed THEN checked ELSE checked \cup {yt.brand}
    /\ yt' = YtAtRest

\* The next call of the brand's turn.
Call(at, found, transient) ==
    /\ yt' = [yt EXCEPT !.at = at, !.found = found, !.transient = transient,
                        !.query = IF at = "search" THEN @ + 1 ELSE @]
    /\ UNCHANGED <<checked, videoRows>>

\* _detect_sponsorship and the LLM skip some of the videos; one kept has its comments fetched.
NextVideo(kept, transient) ==
    \/ \E video \in yt.left : \E left \in SUBSET (yt.left \ {video}) :
         /\ yt' = [yt EXCEPT !.at = "comments", !.video = video, !.left = left, !.kept = kept, !.transient = transient]
         /\ UNCHANGED <<checked, videoRows>>
    \/ EndTurn(kept, transient > 0)

\* What follows a call that leaves the videos `found' and so many failures.
GoOn(found, transient) ==
    CASE yt.at = "search" /\ yt.query < YtQueries -> Call("search", found, transient)
      [] yt.at = "search" /\ yt.query = YtQueries /\ found # {} -> Call("details", found, transient)
      [] yt.at = "details" /\ found # {} ->
           /\ yt' = [yt EXCEPT !.at = "channels", !.left = found, !.transient = transient]
           /\ UNCHANGED <<checked, videoRows>>
      [] yt.at = "channels" -> NextVideo({}, transient)
      [] yt.at = "comments" -> NextVideo(yt.kept \cup {yt.video}, transient)
      [] OTHER -> EndTurn({}, transient > 0)

\* 200.  Comments may be disabled: expected, and no failure.
YtAnswered ==
    /\ yt.at # Idle /\ keyIndex < YtKeys
    /\ \E found \in IF yt.at = "search" THEN {yt.found \cup new : new \in SUBSET YtVideos} ELSE {yt.found} :
         GoOn(found, yt.transient)
    /\ UNCHANGED <<todo, ytRuns, keyIndex, lost>>

\* Three network errors in a row, a 403 that is no quota, any other error: None, counted.
YtTransient ==
    /\ yt.at # Idle /\ keyIndex < YtKeys
    /\ GoOn(IF yt.at = "details" THEN {} ELSE yt.found, 1)
    /\ lost' = lost \cup {yt.brand}
    /\ UNCHANGED <<todo, ytRuns, keyIndex>>

\* _rotate_key: the same call with the next key.
YtRotate ==
    /\ yt.at # Idle /\ keyIndex < YtKeys
    /\ keyIndex' = keyIndex + 1
    /\ UNCHANGED <<yt, todo, ytRuns, checked, videoRows, lost>>

\* _QuotaExhausted ends the run.  What was kept while fetching comments is stored; from
\* the searches nothing is, and from the lookups the exception leaves the function.
YtExhausted ==
    /\ yt.at # Idle /\ keyIndex = YtKeys
    /\ EndTurn(IF yt.at = "comments" THEN yt.kept ELSE {}, TRUE)
    /\ lost' = lost \cup {yt.brand}
    /\ todo' = {}
    /\ UNCHANGED <<ytRuns, keyIndex>>

\* LLMUnavailableError out of the verification or the commenters' genders: nothing is stored.
YtUnavailable ==
    /\ yt.at \in {"channels", "comments"}
    /\ EndTurn({}, TRUE)
    /\ todo' = {}
    /\ lost' = lost \cup {yt.brand}
    /\ UNCHANGED <<ytRuns, keyIndex>>

YoutubeNext ==
    YtRun \/ (\E b \in YtBrands : TakeBrand(b)) \/ YtAnswered \/ YtTransient \/ YtRotate \/ YtExhausted \/ YtUnavailable

-----------------------------------------------------------------------------
\* A brand is checked only after a turn in which every call was answered, whatever
\* failed, ran out or was rotated in the turns before it (youtube_sponsorship.py:215-222, 690-820).
CheckedWasAnswered == checked \cap lost = {}
=============================================================================
