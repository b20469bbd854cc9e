------------------------------ MODULE Fetching ------------------------------
(***************************************************************************)
(* helpers/http.py: a page is fetched directly, and through Firecrawl when *)
(* that is blocked.  All threads share one sliding window of Firecrawl     *)
(* requests; the one that finds it full sleeps with the lock held.  Time   *)
(* is ticks.                                                               *)
(***************************************************************************)
EXTENDS Integers, FiniteSets

CONSTANTS
    Fetches,       \* pages asked for, each by a thread of its own, numbered as they start
    RatePerMin,    \* FIRECRAWL_RATE_PER_MIN
    Minute,        \* 60 s in ticks
    Retries429,    \* _FIRECRAWL_429_RETRIES
    LastMinuteTick \* bound: the ticks a behaviour lasts

ASSUME FetchingAssumption ==
    /\ RatePerMin \in Nat \ {0} /\ Minute \in Nat \ {0} /\ Retries429 \in Nat /\ LastMinuteTick \in Nat
    /\ Fetches \subseteq Nat \ {0}

VARIABLES
    fetch,         \* fetch[f]: where the fetch is, its attempts and the end of its wait
    slots,         \* _firecrawl_calls: <<fetch, attempt, time>>
    slotLock,      \* who holds _firecrawl_lock
    posts,         \* every request sent to Firecrawl, with its time
    clock

fetchingVars == <<fetch, slots, slotLock, posts, clock>>

Nobody == 0
Tries == 0 .. Retries429 + 1
Times == 0 .. LastMinuteTick

FetchingTypeOK ==
    /\ fetch \in [Fetches -> [at : {"idle", "slot", "post", "backoff", "page", "none"}, tries : Tries,
                              until : 0 .. LastMinuteTick + Minute]]
    /\ slots \subseteq Fetches \X Tries \X Times /\ Cardinality(slots) <= RatePerMin
    /\ slotLock \in Fetches \cup {Nobody}
    /\ posts \subseteq Fetches \X Tries \X Times
    /\ clock \in Times

FetchingInit ==
    /\ fetch = [f \in Fetches |-> [at |-> "idle", tries |-> 0, until |-> 0]]
    /\ slots = {}
    /\ slotLock = Nobody
    /\ posts = {}
    /\ clock = 0

MoveTo(f, at) == fetch' = [fetch EXCEPT ![f].at = at]

\* fetch_page_via_jina: Firecrawl where it has a key, else Jina Reader, which has
\* the page or does not.
Fallback == {"slot", "page", "none"}

\* fetch_page_with_jina_fallback: the page, nothing after 404 or 410, the fallback
\* after any other failure.
DirectGet(f) ==
    /\ fetch[f].at = "idle" /\ \A g \in Fetches : g < f => fetch[g].at # "idle"
    /\ \E at \in {"page", "none"} \cup Fallback : MoveTo(f, at)
    /\ UNCHANGED <<slots, slotLock, posts, clock>>

TakeSlotLock(f) ==
    /\ fetch[f].at = "slot"
    /\ slotLock = Nobody
    /\ slotLock' = f
    /\ UNCHANGED <<fetch, slots, posts, clock>>

InWindow == {s \in slots : clock - s[3] < Minute}

\* _wait_for_firecrawl_slot: the holder sleeps until the window has room.
TakeSlot(f) ==
    /\ slotLock = f
    /\ Cardinality(InWindow) < RatePerMin
    /\ slots' = InWindow \cup {<<f, fetch[f].tries, clock>>}
    /\ slotLock' = Nobody
    /\ MoveTo(f, "post")
    /\ UNCHANGED <<posts, clock>>


\* The request is sent: 429 waits a minute and takes another slot while attempts are
\* left; any other end is the page or None.
PostToFirecrawl(f) ==
    /\ fetch[f].at = "post"
    /\ posts' = posts \cup {<<f, fetch[f].tries, clock>>}
    /\ \/ \E at \in {"page", "none"} : MoveTo(f, at)
       \/ /\ fetch[f].tries < Retries429
          /\ fetch' = [fetch EXCEPT ![f] = [at |-> "backoff", tries |-> @.tries + 1, until |-> clock + Minute]]
    /\ UNCHANGED <<slots, slotLock, clock>>

\* Mutant: the retry goes straight to the request.
EndBackoffAtOnce(f) ==
    /\ fetch[f].at = "backoff"
    /\ fetch[f].until <= clock
    /\ MoveTo(f, "post")
    /\ UNCHANGED <<slots, slotLock, posts, clock>>

EndBackoff(f) ==
    /\ fetch[f].at = "backoff"
    /\ fetch[f].until <= clock
    /\ MoveTo(f, "slot")
    /\ UNCHANGED <<slots, slotLock, posts, clock>>

\* The request follows its slot within the tick.
MinuteTick ==
    /\ clock < LastMinuteTick
    /\ \A f \in Fetches : fetch[f].at # "post"
    /\ clock' = clock + 1
    /\ UNCHANGED <<fetch, slots, slotLock, posts>>

FetchingNext ==
    \/ \E f \in Fetches : DirectGet(f) \/ TakeSlotLock(f) \/ TakeSlot(f) \/ PostToFirecrawl(f) \/ EndBackoff(f)
    \/ MinuteTick

-----------------------------------------------------------------------------
\* "never more than FIRECRAWL_RATE_PER_MIN requests in any 60 s", over all threads
\* and with the retries after a 429 (http.py:82-103, 117-140).
RateKept == \A t \in Times : Cardinality({p \in posts : p[3] \in t .. t + Minute - 1}) <= RatePerMin
=============================================================================
