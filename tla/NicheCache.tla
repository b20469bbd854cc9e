----------------------------- MODULE NicheCache -----------------------------
(***************************************************************************)
(* TTLCache.get_or_compute of api/ttl_cache.py, shared by the threads that *)
(* serve the niche endpoints, and the thumbnail cache of                   *)
(* api/creator_posts.py, which is looked up, filled and emptied the same   *)
(* way.  The value of every key is computed from a table whose version     *)
(* goes up; a computation sees one version and takes at most QueryTicks.   *)
(***************************************************************************)
EXTENDS Integers, Sequences, FiniteSets

CONSTANTS
    CacheKeys, Readers,
    CacheTtl,      \* NICHE_CACHE_SECONDS, in ticks
    CacheMax,      \* NICHE_CACHE_MAX_KEYS
    QueryTicks,    \* statement_timeout
    LastTick       \* bound of the clock

ASSUME NicheCacheAssumption ==
    /\ CacheTtl \in Nat \ {0}
    /\ CacheMax \in Nat \ {0}
    /\ QueryTicks \in Nat
    /\ LastTick \in Nat

VARIABLES
    clock,         \* time, which is also the version of the tables
    cached,        \* _items: a sequence of entries, oldest insertion first
    reader         \* reader[r]: the call of thread r

nicheCacheVars == <<clock, cached, reader>>

Entry == [key : CacheKeys, at : 0 .. LastTick, value : 0 .. LastTick]

\* began: when it asked; read: the version its query sees; served: what it got.
Call == [step : {"idle", "compute", "store", "served"}, key : CacheKeys, began : 0 .. LastTick, value : 0 .. LastTick]

NicheCacheTypeOK ==
    /\ clock \in 0 .. LastTick
    /\ cached \in Seq(Entry)
    /\ reader \in [Readers -> Call]

NicheCacheInit ==
    /\ clock = 0
    /\ cached = <<>>
    /\ reader \in [Readers -> [step : {"idle"}, key : CacheKeys, began : {0}, value : {0}]]

Entries(key) == {i \in DOMAIN cached : cached[i].key = key}

\* Mutant: an entry is used when it is as old as the TTL.
YoungInclusive(e) == clock - e.at <= CacheTtl

Young(e) == clock - e.at < CacheTtl

Hits(key) == {i \in Entries(key) : Young(cached[i])}

Lookup(r, key) ==
    /\ reader[r].step \in {"idle", "served"}
    /\ reader' = [reader EXCEPT ![r] =
         IF Hits(key) # {}
           THEN [step |-> "served", key |-> key, began |-> clock,
                 value |-> cached[CHOOSE i \in Hits(key) : TRUE].value]
           ELSE [step |-> "compute", key |-> key, began |-> clock, value |-> 0]]
    /\ UNCHANGED <<clock, cached>>

\* The query, outside the lock.
Compute(r) ==
    /\ reader[r].step = "compute"
    /\ reader' = [reader EXCEPT ![r].step = "store", ![r].value = clock]
    /\ UNCHANGED <<clock, cached>>

\* pop(key, None): the entry of the key goes, the others move up.
Without(key) ==
    IF Entries(key) = {} THEN cached
    ELSE LET i == CHOOSE i \in Entries(key) : TRUE
         IN SubSeq(cached, 1, i - 1) \o SubSeq(cached, i + 1, Len(cached))

\* Mutant: one entry more than the maximum.
EvictedLate(s) == IF Len(s) > CacheMax THEN SubSeq(s, Len(s) - CacheMax + 1, Len(s)) ELSE s

\* The oldest insertions go while there is no room for one more.
Evicted(s) == IF Len(s) >= CacheMax THEN SubSeq(s, Len(s) - CacheMax + 2, Len(s)) ELSE s

\* The entry is dated when it is stored, and the caller gets its own value.
Store(r) ==
    /\ reader[r].step = "store"
    /\ cached' = Append(Evicted(Without(reader[r].key)),
                        [key |-> reader[r].key, at |-> clock, value |-> reader[r].value])
    /\ reader' = [reader EXCEPT ![r].step = "served"]
    /\ UNCHANGED clock

\* A query is cut off by the statement timeout: the caller gets an error.
CutOff(r) ==
    /\ reader[r].step \in {"compute", "store"}
    /\ reader' = [reader EXCEPT ![r].step = "idle"]
    /\ UNCHANGED <<clock, cached>>

Clock ==
    /\ clock < LastTick
    /\ \A r \in Readers : reader[r].step \in {"compute", "store"} => clock - reader[r].began < QueryTicks
    /\ clock' = clock + 1
    /\ reader' = [r \in Readers |-> IF reader[r].step = "served" THEN [reader[r] EXCEPT !.step = "idle"]
                                    ELSE reader[r]]
    /\ UNCHANGED cached

NicheCacheNext ==
    \/ \E r \in Readers : (\E key \in CacheKeys : Lookup(r, key)) \/ Compute(r) \/ Store(r) \/ CutOff(r)
    \/ Clock

NicheCacheSpec == NicheCacheInit /\ [][NicheCacheNext]_nicheCacheVars

-----------------------------------------------------------------------------
\* What a reader is served was true less than a TTL and one query ago, although
\* a slow query may store its older answer over a newer one and with a later date
\* (ttl_cache.py:58-69), and the cache keeps one entry per key and never more
\* than its maximum.
CacheFreshAndBounded ==
    /\ \A r \in Readers : reader[r].step = "served" => clock - reader[r].value < CacheTtl + QueryTicks
    /\ Len(cached) <= CacheMax
    /\ \A key \in CacheKeys : Cardinality(Entries(key)) <= 1
=============================================================================
