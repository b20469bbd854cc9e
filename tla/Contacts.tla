------------------------------ MODULE Contacts ------------------------------
(***************************************************************************)
(* Which brands' contacts one creator opens on a day                       *)
(* (api/contact_access.py), and the brands the creator saves, one of the   *)
(* three ways to be entitled to them (api/saved_brands.py).                *)
(***************************************************************************)
EXTENDS Integers, FiniteSets

CONSTANTS
    BrandIds,        \* brands_raw rows
    Opens,           \* requests: a brand page or a pitch (allow_contacts), saving, unsaving
    RevealsPerDay,   \* CONTACT_REVEALS_PER_DAY
    SavedMax         \* saved_brands_max

Nobody == "nobody"

ASSUME ContactsAssumption ==
    /\ IsFiniteSet(BrandIds)
    /\ Nobody \notin Opens
    /\ RevealsPerDay \in Nat
    /\ SavedMax \in Nat \ {0}

VARIABLES
    savedBrands,     \* saved_brands of the creator
    entitled,        \* brands of the creator's v3 ranking and own-brand jobs
    reachable,       \* brands that have a contact
    revealed,        \* contact_reveals: pairs of a brand and a day
    advisory,        \* the request that holds pg_advisory_xact_lock
    today,           \* the UTC day
    open             \* open[o]: what request o does and where it is

contactsVars == <<savedBrands, entitled, reachable, revealed, advisory, today, open>>

Days == 1 .. 2
Idle == [step |-> "start", brand |-> Nobody, day |-> 1]
OpenSteps == {"start", "count", "reserve", "insert", "shown", "save", "over"}

ContactsTypeOK ==
    /\ savedBrands \subseteq BrandIds
    /\ entitled \subseteq BrandIds
    /\ reachable \subseteq BrandIds
    /\ revealed \subseteq BrandIds \X Days
    /\ advisory \in Opens \cup {Nobody}
    /\ today \in Days
    /\ open \in [Opens -> [step : OpenSteps, brand : BrandIds \cup {Nobody}, day : Days]]

ContactsInit ==
    /\ savedBrands = {}
    /\ entitled \in SUBSET BrandIds
    /\ reachable \in SUBSET BrandIds
    /\ revealed = {}
    /\ advisory = Nobody
    /\ today = 1
    /\ open = [o \in Opens |-> Idle]

GoOn(o, step) == open' = [open EXCEPT ![o].step = step]

\* is_entitled: saved, matched or added by this creator.
IsEntitled(b) == b \in savedBrands \cup entitled

\* allow_contacts: nothing is shown to a creator who is not entitled, and
\* nothing counted for a brand without a contact.  The day is read before the
\* lock is asked for.
AllowContacts(o, b) ==
    /\ open[o].step = "start"
    /\ open' = [open EXCEPT ![o] =
         [step |-> IF IsEntitled(b) /\ b \in reachable THEN "count" ELSE "over", brand |-> b, day |-> today]]
    /\ UNCHANGED <<savedBrands, entitled, reachable, revealed, advisory, today>>

\* Mutant: the reveals are counted without the lock.
LockIsFreeAlways == TRUE

LockIsFree == advisory = Nobody

TakeAdvisoryLock(o) ==
    /\ open[o].step = "count"
    /\ LockIsFree
    /\ advisory' = o
    /\ GoOn(o, "reserve")
    /\ UNCHANGED <<savedBrands, entitled, reachable, revealed, today>>

RevealedOn(d) == {x \in revealed : x[2] = d}

\* Seen before today: nothing to count.  Over the cap: 429, and the rollback
\* lets go of the lock.
CountReveals(o) ==
    /\ open[o].step = "reserve"
    /\ LET x == <<open[o].brand, open[o].day>> IN
       \/ x \in revealed /\ GoOn(o, "shown") /\ advisory' = Nobody
       \/ /\ x \notin revealed
          /\ IF Cardinality(RevealedOn(open[o].day)) >= RevealsPerDay
               THEN GoOn(o, "over") /\ advisory' = Nobody
               ELSE GoOn(o, "insert") /\ UNCHANGED advisory
    /\ UNCHANGED <<savedBrands, entitled, reachable, revealed, today>>

\* The insert, and the commit that lets go of the lock.
Reserve(o) ==
    /\ open[o].step = "insert"
    /\ revealed' = revealed \cup {<<open[o].brand, open[o].day>>}
    /\ advisory' = Nobody
    /\ GoOn(o, "shown")
    /\ UNCHANGED <<savedBrands, entitled, reachable, today>>

\* save_brand: the count is read in one statement, the row inserted in another.
SaveCount(o, b) ==
    /\ open[o].step = "start"
    /\ open' = [open EXCEPT ![o] =
         [step |-> IF b \notin savedBrands /\ Cardinality(savedBrands) < SavedMax THEN "save" ELSE "over",
          brand |-> b, day |-> today]]
    /\ UNCHANGED <<savedBrands, entitled, reachable, revealed, advisory, today>>

SaveInsert(o) ==
    /\ open[o].step = "save"
    /\ savedBrands' = savedBrands \cup {open[o].brand}
    /\ GoOn(o, "over")
    /\ UNCHANGED <<entitled, reachable, revealed, advisory, today>>

Unsave(o, b) ==
    /\ open[o].step = "start"
    /\ b \in savedBrands
    /\ savedBrands' = savedBrands \ {b}
    /\ GoOn(o, "over")
    /\ UNCHANGED <<entitled, reachable, revealed, advisory, today>>

\* A new ranking, or UTC midnight.
Rerank ==
    /\ \E matched \in SUBSET BrandIds : entitled' = matched /\ matched # entitled
    /\ UNCHANGED <<savedBrands, reachable, revealed, advisory, today, open>>

Midnight ==
    /\ today = 1
    /\ today' = 2
    /\ UNCHANGED <<savedBrands, entitled, reachable, revealed, advisory, open>>

ContactsNext ==
    \/ \E o \in Opens, b \in BrandIds : AllowContacts(o, b) \/ SaveCount(o, b) \/ Unsave(o, b)
    \/ \E o \in Opens : TakeAdvisoryLock(o) \/ CountReveals(o) \/ Reserve(o) \/ SaveInsert(o)
    \/ Rerank
    \/ Midnight

ContactsSpec == ContactsInit /\ [][ContactsNext]_contactsVars

-----------------------------------------------------------------------------
\* However many pages and pitches of a creator ask at once, the contacts of at
\* most the daily cap of different brands are shown for a day, and every contact
\* that is shown was counted (contact_access.py:57-76).
RevealsWithinCap ==
    /\ \A d \in Days : Cardinality(RevealedOn(d)) <= RevealsPerDay
    /\ \A o \in Opens : open[o].step = "shown" => <<open[o].brand, open[o].day>> \in revealed
=============================================================================
