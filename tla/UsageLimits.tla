---------------------------- MODULE UsageLimits ----------------------------
(***************************************************************************)
(* The two tables of api/usage_limits.py that every paid feature shares:   *)
(*                                                                         *)
(*   feature_usage  one counter per creator, feature and UTC day.  Only    *)
(*                  today's row is ever read or written, so uses[c][f] is  *)
(*                  today's row (0: no row yet) and NewDay starts it again.*)
(*   feature_locks  one row per creator and lock name, holding only the    *)
(*                  time it was taken.  locks[c][l] is the age of the row, *)
(*                  NoRow when there is none.  The row names no owner.     *)
(*                                                                         *)
(* Every operator is one atomic SQL statement followed by its commit.      *)
(* Other modules extend this one and use the operators in their actions.   *)
(***************************************************************************)
EXTENDS Integers

CONSTANTS
    Creators,    \* creator_profiles rows
    Features,    \* keys of DAILY_CAPS
    LockNames,   \* the feature column of feature_locks
    Cap,         \* the daily cap of each feature; 0 turns the feature off
    Stale        \* the age, in ticks, beyond which a lock row is dead

ASSUME UsageLimitsAssumption ==
    /\ Cap \in [Features -> Nat]
    /\ Stale \in Nat \ {0}

VARIABLES
    uses,        \* uses[c][f]: feature_usage.uses of today
    locks        \* locks[c][l]: age of the feature_locks row, or NoRow

NoRow == -1

\* Ages beyond Stale + 1 are told apart by nothing in the code.
Ages == 0 .. Stale + 1

UsageTypeOK ==
    /\ uses \in [Creators -> [Features -> Nat]]
    /\ locks \in [Creators -> [LockNames -> Ages \cup {NoRow}]]

UsageInit ==
    /\ uses = [c \in Creators |-> [f \in Features |-> 0]]
    /\ locks = [c \in Creators |-> [l \in LockNames |-> NoRow]]

-----------------------------------------------------------------------------
\* Mutant: the WHERE of the upsert compares with <= instead of <.
UnderCapInclusive(c, f) == uses[c][f] <= Cap[f]

\* The cap is used up (HTTP 429) or the feature is off (HTTP 403, Cap = 0).
UnderCap(c, f) == uses[c][f] < Cap[f]

Consume(c, f) ==
    /\ UnderCap(c, f)
    /\ uses' = [uses EXCEPT ![c][f] = @ + 1]

\* Mutants: a refund that is forgotten, and one without "uses > 0".
RefundForgotten(c, f) == UNCHANGED uses
RefundUnguarded(c, f) == uses' = [uses EXCEPT ![c][f] = @ - 1]

\* refund: the row of the day it runs on, and only if that row counts something.
Refund(c, f) ==
    uses' = IF uses[c][f] > 0 THEN [uses EXCEPT ![c][f] = @ - 1] ELSE uses

\* Mutant: ON CONFLICT DO UPDATE without its WHERE.
AvailableAlways(c, l) == TRUE

\* The insert-or-takeover of try_acquire_lock finds no row, or one too old.
Available(c, l) == locks[c][l] = NoRow \/ locks[c][l] > Stale

Acquire(c, l) ==
    /\ Available(c, l)
    /\ locks' = [locks EXCEPT ![c][l] = 0]

\* Mutant: active_locks without the stale limit.
AliveForEver(c, l) == locks[c][l] # NoRow

\* active_locks: the row exists and is younger than the stale limit.
Alive(c, l) == locks[c][l] # NoRow /\ locks[c][l] < Stale

\* Mutant: the DELETE forgets the feature and frees every lock of the creator.
ReleaseAll(c, ls) == locks' = [locks EXCEPT ![c] = [l \in LockNames |-> NoRow]]

\* release_lock deletes the row of (creator, lock name), whoever took it.
Release(c, ls) ==
    locks' = [locks EXCEPT ![c] = [l \in LockNames |-> IF l \in ls THEN NoRow ELSE @[l]]]

-----------------------------------------------------------------------------
\* One tick of the database clock: every row gets older.
Age(a) == IF a = NoRow \/ a > Stale THEN a ELSE a + 1

GrowOlder == locks' = [c \in Creators |-> [l \in LockNames |-> Age(locks[c][l])]]

\* UTC midnight: today's rows are those of a new day.
ClearDay == uses' = [c \in Creators |-> [f \in Features |-> 0]]
=============================================================================
