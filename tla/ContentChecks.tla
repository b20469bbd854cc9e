--------------------------- MODULE ContentChecks ---------------------------
(***************************************************************************)
(* facebook_branded_content_checker.py: checks of the Branded Content      *)
(* library go through one proxy at a time, in batches with pauses; the     *)
(* counters are those of one process.                                      *)
(***************************************************************************)
EXTENDS Integers

CONSTANTS
    Proxies,             \* how many FACEBOOK_PROXIES
    ChecksPerBatch,
    RotateAfterFailures,
    MaxEarlyRounds       \* bound: rounds begun early between two round pauses

ASSUME ContentChecksAssumption ==
    /\ Proxies \in Nat \ {0} /\ ChecksPerBatch \in Nat \ {0} /\ RotateAfterFailures \in Nat \ {0}
    /\ MaxEarlyRounds \in Nat

VARIABLES
    proxy,        \* _batch_index modulo the number of proxies
    sincePause,   \* _checks_since_pause
    failedInRow,     \* _consecutive_failures, which only matter up to RotateAfterFailures
    checkStep,    \* "idle", a check "running", the "retry" of a username or its check
    load,         \* history: checks through each proxy since the last round pause
    earlyRounds   \* history: how often the last proxy was left early since then

checksVars == <<proxy, sincePause, failedInRow, checkStep, load, earlyRounds>>

AllProxies == 0 .. Proxies - 1

ChecksTypeOK ==
    /\ proxy \in AllProxies /\ sincePause \in 0 .. ChecksPerBatch
    /\ failedInRow \in 0 .. RotateAfterFailures
    /\ checkStep \in {"idle", "running", "retry", "retrying"}
    /\ load \in [AllProxies -> Nat] /\ earlyRounds \in 0 .. MaxEarlyRounds

ContentChecksInit ==
    /\ proxy = 0 /\ sincePause = 0 /\ failedInRow = 0 /\ checkStep = "idle"
    /\ load = [p \in AllProxies |-> 0] /\ earlyRounds = 0

\* Mutant: without the way back to the first.
NextNumber(p) == p + 1

NextProxy(p) == (p + 1) % Proxies

NoLoad == [p \in AllProxies |-> 0]

\* _throttle: after a batch a pause and the next proxy; after the last proxy's batch a
\* round pause.
Throttled(spent) ==
    LET round == spent /\ NextProxy(proxy) = 0
        to == IF spent THEN NextProxy(proxy) ELSE proxy
    IN /\ proxy' = to
       /\ sincePause' = IF spent THEN 1 ELSE sincePause + 1
       /\ load' = [(IF round THEN NoLoad ELSE load) EXCEPT ![to] = @ + 1]
       /\ earlyRounds' = IF round THEN 0 ELSE earlyRounds
       /\ UNCHANGED failedInRow

StartCheck ==
    /\ checkStep \in {"idle", "retry"}
    /\ Throttled(sincePause >= ChecksPerBatch)
    /\ checkStep' = IF checkStep = "idle" THEN "running" ELSE "retrying"

CheckAnswered ==
    /\ checkStep \in {"running", "retrying"}
    /\ failedInRow' = 0 /\ checkStep' = "idle"
    /\ UNCHANGED <<proxy, sincePause, load, earlyRounds>>

\* _rotate_proxy_now: a fresh batch on the next proxy, without a pause; from the last
\* proxy this begins another round.
RotateProxyNow ==
    /\ proxy' = NextProxy(proxy) /\ sincePause' = 0 /\ failedInRow' = 0
    /\ NextProxy(proxy) = 0 => earlyRounds < MaxEarlyRounds
    /\ earlyRounds' = IF NextProxy(proxy) = 0 THEN earlyRounds + 1 ELSE earlyRounds

\* Mutant: a check that failed is not counted against the proxy.
FailureNotCounted ==
    LET count == failedInRow + 1
    IN /\ checkStep \in {"running", "retrying"}
       /\ IF count >= RotateAfterFailures /\ checkStep = "running"
            THEN RotateProxyNow /\ checkStep' = "retry"
            ELSE /\ failedInRow' = IF count > RotateAfterFailures THEN failedInRow ELSE count
                 /\ sincePause' = sincePause - 1 /\ checkStep' = "idle"
                 /\ UNCHANGED <<proxy, earlyRounds>>
       /\ UNCHANGED load

\* check_branded_content: the second failure in a row moves to the next proxy at once,
\* where the username is tried once more.
CheckFailed ==
    LET count == failedInRow + 1
    IN /\ checkStep \in {"running", "retrying"}
       /\ IF count >= RotateAfterFailures /\ checkStep = "running"
            THEN RotateProxyNow /\ checkStep' = "retry"
            ELSE /\ failedInRow' = IF count > RotateAfterFailures THEN failedInRow ELSE count
                 /\ checkStep' = "idle"
                 /\ UNCHANGED <<proxy, sincePause, earlyRounds>>
       /\ UNCHANGED load

ContentChecksNext == StartCheck \/ CheckAnswered \/ CheckFailed

-----------------------------------------------------------------------------
\* Between two round pauses a proxy carries one batch of checks, failed ones included,
\* and one more for each time the last proxy was left early: however the checks fail and
\* the proxies change, nothing else lets an address serve again before the pause that
\* "once every proxy has had its batch" promises
\* (facebook_branded_content_checker.py:76-86, 318-357, 374-389).
ProxiesRest == \A p \in AllProxies : load[p] <= ChecksPerBatch * (1 + earlyRounds)
=============================================================================
