------------------------- MODULE UsageLimitsProofs -------------------------
(* What each statement of UsageLimits does to the two tables. *)
EXTENDS UsageLimits, TLAPS

LEMMA ConsumeType ==
    ASSUME UsageTypeOK, NEW c \in Creators, NEW f \in Features, Consume(c, f)
    PROVE  uses' \in [Creators -> [Features -> Nat]]
<1>1. uses[c][f] + 1 \in Nat
  BY DEF UsageTypeOK
<1>2. uses' = [uses EXCEPT ![c] = [uses[c] EXCEPT ![f] = uses[c][f] + 1]]
  BY DEF Consume
<1>3. [uses[c] EXCEPT ![f] = uses[c][f] + 1] \in [Features -> Nat]
  BY <1>1 DEF UsageTypeOK
<1> QED BY <1>2, <1>3 DEF UsageTypeOK

LEMMA RefundType ==
    ASSUME UsageTypeOK, NEW c \in Creators, NEW f \in Features, Refund(c, f)
    PROVE  uses' \in [Creators -> [Features -> Nat]]
<1>1. CASE uses[c][f] > 0
  <2>1. uses[c][f] - 1 \in Nat
    BY <1>1 DEF UsageTypeOK
  <2>2. uses' = [uses EXCEPT ![c] = [uses[c] EXCEPT ![f] = uses[c][f] - 1]]
    BY <1>1 DEF Refund
  <2>3. [uses[c] EXCEPT ![f] = uses[c][f] - 1] \in [Features -> Nat]
    BY <2>1 DEF UsageTypeOK
  <2> QED BY <2>2, <2>3 DEF UsageTypeOK
<1> QED BY <1>1 DEF UsageTypeOK, Refund

LEMMA AcquireType ==
    ASSUME UsageTypeOK, NEW c \in Creators, NEW l \in LockNames, Acquire(c, l)
    PROVE  /\ locks' \in [Creators -> [LockNames -> Ages \cup {NoRow}]]
           /\ \A d \in Creators, m \in LockNames :
                locks'[d][m] = IF d = c /\ m = l THEN 0 ELSE locks[d][m]
<1>1. 0 \in Ages
  BY UsageLimitsAssumption DEF Ages
<1>2. locks' = [locks EXCEPT ![c] = [locks[c] EXCEPT ![l] = 0]]
  BY DEF Acquire
<1>3. [locks[c] EXCEPT ![l] = 0] \in [LockNames -> Ages \cup {NoRow}]
  BY <1>1 DEF UsageTypeOK
<1> QED BY <1>2, <1>3 DEF UsageTypeOK

LEMMA ReleaseType ==
    ASSUME UsageTypeOK, NEW c \in Creators, NEW ls, Release(c, ls)
    PROVE  /\ locks' \in [Creators -> [LockNames -> Ages \cup {NoRow}]]
           /\ \A d \in Creators, m \in LockNames :
                locks'[d][m] = IF d = c /\ m \in ls THEN NoRow ELSE locks[d][m]
<1>1. [l \in LockNames |-> IF l \in ls THEN NoRow ELSE locks[c][l]]
        \in [LockNames -> Ages \cup {NoRow}]
  BY DEF UsageTypeOK
<1> QED BY <1>1 DEF UsageTypeOK, Release

LEMMA GrowOlderType ==
    ASSUME UsageTypeOK, GrowOlder
    PROVE  /\ locks' \in [Creators -> [LockNames -> Ages \cup {NoRow}]]
           /\ \A d \in Creators, m \in LockNames : locks'[d][m] = Age(locks[d][m])
<1>1. \A a \in Ages \cup {NoRow} : Age(a) \in Ages \cup {NoRow}
  BY UsageLimitsAssumption DEF Age, Ages, NoRow
<1> QED BY <1>1 DEF UsageTypeOK, GrowOlder

=============================================================================
