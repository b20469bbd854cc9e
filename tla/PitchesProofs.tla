--------------------------- MODULE PitchesProofs ---------------------------
(* The invariants of Pitches, for any number of requests. *)
EXTENDS Pitches, UsageLimitsProofs, FiniteSetTheorems

\* Requests whose pitch is paid for: past consume, at work, or in the table.
Paid(r) == step[r] \in {"reveal", "ready", "open", "write"} \/ gen[r] # "none" \/ r \in saved

PaidBy(c) == {r \in Requests : Owner[r] = c /\ Paid(r)}

\* A use of the day stands behind every paid request, and no more are given
\* than the cap has.  It is what WrittenWithinCap rests on: a pitch in the table
\* says nothing of those that will still be written.
PaidWithinUses ==
    \A c \in Creators :
        /\ Cardinality(PaidBy(c)) <= uses[c]["pitches"]
        /\ uses[c]["pitches"] <= Cap["pitches"]

-----------------------------------------------------------------------------
LEMMA SlotsType ==
    ASSUME slots \in [Requests -> 0 .. SlotLife + 1 \cup {NoRow}]
    PROVE  /\ SlotsAfterPurge \in [Requests -> 0 .. SlotLife + 1 \cup {NoRow}]
           /\ \A r \in Requests :
                [SlotsAfterPurge EXCEPT ![r] = 0] \in [Requests -> 0 .. SlotLife + 1 \cup {NoRow}]
           /\ \A r \in Requests :
                FreeSlot(r) => slots' \in [Requests -> 0 .. SlotLife + 1 \cup {NoRow}]
           /\ \A r \in Requests : SlotAge(slots[r]) \in 0 .. SlotLife + 1 \cup {NoRow}
<1>1. SlotLife \in Nat
  BY PitchesAssumption DEF SlotLife
<1>2. 0 \in 0 .. SlotLife + 1
  BY <1>1
<1>3. SlotsAfterPurge \in [Requests -> 0 .. SlotLife + 1 \cup {NoRow}]
  BY DEF SlotsAfterPurge
<1>4. \A r \in Requests : SlotAge(slots[r]) \in 0 .. SlotLife + 1 \cup {NoRow}
  BY <1>1 DEF SlotAge, NoRow
<1> QED BY <1>2, <1>3, <1>4 DEF FreeSlot

LEMMA FreeLockRowType ==
    ASSUME TypeOK, NEW r \in Requests, FreeLockRow(r)
    PROVE  /\ locks' \in [Creators -> [LockNames -> Ages \cup {NoRow}]]
           /\ leaked' \subseteq Requests
<1>1. Owner[r] \in Creators
  BY PitchesAssumption
<1>2. CASE Release(Owner[r], {Pitch}) /\ UNCHANGED leaked
  BY <1>1, <1>2, ReleaseType DEF TypeOK
<1>3. CASE leaked' = leaked \cup {r} /\ UNCHANGED locks
  BY <1>3 DEF TypeOK, UsageTypeOK
<1> QED BY <1>2, <1>3 DEF FreeLockRow

LEMMA InitType == Init => TypeOK
<1> SUFFICES ASSUME Init PROVE TypeOK
  OBVIOUS
<1>1. UsageTypeOK
  BY DEF Init, UsageInit, UsageTypeOK
<1>2. 0 \in 0 .. Deadline
  BY PitchesAssumption
<1> QED BY <1>1, <1>2 DEF Init, TypeOK

LEMMA ProceedType ==
    ASSUME TypeOK, NEW r \in Requests, Proceed(r)
    PROVE  TypeOK'
<1> USE DEF GoTo, Answer
<1>0. Owner[r] \in Creators /\ "pitches" \in Features /\ Pitch \in LockNames
  BY PitchesAssumption
<1>1. CASE TakeSlot(r)
  BY <1>1, SlotsType DEF TakeSlot, TypeOK, UsageTypeOK
<1>2. CASE TakeLock(r)
  <2>1. CASE Acquire(Owner[r], Pitch) /\ GoTo(r, "charge") /\ UNCHANGED <<slots, reply>>
    <3>1. locks' \in [Creators -> [LockNames -> Ages \cup {NoRow}]]
      BY <1>0, <2>1, AcquireType DEF TypeOK
    <3> QED BY <1>2, <2>1, <3>1 DEF TakeLock, TypeOK, UsageTypeOK
  <2>2. CASE FreeSlot(r) /\ GoTo(r, "over") /\ Answer(r, "refused") /\ UNCHANGED locks
    BY <1>2, <2>2, SlotsType DEF TakeLock, TypeOK, UsageTypeOK
  <2> QED BY <1>2, <2>1, <2>2 DEF TakeLock
<1>3. CASE Charge(r)
  <2>1. CASE Consume(Owner[r], "pitches") /\ GoTo(r, "reveal")
               /\ UNCHANGED <<locks, slots, reply, leaked>>
    <3>1. uses' \in [Creators -> [Features -> Nat]]
      BY <1>0, <2>1, ConsumeType DEF TypeOK
    <3> QED BY <1>3, <2>1, <3>1 DEF Charge, TypeOK, UsageTypeOK
  <2>2. CASE Refuse(r) /\ UNCHANGED uses
    BY <1>3, <2>2, SlotsType, FreeLockRowType DEF Charge, Refuse, TypeOK, UsageTypeOK
  <2> QED BY <1>3, <2>1, <2>2 DEF Charge
<1>4. CASE Reveal(r)
  <2>1. CASE Refuse(r) /\ UNCHANGED gen
    BY <1>4, <2>1, SlotsType, FreeLockRowType DEF Reveal, Refuse, TypeOK, UsageTypeOK
  <2>2. CASE /\ GoTo(r, IF r \in Streams THEN "ready" ELSE "write")
             /\ gen' = [gen EXCEPT ![r] = IF r \in Streams THEN "none" ELSE "writing"]
             /\ UNCHANGED <<locks, slots, reply, leaked>>
    <3>1. CASE r \in Streams
      BY <1>4, <2>2, <3>1 DEF Reveal, TypeOK, UsageTypeOK
    <3>2. CASE r \notin Streams
      BY <1>4, <2>2, <3>2 DEF Reveal, TypeOK, UsageTypeOK
    <3> QED BY <3>1, <3>2
  <2> QED BY <1>4, <2>1, <2>2 DEF Reveal
<1>5. CASE Respond(r)
  BY <1>5, FreeLockRowType DEF Respond, TypeOK, UsageTypeOK
<1>6. CASE Open(r)
  BY <1>6 DEF Open, TypeOK, UsageTypeOK
<1>7. CASE Finish(r)
  BY <1>7, SlotsType DEF Finish, Cleanup, TypeOK, UsageTypeOK
<1>8. CASE TimesOut(r)
  BY <1>8, SlotsType DEF TimesOut, Cleanup, TypeOK, UsageTypeOK
<1>9. CASE FreeLock(r)
  BY <1>9, FreeLockRowType DEF FreeLock, TypeOK, UsageTypeOK
<1>10. CASE Background(r)
  <2>1. locks' \in [Creators -> [LockNames -> Ages \cup {NoRow}]] /\ leaked' \subseteq Requests
    BY <1>10, FreeLockRowType DEF Background, TypeOK, UsageTypeOK
  <2>2. slots' \in [Requests -> 0 .. SlotLife + 1 \cup {NoRow}]
    BY <1>10, SlotsType DEF Background, TypeOK
  <2> QED BY <1>10, <2>1, <2>2 DEF Background, RunFollowups, TypeOK, UsageTypeOK
<1> QED BY <1>1, <1>2, <1>3, <1>4, <1>5, <1>6, <1>7, <1>8, <1>9, <1>10 DEF Proceed

LEMMA GenerateType ==
    ASSUME TypeOK, NEW r \in Requests, Generate(r)
    PROVE  TypeOK'
<1>1. CASE Save(r)
  BY <1>1 DEF Save, TypeOK, UsageTypeOK
<1>2. CASE GenerationFails(r)
  BY <1>2 DEF GenerationFails, TypeOK, UsageTypeOK
<1>3. CASE Stop(r)
  BY <1>3 DEF Stop, TypeOK, UsageTypeOK
<1>4. CASE Claim(r)
  BY <1>4 DEF Claim, TypeOK, UsageTypeOK
<1>5. CASE ClaimFails(r)
  BY <1>5 DEF ClaimFails, TypeOK, UsageTypeOK
<1>6. CASE Tell(r)
  BY <1>6 DEF Tell, TypeOK, UsageTypeOK
<1> QED BY <1>1, <1>2, <1>3, <1>4, <1>5, <1>6 DEF Generate

LEMMA LeaveType ==
    ASSUME TypeOK, NEW r \in Requests, Leave(r) \/ LeaveEarly(r)
    PROVE  TypeOK'
<1>1. CASE Leave(r)
  BY <1>1, SlotsType DEF Leave, Cleanup, GoTo, TypeOK, UsageTypeOK
<1>2. CASE LeaveEarly(r)
  BY <1>2 DEF LeaveEarly, GoTo, TypeOK, UsageTypeOK
<1> QED BY <1>1, <1>2

LEMMA TickType ==
    ASSUME TypeOK, Tick
    PROVE  TypeOK'
<1>1. locks' \in [Creators -> [LockNames -> Ages \cup {NoRow}]]
  BY GrowOlderType DEF Tick, TypeOK
<1>2. slots' \in [Requests -> 0 .. SlotLife + 1 \cup {NoRow}]
  BY SlotsType DEF Tick, TypeOK
<1>3. age' \in [Requests -> 0 .. Deadline]
  BY PitchesAssumption DEF Tick, InTime, TypeOK
<1> QED BY <1>1, <1>2, <1>3 DEF Tick, TypeOK, UsageTypeOK

\* TypeOK: every step, of every thread of every request, keeps the state among
\* those the code can hold; a stream is never open beyond its deadline.
THEOREM TypeCorrect == Spec => []TypeOK
<1>1. TypeOK /\ [Next]_vars => TypeOK'
  <2> SUFFICES ASSUME TypeOK, [Next]_vars PROVE TypeOK'
    OBVIOUS
  <2>1. CASE UNCHANGED vars
    BY <2>1 DEF vars, TypeOK, UsageTypeOK
  <2>2. CASE \E r \in Requests : Proceed(r) \/ Generate(r) \/ Leave(r) \/ LeaveEarly(r)
    BY <2>2, ProceedType, GenerateType, LeaveType
  <2>3. CASE Tick
    BY <2>3, TickType
  <2> QED BY <2>1, <2>2, <2>3 DEF Next
<1> QED BY InitType, <1>1, PTL DEF Spec

-----------------------------------------------------------------------------
LEMMA PaidByFinite ==
    ASSUME NEW c
    PROVE  IsFiniteSet(PaidBy(c)) /\ Cardinality(PaidBy(c)) \in Nat
<1>1. PaidBy(c) \subseteq Requests /\ IsFiniteSet(Requests)
  BY PitchesAssumption DEF PaidBy
<1> QED BY <1>1, FS_Subset, FS_CardinalityType

\* But for the consume of Charge, no step makes a request paid, or touches uses.
LEMMA NotPaidByOthers ==
    ASSUME TypeOK, Next, \A q \in Requests : ~(Charge(q) /\ Consume(Owner[q], "pitches"))
    PROVE  uses' = uses /\ \A q \in Requests : Paid(q)' => Paid(q)
<1> USE DEF Paid, GoTo
<1>1. CASE Tick
  BY <1>1 DEF Tick
<1>2. ASSUME NEW r \in Requests, Proceed(r)
      PROVE  uses' = uses /\ \A q \in Requests : Paid(q)' => Paid(q)
  <2>1. CASE TakeSlot(r)
    BY <2>1 DEF TakeSlot, TypeOK
  <2>2. CASE TakeLock(r)
    BY <2>2 DEF TakeLock, TypeOK
  <2>3. CASE Charge(r)
    BY <2>3 DEF Charge, Refuse, TypeOK
  <2>4. CASE Reveal(r)
    BY <2>4 DEF Reveal, Refuse, TypeOK
  <2>5. CASE Respond(r)
    BY <2>5 DEF Respond, TypeOK
  <2>6. CASE Open(r)
    BY <2>6 DEF Open, TypeOK
  <2>7. CASE Finish(r)
    BY <2>7 DEF Finish, Cleanup, TypeOK
  <2>8. CASE TimesOut(r)
    BY <2>8 DEF TimesOut, Cleanup, TypeOK
  <2>9. CASE FreeLock(r)
    BY <2>9 DEF FreeLock, TypeOK
  <2>10. CASE Background(r)
    BY <2>10 DEF Background, TypeOK
  <2> QED BY <1>2, <2>1, <2>2, <2>3, <2>4, <2>5, <2>6, <2>7, <2>8, <2>9, <2>10 DEF Proceed
<1>3. ASSUME NEW r \in Requests, Generate(r)
      PROVE  uses' = uses /\ \A q \in Requests : Paid(q)' => Paid(q)
  BY <1>3 DEF Generate, Save, GenerationFails, Stop, Claim, ClaimFails, Tell, TypeOK
<1>4. ASSUME NEW r \in Requests, Leave(r) \/ LeaveEarly(r)
      PROVE  uses' = uses /\ \A q \in Requests : Paid(q)' => Paid(q)
  BY <1>4 DEF Leave, Cleanup, LeaveEarly, TypeOK
<1> QED BY <1>1, <1>2, <1>3, <1>4 DEF Next

\* The consume of Charge pays for one request, with one use of its owner.
LEMMA ChargePays ==
    ASSUME TypeOK, PaidWithinUses, NEW r \in Requests, Charge(r), Consume(Owner[r], "pitches")
    PROVE  PaidWithinUses'
<1> DEFINE o == Owner[r]
<1>1. o \in Creators /\ "pitches" \in Features
  BY PitchesAssumption
<1>2. /\ uses[o]["pitches"] \in Nat
      /\ uses[o]["pitches"] < Cap["pitches"]
      /\ Cap["pitches"] \in Nat
  BY <1>1, UsageLimitsAssumption DEF TypeOK, UsageTypeOK, Consume, UnderCap
<1>3. \A c \in Creators :
        uses'[c]["pitches"] = IF c = o THEN uses[c]["pitches"] + 1 ELSE uses[c]["pitches"]
  BY <1>1 DEF Consume, TypeOK, UsageTypeOK
<1>4. step' = [step EXCEPT ![r] = "reveal"] /\ UNCHANGED <<gen, saved>>
  BY DEF Charge, Consume, GoTo
<1> SUFFICES ASSUME NEW c \in Creators
             PROVE  /\ Cardinality(PaidBy(c)') <= uses'[c]["pitches"]
                    /\ uses'[c]["pitches"] <= Cap["pitches"]
  BY DEF PaidWithinUses
<1>5. CASE c # o
  <2>1. PaidBy(c)' = PaidBy(c)
    BY <1>4, <1>5 DEF PaidBy, Paid, TypeOK
  <2> QED BY <1>3, <1>5, <2>1 DEF PaidWithinUses
<1>6. CASE c = o
  <2>1. PaidBy(c)' \subseteq PaidBy(c) \cup {r}
    BY <1>4 DEF PaidBy, Paid, TypeOK
  <2>2. /\ IsFiniteSet(PaidBy(c) \cup {r})
        /\ Cardinality(PaidBy(c) \cup {r}) \in Nat
        /\ Cardinality(PaidBy(c) \cup {r}) <= Cardinality(PaidBy(c)) + 1
    <3>1. IsFiniteSet(PaidBy(c)) /\ Cardinality(PaidBy(c)) \in Nat
      BY PaidByFinite
    <3>2. /\ IsFiniteSet(PaidBy(c) \cup {r})
          /\ \/ Cardinality(PaidBy(c) \cup {r}) = Cardinality(PaidBy(c))
             \/ Cardinality(PaidBy(c) \cup {r}) = Cardinality(PaidBy(c)) + 1
      BY <3>1, FS_AddElement
    <3> QED BY <3>1, <3>2
  <2>3. Cardinality(PaidBy(c)') \in Nat
        /\ Cardinality(PaidBy(c)') <= Cardinality(PaidBy(c) \cup {r})
    BY <2>1, <2>2, FS_Subset, FS_CardinalityType
  <2>4. Cardinality(PaidBy(c)) <= uses[c]["pitches"] /\ Cardinality(PaidBy(c)) \in Nat
    BY PaidByFinite DEF PaidWithinUses
  <2> QED BY <1>2, <1>3, <1>6, <2>2, <2>3, <2>4
<1> QED BY <1>5, <1>6

LEMMA OthersPay ==
    ASSUME TypeOK, PaidWithinUses, UNCHANGED uses,
           \A q \in Requests : Paid(q)' => Paid(q)
    PROVE  PaidWithinUses'
<1> SUFFICES ASSUME NEW c \in Creators
             PROVE  /\ Cardinality(PaidBy(c)') <= uses[c]["pitches"]
                    /\ uses[c]["pitches"] <= Cap["pitches"]
  BY DEF PaidWithinUses
<1>1. PaidBy(c)' \subseteq PaidBy(c)
  BY DEF PaidBy
<1>2. Cardinality(PaidBy(c)') \in Nat /\ Cardinality(PaidBy(c)') <= Cardinality(PaidBy(c))
  BY <1>1, PaidByFinite, FS_Subset, FS_CardinalityType
<1>3. uses[c]["pitches"] \in Nat
  BY PitchesAssumption DEF TypeOK, UsageTypeOK
<1> QED BY <1>2, <1>3, PaidByFinite DEF PaidWithinUses

LEMMA InitPaid == Init => PaidWithinUses
<1> SUFFICES ASSUME Init, NEW c \in Creators
             PROVE  /\ Cardinality(PaidBy(c)) <= uses[c]["pitches"]
                    /\ uses[c]["pitches"] <= Cap["pitches"]
  BY DEF PaidWithinUses
<1>1. PaidBy(c) = {}
  BY DEF Init, PaidBy, Paid
<1>2. uses[c]["pitches"] = 0 /\ Cap["pitches"] \in Nat
  BY PitchesAssumption, UsageLimitsAssumption DEF Init, UsageInit
<1> QED BY <1>1, <1>2, FS_EmptySet

\* WrittenWithinCap: however many plain and streamed requests run at once, and
\* however they end, a creator has no more pitches written on a day than
\* PITCHES_PER_DAY.
THEOREM CapHolds == Spec => []WrittenWithinCap
<1>1. TypeOK /\ PaidWithinUses /\ [Next]_vars => PaidWithinUses'
  <2> SUFFICES ASSUME TypeOK, PaidWithinUses, [Next]_vars PROVE PaidWithinUses'
    OBVIOUS
  <2>1. CASE UNCHANGED vars
    BY <2>1 DEF vars, PaidWithinUses, PaidBy, Paid
  <2>2. CASE \E q \in Requests : Charge(q) /\ Consume(Owner[q], "pitches")
    BY <2>2, ChargePays
  <2>3. CASE Next /\ \A q \in Requests : ~(Charge(q) /\ Consume(Owner[q], "pitches"))
    BY <2>3, NotPaidByOthers, OthersPay
  <2> QED BY <2>1, <2>2, <2>3
<1>2. TypeOK /\ PaidWithinUses => WrittenWithinCap
  <2> SUFFICES ASSUME TypeOK, PaidWithinUses, NEW c \in Creators
               PROVE  Cardinality({r \in saved : Owner[r] = c}) <= Cap["pitches"]
    BY DEF WrittenWithinCap
  <2>1. {r \in saved : Owner[r] = c} \subseteq PaidBy(c)
    BY DEF PaidBy, Paid, TypeOK
  <2>2. /\ Cardinality({r \in saved : Owner[r] = c}) \in Nat
        /\ Cardinality({r \in saved : Owner[r] = c}) <= Cardinality(PaidBy(c))
    BY <2>1, PaidByFinite, FS_Subset, FS_CardinalityType
  <2>3. uses[c]["pitches"] \in Nat /\ Cap["pitches"] \in Nat
    BY PitchesAssumption, UsageLimitsAssumption DEF TypeOK, UsageTypeOK
  <2> QED BY <2>2, <2>3, PaidByFinite DEF PaidWithinUses
<1> QED BY TypeCorrect, InitPaid, <1>1, <1>2, PTL DEF Spec

-----------------------------------------------------------------------------
(* StreamsBounded, NothingLeft and DoneRanFollowup.                        *)

SettingUp(r) == step[r] \in {"lock", "charge", "reveal", "ready"}

\* What StreamsBounded rests on: the table counts within the bound, and the
\* slot of a stream at work is too young to be taken for one nobody released.
SlotInv ==
    /\ Cardinality(Held) <= SlotMax
    /\ \A r \in Requests :
        /\ r \in Streams /\ SettingUp(r) => slots[r] \in 0 .. Grace
        /\ r \in Streams /\ step[r] = "open" => slots[r] \in 0 .. Grace + age[r]

\* Who still has to give back a slot, or why nobody does.
HeldInv ==
    \A r \in Requests :
        /\ r \in Held => r \in Streams /\ (UsesASlot(r) \/ step[r] = "after" \/ r \in leaked)
        /\ step[r] \in {"lock", "ready", "open"} => r \in Streams

\* The same for a lock row, which names no owner: somebody of that creator.
FreesRow(r) ==
    InFlight(r) \/ releaser[r] \/ (r \in Streams /\ step[r] = "after") \/ r \in leaked

LockInv ==
    \A c \in Creators :
        locks[c][Pitch] # NoRow => \E r \in Requests : Owner[r] = c /\ FreesRow(r)

\* A browser is told "done" only by a response whose worker claimed before it
\* ended, so the background task that follows sees the claim.
ReplyInv ==
    \A r \in Requests : reply[r] = "done" =>
        /\ gen[r] = "over"
        /\ step[r] \in {"after", "over"}
        /\ step[r] = "over" => ~followups[r]

LEMMA HeldFinite == IsFiniteSet(Held) /\ Cardinality(Held) \in Nat
<1>1. Held \subseteq Requests /\ IsFiniteSet(Requests)
  BY PitchesAssumption DEF Held
<1> QED BY <1>1, FS_Subset, FS_CardinalityType

\* Nothing but acquire adds a slot to the table.
LEMMA FewerHeld ==
    ASSUME Cardinality(Held) <= SlotMax, Held' \subseteq Held
    PROVE  (Cardinality(Held) <= SlotMax)'
<1>1. Cardinality(Held') \in Nat /\ Cardinality(Held') <= Cardinality(Held)
  BY HeldFinite, FS_Subset, FS_CardinalityType
<1> QED BY <1>1, HeldFinite, PitchesAssumption

LEMMA TakeSlotBounded ==
    ASSUME TypeOK, NEW r \in Requests, TakeSlot(r), Cardinality(Held) <= SlotMax
    PROVE  (Cardinality(Held) <= SlotMax)'
<1> DEFINE left == {q \in Requests : SlotsAfterPurge[q] # NoRow}
<1>1. left \subseteq Held
  BY DEF SlotsAfterPurge, Held
<1>2. IsFiniteSet(left) /\ Cardinality(left) \in Nat
  BY <1>1, HeldFinite, FS_Subset, FS_CardinalityType
<1>3. CASE Cardinality(left) < SlotMax
  <2>1. slots' = [SlotsAfterPurge EXCEPT ![r] = 0]
    BY <1>3 DEF TakeSlot
  <2>2. Held' \subseteq left \cup {r}
    BY <2>1, SlotsType DEF Held, TypeOK
  <2>3. /\ IsFiniteSet(left \cup {r})
        /\ \/ Cardinality(left \cup {r}) = Cardinality(left)
           \/ Cardinality(left \cup {r}) = Cardinality(left) + 1
    BY <1>2, FS_AddElement
  <2>4. Cardinality(Held') \in Nat /\ Cardinality(Held') <= Cardinality(left \cup {r})
    BY <2>2, <2>3, FS_Subset, FS_CardinalityType
  <2> QED BY <1>2, <1>3, <2>3, <2>4, PitchesAssumption
<1>4. CASE ~(Cardinality(left) < SlotMax)
  <2>1. slots' = SlotsAfterPurge
    BY <1>4 DEF TakeSlot
  <2>2. Held' \subseteq Held
    BY <2>1 DEF Held, SlotsAfterPurge
  <2> QED BY <2>2, FewerHeld
<1> QED BY <1>3, <1>4

\* A slot is written by acquire, by time and by a release of its own stream;
\* a stream at work comes through every purge of the table.
LEMMA TakeSlotInv ==
    ASSUME TypeOK, SlotInv, NEW r \in Requests, TakeSlot(r)
    PROVE  SlotInv'
<1>1. (Cardinality(Held) <= SlotMax)'
  BY TakeSlotBounded DEF SlotInv
<1>2. SlotLife = Deadline + Grace /\ Deadline \in Nat /\ Grace \in Nat
  BY PitchesAssumption DEF SlotLife
<1>3. \A q \in Requests : age[q] \in 0 .. Deadline
  BY DEF TypeOK
<1>4. \A q \in Requests : q \in Streams /\ (SettingUp(q) \/ step[q] = "open") =>
        SlotsAfterPurge[q] = slots[q]
  BY <1>2, <1>3 DEF SlotInv, SlotsAfterPurge, Expired
<1>5. 0 \in 0 .. Grace /\ step[r] = "start" /\ UNCHANGED age
  BY <1>2 DEF TakeSlot
<1>6. \/ slots' = [SlotsAfterPurge EXCEPT ![r] = 0] /\ step' = [step EXCEPT ![r] = "lock"]
      \/ slots' = SlotsAfterPurge /\ step' = [step EXCEPT ![r] = "over"]
  BY DEF TakeSlot, GoTo
<1>7. SlotsAfterPurge \in [Requests -> 0 .. SlotLife + 1 \cup {NoRow}]
      /\ step \in [Requests -> {"start", "lock", "charge", "reveal", "ready", "open", "write",
                                "after", "over"}]
  BY SlotsType DEF TypeOK
<1>8. ASSUME NEW q \in Requests
      PROVE  /\ q \in Streams /\ SettingUp(q)' => slots'[q] \in 0 .. Grace
             /\ q \in Streams /\ step'[q] = "open" => slots'[q] \in 0 .. Grace + age'[q]
  <2>1. CASE q = r
    BY <1>5, <1>6, <1>7, <2>1 DEF SettingUp
  <2>2. CASE q # r
    <3>1. step'[q] = step[q] /\ slots'[q] = SlotsAfterPurge[q] /\ age'[q] = age[q]
      BY <1>5, <1>6, <1>7, <2>2
    <3> QED BY <1>4, <3>1 DEF SlotInv, SettingUp
  <2> QED BY <2>1, <2>2
<1> QED BY <1>1, <1>8 DEF SlotInv

LEMMA TickSlotInv ==
    ASSUME TypeOK, SlotInv, Tick
    PROVE  SlotInv'
<1>1. SlotLife = Deadline + Grace /\ Deadline \in Nat /\ Grace \in Nat
  BY PitchesAssumption DEF SlotLife
<1>2. \A r \in Requests : slots'[r] = SlotAge(slots[r])
  BY DEF Tick
<1>3. Held' \subseteq Held
  BY <1>2 DEF Held, SlotAge
<1>4. ASSUME NEW q \in Requests
      PROVE  /\ q \in Streams /\ SettingUp(q)' => slots'[q] \in 0 .. Grace
             /\ q \in Streams /\ step'[q] = "open" => slots'[q] \in 0 .. Grace + age'[q]
  <2>1. InTime(q) /\ step' = step /\ age'[q] = IF step[q] = "open" THEN age[q] + 1 ELSE age[q]
    BY DEF Tick
  <2>2. age[q] \in 0 .. Deadline
    BY DEF TypeOK
  <2>3. CASE q \in Streams /\ SettingUp(q)
    <3>1. slots[q] \in 0 .. Grace /\ slots[q] < Grace
      BY <2>1, <2>3 DEF SlotInv, SettingUp, InTime
    <3>2. slots'[q] = slots[q] + 1
      BY <1>1, <1>2, <3>1 DEF SlotAge, NoRow
    <3> QED BY <1>1, <2>1, <2>3, <3>1, <3>2 DEF SettingUp
  <2>4. CASE q \in Streams /\ step[q] = "open"
    <3>1. slots[q] \in 0 .. Grace + age[q]
      BY <2>4 DEF SlotInv
    <3>2. slots'[q] = slots[q] + 1
      BY <1>1, <1>2, <2>2, <3>1 DEF SlotAge, NoRow
    <3> QED BY <1>1, <2>1, <2>2, <2>4, <3>1, <3>2 DEF SettingUp
  <2> QED BY <2>1, <2>3, <2>4 DEF SettingUp
<1> QED BY <1>3, <1>4, FewerHeld DEF SlotInv

\* The steps that take no slot: it stays, or the stream is over with it.
LEMMA KeepsSlots ==
    ASSUME TypeOK, SlotInv, NEW r \in Requests, UNCHANGED age,
           slots' = slots \/ FreeSlot(r),
           \A q \in Requests \ {r} : step'[q] = step[q],
           \/ slots'[r] = slots[r] /\ (step'[r] = step[r] \/ r \notin Streams)
           \/ slots'[r] = slots[r] /\ SettingUp(r) /\ (SettingUp(r)' \/ step'[r] = "open")
           \/ step'[r] \in {"after", "over"}
    PROVE  SlotInv'
<1>1. Held' \subseteq Held /\ \A q \in Requests \ {r} : slots'[q] = slots[q]
  BY DEF FreeSlot, Held, TypeOK
<1>2. ASSUME NEW q \in Requests
      PROVE  /\ q \in Streams /\ SettingUp(q)' => slots'[q] \in 0 .. Grace
             /\ q \in Streams /\ step'[q] = "open" => slots'[q] \in 0 .. Grace + age'[q]
  <2>1. age'[q] = age[q] /\ age[q] \in Nat /\ Grace \in Nat
    BY PitchesAssumption DEF TypeOK
  <2>2. CASE q # r
    BY <1>1, <2>1, <2>2 DEF SlotInv, SettingUp
  <2>3. CASE q = r
    BY <2>1, <2>3 DEF SlotInv, SettingUp
  <2> QED BY <2>2, <2>3
<1> QED BY <1>1, <1>2, FewerHeld DEF SlotInv

LEMMA NextSlotInv ==
    ASSUME TypeOK, HeldInv, SlotInv, [Next]_vars
    PROVE  SlotInv'
<1> USE DEF GoTo
<1>1. CASE UNCHANGED vars
  BY <1>1 DEF vars, SlotInv, Held, SettingUp
<1>2. CASE Tick
  BY <1>2, TickSlotInv
<1>3. ASSUME NEW r \in Requests, Proceed(r) \/ Generate(r) \/ Leave(r) \/ LeaveEarly(r)
      PROVE  SlotInv'
  <2>1. CASE TakeSlot(r)
    BY <2>1, TakeSlotInv
  <2>2. CASE TakeLock(r)
    <3>1. step[r] \in {"lock", "start"} /\ (step[r] = "lock" <=> r \in Streams)
      BY <2>2 DEF TakeLock
    <3> QED BY <2>2, <3>1, KeepsSlots DEF TakeLock, SettingUp, TypeOK
  <2>3. CASE Charge(r)
    BY <2>3, KeepsSlots DEF Charge, Refuse, SettingUp, TypeOK
  <2>4. CASE Reveal(r)
    BY <2>4, KeepsSlots DEF Reveal, Refuse, SettingUp, TypeOK
  <2>5. CASE Respond(r)
    BY <2>5, KeepsSlots DEF Respond, TypeOK
  <2>6. CASE Open(r)
    BY <2>6, KeepsSlots DEF Open, SettingUp, TypeOK
  <2>7. CASE Finish(r)
    BY <2>7, KeepsSlots DEF Finish, Cleanup, TypeOK
  <2>8. CASE TimesOut(r)
    BY <2>8, KeepsSlots DEF TimesOut, Cleanup, TypeOK
  <2>9. CASE FreeLock(r)
    BY <2>9, KeepsSlots DEF FreeLock, TypeOK
  <2>10. CASE Background(r)
    BY <2>10, KeepsSlots DEF Background, TypeOK
  <2>11. CASE Generate(r)
    <3>1. UNCHANGED <<slots, step, age>>
      BY <2>11 DEF Generate, Save, GenerationFails, Stop, Claim, ClaimFails, Tell
    <3> QED BY <3>1, KeepsSlots
  <2>12. CASE Leave(r)
    BY <2>12, KeepsSlots DEF Leave, Cleanup, TypeOK
  <2>13. CASE LeaveEarly(r)
    BY <2>13, KeepsSlots DEF LeaveEarly, TypeOK
  <2> QED BY <1>3, <2>1, <2>2, <2>3, <2>4, <2>5, <2>6, <2>7, <2>8, <2>9, <2>10, <2>11, <2>12, <2>13
          DEF Proceed
<1> QED BY <1>1, <1>2, <1>3 DEF Next

LEMMA NextHeldInv ==
    ASSUME TypeOK, HeldInv, [Next]_vars
    PROVE  HeldInv'
<1> USE DEF GoTo, HeldInv, Held, UsesASlot, FreeSlot, FreeLockRow
<1>1. CASE UNCHANGED vars
  BY <1>1 DEF vars
<1>2. CASE Tick
  <2>1. \A q \in Requests : slots'[q] # NoRow => slots[q] # NoRow
    BY <1>2 DEF Tick, SlotAge
  <2> QED BY <1>2, <2>1 DEF Tick
<1>3. ASSUME NEW r \in Requests, Proceed(r) \/ Generate(r) \/ Leave(r) \/ LeaveEarly(r)
      PROVE  HeldInv'
  <2> USE <1>3
  <2>1. CASE TakeSlot(r)
    <3>0. \/ slots' = [SlotsAfterPurge EXCEPT ![r] = 0]
          \/ slots' = SlotsAfterPurge
      BY <2>1 DEF TakeSlot
    <3>1. \A q \in Requests : q # r => (slots'[q] # NoRow => slots[q] # NoRow)
      BY <3>0 DEF SlotsAfterPurge
    <3>2. \/ step'[r] = "lock"
          \/ step'[r] = "over" /\ (slots'[r] # NoRow => slots[r] # NoRow)
      BY <2>1, SlotsType DEF TakeSlot, SlotsAfterPurge, TypeOK
    <3>3. r \in Streams /\ step[r] = "start" /\ leaked' = leaked
          /\ \A q \in Requests : q # r => step'[q] = step[q]
      BY <2>1 DEF TakeSlot, TypeOK
    <3> QED BY <3>1, <3>2, <3>3
  <2>2. CASE TakeLock(r)
    BY <2>2 DEF TakeLock, TypeOK
  <2>3. CASE Charge(r)
    BY <2>3 DEF Charge, Refuse, TypeOK
  <2>4. CASE Reveal(r)
    BY <2>4 DEF Reveal, Refuse, TypeOK
  <2>5. CASE Respond(r)
    BY <2>5 DEF Respond, TypeOK
  <2>6. CASE Open(r)
    BY <2>6 DEF Open, TypeOK
  <2>7. CASE Finish(r)
    BY <2>7 DEF Finish, Cleanup, TypeOK
  <2>8. CASE TimesOut(r)
    BY <2>8 DEF TimesOut, Cleanup, TypeOK
  <2>9. CASE FreeLock(r)
    BY <2>9 DEF FreeLock, TypeOK
  <2>10. CASE Background(r)
    BY <2>10 DEF Background, TypeOK
  <2>11. CASE Generate(r)
    BY <2>11 DEF Generate, Save, GenerationFails, Stop, Claim, ClaimFails, Tell
  <2>12. CASE Leave(r)
    BY <2>12 DEF Leave, Cleanup, TypeOK
  <2>13. CASE LeaveEarly(r)
    BY <2>13 DEF LeaveEarly, TypeOK
  <2> QED BY <1>3, <2>1, <2>2, <2>3, <2>4, <2>5, <2>6, <2>7, <2>8, <2>9, <2>10, <2>11, <2>12, <2>13
          DEF Proceed
<1> QED BY <1>1, <1>2, <1>3 DEF Next

LEMMA InitSlots == Init => SlotInv /\ HeldInv /\ LockInv /\ ReplyInv
<1> SUFFICES ASSUME Init PROVE SlotInv /\ HeldInv /\ LockInv /\ ReplyInv
  OBVIOUS
<1>1. Held = {}
  BY DEF Init, Held
<1>2. Cardinality(Held) <= SlotMax
  BY <1>1, FS_EmptySet, PitchesAssumption
<1>3. \A c \in Creators : locks[c][Pitch] = NoRow
  BY PitchesAssumption DEF Init, UsageInit
<1> QED BY <1>1, <1>2, <1>3 DEF Init, SlotInv, HeldInv, LockInv, ReplyInv, SettingUp

\* StreamsBounded: never more than PITCH_STREAM_MAX streams being set up or
\* open, with slots that expire and releases that come twice, late or never.
THEOREM SlotsBoundStreams == Spec => []StreamsBounded
<1>1. TypeOK /\ HeldInv /\ SlotInv /\ [Next]_vars => HeldInv' /\ SlotInv'
  BY NextHeldInv, NextSlotInv
<1>2. TypeOK /\ SlotInv => StreamsBounded
  <2> SUFFICES ASSUME TypeOK, SlotInv
               PROVE  Cardinality({r \in Requests : UsesASlot(r)}) <= SlotMax
    BY DEF StreamsBounded
  <2>1. {r \in Requests : UsesASlot(r)} \subseteq Held
    BY DEF SlotInv, UsesASlot, SettingUp, Held, NoRow
  <2>2. /\ Cardinality({r \in Requests : UsesASlot(r)}) \in Nat
        /\ Cardinality({r \in Requests : UsesASlot(r)}) <= Cardinality(Held)
    BY <2>1, HeldFinite, FS_Subset, FS_CardinalityType
  <2> QED BY <2>2, HeldFinite, PitchesAssumption DEF SlotInv
<1> QED BY TypeCorrect, InitSlots, <1>1, <1>2, PTL DEF Spec

-----------------------------------------------------------------------------
\* The row of creator c is gone, or it was not touched.
LEMMA FreeLockRowClears ==
    ASSUME TypeOK, NEW r \in Requests, FreeLockRow(r)
    PROVE  /\ leaked \subseteq leaked'
           /\ \A c \in Creators : locks'[c][Pitch] # NoRow =>
                 /\ locks[c][Pitch] # NoRow
                 /\ c = Owner[r] => r \in leaked'
<1>1. Owner[r] \in Creators /\ Pitch \in LockNames
  BY PitchesAssumption
<1>2. CASE Release(Owner[r], {Pitch}) /\ UNCHANGED leaked
  BY <1>1, <1>2 DEF Release, TypeOK, UsageTypeOK
<1>3. CASE leaked' = leaked \cup {r} /\ UNCHANGED locks
  BY <1>3
<1> QED BY <1>2, <1>3 DEF FreeLockRow

\* A step of r that frees the row, or hands the duty on, or takes the row.
LEMMA KeepsRows ==
    ASSUME TypeOK, LockInv, NEW r \in Requests, leaked \subseteq leaked',
           \A q \in Requests \ {r} : step'[q] = step[q] /\ releaser'[q] = releaser[q],
           \A c \in Creators : locks'[c][Pitch] # NoRow =>
               \/ locks[c][Pitch] # NoRow /\ (c = Owner[r] /\ FreesRow(r) => FreesRow(r)')
               \/ c = Owner[r] /\ FreesRow(r)'
    PROVE  LockInv'
<1> SUFFICES ASSUME NEW c \in Creators, locks'[c][Pitch] # NoRow
             PROVE  \E q \in Requests : Owner[q] = c /\ FreesRow(q)'
  BY DEF LockInv
<1>1. CASE c = Owner[r] /\ FreesRow(r)'
  BY <1>1
<1>2. CASE locks[c][Pitch] # NoRow /\ (c = Owner[r] /\ FreesRow(r) => FreesRow(r)')
  <2>1. PICK q \in Requests : Owner[q] = c /\ FreesRow(q)
    BY <1>2 DEF LockInv
  <2>2. CASE q = r
    BY <1>2, <2>1, <2>2
  <2>3. CASE q # r
    BY <2>1, <2>3 DEF FreesRow, InFlight
  <2> QED BY <2>2, <2>3
<1> QED BY <1>1, <1>2

\* The cleanup of events() leaves the row to the thread it starts.
LEMMA CleanupHandsOn ==
    ASSUME TypeOK, LockInv, NEW r \in Requests, Cleanup(r), UNCHANGED <<locks, leaked>>
    PROVE  LockInv'
<1>1. FreesRow(r)' /\ \A q \in Requests \ {r} : step'[q] = step[q] /\ releaser'[q] = releaser[q]
  <2>1. releaser'[r]
    BY DEF Cleanup, TypeOK
  <2> QED BY <2>1 DEF Cleanup, GoTo, TypeOK, FreesRow
<1> QED BY <1>1, KeepsRows

LEMMA NextLockInv ==
    ASSUME TypeOK, HeldInv, LockInv, [Next]_vars
    PROVE  LockInv'
<1> USE DEF GoTo
<1>1. CASE UNCHANGED vars
  BY <1>1 DEF vars, LockInv, FreesRow, InFlight
<1>2. CASE Tick
  <2>1. \A c \in Creators : locks'[c][Pitch] # NoRow => locks[c][Pitch] # NoRow
    BY <1>2, PitchesAssumption DEF Tick, GrowOlder, Age
  <2> QED BY <1>2, <2>1 DEF Tick, LockInv, FreesRow, InFlight
<1>3. ASSUME NEW r \in Requests, Proceed(r) \/ Generate(r) \/ Leave(r) \/ LeaveEarly(r)
      PROVE  LockInv'
  <2> USE DEF FreesRow, InFlight
  <2>0. Owner[r] \in Creators /\ Pitch \in LockNames
    BY PitchesAssumption
  <2>1. CASE TakeSlot(r)
    BY <2>1, KeepsRows DEF TakeSlot, TypeOK
  <2>2. CASE TakeLock(r)
    <3>1. CASE Acquire(Owner[r], Pitch) /\ GoTo(r, "charge")
      <4>1. \A c \in Creators : locks'[c][Pitch] # NoRow => c = Owner[r] \/ locks[c][Pitch] # NoRow
        BY <2>0, <3>1 DEF Acquire, TypeOK, UsageTypeOK
      <4>2. FreesRow(r)'
        BY <3>1 DEF TypeOK
      <4> QED BY <2>2, <3>1, <4>1, <4>2, KeepsRows DEF TakeLock, TypeOK
    <3>2. CASE GoTo(r, "over") /\ UNCHANGED locks
      <4>1. step[r] \in {"lock", "start"} /\ UNCHANGED <<releaser, leaked>>
        BY <2>2 DEF TakeLock
      <4> QED BY <2>2, <3>2, <4>1, KeepsRows DEF TakeLock, TypeOK
    <3> QED BY <2>2, <3>1, <3>2 DEF TakeLock
  <2>3. CASE Charge(r)
    <3>1. CASE GoTo(r, "reveal") /\ UNCHANGED <<locks, leaked>>
      BY <2>3, <3>1, KeepsRows DEF Charge, TypeOK
    <3>2. CASE Refuse(r)
      BY <2>3, <3>2, FreeLockRowClears, KeepsRows DEF Charge, Refuse, TypeOK
    <3> QED BY <2>3, <3>1, <3>2 DEF Charge
  <2>4. CASE Reveal(r)
    <3>1. CASE GoTo(r, IF r \in Streams THEN "ready" ELSE "write") /\ UNCHANGED <<locks, leaked>>
      BY <2>4, <3>1, KeepsRows DEF Reveal, TypeOK
    <3>2. CASE Refuse(r)
      BY <2>4, <3>2, FreeLockRowClears, KeepsRows DEF Reveal, Refuse, TypeOK
    <3> QED BY <2>4, <3>1, <3>2 DEF Reveal
  <2>5. CASE Respond(r)
    BY <2>5, FreeLockRowClears, KeepsRows DEF Respond, TypeOK
  <2>6. CASE Open(r)
    BY <2>6, KeepsRows DEF Open, TypeOK
  <2>7. CASE Finish(r)
    BY <2>7, CleanupHandsOn DEF Finish
  <2>8. CASE TimesOut(r)
    BY <2>8, CleanupHandsOn DEF TimesOut
  <2>9. CASE FreeLock(r)
    BY <2>9, FreeLockRowClears, KeepsRows DEF FreeLock, TypeOK
  <2>10. CASE Background(r)
    <3>1. CASE r \in Streams
      BY <2>10, <3>1, FreeLockRowClears, KeepsRows DEF Background, TypeOK
    <3>2. CASE r \notin Streams
      BY <2>10, <3>2, KeepsRows DEF Background, TypeOK
    <3> QED BY <3>1, <3>2
  <2>11. CASE Generate(r)
    <3>1. UNCHANGED <<locks, step, releaser, leaked>>
      BY <2>11 DEF Generate, Save, GenerationFails, Stop, Claim, ClaimFails, Tell
    <3> QED BY <3>1, KeepsRows
  <2>12. CASE Leave(r)
    BY <2>12, CleanupHandsOn DEF Leave
  <2>13. CASE LeaveEarly(r)
    <3>1. r \in Streams
      BY <2>13 DEF LeaveEarly, HeldInv
    <3> QED BY <2>13, <3>1, KeepsRows DEF LeaveEarly, TypeOK
  <2> QED BY <1>3, <2>1, <2>2, <2>3, <2>4, <2>5, <2>6, <2>7, <2>8, <2>9, <2>10, <2>11, <2>12, <2>13
          DEF Proceed
<1> QED BY <1>1, <1>2, <1>3 DEF Next

\* NothingLeft: whichever of the four threads of a request ends it, and in
\* whatever order they clean up, its slot and its creator's lock come back.
THEOREM RestsEmpty == Spec => []NothingLeft
<1>1. TypeOK /\ HeldInv /\ LockInv /\ [Next]_vars => HeldInv' /\ LockInv'
  BY NextHeldInv, NextLockInv
<1>2. TypeOK /\ HeldInv /\ LockInv => NothingLeft
  <2> SUFFICES ASSUME TypeOK, HeldInv, LockInv, \A r \in Requests : AtRest(r)
               PROVE  /\ Held \subseteq leaked
                      /\ \A c \in Creators :
                           locks[c][Pitch] # NoRow => \E r \in leaked : Owner[r] = c
    BY DEF NothingLeft
  <2>1. Held \subseteq leaked
    BY DEF HeldInv, AtRest, UsesASlot, Held
  <2>2. ASSUME NEW c \in Creators, locks[c][Pitch] # NoRow
        PROVE  \E r \in leaked : Owner[r] = c
    <3>1. PICK r \in Requests : Owner[r] = c /\ FreesRow(r)
      BY <2>2 DEF LockInv
    <3>2. r \in leaked
      BY <3>1 DEF FreesRow, InFlight, AtRest
    <3> QED BY <3>1, <3>2
  <2> QED BY <2>1, <2>2
<1> QED BY TypeCorrect, InitSlots, <1>1, <1>2, PTL DEF Spec

-----------------------------------------------------------------------------
LEMMA NextReplyInv ==
    ASSUME TypeOK, ReplyInv, [Next]_vars
    PROVE  ReplyInv'
<1> USE DEF GoTo, Answer, ReplyInv
<1>1. CASE UNCHANGED vars
  BY <1>1 DEF vars
<1>2. CASE Tick
  BY <1>2 DEF Tick
<1>3. ASSUME NEW r \in Requests, Proceed(r) \/ Generate(r) \/ Leave(r) \/ LeaveEarly(r)
      PROVE  ReplyInv'
  <2>1. CASE TakeSlot(r)
    BY <2>1 DEF TakeSlot, TypeOK
  <2>2. CASE TakeLock(r)
    <3>1. step[r] \in {"lock", "start"}
      BY <2>2 DEF TakeLock
    <3> QED BY <2>2, <3>1 DEF TakeLock, TypeOK
  <2>3. CASE Charge(r)
    BY <2>3 DEF Charge, Refuse, TypeOK
  <2>4. CASE Reveal(r)
    BY <2>4 DEF Reveal, Refuse, TypeOK
  <2>5. CASE Respond(r)
    BY <2>5 DEF Respond, TypeOK
  <2>6. CASE Open(r)
    BY <2>6 DEF Open, TypeOK
  <2>7. CASE Finish(r)
    BY <2>7 DEF Finish, Cleanup, TypeOK
  <2>8. CASE TimesOut(r)
    BY <2>8 DEF TimesOut, Cleanup, TypeOK
  <2>9. CASE FreeLock(r)
    BY <2>9 DEF FreeLock, TypeOK
  <2>10. CASE Background(r)
    BY <2>10 DEF Background, RunFollowups, TypeOK
  <2>11. CASE Generate(r)
    BY <2>11 DEF Generate, Save, GenerationFails, Stop, Claim, ClaimFails, Tell, TypeOK
  <2>12. CASE Leave(r)
    BY <2>12 DEF Leave, Cleanup, TypeOK
  <2>13. CASE LeaveEarly(r)
    BY <2>13 DEF LeaveEarly, TypeOK
  <2> QED BY <1>3, <2>1, <2>2, <2>3, <2>4, <2>5, <2>6, <2>7, <2>8, <2>9, <2>10, <2>11, <2>12, <2>13
          DEF Proceed
<1> QED BY <1>1, <1>2, <1>3 DEF Next

\* DoneRanFollowup: a pitch whose browser was told "done" leaves no claim
\* behind, whoever sets the cancel event, times out or leaves meanwhile.
THEOREM DoneLeavesNoClaim == Spec => []DoneRanFollowup
<1>1. TypeOK /\ ReplyInv /\ [Next]_vars => ReplyInv'
  BY NextReplyInv
<1>2. ReplyInv => DoneRanFollowup
  BY DEF ReplyInv, DoneRanFollowup
<1> QED BY TypeCorrect, InitSlots, <1>1, <1>2, PTL DEF Spec
=============================================================================
