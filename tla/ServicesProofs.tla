--------------------------- MODULE ServicesProofs ---------------------------
(* The small services of the API, one after the other: the edits of a pitch,*)
(* the contacts, the slow routes and bodies, the saved posts and the cache, *)
(* each for any number of requests, threads and rows.                       *)
EXTENDS Services, AccountsProofs, FiniteSetTheorems, SequenceTheorems

-----------------------------------------------------------------------------
(* PitchEdits                                                              *)

\* What an edit that has read the row may write, if it was not recorded as an unsent pitch
\* with a date: it never takes a date away, never makes an unsent pitch of a sent one, and
\* what it marks as sent has a date or gets one.  The row may have moved on since the read.
SafeChange(c) ==
    /\ c.status # "generated"
    /\ c.sentAt # "null"
    /\ c.status \in Later /\ c.sentAt = Absent => pitch.dated \/ pitch = Deleted
    /\ c.status = Absent /\ c.sentAt = "date" => pitch.status # "generated"

\* The date belongs to the sent pitches and to no other, and every pending edit is safe.
DatesFollowStatus ==
    ~datedDraft =>
        /\ pitch.status \in Later => pitch.dated
        /\ pitch.status = "generated" => ~pitch.dated
        /\ \A e \in Edits : editStep[e] = "commit" => SafeChange(change[e])

Sound(row) == row.status \in Later => row.dated

\* An edit that is committed to the row it has read keeps the date, of a dated draft too.
SoundInTurn ==
    /\ ~crossed => Sound(pitch)
    /\ \A e \in Edits : editStep[e] = "commit" /\ Sound(readRow[e]) => Sound(Applied(readRow[e], change[e]))

EditsInv == PitchEditsTypeOK /\ DatesFollowStatus /\ SoundInTurn

LEMMA StatusNames == Absent \notin Statuses /\ "generated" \notin Later /\ "deleted" \notin Statuses
BY DEF Absent, Statuses, Later

LEMMA EditsInit == PitchEditsInit => EditsInv
<1> SUFFICES ASSUME PitchEditsInit PROVE EditsInv
  OBVIOUS
<1>1. datedDraft \in BOOLEAN /\ crossed = FALSE
  BY DEF PitchEditsInit
<1>2. pitch = [status |-> "generated", dated |-> FALSE] \/ pitch \in [status : Statuses, dated : {TRUE}]
  BY DEF PitchEditsInit
<1>3. pitch \in PitchRows
  <2>1. CASE pitch = [status |-> "generated", dated |-> FALSE]
    BY <2>1 DEF PitchRows, Statuses
  <2>2. CASE pitch \in [status : Statuses, dated : {TRUE}]
    BY <2>2 DEF PitchRows
  <2> QED BY <1>2, <2>1, <2>2
<1>4. PitchEditsTypeOK
  BY <1>1, <1>3 DEF PitchEditsInit, PitchEditsTypeOK, Bodies, NoChange
<1>5. ASSUME ~datedDraft
      PROVE  (pitch.status \in Later => pitch.dated) /\ (pitch.status = "generated" => ~pitch.dated)
  <2>1. CASE pitch = [status |-> "generated", dated |-> FALSE]
    BY <2>1, StatusNames
  <2>2. CASE pitch \in [status : Statuses, dated : {TRUE}]
    <3>1. pitch = [status |-> pitch.status, dated |-> TRUE]
      BY <2>2
    <3>2. pitch # [status |-> "generated", dated |-> TRUE]
      BY <1>5 DEF PitchEditsInit
    <3> QED BY <3>1, <3>2
  <2> QED BY <1>2, <2>1, <2>2
<1>6. DatesFollowStatus
  BY <1>5 DEF PitchEditsInit, DatesFollowStatus
<1>7. SoundInTurn
  <2>1. Sound(pitch)
    <3>1. CASE pitch = [status |-> "generated", dated |-> FALSE]
      BY <3>1, StatusNames DEF Sound
    <3>2. CASE pitch \in [status : Statuses, dated : {TRUE}]
      BY <3>2 DEF Sound
    <3> QED BY <1>2, <3>1, <3>2
  <2> QED BY <2>1 DEF PitchEditsInit, SoundInTurn
<1> QED BY <1>4, <1>6, <1>7 DEF EditsInv

LEMMA EditReadInv ==
    ASSUME EditsInv, NEW e \in Edits, EditRead(e)
    PROVE  EditsInv'
<1> USE DEF EditsInv
<1>0. /\ pitch \in PitchRows /\ pitch' = pitch /\ datedDraft' = datedDraft /\ crossed' = crossed
      /\ readRow' = [readRow EXCEPT ![e] = pitch]
  BY DEF EditRead, PitchEditsTypeOK
<1>1. PICK body \in Bodies :
        IF Accepts(body)
          THEN /\ change' = [change EXCEPT ![e] = Changed(body)]
               /\ editStep' = [editStep EXCEPT ![e] = "commit"]
          ELSE /\ editStep' = [editStep EXCEPT ![e] = "over"]
               /\ UNCHANGED change
  BY DEF EditRead
<1>2. CASE ~Accepts(body)
  <2>1. PitchEditsTypeOK' /\ DatesFollowStatus'
    BY <1>0, <1>1, <1>2 DEF PitchEditsTypeOK, DatesFollowStatus, SafeChange
  <2>2. SoundInTurn'
    BY <1>0, <1>1, <1>2 DEF PitchEditsTypeOK, SoundInTurn, Sound, Applied
  <2> QED BY <2>1, <2>2
<1>3. CASE Accepts(body)
  <2>1. Changed(body) \in Bodies
    BY <1>0 DEF Changed, Bodies, PitchRows
  <2>2. PitchEditsTypeOK'
    BY <1>0, <1>1, <1>3, <2>1 DEF PitchEditsTypeOK
  <2>3. ASSUME ~datedDraft PROVE SafeChange(Changed(body))
    <3>1. /\ pitch.status \in Statuses /\ pitch.dated \in BOOLEAN
          /\ body.status \in Statuses \cup {Absent} /\ body.sentAt \in {Absent, "null", "date"}
      BY <1>0 DEF PitchRows, Bodies
    <3>2. (pitch.status \in Later => pitch.dated) /\ (pitch.status = "generated" => ~pitch.dated)
      BY <2>3 DEF DatesFollowStatus
    <3>3. Changed(body).status # "generated"
      BY <1>3, <3>1, StatusNames DEF Changed, Accepts, Transitions, Statuses, Later, Absent
    <3>4. Changed(body).sentAt # "null"
      BY <1>3, <3>1, <3>2, StatusNames DEF Changed, Accepts, NewStatus, Transitions, Statuses, Later, Absent
    <3>5. Changed(body).status \in Later /\ Changed(body).sentAt = Absent => pitch.dated
      BY <1>3, <3>1, <3>2, StatusNames DEF Changed, Accepts, NewStatus, Transitions, Statuses, Later, Absent
    <3>6. Changed(body).status = Absent /\ Changed(body).sentAt = "date" => pitch.status # "generated"
      BY <1>3, <3>1, <3>2, StatusNames DEF Changed, Accepts, NewStatus, Transitions, Statuses, Later, Absent
    <3> QED BY <3>3, <3>4, <3>5, <3>6 DEF SafeChange
  <2>4. DatesFollowStatus'
    BY <1>0, <1>1, <1>3, <2>3 DEF DatesFollowStatus, SafeChange, PitchEditsTypeOK
  <2>5. Sound(pitch) => Sound(Applied(pitch, Changed(body)))
    <3>1. /\ pitch.status \in Statuses /\ pitch.dated \in BOOLEAN
          /\ body.status \in Statuses \cup {Absent} /\ body.sentAt \in {Absent, "null", "date"}
      BY <1>0 DEF PitchRows, Bodies
    <3> QED BY <1>3, <3>1, StatusNames DEF Sound, Applied, Changed, Accepts, NewStatus, Transitions, Statuses,
                                         Later, Absent
  <2>6. SoundInTurn'
    BY <1>0, <1>1, <1>3, <2>5 DEF SoundInTurn, Sound, Applied, PitchEditsTypeOK
  <2> QED BY <2>2, <2>4, <2>6
<1> QED BY <1>2, <1>3

LEMMA EditCommitInv ==
    ASSUME EditsInv, NEW e \in Edits, EditCommit(e)
    PROVE  EditsInv'
<1> USE DEF EditsInv
<1>0. datedDraft' = datedDraft /\ change' = change /\ change[e] \in Bodies /\ editStep[e] = "commit"
  BY DEF EditCommit, PitchEditsTypeOK
<1>a. SoundInTurn'
  <2>1. readRow' = readRow /\ editStep' = [editStep EXCEPT ![e] = "over"] /\ crossed' = (crossed \/ pitch # readRow[e])
    BY DEF EditCommit
  <2>2. ~crossed' => Sound(pitch')
    BY <1>0, <2>1, StatusNames DEF EditCommit, SoundInTurn, Sound
  <2>3. \A f \in Edits : editStep'[f] = "commit" => editStep[f] = "commit"
    BY <2>1 DEF PitchEditsTypeOK
  <2> QED BY <1>0, <2>1, <2>2, <2>3 DEF SoundInTurn, Sound, Applied
<1>1. CASE pitch = Deleted
  BY <1>0, <1>a, <1>1 DEF EditCommit, PitchEditsTypeOK, DatesFollowStatus, SafeChange
<1>2. CASE pitch # Deleted
  <2>0. pitch \in PitchRows
    BY <1>2 DEF PitchEditsTypeOK
  <2>1. pitch' \in PitchRows
    BY <1>0, <1>2, <2>0 DEF EditCommit, Applied, Bodies, PitchRows
  <2>2. PitchEditsTypeOK'
    BY <1>0, <2>1 DEF EditCommit, PitchEditsTypeOK
  <2>3. ASSUME ~datedDraft
        PROVE  /\ pitch'.status \in Later => pitch'.dated
               /\ pitch'.status = "generated" => ~pitch'.dated
               /\ pitch.dated => pitch'.dated
               /\ pitch.status # "generated" => pitch'.status # "generated"
    <3>1. /\ pitch' = [status |-> IF change[e].status = Absent THEN pitch.status ELSE change[e].status,
                       dated |-> IF change[e].sentAt = Absent THEN pitch.dated ELSE change[e].sentAt = "date"]
          /\ change[e].status \in Statuses \cup {Absent} /\ change[e].sentAt \in {Absent, "null", "date"}
          /\ pitch.status \in Statuses /\ pitch.dated \in BOOLEAN
      BY <1>0, <1>2, <2>0 DEF EditCommit, Applied, Bodies, PitchRows
    <3>2. SafeChange(change[e])
      BY <1>0, <2>3 DEF DatesFollowStatus
    <3>3. (pitch.status \in Later => pitch.dated) /\ (pitch.status = "generated" => ~pitch.dated)
      BY <2>3 DEF DatesFollowStatus
    <3> QED BY <1>2, <3>1, <3>2, <3>3, StatusNames DEF SafeChange, Statuses
  <2>4. ASSUME ~datedDraft, NEW f \in Edits, editStep'[f] = "commit" PROVE SafeChange(change[f])'
    <3>1. SafeChange(change[f])
      BY <2>4, <1>0 DEF EditCommit, PitchEditsTypeOK, DatesFollowStatus
    <3> QED BY <1>0, <1>2, <2>3, <2>4, <3>1 DEF SafeChange
  <2> QED BY <1>0, <1>a, <2>2, <2>3, <2>4 DEF DatesFollowStatus
<1> QED BY <1>1, <1>2

LEMMA EditsNext == EditsInv /\ [PitchEditsNext]_pitchEditsVars => EditsInv'
<1> SUFFICES ASSUME EditsInv, [PitchEditsNext]_pitchEditsVars PROVE EditsInv'
  OBVIOUS
<1>1. CASE \E e \in Edits : EditRead(e) \/ EditCommit(e)
  BY <1>1, EditReadInv, EditCommitInv
<1>2. CASE DeletePitch
  <2>1. PitchEditsTypeOK' /\ DatesFollowStatus'
    BY <1>2, StatusNames DEF DeletePitch, EditsInv, PitchEditsTypeOK, DatesFollowStatus, SafeChange, Deleted, Statuses
  <2>2. SoundInTurn'
    BY <1>2, StatusNames DEF DeletePitch, EditsInv, SoundInTurn, Sound, Applied, Deleted, Later
  <2> QED BY <2>1, <2>2 DEF EditsInv
<1>3. CASE UNCHANGED pitchEditsVars
  BY <1>3 DEF pitchEditsVars, EditsInv, PitchEditsTypeOK, DatesFollowStatus, SafeChange, SoundInTurn, Sound, Applied
<1> QED BY <1>1, <1>2, <1>3 DEF PitchEditsNext

\* Every row and every pending edit has its type, for any number of edits of a pitch
\* (pitches.py:334-389).
THEOREM EditsTypeCorrect == PitchEditsSpec => []PitchEditsTypeOK
<1>1. EditsInv => PitchEditsTypeOK
  BY DEF EditsInv
<1> QED BY EditsInit, EditsNext, <1>1, PTL DEF PitchEditsSpec

\* However many edits of a pitch there are and wherever they stop between their read and
\* their commit, a pitch that has left "generated" has the day it was sent, except one that
\* was recorded as not sent with a date and edited twice at once (pitches.py:346-372).
THEOREM DatesKept == PitchEditsSpec => []SentHasDate
<1>1. EditsInv => SentHasDate
  BY DEF EditsInv, PitchEditsTypeOK, DatesFollowStatus, SoundInTurn, Sound, SentHasDate
<1> QED BY EditsInit, EditsNext, <1>1, PTL DEF PitchEditsSpec

-----------------------------------------------------------------------------
(* Contacts                                                                *)

Holding == {"reserve", "insert"}

\* Only the request that holds the advisory lock is between its count and its insert.
HolderCounts == \A o \in Opens : open[o].step \in Holding => advisory = o

\* What a request has counted still holds when it inserts.
CountStands == \A o \in Opens : open[o].step = "insert" => Cardinality(RevealedOn(open[o].day)) < RevealsPerDay

\* A request that goes on has a brand.
BrandKnown == \A o \in Opens : open[o].step \notin {"start", "over"} => open[o].brand \in BrandIds

ContactsInv == ContactsTypeOK /\ BrandKnown /\ HolderCounts /\ CountStands /\ RevealsWithinCap

-----------------------------------------------------------------------------
LEMMA RevealedFinite ==
    ASSUME NEW R, R \subseteq BrandIds \X Days, NEW d
    PROVE  /\ IsFiniteSet({x \in R : x[2] = d})
           /\ Cardinality({x \in R : x[2] = d}) \in Nat
<1>1. IsFiniteSet(Days)
  <2>1. 1 \in Int /\ 2 \in Int
    OBVIOUS
  <2> QED BY <2>1, FS_Interval DEF Days
<1>2. IsFiniteSet(BrandIds \X Days)
  BY <1>1, FS_Product, ContactsAssumption
<1>3. {x \in R : x[2] = d} \subseteq BrandIds \X Days
  OBVIOUS
<1> QED BY <1>2, <1>3, FS_Subset, FS_CardinalityType

LEMMA ContactsInitInv == ContactsInit => ContactsInv
<1> SUFFICES ASSUME ContactsInit PROVE ContactsInv
  OBVIOUS
<1>1. ContactsTypeOK /\ BrandKnown /\ HolderCounts /\ CountStands
  BY DEF ContactsInit, ContactsTypeOK, BrandKnown, HolderCounts, CountStands, Holding, Idle, OpenSteps, Days
<1>2. \A d \in Days : RevealedOn(d) = {}
  BY DEF ContactsInit, RevealedOn
<1>3. RevealsWithinCap
  BY <1>2, FS_EmptySet, ContactsAssumption DEF RevealsWithinCap, ContactsInit, Idle
<1> QED BY <1>1, <1>3 DEF ContactsInv

LEMMA ContactsTypeKept == ContactsTypeOK /\ BrandKnown /\ [ContactsNext]_contactsVars => (ContactsTypeOK /\ BrandKnown)'
<1> SUFFICES ASSUME ContactsTypeOK, BrandKnown, [ContactsNext]_contactsVars PROVE (ContactsTypeOK /\ BrandKnown)'
  OBVIOUS
<1> USE DEF ContactsTypeOK, BrandKnown, OpenSteps
<1>1. ASSUME NEW o \in Opens, NEW b \in BrandIds, AllowContacts(o, b) \/ SaveCount(o, b) \/ Unsave(o, b)
      PROVE  (ContactsTypeOK /\ BrandKnown)'
  <2>1. CASE AllowContacts(o, b)
    BY <2>1 DEF AllowContacts
  <2>2. CASE SaveCount(o, b)
    BY <2>2 DEF SaveCount
  <2>3. CASE Unsave(o, b)
    BY <2>3 DEF Unsave, GoOn
  <2> QED BY <1>1, <2>1, <2>2, <2>3
<1>2. ASSUME NEW o \in Opens, TakeAdvisoryLock(o) \/ CountReveals(o) \/ Reserve(o) \/ SaveInsert(o)
      PROVE  (ContactsTypeOK /\ BrandKnown)'
  <2>1. CASE TakeAdvisoryLock(o)
    BY <2>1 DEF TakeAdvisoryLock, GoOn
  <2>2. CASE CountReveals(o)
    BY <2>2 DEF CountReveals, GoOn
  <2>3. CASE Reserve(o)
    BY <2>3 DEF Reserve, GoOn
  <2>4. CASE SaveInsert(o)
    BY <2>4 DEF SaveInsert, GoOn
  <2> QED BY <1>2, <2>1, <2>2, <2>3, <2>4
<1>3. CASE Rerank
  BY <1>3 DEF Rerank
<1>4. CASE Midnight
  BY <1>4 DEF Midnight, Days
<1>5. CASE UNCHANGED contactsVars
  BY <1>5 DEF contactsVars
<1> QED BY <1>1, <1>2, <1>3, <1>4, <1>5 DEF ContactsNext

\* One row more on a day with room for it, and no other day sees it.
LEMMA OneMore ==
    ASSUME NEW R, R \subseteq BrandIds \X Days, NEW b \in BrandIds, NEW d \in Days,
           NEW n \in Nat, Cardinality({x \in R : x[2] = d}) < n
    PROVE  /\ Cardinality({x \in R \cup {<<b, d>>} : x[2] = d}) <= n
           /\ \A e \in Days : e # d => {x \in R \cup {<<b, d>>} : x[2] = e} = {x \in R : x[2] = e}
<1> DEFINE OfDay == {x \in R : x[2] = d}
<1>1. {x \in R \cup {<<b, d>>} : x[2] = d} = OfDay \cup {<<b, d>>}
  OBVIOUS
<1>2. IsFiniteSet(OfDay) /\ Cardinality(OfDay) \in Nat
  BY RevealedFinite
<1>3. Cardinality(OfDay) < n
  OBVIOUS
<1>4. Cardinality(OfDay \cup {<<b, d>>}) <= n
  <2> HIDE DEF OfDay
  <2>1. Cardinality(OfDay \cup {<<b, d>>}) = IF <<b, d>> \in OfDay THEN Cardinality(OfDay) ELSE Cardinality(OfDay) + 1
    BY <1>2, FS_AddElement
  <2> QED BY <1>2, <1>3, <2>1
<1> QED BY <1>1, <1>4

LEMMA RevealsKept ==
    ContactsInv /\ [ContactsNext]_contactsVars => (HolderCounts /\ CountStands /\ RevealsWithinCap)'
<1> SUFFICES ASSUME ContactsInv, [ContactsNext]_contactsVars
             PROVE  (HolderCounts /\ CountStands /\ RevealsWithinCap)'
  OBVIOUS
<1>0. ContactsTypeOK /\ BrandKnown /\ HolderCounts /\ CountStands /\ RevealsWithinCap
  BY DEF ContactsInv
<1> USE DEF HolderCounts, CountStands, RevealsWithinCap, Holding
<1>1. CASE revealed' = revealed /\ \E o \in Opens, b \in BrandIds : AllowContacts(o, b) \/ SaveCount(o, b) \/ Unsave(o, b)
  <2>1. PICK o \in Opens, b \in BrandIds : AllowContacts(o, b) \/ SaveCount(o, b) \/ Unsave(o, b)
    BY <1>1
  <2>2. /\ advisory' = advisory
        /\ open'[o].step \notin {"reserve", "insert", "shown"}
        /\ \A p \in Opens : p # o => open'[p] = open[p]
    BY <1>0, <2>1 DEF AllowContacts, SaveCount, Unsave, GoOn, ContactsTypeOK
  <2>3. \A d : RevealedOn(d)' = RevealedOn(d)
    BY <1>1 DEF RevealedOn
  <2> QED BY <1>0, <1>1, <2>2, <2>3
<1>2. ASSUME NEW o \in Opens, TakeAdvisoryLock(o)
      PROVE  (HolderCounts /\ CountStands /\ RevealsWithinCap)'
  <2>1. /\ advisory = Nobody /\ advisory' = o /\ revealed' = revealed
        /\ open'[o].step = "reserve"
        /\ \A p \in Opens : p # o => open'[p] = open[p]
    BY <1>0, <1>2 DEF TakeAdvisoryLock, LockIsFree, GoOn, ContactsTypeOK
  <2>2. \A d : RevealedOn(d)' = RevealedOn(d)
    BY <2>1 DEF RevealedOn
  <2>3. \A p \in Opens : open[p].step \notin Holding
    BY <1>0, <2>1, ContactsAssumption
  <2> QED BY <1>0, <2>1, <2>2, <2>3
<1>3. ASSUME NEW o \in Opens, CountReveals(o)
      PROVE  (HolderCounts /\ CountStands /\ RevealsWithinCap)'
  <2>1. /\ revealed' = revealed /\ open[o].step = "reserve" /\ advisory = o
        /\ open'[o].day = open[o].day /\ open'[o].brand = open[o].brand
        /\ \A p \in Opens : p # o => open'[p] = open[p]
        /\ open'[o].step \in {"shown", "over", "insert"}
        /\ open'[o].step # "insert" => advisory' = Nobody
        /\ open'[o].step = "insert" => advisory' = advisory /\ ~(Cardinality(RevealedOn(open[o].day)) >= RevealsPerDay)
        /\ open'[o].step = "shown" => <<open[o].brand, open[o].day>> \in revealed
    BY <1>0, <1>3 DEF CountReveals, GoOn, ContactsTypeOK
  <2>2. \A d : RevealedOn(d)' = RevealedOn(d)
    BY <2>1 DEF RevealedOn
  <2>3. \A p \in Opens : p # o => open[p].step \notin Holding
    BY <1>0, <2>1
  <2>4. open'[o].step = "insert" => Cardinality(RevealedOn(open[o].day)) < RevealsPerDay
    <3>1. Cardinality(RevealedOn(open[o].day)) \in Nat
      BY <1>0, RevealedFinite DEF RevealedOn, ContactsTypeOK
    <3> QED BY <2>1, <3>1, ContactsAssumption
  <2> QED BY <1>0, <2>1, <2>2, <2>3, <2>4
<1>4. ASSUME NEW o \in Opens, Reserve(o)
      PROVE  (HolderCounts /\ CountStands /\ RevealsWithinCap)'
  <2>1. /\ open[o].step = "insert" /\ advisory = o /\ open'[o].step = "shown"
        /\ open'[o].day = open[o].day /\ open'[o].brand = open[o].brand
        /\ \A p \in Opens : p # o => open'[p] = open[p]
        /\ revealed' = revealed \cup {<<open[o].brand, open[o].day>>}
    BY <1>0, <1>4 DEF Reserve, GoOn, ContactsTypeOK
  <2>2. open[o].brand \in BrandIds /\ open[o].day \in Days /\ revealed \subseteq BrandIds \X Days
    BY <1>0, <2>1 DEF BrandKnown, ContactsTypeOK
  <2>3. \A p \in Opens : p # o => open[p].step \notin Holding
    BY <1>0, <2>1
  <2>4. \A d \in Days : Cardinality(RevealedOn(d))' <= RevealsPerDay
    <3>1. Cardinality({x \in revealed : x[2] = open[o].day}) < RevealsPerDay
      BY <1>0, <2>1 DEF RevealedOn
    <3>2. /\ Cardinality({x \in revealed' : x[2] = open[o].day}) <= RevealsPerDay
          /\ \A e \in Days : e # open[o].day => {x \in revealed' : x[2] = e} = {x \in revealed : x[2] = e}
      BY <2>1, <2>2, <3>1, OneMore, ContactsAssumption
    <3> QED BY <1>0, <3>2 DEF RevealedOn
  <2> QED BY <1>0, <2>1, <2>3, <2>4
<1>5. ASSUME NEW o \in Opens, SaveInsert(o)
      PROVE  (HolderCounts /\ CountStands /\ RevealsWithinCap)'
  <2>1. /\ revealed' = revealed /\ advisory' = advisory /\ open'[o].step = "over"
        /\ \A p \in Opens : p # o => open'[p] = open[p]
    BY <1>0, <1>5 DEF SaveInsert, GoOn, ContactsTypeOK
  <2>2. \A d : RevealedOn(d)' = RevealedOn(d)
    BY <2>1 DEF RevealedOn
  <2> QED BY <1>0, <2>1, <2>2
<1>6. CASE revealed' = revealed /\ advisory' = advisory /\ open' = open
  <2>1. \A d : RevealedOn(d)' = RevealedOn(d)
    BY <1>6 DEF RevealedOn
  <2> QED BY <1>0, <1>6, <2>1
<1> QED BY <1>1, <1>2, <1>3, <1>4, <1>5, <1>6
        DEF ContactsNext, AllowContacts, SaveCount, Unsave, Rerank, Midnight, contactsVars

LEMMA ContactsNextInv == ContactsInv /\ [ContactsNext]_contactsVars => ContactsInv'
BY ContactsTypeKept, RevealsKept DEF ContactsInv

\* Every state of the contact requests and the saved brands has its type, for any brands,
\* requests and limits (contact_access.py, saved_brands.py).
THEOREM ContactsTypeCorrect == ContactsSpec => []ContactsTypeOK
<1>1. ContactsInv => ContactsTypeOK
  BY DEF ContactsInv
<1> QED BY ContactsInitInv, ContactsNextInv, <1>1, PTL DEF ContactsSpec

\* However many pages and pitches of a creator ask for contacts at once, before and after
\* midnight, no day shows more brands than the cap allows, and none that was not counted
\* (contact_access.py:52-83).
THEOREM RevealsCapped == ContactsSpec => []RevealsWithinCap
<1>1. ContactsInv => RevealsWithinCap
  BY DEF ContactsInv
<1> QED BY ContactsInitInv, ContactsNextInv, <1>1, PTL DEF ContactsSpec

-----------------------------------------------------------------------------
(* RequestLimits                                                           *)

HeldPlaces == {h \in Https : http[h].held}

\* The count is that of the requests that hold a place.  Only slow ones do, and
\* none before it came in or after it left.
PlacesInv ==
    /\ IsFiniteSet(HeldPlaces)
    /\ inFlight = Cardinality(HeldPlaces)
    /\ inFlight <= SlowMax
    /\ \A h \in Https : http[h].held => h \in Slow /\ http[h].step \notin {"new", "over"}

\* One answer: nothing was sent to who was neither refused nor begun to be answered.
\* All chunks but the one that went over the limit were given.
OnceAtMost(q) ==
    /\ q.given = IF q.refused THEN q.seen - 1 ELSE q.seen
    /\ q.refused => q.seen > BodyLimit /\ (q.started \/ q.answer = "413")
    /\ ~q.refused => q.seen <= BodyLimit
    /\ q.starts <= 1
    /\ q.step # "over" /\ ~q.refused /\ ~q.started => q.starts = 0
    /\ q.step = "new" => ~q.refused /\ ~q.started

AnswerInv == \A h \in Https : OnceAtMost(http[h])

RequestsInv == RequestLimitsTypeOK /\ PlacesInv /\ AnswerInv

LEMMA RequestsInit == RequestLimitsInit => RequestsInv
<1> SUFFICES ASSUME RequestLimitsInit PROVE RequestsInv
  OBVIOUS
<1>1. HeldPlaces = {}
  BY DEF RequestLimitsInit, HeldPlaces
<1>2. PlacesInv
  BY <1>1, FS_EmptySet, RequestLimitsAssumption DEF RequestLimitsInit, PlacesInv
<1>3. RequestLimitsTypeOK /\ AnswerInv
  BY RequestLimitsAssumption DEF RequestLimitsInit, RequestLimitsTypeOK, AnswerInv, OnceAtMost, Http, HttpSteps
<1> QED BY <1>2, <1>3 DEF RequestsInv

\* A step keeps the count right when it counts for its own request what changes.
LEMMA PlacesKept ==
    ASSUME RequestsInv, RequestLimitsTypeOK', NEW h \in Https,
           \A q \in Https \ {h} : http'[q] = http[q],
           http'[h].held => h \in Slow /\ http'[h].step \notin {"new", "over"},
           \/ http'[h].held = http[h].held /\ inFlight' = inFlight
           \/ http[h].held /\ ~http'[h].held /\ inFlight' = inFlight - 1
           \/ ~http[h].held /\ http'[h].held /\ inFlight' = inFlight + 1 /\ inFlight < SlowMax
    PROVE  PlacesInv'
<1>1. /\ IsFiniteSet(HeldPlaces) /\ inFlight = Cardinality(HeldPlaces) /\ inFlight \in Nat
      /\ SlowMax \in Nat /\ inFlight <= SlowMax
  BY RequestLimitsAssumption DEF RequestsInv, PlacesInv, RequestLimitsTypeOK
<1>2. \A q \in Https : http'[q].held => q \in Slow /\ http'[q].step \notin {"new", "over"}
  BY DEF RequestsInv, PlacesInv
<1>3. CASE http'[h].held = http[h].held /\ inFlight' = inFlight
  <2>1. HeldPlaces' = HeldPlaces
    BY <1>3 DEF HeldPlaces
  <2> QED BY <1>1, <1>2, <1>3, <2>1 DEF PlacesInv
<1>4. CASE http[h].held /\ ~http'[h].held /\ inFlight' = inFlight - 1
  <2>1. HeldPlaces' = HeldPlaces \ {h} /\ h \in HeldPlaces
    BY <1>4 DEF HeldPlaces
  <2>2. IsFiniteSet(HeldPlaces \ {h}) /\ Cardinality(HeldPlaces \ {h}) = Cardinality(HeldPlaces) - 1
    BY <1>1, <2>1, FS_RemoveElement
  <2> QED BY <1>1, <1>2, <1>4, <2>1, <2>2 DEF PlacesInv
<1>5. CASE ~http[h].held /\ http'[h].held /\ inFlight' = inFlight + 1 /\ inFlight < SlowMax
  <2>1. HeldPlaces' = HeldPlaces \cup {h} /\ h \notin HeldPlaces
    BY <1>5 DEF HeldPlaces
  <2>2. IsFiniteSet(HeldPlaces \cup {h}) /\ Cardinality(HeldPlaces \cup {h}) = Cardinality(HeldPlaces) + 1
    BY <1>1, <2>1, FS_AddElement
  <2> QED BY <1>1, <1>2, <1>5, <2>1, <2>2 DEF PlacesInv
<1> QED BY <1>3, <1>4, <1>5

\* A place that is held was counted.
LEMMA HeldIsCounted ==
    ASSUME RequestsInv, NEW h \in Https, http[h].held
    PROVE  inFlight - 1 \in Nat
<1>1. h \in HeldPlaces /\ IsFiniteSet(HeldPlaces) /\ inFlight = Cardinality(HeldPlaces) /\ inFlight \in Nat
  BY DEF RequestsInv, PlacesInv, HeldPlaces, RequestLimitsTypeOK
<1>2. Cardinality(HeldPlaces) # 0
  BY <1>1, FS_EmptySet
<1> QED BY <1>1, <1>2

\* A chunk within the limit or after a refusal, the refusal in an answer, or the refusal
\* that is the answer.
LEMMA ReceiveCases ==
    ASSUME RequestsInv, NEW h \in Https, Receive(h)
    PROVE  LET q == http[h] IN
           \/ /\ q.seen + 1 <= BodyLimit \/ q.refused
              /\ http' = [http EXCEPT ![h] = [q EXCEPT !.seen = q.seen + 1, !.given = q.given + 1]]
              /\ inFlight' = inFlight
           \/ /\ q.seen + 1 > BodyLimit /\ ~q.refused /\ q.started
              /\ http' = [http EXCEPT ![h] = [q EXCEPT !.seen = q.seen + 1, !.refused = TRUE]]
              /\ inFlight' = inFlight
           \/ /\ q.seen + 1 > BodyLimit /\ ~q.refused /\ ~q.started
              /\ http' = [http EXCEPT ![h] = [q EXCEPT !.seen = q.seen + 1, !.refused = TRUE,
                                                       !.starts = q.starts + 1, !.answer = "413",
                                                       !.held = FALSE]]
              /\ inFlight' = IF q.held THEN inFlight - 1 ELSE inFlight
<1> DEFINE q == http[h]
<1>0. q \in Http /\ http \in [Https -> Http] /\ q.seen + 1 \in Nat /\ BodyLimit \in Nat /\ q.seen \in Nat
  BY RequestLimitsAssumption DEF RequestsInv, RequestLimitsTypeOK, Http
<1>1. CASE q.seen + 1 <= BodyLimit \/ q.refused
  <2>1. /\ ~(q.seen + 1 > BodyLimit /\ ~q.refused)
        /\ (q.refused \/ q.seen + 1 > BodyLimit) = q.refused
    BY <1>0, <1>1 DEF RequestsInv, AnswerInv, OnceAtMost, Http
  <2>2. inFlight' = inFlight
    BY <2>1 DEF Receive
  <2>3. http' = [http EXCEPT ![h].seen = @ + 1, ![h].given = @ + 1, ![h].refused = q.refused, ![h].starts = @,
                             ![h].answer = @, ![h].held = @]
    BY <1>0, <2>1 DEF Receive
  <2>4. http' = [http EXCEPT ![h] = [q EXCEPT !.seen = q.seen + 1, !.given = q.given + 1]]
    BY <1>0, <2>3 DEF Http
  <2> QED BY <1>1, <2>2, <2>4
<1>2. CASE q.seen + 1 > BodyLimit /\ ~q.refused /\ q.started
  <2>1. inFlight' = inFlight
    BY <1>2 DEF Receive
  <2>2. http' = [http EXCEPT ![h].seen = @ + 1, ![h].given = @, ![h].refused = @ \/ TRUE, ![h].starts = @,
                             ![h].answer = @, ![h].held = @]
    BY <1>2 DEF Receive
  <2>3. http' = [http EXCEPT ![h] = [q EXCEPT !.seen = q.seen + 1, !.refused = TRUE]]
    BY <1>0, <2>2 DEF Http
  <2> QED BY <1>2, <2>1, <2>3
<1>3. CASE q.seen + 1 > BodyLimit /\ ~q.refused /\ ~q.started
  <2>1. inFlight' = IF q.held THEN inFlight - 1 ELSE inFlight
    BY <1>3 DEF Receive
  <2>2. http' = [http EXCEPT ![h].seen = @ + 1, ![h].given = @, ![h].refused = @ \/ TRUE, ![h].starts = @ + 1,
                             ![h].answer = "413", ![h].held = FALSE]
    BY <1>3 DEF Receive
  <2>3. http' = [http EXCEPT ![h] = [q EXCEPT !.seen = q.seen + 1, !.refused = TRUE, !.starts = q.starts + 1,
                                              !.answer = "413", !.held = FALSE]]
    BY <1>0, <2>2 DEF Http
  <2> QED BY <1>3, <2>1, <2>3
<1> QED BY <1>0, <1>1, <1>2, <1>3

LEMMA ReceiveRow ==
    ASSUME NEW q \in Http, NEW s \in 0 .. BodyMax, s = q.seen + 1, OnceAtMost(q), q.step # "new"
    PROVE  /\ s <= BodyLimit \/ q.refused => LET n == [q EXCEPT !.seen = s, !.given = q.given + 1]
                                             IN n \in Http /\ OnceAtMost(n)
           /\ s > BodyLimit /\ ~q.refused /\ q.started => LET n == [q EXCEPT !.seen = s, !.refused = TRUE]
                                                         IN n \in Http /\ OnceAtMost(n)
           /\ s > BodyLimit /\ ~q.refused /\ q.starts = 0 => LET n == [q EXCEPT !.seen = s, !.refused = TRUE, !.starts = q.starts + 1,
                                                 !.answer = "413", !.held = FALSE]
                              IN n \in Http /\ OnceAtMost(n)
<1>0. BodyMax \in Nat /\ BodyLimit \in Nat
  BY RequestLimitsAssumption
<1>1. ASSUME s <= BodyLimit \/ q.refused
      PROVE  LET n == [q EXCEPT !.seen = s, !.given = q.given + 1] IN n \in Http /\ OnceAtMost(n)
  <2>1. q.given + 1 \in 0 .. BodyMax /\ q.given + 1 = IF q.refused THEN s - 1 ELSE s
    BY <1>0, <1>1 DEF Http, OnceAtMost
  <2>2. [q EXCEPT !.seen = s, !.given = q.given + 1] \in Http
    BY <2>1 DEF Http
  <2>3. OnceAtMost([q EXCEPT !.seen = s, !.given = q.given + 1])
    BY <1>0, <1>1, <2>1 DEF Http, OnceAtMost
  <2> QED BY <2>2, <2>3
<1>2. ASSUME s > BodyLimit, ~q.refused, q.started
      PROVE  LET n == [q EXCEPT !.seen = s, !.refused = TRUE] IN n \in Http /\ OnceAtMost(n)
  <2>1. [q EXCEPT !.seen = s, !.refused = TRUE] \in Http
    BY DEF Http
  <2>2. OnceAtMost([q EXCEPT !.seen = s, !.refused = TRUE])
    BY <1>0, <1>2 DEF Http, OnceAtMost
  <2> QED BY <2>1, <2>2
<1>3. ASSUME s > BodyLimit, ~q.refused, q.starts = 0
      PROVE  LET n == [q EXCEPT !.seen = s, !.refused = TRUE, !.starts = q.starts + 1, !.answer = "413", !.held = FALSE]
             IN n \in Http /\ OnceAtMost(n)
  <2>1. [q EXCEPT !.seen = s, !.refused = TRUE, !.starts = q.starts + 1, !.answer = "413", !.held = FALSE] \in Http
    <3>1. q.starts + 1 \in 0 .. 2
      BY <1>3
    <3> QED BY <3>1 DEF Http
  <2>2. OnceAtMost([q EXCEPT !.seen = s, !.refused = TRUE, !.starts = q.starts + 1, !.answer = "413", !.held = FALSE])
    BY <1>0, <1>3 DEF Http, OnceAtMost
  <2> QED BY <2>1, <2>2
<1> QED BY <1>1, <1>2, <1>3

LEMMA RowWritten ==
    ASSUME RequestsInv, NEW h \in Https, NEW n \in Http, OnceAtMost(n),
           http' = [http EXCEPT ![h] = n], inFlight' \in Nat
    PROVE  RequestLimitsTypeOK' /\ AnswerInv'
BY DEF RequestsInv, RequestLimitsTypeOK, AnswerInv, OnceAtMost

LEMMA RequestsType ==
    ASSUME RequestsInv, NEW h \in Https,
           \/ EnterSlow(h) \/ EnterOther(h) \/ TooLargeDeclared(h) \/ Receive(h)
           \/ SendStart(h) \/ SendLast(h) \/ Leave(h)
    PROVE  RequestLimitsTypeOK' /\ AnswerInv'
<1>0. http[h] \in Http /\ http \in [Https -> Http] /\ inFlight \in Nat /\ AnswerInv
      /\ BodyMax \in Nat /\ BodyLimit \in Nat \ {0} /\ SlowMax \in Nat
  BY RequestLimitsAssumption DEF RequestsInv, RequestLimitsTypeOK
<1>1. http[h].held => inFlight - 1 \in Nat
  BY HeldIsCounted
<1>2. CASE Receive(h)
  <2>1. http[h].seen + 1 \in 0 .. BodyMax
        /\ http[h].step \in {"app", "answered"} /\ http[h].step # "new" /\ http[h].step # "over"
    BY <1>0, <1>2 DEF Receive, Http
  <2>2. CASE /\ http[h].seen + 1 <= BodyLimit \/ http[h].refused
             /\ http' = [http EXCEPT ![h] = [http[h] EXCEPT !.seen = http[h].seen + 1,
                                                           !.given = http[h].given + 1]]
             /\ inFlight' = inFlight
    <3> DEFINE n == [http[h] EXCEPT !.seen = http[h].seen + 1, !.given = http[h].given + 1]
    <3>1. n \in Http /\ OnceAtMost(n)
      BY <1>0, <2>1, <2>2, ReceiveRow DEF AnswerInv
    <3> QED BY <1>0, <2>2, <3>1, RowWritten
  <2>3. CASE /\ http[h].seen + 1 > BodyLimit /\ ~http[h].refused /\ http[h].started
             /\ http' = [http EXCEPT ![h] = [http[h] EXCEPT !.seen = http[h].seen + 1, !.refused = TRUE]]
             /\ inFlight' = inFlight
    <3> DEFINE n == [http[h] EXCEPT !.seen = http[h].seen + 1, !.refused = TRUE]
    <3>1. n \in Http /\ OnceAtMost(n)
      BY <1>0, <2>1, <2>3, ReceiveRow DEF AnswerInv
    <3> QED BY <1>0, <2>3, <3>1, RowWritten
  <2>4. CASE /\ http[h].seen + 1 > BodyLimit /\ ~http[h].refused /\ ~http[h].started
             /\ http' = [http EXCEPT ![h] = [http[h] EXCEPT !.seen = http[h].seen + 1, !.refused = TRUE,
                                                           !.starts = http[h].starts + 1, !.answer = "413",
                                                           !.held = FALSE]]
             /\ inFlight' = IF http[h].held THEN inFlight - 1 ELSE inFlight
    <3> DEFINE n == [http[h] EXCEPT !.seen = http[h].seen + 1, !.refused = TRUE,
                                  !.starts = http[h].starts + 1, !.answer = "413", !.held = FALSE]
    <3>1. http[h].starts = 0
      BY <1>0, <2>1, <2>4 DEF AnswerInv, OnceAtMost
    <3>2. n \in Http /\ OnceAtMost(n)
      BY <1>0, <2>1, <2>4, <3>1, ReceiveRow DEF AnswerInv
    <3> QED BY <1>0, <1>1, <2>4, <3>2, RowWritten
  <2> QED BY <1>0, <1>2, <2>2, <2>3, <2>4, ReceiveCases DEF RequestsInv
<1> USE DEF RequestLimitsTypeOK, AnswerInv, OnceAtMost, Http, HttpSteps
<1>3. CASE EnterSlow(h)
  BY <1>0, <1>3 DEF EnterSlow
<1>4. CASE EnterOther(h)
  BY <1>0, <1>4 DEF EnterOther
<1>5. CASE TooLargeDeclared(h)
  BY <1>0, <1>1, <1>5 DEF TooLargeDeclared
<1>6. CASE SendStart(h)
  <2>1. ~http[h].refused => http[h].starts + 1 \in 0 .. 2 /\ http[h].starts = 0
    BY <1>0, <1>6 DEF SendStart
  <2>2. http[h].step = "app" /\ inFlight' = inFlight
    BY <1>6 DEF SendStart
  <2>3. CASE http[h].refused
    <3>1. http' = [http EXCEPT ![h].started = @, ![h].starts = @, ![h].answer = @]
      BY <1>0, <1>6, <2>3 DEF SendStart, PassesOn
    <3>2. http' = http
      BY <1>0, <3>1
    <3> QED BY <1>0, <2>2, <3>2
  <2>4. CASE ~http[h].refused
    <3>1. http' = [http EXCEPT ![h].started = TRUE, ![h].starts = @ + 1, ![h].answer = "partial"]
      BY <1>0, <1>6, <2>4 DEF SendStart, PassesOn
    <3> QED BY <1>0, <2>1, <2>2, <2>4, <3>1
  <2> QED BY <2>3, <2>4
<1>7. CASE SendLast(h)
  BY <1>0, <1>1, <1>7 DEF SendLast, PassesOn, Released
<1>8. CASE Leave(h)
  BY <1>0, <1>1, <1>8 DEF Leave, Released
<1> QED BY <1>3, <1>4, <1>5, <1>2, <1>6, <1>7, <1>8

LEMMA RequestsPlaces ==
    ASSUME RequestsInv, RequestLimitsTypeOK', NEW h \in Https,
           \/ EnterSlow(h) \/ EnterOther(h) \/ TooLargeDeclared(h) \/ Receive(h)
           \/ SendStart(h) \/ SendLast(h) \/ Leave(h)
    PROVE  PlacesInv'
<1>0. /\ http[h] \in Http /\ http \in [Https -> Http] /\ inFlight \in Nat /\ SlowMax \in Nat
      /\ http[h].held => h \in Slow /\ http[h].step \notin {"new", "over"}
  BY RequestLimitsAssumption DEF RequestsInv, RequestLimitsTypeOK, PlacesInv
<1> USE DEF Http, HttpSteps
<1>2. CASE EnterSlow(h)
  BY <1>0, <1>2, PlacesKept DEF EnterSlow
<1>3. CASE EnterOther(h)
  BY <1>0, <1>3, PlacesKept DEF EnterOther
<1>4. CASE TooLargeDeclared(h)
  BY <1>0, <1>4, PlacesKept DEF TooLargeDeclared
<1>5. CASE Receive(h)
  <2>1. /\ http'[h].step = http[h].step /\ \A q \in Https \ {h} : http'[q] = http[q]
        /\ \/ http'[h].held = http[h].held /\ inFlight' = inFlight
           \/ ~http'[h].held /\ inFlight' = IF http[h].held THEN inFlight - 1 ELSE inFlight
    BY <1>0, <1>5 DEF Receive
  <2>2. CASE ~http[h].held /\ ~http'[h].held
    BY <1>0, <2>1, <2>2, PlacesKept DEF RequestLimitsTypeOK
  <2>3. CASE ~(~http[h].held /\ ~http'[h].held)
    BY <1>0, <2>1, <2>3, PlacesKept
  <2> QED BY <2>2, <2>3
<1>6. CASE SendStart(h)
  BY <1>0, <1>6, PlacesKept DEF SendStart
<1>7. CASE SendLast(h)
  BY <1>0, <1>7, PlacesKept DEF SendLast, Released
<1>8. CASE Leave(h)
  BY <1>0, <1>8, PlacesKept DEF Leave, Released
<1> QED BY <1>2, <1>3, <1>4, <1>5, <1>6, <1>7, <1>8

LEMMA RequestsNext == RequestsInv /\ [RequestLimitsNext]_requestLimitsVars => RequestsInv'
<1> SUFFICES ASSUME RequestsInv, [RequestLimitsNext]_requestLimitsVars PROVE RequestsInv'
  OBVIOUS
<1>1. CASE RequestLimitsNext
  BY <1>1, RequestsType, RequestsPlaces DEF RequestLimitsNext, RequestsInv
<1>2. CASE UNCHANGED requestLimitsVars
  BY <1>2 DEF requestLimitsVars, RequestsInv, RequestLimitsTypeOK, PlacesInv, AnswerInv, OnceAtMost, HeldPlaces
<1> QED BY <1>1, <1>2

\* PlacesCounted: for any number of requests at once, the places taken are those of the
\* slow requests inside, and each gives its place back once (concurrency.py:62-86).
THEOREM PlacesExact == RequestLimitsSpec => []PlacesCounted
<1>1. RequestsInv => PlacesCounted
  BY DEF RequestsInv, PlacesInv, PlacesCounted, HeldPlaces
<1> QED BY RequestsInit, RequestsNext, <1>1, PTL DEF RequestLimitsSpec

\* OneAnswer: for any body limit and body, wherever the limit is met between the messages of
\* the application (body_limits.py:73-92).
THEOREM AnsweredOnce == RequestLimitsSpec => []OneAnswer
<1>1. RequestsInv => OneAnswer
  <2> SUFFICES ASSUME RequestsInv, NEW h \in Https
               PROVE  /\ http[h].starts <= 1
                      /\ http[h].refused => http[h].started \/ http[h].answer = "413"
                      /\ http[h].given > BodyLimit => http[h].refused
    BY DEF OneAnswer
  <2>1. OnceAtMost(http[h]) /\ http[h] \in Http /\ BodyLimit \in Nat /\ BodyMax \in Nat
    BY RequestLimitsAssumption DEF RequestsInv, AnswerInv, RequestLimitsTypeOK
  <2> QED BY <2>1 DEF OnceAtMost, Http
<1> QED BY RequestsInit, RequestsNext, <1>1, PTL DEF RequestLimitsSpec

-----------------------------------------------------------------------------
(* CreatorPosts                                                            *)

\* A deletion at work is of one post.
DeletesOne == \A r \in PostCalls : ask[r].step = "delete" => \E p \in PostIds : ask[r].items = {p}

\* Room(n): n posts are saved, and the deletions at work may still take theirs.
Room(n) ==
    /\ Cardinality(Deleting) <= atOnce
    /\ ~renamed /\ atOnce = 0 => n >= MinPosts
    /\ ~renamed /\ atOnce > 0 => n - Cardinality(Deleting) >= MinPosts + 1 - atOnce

PostsInv == CreatorPostsTypeOK /\ DeletesOne /\ Room(Cardinality(SavedPosts))

LEMMA SavedFinite ==
    /\ \A S \in SUBSET PostIds : IsFiniteSet(S) /\ Cardinality(S) \in Nat
    /\ \A S \in SUBSET PostCalls : IsFiniteSet(S) /\ Cardinality(S) \in Nat
BY CreatorPostsAssumption, FS_Subset, FS_CardinalityType

LEMMA CountsAreNumbers ==
    /\ IsFiniteSet(SavedPosts) /\ Cardinality(SavedPosts) \in Nat
    /\ IsFiniteSet(SavedPosts') /\ Cardinality(SavedPosts') \in Nat
    /\ IsFiniteSet(Deleting) /\ Cardinality(Deleting) \in Nat
    /\ IsFiniteSet(Deleting') /\ Cardinality(Deleting') \in Nat
<1>1. SavedPosts \subseteq PostIds /\ SavedPosts' \subseteq PostIds
  BY DEF SavedPosts
<1>2. Deleting \subseteq PostCalls /\ Deleting' \subseteq PostCalls
  BY DEF Deleting
<1> QED BY <1>1, <1>2, SavedFinite

\* A step that is of no deletion adds to the posts, or empties them for a new username.
LEMMA PostsKept ==
    ASSUME PostsInv, Deleting' = Deleting, atOnce' = atOnce, renamed' \in BOOLEAN,
           \/ SavedPosts \subseteq SavedPosts' /\ renamed' = renamed
           \/ renamed'
    PROVE  Room(Cardinality(SavedPosts))'
<1>1. Room(Cardinality(SavedPosts)) /\ atOnce \in Nat
  BY DEF PostsInv, CreatorPostsTypeOK
<1>2. CASE SavedPosts \subseteq SavedPosts' /\ renamed' = renamed
  <2>1. Cardinality(SavedPosts) <= Cardinality(SavedPosts')
    BY <1>2, CountsAreNumbers, FS_Subset
  <2> QED BY <1>1, <1>2, <2>1, CountsAreNumbers, CreatorPostsAssumption DEF Room
<1>3. CASE renamed'
  BY <1>1, <1>3 DEF Room
<1> QED BY <1>2, <1>3

LEMMA PostsInit == CreatorPostsInit => PostsInv
<1> SUFFICES ASSUME CreatorPostsInit PROVE PostsInv
  OBVIOUS
<1>1. CreatorPostsTypeOK /\ DeletesOne
  BY DEF CreatorPostsInit, CreatorPostsTypeOK, DeletesOne, Ask, PostSteps
<1>2. Cardinality(Deleting) = 0
  <2>1. Deleting = {}
    BY DEF CreatorPostsInit, Deleting
  <2> QED BY <2>1, FS_EmptySet
<1>3. Room(Cardinality(SavedPosts))
  BY <1>2, CreatorPostsAssumption DEF CreatorPostsInit, Room
<1> QED BY <1>1, <1>3 DEF PostsInv

\* The deletions at work are the same after a step of another call.
LEMMA SameDeletions ==
    ASSUME NEW r \in PostCalls, \A q \in PostCalls \ {r} : ask'[q] = ask[q],
           ask[r].step # "delete", ask'[r].step # "delete"
    PROVE  Deleting' = Deleting
BY DEF Deleting

LEMMA PostsNext == PostsInv /\ [CreatorPostsNext]_creatorPostsVars => PostsInv'
<1> SUFFICES ASSUME PostsInv, [CreatorPostsNext]_creatorPostsVars PROVE PostsInv'
  OBVIOUS
<1>0. CreatorPostsTypeOK /\ DeletesOne
  BY DEF PostsInv
<1> USE DEF Goes, CreatorPostsTypeOK, Ask, PostSteps
<1>1. ASSUME NEW r \in PostCalls, NEW h \in Handles, Describe(r, h) \/ SaveUsername(r, h)
      PROVE  PostsInv'
  <2>1. SavedPosts' = SavedPosts /\ renamed' = renamed /\ atOnce' = atOnce
    BY <1>1 DEF Describe, SaveUsername, SavedPosts
  <2>2. CASE Describe(r, h)
    <3> DEFINE items == (SavedPosts \cup others) \cap Of(h)
    <3>1. items \subseteq PostIds
      BY DEF Of
    <3>2. (CreatorPostsTypeOK /\ DeletesOne)'
      BY <1>0, <2>2, <3>1 DEF Describe, DeletesOne
    <3>3. PICK s \in {"clear", "scrape"} :
            ask' = [ask EXCEPT ![r] = [step |-> s, handle |-> h, old |-> username, items |-> items]]
      BY <2>2, Zenon DEF Describe
    <3>4. ask[r].step = "start"
      BY <2>2 DEF Describe
    <3>5. Deleting' = Deleting
      BY <1>0, <3>3, <3>4, SameDeletions
    <3> QED BY <1>0, <2>1, <3>2, <3>5, PostsKept DEF PostsInv
  <2>3. CASE SaveUsername(r, h)
    <3>1. (CreatorPostsTypeOK /\ DeletesOne)'
      BY <1>0, <2>3 DEF SaveUsername, DeletesOne
    <3>2. Deleting' = Deleting
      BY <1>0, <2>3, SameDeletions DEF SaveUsername
    <3> QED BY <1>0, <2>1, <3>1, <3>2, PostsKept DEF PostsInv
  <2> QED BY <1>1, <2>2, <2>3
<1>2. ASSUME NEW r \in PostCalls, NEW p \in PostIds, AddPost(r, p)
      PROVE  PostsInv'
  <2>1. SavedPosts' = SavedPosts /\ renamed' = renamed /\ atOnce' = atOnce
    BY <1>2 DEF AddPost, SavedPosts
  <2>2. PICK s \in {"mark", "over", "copy", "fetch"} :
          ask' = [ask EXCEPT ![r] = [@ EXCEPT !.items = {p}, !.step = s]]
    <3>0. Cardinality(SavedPosts) \in Nat /\ MaxPosts \in Nat
      BY SavedFinite, CreatorPostsAssumption DEF SavedPosts
    <3>1. CASE p \in SavedPosts
      BY <1>2, <3>1 DEF AddPost
    <3>2. CASE p \notin SavedPosts /\ Cardinality(SavedPosts) >= MaxPosts
      <4>1. (CASE p \in SavedPosts -> "mark"
               [] p \notin SavedPosts /\ Cardinality(SavedPosts) >= MaxPosts -> "over"
               [] p \in others \ SavedPosts /\ Cardinality(SavedPosts) < MaxPosts -> "copy"
               [] OTHER -> "fetch") = "over"
        BY <3>0, <3>2
      <4> QED BY <1>2, <4>1, Zenon DEF AddPost
    <3>3. CASE p \in others \ SavedPosts /\ Cardinality(SavedPosts) < MaxPosts
      <4>1. (CASE p \in SavedPosts -> "mark"
               [] p \notin SavedPosts /\ Cardinality(SavedPosts) >= MaxPosts -> "over"
               [] p \in others \ SavedPosts /\ Cardinality(SavedPosts) < MaxPosts -> "copy"
               [] OTHER -> "fetch") = "copy"
        BY <3>0, <3>3
      <4> QED BY <1>2, <4>1, Zenon DEF AddPost
    <3>4. CASE /\ ~(p \in SavedPosts)
               /\ ~(p \notin SavedPosts /\ Cardinality(SavedPosts) >= MaxPosts)
               /\ ~(p \in others \ SavedPosts /\ Cardinality(SavedPosts) < MaxPosts)
      BY <1>2, <3>4 DEF AddPost
    <3> QED BY <3>1, <3>2, <3>3, <3>4
  <2>3. (CreatorPostsTypeOK /\ DeletesOne)'
    <3>1. ask[r] \in Ask /\ [ask[r] EXCEPT !.items = {p}, !.step = s] \in Ask
      BY <1>0
    <3>2. UNCHANGED <<posts, others, username, renamed, atOnce>>
      BY <1>2 DEF AddPost
    <3>3. \A q \in PostCalls : ask'[q].step = "delete" => ask'[q] = ask[q]
      BY <1>0, <2>2
    <3> QED BY <1>0, <2>2, <3>1, <3>2, <3>3 DEF DeletesOne
  <2>4. Deleting' = Deleting
    BY <1>0, <1>2, <2>2, SameDeletions DEF AddPost
  <2> QED BY <1>0, <2>1, <2>3, <2>4, PostsKept DEF PostsInv
<1>3. ASSUME NEW r \in PostCalls, NEW p \in PostIds, DeleteCount(r, p)
      PROVE  PostsInv'
  <2>0. /\ SavedPosts' = SavedPosts /\ renamed' = renamed /\ atOnce' \in {atOnce, Cardinality(Deleting')}
        /\ atOnce' >= atOnce /\ atOnce' >= Cardinality(Deleting')
    BY <1>0, <1>3, CountsAreNumbers DEF DeleteCount, SavedPosts
  <2>1. (CreatorPostsTypeOK /\ DeletesOne)'
    BY <1>0, <1>3, <2>0, CountsAreNumbers DEF DeleteCount, DeletesOne
  <2>2. CASE MayDelete(Cardinality(SavedPosts))
    <3>1. Deleting' = Deleting \cup {r} /\ r \notin Deleting
      BY <1>0, <1>3, <2>2 DEF DeleteCount, Deleting
    <3>2. Cardinality(Deleting') = Cardinality(Deleting) + 1
      BY <3>1, CountsAreNumbers, FS_AddElement
    <3>3. Cardinality(SavedPosts) - 1 >= MinPosts
      BY <2>2 DEF MayDelete
    <3>4. Room(Cardinality(SavedPosts))'
      BY <1>0, <2>0, <3>2, <3>3, CountsAreNumbers, CreatorPostsAssumption DEF Room
    <3> QED BY <2>1, <3>4 DEF PostsInv
  <2>3. CASE ~MayDelete(Cardinality(SavedPosts))
    <3>1. Deleting' = Deleting
      BY <1>0, <1>3, <2>3 DEF DeleteCount, Deleting
    <3>2. Cardinality(Deleting) <= atOnce
      BY DEF PostsInv, Room
    <3>3. atOnce' = atOnce
      BY <1>0, <2>0, <3>1, <3>2, CountsAreNumbers
    <3> QED BY <1>0, <2>0, <2>1, <3>1, <3>3, PostsKept DEF PostsInv
  <2> QED BY <2>2, <2>3
<1>4. ASSUME NEW r \in PostCalls, ScrapePosts(r)
      PROVE  PostsInv'
  <2>0. Deleting' = Deleting
    BY <1>0, <1>4, SameDeletions DEF ScrapePosts
  <2>1. SavedPosts' = SavedPosts /\ renamed' = renamed /\ atOnce' = atOnce
    BY <1>4 DEF ScrapePosts, SavedPosts
  <2>2. (CreatorPostsTypeOK /\ DeletesOne)'
    BY <1>0, <1>4 DEF ScrapePosts, DeletesOne, Of
  <2> QED BY <1>0, <2>0, <2>1, <2>2, PostsKept DEF PostsInv
<1>5. ASSUME NEW r \in PostCalls, ClearOld(r) \/ ClearIfUsernameChanged(r)
      PROVE  PostsInv'
  <2>0. Deleting' = Deleting
    BY <1>0, <1>5, SameDeletions DEF ClearOld, ClearIfUsernameChanged
  <2>1. (SavedPosts' = SavedPosts /\ renamed' = renamed) \/ renamed'
    BY <1>5 DEF ClearOld, ClearIfUsernameChanged, SavedPosts
  <2>2. (CreatorPostsTypeOK /\ DeletesOne)'
    <3>1. posts' \in {posts, NoPosts} /\ NoPosts \in [PostIds -> Rows]
      BY <1>5 DEF ClearOld, ClearIfUsernameChanged, NoPosts, Rows
    <3>2. renamed' \in BOOLEAN
      BY <1>0, <1>5 DEF ClearOld, ClearIfUsernameChanged
    <3>3. /\ UNCHANGED <<others, username, atOnce>>
          /\ \E s \in {"upsert", "over"} : ask' = [ask EXCEPT ![r].step = s]
      BY <1>5 DEF ClearOld, ClearIfUsernameChanged
    <3> QED BY <1>0, <3>1, <3>2, <3>3 DEF DeletesOne
  <2>3. renamed' \in BOOLEAN /\ atOnce' = atOnce
    BY <2>2, <1>5 DEF ClearOld, ClearIfUsernameChanged
  <2> QED BY <1>0, <2>0, <2>1, <2>2, <2>3, PostsKept DEF PostsInv
<1>6. ASSUME NEW r \in PostCalls, SaveCreatorPosts(r) \/ CopyPost(r) \/ FetchPost(r) \/ SetPartnership(r)
      PROVE  PostsInv'
  <2>0. Deleting' = Deleting
    BY <1>0, <1>6, SameDeletions DEF SaveCreatorPosts, CopyPost, FetchPost, SetPartnership
  <2>1. SavedPosts \subseteq SavedPosts' /\ renamed' = renamed /\ atOnce' = atOnce
    BY <1>6 DEF SaveCreatorPosts, CopyPost, FetchPost, SetPartnership, Upserted, SavedPosts
  <2>2. (CreatorPostsTypeOK /\ DeletesOne)'
    BY <1>0, <1>6 DEF SaveCreatorPosts, CopyPost, FetchPost, SetPartnership, Upserted, DeletesOne, Rows
  <2> QED BY <1>0, <2>0, <2>1, <2>2, PostsKept DEF PostsInv
<1>7. ASSUME NEW r \in PostCalls, DeleteCommit(r)
      PROVE  PostsInv'
  <2>1. (CreatorPostsTypeOK /\ DeletesOne)'
    BY <1>0, <1>7 DEF DeleteCommit, DeletesOne, Rows
  <2>2. PICK p \in PostIds : ask[r].items = {p}
    BY <1>0, <1>7 DEF DeleteCommit, DeletesOne
  <2>3. SavedPosts' = SavedPosts \ {p}
    BY <1>7, <2>2 DEF DeleteCommit, SavedPosts
  <2>4. Cardinality(SavedPosts') >= Cardinality(SavedPosts) - 1
    BY <2>3, CountsAreNumbers, FS_RemoveElement
  <2>5. Deleting' = Deleting \ {r} /\ r \in Deleting
    BY <1>0, <1>7 DEF DeleteCommit, Deleting
  <2>6. Cardinality(Deleting') = Cardinality(Deleting) - 1
    BY <2>5, CountsAreNumbers, FS_RemoveElement
  <2>7. renamed' = renamed /\ atOnce' = atOnce /\ Room(Cardinality(SavedPosts))
    BY <1>7 DEF DeleteCommit, PostsInv
  <2>8. Room(Cardinality(SavedPosts))'
    BY <1>0, <2>4, <2>6, <2>7, CountsAreNumbers, CreatorPostsAssumption DEF Room
  <2> QED BY <2>1, <2>8 DEF PostsInv
<1>8. CASE UNCHANGED creatorPostsVars
  BY <1>0, <1>8 DEF creatorPostsVars, PostsInv, DeletesOne, Room, Deleting, SavedPosts
<1> QED BY <1>1, <1>2, <1>3, <1>4, <1>5, <1>6, <1>7, <1>8 DEF CreatorPostsNext

\* MinimumKept: for any number of calls and posts, whatever overlaps: as many posts may be
\* missing from the minimum as deletions overlapped beyond the first, and no more
\* (creator_posts.py:94-100).
THEOREM MinimumStands == CreatorPostsSpec => []MinimumKept
<1>1. PostsInv => MinimumKept
  BY CountsAreNumbers, CreatorPostsAssumption DEF PostsInv, Room, MinimumKept, TooMany, CreatorPostsTypeOK
<1> QED BY PostsInit, PostsNext, <1>1, PTL DEF CreatorPostsSpec

-----------------------------------------------------------------------------
(* NicheCache                                                              *)

\* A computation at work is no older than the statement timeout; what it found
\* was true when it looked, after it was asked for.
ReaderAges ==
    \A r \in Readers :
        /\ reader[r].began <= clock
        /\ reader[r].step \in {"compute", "store"} => clock - reader[r].began <= QueryTicks
        /\ reader[r].step = "store" => reader[r].began <= reader[r].value /\ reader[r].value <= clock
        /\ reader[r].step = "served" => clock - reader[r].value < CacheTtl + QueryTicks

\* An entry is dated at most one query after its value was true.
Dated(e) == e.value <= e.at /\ e.at <= clock /\ e.at - e.value <= QueryTicks

OneEach(s) == \A i, j \in 1 .. Len(s) : s[i].key = s[j].key => i = j

CacheInv ==
    /\ NicheCacheTypeOK
    /\ ReaderAges
    /\ \A i \in 1 .. Len(cached) : Dated(cached[i])
    /\ OneEach(cached)
    /\ Len(cached) <= CacheMax

\* Every element of s stands in t, and in one place only.
Thinned(s, t) ==
    /\ s \in Seq(Entry) /\ Len(s) <= Len(t)
    /\ \A i \in 1 .. Len(s) : \E j \in 1 .. Len(t) : s[i] = t[j]
    /\ OneEach(t) => OneEach(s)

\* pop(key, None) leaves no entry of the key, and the others as they were.
LEMMA WithoutKey ==
    ASSUME NicheCacheTypeOK, NEW key \in CacheKeys, OneEach(cached)
    PROVE  /\ Thinned(Without(key), cached)
           /\ \A i \in 1 .. Len(Without(key)) : Without(key)[i].key # key
<1>0. cached \in Seq(Entry) /\ Len(cached) \in Nat /\ DOMAIN cached = 1 .. Len(cached)
      /\ \A i \in 1 .. Len(cached) : cached[i] \in Entry
  BY LenProperties, ElementOfSeq DEF NicheCacheTypeOK
<1>1. CASE Entries(key) = {}
  <2>1. Without(key) = cached
    BY <1>1 DEF Without
  <2> QED BY <1>0, <1>1, <2>1 DEF Thinned, Entries
<1>2. CASE Entries(key) # {}
  <2> DEFINE k == CHOOSE i \in Entries(key) : TRUE
             front == SubSeq(cached, 1, k - 1)
             back == SubSeq(cached, k + 1, Len(cached))
  <2>1. k \in 1 .. Len(cached) /\ cached[k].key = key /\ k \in Int
    BY <1>0, <1>2 DEF Entries
  <2>2. Without(key) = front \o back
    BY <1>2 DEF Without
  <2> HIDE DEF k
  <2>3. /\ front \in Seq(Entry) /\ Len(front) = k - 1
        /\ \A i \in 1 .. k - 1 : front[i] = cached[i]
    <3>1. 1 \in Int /\ k - 1 \in Int /\ \A i \in 1 .. k - 1 : cached[i] \in Entry
      BY <1>0, <2>1
    <3>2. /\ SubSeq(cached, 1, k - 1) \in Seq(Entry)
          /\ Len(SubSeq(cached, 1, k - 1)) = IF 1 <= k - 1 THEN k - 1 - 1 + 1 ELSE 0
          /\ \A i \in 1 .. k - 1 - 1 + 1 : SubSeq(cached, 1, k - 1)[i] = cached[1 + i - 1]
      BY <3>1, SubSeqProperties
    <3> QED BY <1>0, <2>1, <3>2
  <2>4. /\ back \in Seq(Entry) /\ Len(back) = Len(cached) - k
        /\ \A i \in 1 .. Len(cached) - k : back[i] = cached[k + i]
    <3>1. k + 1 \in Int /\ Len(cached) \in Int /\ \A i \in k + 1 .. Len(cached) : cached[i] \in Entry
      BY <1>0, <2>1
    <3>2. /\ SubSeq(cached, k + 1, Len(cached)) \in Seq(Entry)
          /\ Len(SubSeq(cached, k + 1, Len(cached))) =
               IF k + 1 <= Len(cached) THEN Len(cached) - (k + 1) + 1 ELSE 0
          /\ \A i \in 1 .. Len(cached) - (k + 1) + 1 :
               SubSeq(cached, k + 1, Len(cached))[i] = cached[k + 1 + i - 1]
      BY <3>1, SubSeqProperties
    <3>3. /\ Len(cached) - (k + 1) + 1 = Len(cached) - k
          /\ \A i \in 1 .. Len(cached) - k : k + 1 + i - 1 = k + i
      BY <1>0, <2>1
    <3>4. (IF k + 1 <= Len(cached) THEN Len(cached) - (k + 1) + 1 ELSE 0) = Len(cached) - k
      <4>1. ASSUME ~(k + 1 <= Len(cached)) PROVE Len(cached) - k = 0
        <5> DEFINE l == Len(cached)
        <5>1. l \in Nat /\ k \in 1 .. l /\ ~(k + 1 <= l)
          BY <1>0, <2>1, <4>1
        <5> HIDE DEF l
        <5>2. l - k = 0
          BY <5>1
        <5> QED BY <5>2 DEF l
      <4> QED BY <3>3, <4>1
    <3> QED BY <3>2, <3>3, <3>4
  <2> HIDE DEF front, back
  <2>5. /\ front \o back \in Seq(Entry) /\ Len(front \o back) = Len(cached) - 1
        /\ \A i \in 1 .. Len(cached) - 1 :
             (front \o back)[i] = IF i <= k - 1 THEN front[i] ELSE back[i - (k - 1)]
    <3>1. /\ front \o back \in Seq(Entry)
          /\ Len(front \o back) = Len(front) + Len(back)
          /\ \A i \in 1 .. Len(front) + Len(back) :
               (front \o back)[i] = IF i <= Len(front) THEN front[i] ELSE back[i - Len(front)]
      BY <2>3, <2>4, ConcatProperties
    <3>2. Len(front) + Len(back) = Len(cached) - 1 /\ Len(front) = k - 1
      BY <1>0, <2>1, <2>3, <2>4
    <3> QED BY <3>1, <3>2
  <2>6. \A i \in 1 .. Len(cached) - 1 :
          (front \o back)[i] = cached[IF i <= k - 1 THEN i ELSE i + 1]
    <3> TAKE i \in 1 .. Len(cached) - 1
    <3>1. CASE i <= k - 1
      BY <1>0, <2>1, <2>3, <2>5, <3>1
    <3>2. CASE ~(i <= k - 1)
      <4>1. i - (k - 1) \in 1 .. Len(cached) - k /\ k + (i - (k - 1)) = i + 1
        BY <1>0, <2>1, <3>2
      <4> QED BY <2>4, <2>5, <3>2, <4>1
    <3> QED BY <3>1, <3>2
  <2> DEFINE origin(i) == IF i <= k - 1 THEN i ELSE i + 1
  <2>7. \A i \in 1 .. Len(cached) - 1 : origin(i) \in 1 .. Len(cached) /\ origin(i) # k
    BY <1>0, <2>1
  <2>8. \A i, j \in 1 .. Len(cached) - 1 : origin(i) = origin(j) => i = j
    BY <1>0, <2>1
  <2>9. \A i \in 1 .. Len(cached) - 1 : (front \o back)[i] = cached[origin(i)]
    BY <2>6
  <2> HIDE DEF origin
  <2>10. Thinned(front \o back, cached)
    <3>1. OneEach(front \o back)
      <4> SUFFICES ASSUME NEW i \in 1 .. Len(cached) - 1, NEW j \in 1 .. Len(cached) - 1,
                          (front \o back)[i].key = (front \o back)[j].key
                   PROVE  i = j
        BY <2>5 DEF OneEach
      <4>1. cached[origin(i)].key = cached[origin(j)].key /\ origin(i) \in 1 .. Len(cached) /\ origin(j) \in 1 .. Len(cached)
        BY <2>7, <2>9
      <4>2. origin(i) = origin(j)
        BY <4>1 DEF OneEach
      <4> QED BY <2>8, <4>2
    <3>2. Len(cached) - 1 <= Len(cached)
      BY <1>0
    <3> QED BY <2>5, <2>7, <2>9, <3>1, <3>2 DEF Thinned
  <2>11. \A i \in 1 .. Len(front \o back) : (front \o back)[i].key # key
    BY <1>0, <2>1, <2>5, <2>7, <2>9 DEF OneEach
  <2> QED BY <2>2, <2>10, <2>11
<1> QED BY <1>1, <1>2

\* The oldest insertions go, and there is room for one.
LEMMA EvictedRoom ==
    ASSUME NEW s \in Seq(Entry)
    PROVE  Thinned(Evicted(s), s) /\ Len(Evicted(s)) <= CacheMax - 1
<1>0. Len(s) \in Nat /\ CacheMax \in Nat \ {0} /\ \A i \in 1 .. Len(s) : s[i] \in Entry
  BY LenProperties, ElementOfSeq, NicheCacheAssumption
<1>1. CASE ~(Len(s) >= CacheMax)
  BY <1>0, <1>1 DEF Evicted, Thinned
<1>2. CASE Len(s) >= CacheMax
  <2> DEFINE m == Len(s) - CacheMax + 2
             t == SubSeq(s, m, Len(s))
  <2>1. m \in Int /\ Len(s) \in Int /\ m >= 2 /\ \A i \in m .. Len(s) : s[i] \in Entry
    BY <1>0, <1>2
  <2>2. /\ SubSeq(s, m, Len(s)) \in Seq(Entry)
        /\ Len(SubSeq(s, m, Len(s))) = IF m <= Len(s) THEN Len(s) - m + 1 ELSE 0
        /\ \A i \in 1 .. Len(s) - m + 1 : SubSeq(s, m, Len(s))[i] = s[m + i - 1]
    BY <2>1, SubSeqProperties
  <2>3. t \in Seq(Entry) /\ Len(t) = CacheMax - 1
        /\ \A i \in 1 .. CacheMax - 1 : t[i] = s[m + i - 1]
    BY <1>0, <1>2, <2>2
  <2>4. \A i \in 1 .. CacheMax - 1 : m + i - 1 \in 1 .. Len(s)
    BY <1>0, <1>2
  <2>5. \A i, j \in 1 .. CacheMax - 1 : m + i - 1 = m + j - 1 => i = j
    BY <1>0
  <2>6. Evicted(s) = t
    BY <1>2 DEF Evicted
  <2> HIDE DEF t, m
  <2>7. OneEach(s) => OneEach(t)
    BY <2>3, <2>4, <2>5 DEF OneEach
  <2>8. \A i \in 1 .. Len(t) : \E j \in 1 .. Len(s) : t[i] = s[j]
    BY <2>3, <2>4
  <2> QED BY <1>0, <1>2, <2>3, <2>6, <2>7, <2>8 DEF Thinned
<1> QED BY <1>1, <1>2

LEMMA CacheInit == NicheCacheInit => CacheInv
<1> SUFFICES ASSUME NicheCacheInit PROVE CacheInv
  OBVIOUS
<1>1. cached = <<>> /\ Len(cached) = 0 /\ cached \in Seq(Entry)
  BY EmptySeq DEF NicheCacheInit
<1>2. CacheTtl + QueryTicks > 0 /\ 0 \in 0 .. LastTick /\ 0 <= CacheMax
  BY NicheCacheAssumption
<1>3. \A r \in Readers : reader[r] \in Call /\ reader[r].step = "idle" /\ reader[r].began = 0
  BY <1>2 DEF NicheCacheInit, Call
<1>4. reader \in [Readers -> Call]
  BY <1>3 DEF NicheCacheInit
<1> QED BY <1>1, <1>2, <1>3, <1>4 DEF NicheCacheInit, NicheCacheTypeOK, CacheInv, ReaderAges, OneEach

LEMMA LookupInv ==
    ASSUME CacheInv, NEW r \in Readers, NEW key \in CacheKeys, Lookup(r, key)
    PROVE  CacheInv'
<1>0. /\ NicheCacheTypeOK /\ ReaderAges /\ UNCHANGED <<clock, cached>>
      /\ clock \in Nat /\ clock \in 0 .. LastTick /\ LastTick \in Nat /\ QueryTicks \in Nat
      /\ CacheTtl \in Nat \ {0}
  BY NicheCacheAssumption DEF CacheInv, NicheCacheTypeOK, Lookup
<1>1. DOMAIN cached = 1 .. Len(cached) /\ \A i \in 1 .. Len(cached) : cached[i] \in Entry
  BY LenProperties, ElementOfSeq DEF CacheInv, NicheCacheTypeOK
<1>2. PICK n \in Call : /\ reader' = [reader EXCEPT ![r] = n] /\ n.began = clock
                        /\ n.step \in {"served", "compute"}
                        /\ n.step = "served" => clock - n.value < CacheTtl + QueryTicks
  <2>1. CASE Hits(key) # {}
    <3> DEFINE i == CHOOSE j \in Hits(key) : TRUE
    <3>1. i \in Hits(key)
      BY <2>1
    <3> HIDE DEF i
    <3>2. cached[i] \in Entry /\ clock - cached[i].at < CacheTtl /\ Dated(cached[i])
      BY <1>1, <3>1 DEF Hits, Entries, Young, CacheInv
    <3>3. cached[i].value \in 0 .. LastTick /\ clock - cached[i].value < CacheTtl + QueryTicks
      BY <1>0, <3>2 DEF Entry, Dated
    <3>4. reader' = [reader EXCEPT ![r] =
                       [step |-> "served", key |-> key, began |-> clock, value |-> cached[i].value]]
      BY <2>1 DEF Lookup, i
    <3>5. [step |-> "served", key |-> key, began |-> clock, value |-> cached[i].value] \in Call
      BY <1>0, <3>3 DEF Call
    <3> QED BY <3>3, <3>4, <3>5
  <2>2. CASE Hits(key) = {}
    <3>1. reader' = [reader EXCEPT ![r] = [step |-> "compute", key |-> key, began |-> clock, value |-> 0]]
      BY <2>2 DEF Lookup
    <3>2. [step |-> "compute", key |-> key, began |-> clock, value |-> 0] \in Call
      BY <1>0 DEF Call
    <3> QED BY <3>1, <3>2
  <2> QED BY <2>1, <2>2
<1>3. reader' \in [Readers -> Call] /\ reader'[r] = n /\ \A q \in Readers \ {r} : reader'[q] = reader[q]
  BY <1>0, <1>2 DEF NicheCacheTypeOK
<1>4. ReaderAges'
  BY <1>0, <1>2, <1>3 DEF ReaderAges
<1> QED BY <1>0, <1>3, <1>4 DEF CacheInv, NicheCacheTypeOK, Dated

LEMMA ReaderMoves ==
    ASSUME CacheInv, NEW r \in Readers, Compute(r) \/ CutOff(r)
    PROVE  CacheInv'
<1>0. /\ NicheCacheTypeOK /\ ReaderAges /\ UNCHANGED <<clock, cached>>
      /\ clock \in Nat /\ clock \in 0 .. LastTick
  BY NicheCacheAssumption DEF CacheInv, NicheCacheTypeOK, Compute, CutOff
<1>1. reader' \in [Readers -> Call]
  BY <1>0 DEF Compute, CutOff, NicheCacheTypeOK, Call
<1>2. ReaderAges'
  <2>1. \A q \in Readers \ {r} : reader'[q] = reader[q]
    BY <1>0 DEF Compute, CutOff, NicheCacheTypeOK
  <2>2. /\ reader'[r].began = reader[r].began /\ reader[r].step \in {"compute", "store"}
        /\ \/ reader'[r].step = "store" /\ reader'[r].value = clock
           \/ reader'[r].step = "idle"
    BY <1>0 DEF Compute, CutOff, NicheCacheTypeOK, Call
  <2> QED BY <1>0, <2>1, <2>2 DEF ReaderAges
<1> QED BY <1>0, <1>1, <1>2 DEF CacheInv, NicheCacheTypeOK, Dated

LEMMA StoreInv ==
    ASSUME CacheInv, NEW r \in Readers, Store(r)
    PROVE  CacheInv'
<1> DEFINE key == reader[r].key
           kept == Evicted(Without(key))
           e == [key |-> key, at |-> clock, value |-> reader[r].value]
<1>0. /\ NicheCacheTypeOK /\ ReaderAges /\ clock' = clock /\ key \in CacheKeys
      /\ clock \in Nat /\ clock \in 0 .. LastTick /\ CacheMax \in Nat /\ CacheTtl \in Nat \ {0}
      /\ QueryTicks \in Nat
  <2>1. NicheCacheTypeOK /\ ReaderAges /\ clock' = clock
    BY DEF CacheInv, Store
  <2>2. key \in CacheKeys /\ clock \in 0 .. LastTick
    BY <2>1 DEF NicheCacheTypeOK, Call
  <2> QED BY <2>1, <2>2, NicheCacheAssumption
<1>1. e \in Entry /\ Dated(e)
  BY <1>0 DEF Store, NicheCacheTypeOK, Call, Entry, ReaderAges, Dated
<1>2. Thinned(Without(key), cached) /\ \A i \in 1 .. Len(Without(key)) : Without(key)[i].key # key
  BY <1>0, WithoutKey DEF CacheInv
<1>3. Thinned(kept, Without(key)) /\ Len(kept) <= CacheMax - 1
  BY <1>2, EvictedRoom DEF Thinned
<1>4. cached' = Append(kept, e)
  BY DEF Store
<1>5. /\ kept \in Seq(Entry) /\ Len(kept) \in Nat /\ OneEach(kept)
      /\ \A i \in 1 .. Len(kept) : kept[i].key # key /\ Dated(kept[i])
  <2>1. kept \in Seq(Entry) /\ Len(kept) \in Nat /\ OneEach(kept)
    BY <1>2, <1>3, LenProperties DEF Thinned, CacheInv
  <2>2. ASSUME NEW i \in 1 .. Len(kept)
        PROVE  kept[i].key # key /\ Dated(kept[i])
    <3>1. PICK j \in 1 .. Len(Without(key)) : kept[i] = Without(key)[j]
      BY <1>3 DEF Thinned
    <3>2. PICK k \in 1 .. Len(cached) : Without(key)[j] = cached[k]
      BY <1>2 DEF Thinned
    <3> QED BY <1>2, <3>1, <3>2 DEF CacheInv
  <2> QED BY <2>1, <2>2
<1> HIDE DEF kept
<1>6. /\ cached' \in Seq(Entry) /\ Len(cached') = Len(kept) + 1
      /\ \A i \in 1 .. Len(kept) : cached'[i] = kept[i]
      /\ cached'[Len(kept) + 1] = e
  BY <1>1, <1>4, <1>5, AppendProperties
<1>7. /\ reader' = [reader EXCEPT ![r].step = "served"]
      /\ clock - reader[r].value <= QueryTicks /\ clock - reader[r].value \in Int
  BY <1>0 DEF Store, NicheCacheTypeOK, Call, ReaderAges
<1>8. reader' \in [Readers -> Call] /\ ReaderAges'
  BY <1>0, <1>7 DEF NicheCacheTypeOK, Call, ReaderAges
<1>9. \A i \in 1 .. Len(cached)' : i \in 1 .. Len(kept) \/ i = Len(kept) + 1
  BY <1>5, <1>6
<1>10. Len(cached)' <= CacheMax
  BY <1>0, <1>3, <1>5, <1>6
<1>11. OneEach(cached')
  <2>1. e.key = key
    OBVIOUS
  <2> HIDE DEF e
  <2> QED BY <1>5, <1>6, <1>9, <2>1 DEF OneEach
<1>12. \A i \in 1 .. Len(cached)' : Dated(cached[i])'
  <2> HIDE DEF e
  <2> QED BY <1>0, <1>1, <1>5, <1>6, <1>9 DEF Dated
<1> QED BY <1>0, <1>6, <1>8, <1>10, <1>11, <1>12 DEF CacheInv, NicheCacheTypeOK

LEMMA ClockInv ==
    ASSUME CacheInv, Clock
    PROVE  CacheInv'
<1>0. /\ NicheCacheTypeOK /\ ReaderAges /\ cached' = cached /\ clock' = clock + 1
      /\ clock \in Nat /\ clock + 1 \in 0 .. LastTick /\ QueryTicks \in Nat
  BY NicheCacheAssumption DEF CacheInv, NicheCacheTypeOK, Clock
<1>1. \A r \in Readers :
        /\ reader'[r] = IF reader[r].step = "served" THEN [reader[r] EXCEPT !.step = "idle"] ELSE reader[r]
        /\ reader[r].step \in {"compute", "store"} => clock - reader[r].began < QueryTicks
        /\ reader[r] \in Call
  BY <1>0 DEF Clock, NicheCacheTypeOK
<1>2. reader' \in [Readers -> Call]
  BY <1>1 DEF Clock, Call
<1>3. ReaderAges'
  <2> SUFFICES ASSUME NEW r \in Readers
               PROVE  /\ reader'[r].began <= clock'
                      /\ reader'[r].step \in {"compute", "store"} => clock' - reader'[r].began <= QueryTicks
                      /\ reader'[r].step = "store" => reader'[r].began <= reader'[r].value /\ reader'[r].value <= clock'
                      /\ reader'[r].step = "served" => clock' - reader'[r].value < CacheTtl + QueryTicks
    BY DEF ReaderAges
  <2>1. /\ reader'[r].began = reader[r].began /\ reader'[r].value = reader[r].value
        /\ reader'[r].step = IF reader[r].step = "served" THEN "idle" ELSE reader[r].step
        /\ reader[r].began \in Nat /\ reader[r].value \in Nat
    <3>1. reader[r].began \in 0 .. LastTick /\ reader[r].value \in 0 .. LastTick
      BY <1>1 DEF Call
    <3>2. reader[r].began \in Nat /\ reader[r].value \in Nat
      BY <3>1, NicheCacheAssumption
    <3>3. CASE reader[r].step = "served"
      <4>1. reader'[r] = [reader[r] EXCEPT !.step = "idle"] /\ reader[r] \in Call
        BY <1>1, <3>3
      <4>2. reader'[r].step = "idle" /\ reader'[r].began = reader[r].began /\ reader'[r].value = reader[r].value
        BY <4>1 DEF Call
      <4> QED BY <3>2, <3>3, <4>2
    <3>4. CASE reader[r].step # "served"
      <4>1. reader'[r] = reader[r]
        BY <1>1, <3>4
      <4> QED BY <3>2, <3>4, <4>1
    <3> QED BY <3>3, <3>4
  <2>2. /\ reader[r].began <= clock
        /\ reader[r].step \in {"compute", "store"} => clock - reader[r].began < QueryTicks
        /\ reader[r].step = "store" => reader[r].began <= reader[r].value /\ reader[r].value <= clock
    BY <1>0, <1>1 DEF ReaderAges
  <2>3. reader'[r].step # "served"
    BY <2>1
  <2> QED BY <1>0, <2>1, <2>2, <2>3
<1>4. \A i \in 1 .. Len(cached) : Dated(cached[i])'
  <2>1. \A i \in 1 .. Len(cached) : cached[i] \in Entry
    BY ElementOfSeq DEF CacheInv, NicheCacheTypeOK
  <2> QED BY <1>0, <2>1 DEF CacheInv, Dated, Entry
<1> QED BY <1>0, <1>2, <1>3, <1>4 DEF CacheInv, NicheCacheTypeOK

LEMMA CacheNext == CacheInv /\ [NicheCacheNext]_nicheCacheVars => CacheInv'
<1> SUFFICES ASSUME CacheInv, [NicheCacheNext]_nicheCacheVars PROVE CacheInv'
  OBVIOUS
<1>1. CASE NicheCacheNext
  BY <1>1, LookupInv, ReaderMoves, StoreInv, ClockInv DEF NicheCacheNext
<1>2. CASE UNCHANGED nicheCacheVars
  BY <1>2 DEF nicheCacheVars, CacheInv, NicheCacheTypeOK, ReaderAges, Dated
<1> QED BY <1>1, <1>2

\* CacheFreshAndBounded: for any number of threads, keys and entries, and for every TTL,
\* maximum and statement timeout, although a slow query may store an old answer with a late
\* date (ttl_cache.py:58-69).
THEOREM CacheHolds == NicheCacheSpec => []CacheFreshAndBounded
<1>1. CacheInv => CacheFreshAndBounded
  <2> SUFFICES ASSUME CacheInv, NEW key \in CacheKeys
               PROVE  Cardinality(Entries(key)) <= 1
    BY DEF CacheInv, ReaderAges, CacheFreshAndBounded
  <2>1. Entries(key) \subseteq 1 .. Len(cached) /\ \A i, j \in Entries(key) : i = j
    BY LenProperties DEF Entries, CacheInv, NicheCacheTypeOK, OneEach
  <2>2. CASE Entries(key) = {}
    BY <2>2, FS_EmptySet
  <2>3. CASE Entries(key) # {}
    <3>1. PICK i : i \in Entries(key)
      BY <2>3
    <3>2. Entries(key) = {i}
      BY <2>1, <3>1
    <3>3. Cardinality({i}) = 1
      BY FS_Singleton
    <3> QED BY <3>2, <3>3
  <2> QED BY <2>2, <2>3
<1> QED BY CacheInit, CacheNext, <1>1, PTL DEF NicheCacheSpec

-----------------------------------------------------------------------------
(* Rankings                                                                *)

OneRowPerBrand(rows) == \A r, s \in rows : r.brand = s.brand => r = s

\* The batches of a run share no brand, and what is scored was taken from them.
RunInv ==
    /\ \A x, y \in ranking.batches : x = y \/ x \cap y = {}
    /\ \A x \in ranking.batches, s \in ranking.scored : s.brand \notin x
    /\ OneRowPerBrand(ranking.scored)

\* The rows of one run: their ranks are those of the order the run has found.
InOrder(rows) ==
    /\ OneRowPerBrand(rows)
    /\ \A r, s \in rows : r.rank < s.rank <=> Better(r, s)
    /\ \A r, s \in rows : r # s => Better(r, s) \/ Better(s, r)

RanksInv == RankingsTypeOK /\ RunInv /\ \A v \in Versions : InOrder(ranked[v])

LEMMA BetterOrder ==
    ASSUME NEW S, S \subseteq ScoredBrands, OneRowPerBrand(S)
    PROVE  /\ \A r \in S : ~Better(r, r)
           /\ \A r, s, t \in S : Better(r, s) /\ Better(s, t) => Better(r, t)
           /\ \A r, s \in S : r # s => Better(r, s) \/ Better(s, r)
<1>1. \A r \in S : r.brand \in Nat /\ r.confidence \in Int
  <2>1. \A r \in S : r.brand \in RankBrands /\ r.confidence \in Confidences
    BY DEF ScoredBrands
  <2>2. \A c \in 0 .. 100 : c \in Int
    OBVIOUS
  <2> QED BY <2>1, <2>2, RankingsAssumption
<1> QED BY <1>1 DEF Better, OneRowPerBrand

\* Rows of different brands are no more than the brands.
LEMMA FewerThanBrands ==
    ASSUME NEW S, S \subseteq ScoredBrands, OneRowPerBrand(S), NEW B, B \subseteq RankBrands,
           \A r \in S : r.brand \in B
    PROVE  IsFiniteSet(S) /\ Cardinality(S) \in Nat /\ Cardinality(S) <= Cardinality(B)
<1> DEFINE f == [r \in S |-> r.brand]
<1>1. IsFiniteSet(B)
  BY RankingsAssumption, FS_Subset
<1>2. f \in Injection(S, B)
  BY DEF Injection, IsInjective, OneRowPerBrand
<1>3. IsFiniteSet(S) /\ Cardinality(S) <= Cardinality(B)
  BY <1>1, <1>2, FS_Injection
<1> QED BY <1>3, FS_CardinalityType

LEMMA RowsInOrder ==
    ASSUME NEW S, S \subseteq ScoredBrands, OneRowPerBrand(S)
    PROVE  /\ RowsOf(S) \subseteq [brand : RankBrands, confidence : Confidences,
                                   rank : 1 .. Cardinality(RankBrands)]
           /\ InOrder(RowsOf(S))
<1> DEFINE above(s) == {r \in S : Better(r, s)}
<1>1. ASSUME NEW s \in S
      PROVE  /\ IsFiniteSet(above(s)) /\ Cardinality(above(s)) \in Nat
             /\ 1 + Cardinality(above(s)) \in 1 .. Cardinality(RankBrands)
  <2>1. above(s) \subseteq ScoredBrands /\ OneRowPerBrand(above(s))
    BY DEF OneRowPerBrand
  <2>2. \A r \in above(s) : r.brand \in RankBrands \ {s.brand}
    <3>1. s \notin above(s)
      BY BetterOrder
    <3> QED BY <3>1 DEF ScoredBrands, OneRowPerBrand
  <2>3. RankBrands \ {s.brand} \subseteq RankBrands
    OBVIOUS
  <2> HIDE DEF above
  <2>4. /\ IsFiniteSet(above(s)) /\ Cardinality(above(s)) \in Nat
        /\ Cardinality(above(s)) <= Cardinality(RankBrands \ {s.brand})
    BY <2>1, <2>2, <2>3, FewerThanBrands
  <2>5. s.brand \in RankBrands /\ Cardinality(RankBrands) \in Nat
        /\ Cardinality(RankBrands \ {s.brand}) = Cardinality(RankBrands) - 1
    BY RankingsAssumption, FS_RemoveElement, FS_CardinalityType DEF ScoredBrands
  <2> QED BY <2>4, <2>5
<1>2. ASSUME NEW r \in S, NEW s \in S, Better(r, s)
      PROVE  Cardinality(above(r)) < Cardinality(above(s))
  <2>1. above(r) \subseteq above(s) /\ r \in above(s) /\ r \notin above(r)
    BY <1>2, BetterOrder
  <2>2. IsFiniteSet(above(s)) /\ Cardinality(above(s)) \in Nat /\ Cardinality(above(r)) \in Nat
    BY <1>1
  <2> HIDE DEF above
  <2> QED BY <2>1, <2>2, FS_Subset
<1>3. \A q \in RowsOf(S) : \E s \in S : /\ s.brand = q.brand /\ s.confidence = q.confidence
                                       /\ q = [brand |-> s.brand, confidence |-> s.confidence,
                                               rank |-> 1 + Cardinality(above(s))]
  <2> TAKE q \in RowsOf(S)
  <2>1. PICK s \in S : q = [brand |-> s.brand, confidence |-> s.confidence,
                            rank |-> 1 + Cardinality(above(s))]
    BY DEF RowsOf
  <2> QED BY <2>1
<1>4. RowsOf(S) \subseteq [brand : RankBrands, confidence : Confidences,
                           rank : 1 .. Cardinality(RankBrands)]
  <2> SUFFICES ASSUME NEW q \in RowsOf(S)
               PROVE  q \in [brand : RankBrands, confidence : Confidences, rank : 1 .. Cardinality(RankBrands)]
    OBVIOUS
  <2>1. PICK s \in S : q = [brand |-> s.brand, confidence |-> s.confidence,
                            rank |-> 1 + Cardinality(above(s))]
    BY <1>3
  <2>2. s.brand \in RankBrands /\ s.confidence \in Confidences
    BY DEF ScoredBrands
  <2>3. 1 + Cardinality(above(s)) \in 1 .. Cardinality(RankBrands)
    BY <1>1
  <2> HIDE DEF above
  <2> QED BY <2>1, <2>2, <2>3
<1>5. InOrder(RowsOf(S))
  <2> SUFFICES ASSUME NEW p \in RowsOf(S), NEW q \in RowsOf(S)
               PROVE  /\ p.brand = q.brand => p = q
                      /\ p.rank < q.rank <=> Better(p, q)
                      /\ p # q => Better(p, q) \/ Better(q, p)
    BY DEF InOrder, OneRowPerBrand
  <2>1. PICK s \in S : /\ s.brand = p.brand /\ s.confidence = p.confidence
                       /\ p = [brand |-> s.brand, confidence |-> s.confidence,
                               rank |-> 1 + Cardinality(above(s))]
    BY <1>3
  <2>2. PICK t \in S : /\ t.brand = q.brand /\ t.confidence = q.confidence
                       /\ q = [brand |-> t.brand, confidence |-> t.confidence,
                               rank |-> 1 + Cardinality(above(t))]
    BY <1>3
  <2>3. (Better(p, q) <=> Better(s, t)) /\ (Better(q, p) <=> Better(t, s))
    BY <2>1, <2>2 DEF Better
  <2>4. p.brand = q.brand => s = t
    BY <2>1, <2>2 DEF OneRowPerBrand
  <2>5. p.rank = 1 + Cardinality(above(s)) /\ q.rank = 1 + Cardinality(above(t))
    BY <2>1, <2>2
  <2>6. Better(s, t) => Cardinality(above(s)) < Cardinality(above(t))
    BY <1>2
  <2>7. Better(t, s) => Cardinality(above(t)) < Cardinality(above(s))
    BY <1>2
  <2>8. Cardinality(above(s)) \in Nat /\ Cardinality(above(t)) \in Nat
    BY <1>1
  <2>9. s # t => Better(s, t) \/ Better(t, s)
    BY BetterOrder
  <2>10. s = t => p = q /\ ~Better(s, t)
    BY <2>1, <2>2, BetterOrder
  <2> HIDE DEF above
  <2>11. p.rank < q.rank <=> Better(s, t)
    BY <2>5, <2>6, <2>7, <2>8, <2>9, <2>10
  <2> QED BY <2>3, <2>4, <2>9, <2>10, <2>11
<1> QED BY <1>4, <1>5

LEMMA RanksInit == RankingsInit => RanksInv
<1> SUFFICES ASSUME RankingsInit PROVE RanksInv
  OBVIOUS
<1>1. RankingsTypeOK
  BY DEF RankingsInit, RankingsTypeOK, NoRanking
<1>2. RunInv
  BY DEF RankingsInit, RunInv, NoRanking, OneRowPerBrand
<1>3. \A v \in Versions : InOrder(ranked[v])
  BY DEF RankingsInit, InOrder, OneRowPerBrand
<1> QED BY <1>1, <1>2, <1>3 DEF RanksInv

\* The candidates are cut into batches; two that share a brand are one.
LEMMA BatchesDisjoint ==
    ASSUME NEW S, S \subseteq RankBrands
    PROVE  /\ BatchesOf(S) \in SUBSET SUBSET RankBrands
           /\ \A x, y \in BatchesOf(S) : x = y \/ x \cap y = {}
<1> DEFINE place(b) == Place(b, S) \div RankBatch
           of(b) == {c \in S : place(c) = place(b)}
<1>1. \A x \in BatchesOf(S) : \E b \in S : x = of(b)
  BY DEF BatchesOf
<1>2. \A b \in S : of(b) \subseteq RankBrands
  OBVIOUS
<1>3. ASSUME NEW b \in S, NEW c \in S PROVE of(b) = of(c) \/ of(b) \cap of(c) = {}
  <2> HIDE DEF place
  <2>1. CASE place(b) = place(c)
    BY <2>1
  <2>2. CASE place(b) # place(c)
    BY <2>2
  <2> QED BY <2>1, <2>2
<1> HIDE DEF of
<1> QED BY <1>1, <1>2, <1>3

LEMMA RanksNext == RanksInv /\ [RankingsNext]_rankingsVars => RanksInv'
<1> SUFFICES ASSUME RanksInv, [RankingsNext]_rankingsVars PROVE RanksInv'
  OBVIOUS
<1>0. RankingsTypeOK /\ RunInv /\ \A v \in Versions : InOrder(ranked[v])
  BY DEF RanksInv
<1>1. ASSUME NEW v \in Versions, StartRanking(v) PROVE RanksInv'
  <2> DEFINE bs == BatchesOf(RankCandidates(v))
  <2>1. RankCandidates(v) \subseteq RankBrands
    BY RankingsAssumption DEF RankCandidates
  <2>2. bs \in SUBSET SUBSET RankBrands /\ \A x, y \in bs : x = y \/ x \cap y = {}
    BY <2>1, BatchesDisjoint
  <2>3. ranking' = [version |-> v, batches |-> bs, scored |-> {}] /\ UNCHANGED <<blocked, ranked>>
    BY <1>1 DEF StartRanking
  <2> HIDE DEF bs
  <2>4. RankingsTypeOK'
    BY <1>0, <2>2, <2>3 DEF RankingsTypeOK
  <2>5. RunInv'
    BY <2>2, <2>3 DEF RunInv, OneRowPerBrand
  <2> QED BY <1>0, <2>3, <2>4, <2>5 DEF RanksInv
<1>2. ASSUME NEW batch \in SUBSET RankBrands, BatchRanked(batch) PROVE RanksInv'
  <2>1. batch \in ranking.batches /\ UNCHANGED <<blocked, ranked>>
    BY <1>2 DEF BatchRanked
  <2>2. PICK some \in SUBSET batch : \E score \in [some -> Confidences] :
          ranking' = [ranking EXCEPT !.batches = @ \ {batch},
                        !.scored = @ \cup {[brand |-> b, confidence |-> score[b]] : b \in some}]
    BY <1>2 DEF BatchRanked
  <2>3. PICK score \in [some -> Confidences] :
          ranking' = [ranking EXCEPT !.batches = @ \ {batch},
                        !.scored = @ \cup {[brand |-> b, confidence |-> score[b]] : b \in some}]
    BY <2>2
  <2> DEFINE new == {[brand |-> b, confidence |-> score[b]] : b \in some}
  <2>4. /\ new \subseteq ScoredBrands
        /\ \A s \in new : s.brand \in batch /\ s = [brand |-> s.brand, confidence |-> score[s.brand]]
    BY DEF ScoredBrands
  <2>5. ranking \in [version : Versions \cup {"none"}, batches : SUBSET SUBSET RankBrands,
                     scored : SUBSET ScoredBrands]
    BY <1>0 DEF RankingsTypeOK
  <2>6. /\ ranking'.version = ranking.version
        /\ ranking'.batches = ranking.batches \ {batch}
        /\ ranking'.scored = ranking.scored \cup new
        /\ ranking' = [version |-> ranking.version, batches |-> ranking.batches \ {batch},
                       scored |-> ranking.scored \cup new]
    BY <2>3, <2>5
  <2> HIDE DEF new
  <2>7. RankingsTypeOK'
    BY <1>0, <2>1, <2>4, <2>5, <2>6 DEF RankingsTypeOK
  <2>8. RunInv'
    <3>1. \A x, y \in ranking'.batches : x = y \/ x \cap y = {}
      BY <1>0, <2>6 DEF RunInv
    <3>2. \A x \in ranking'.batches, s \in ranking'.scored : s.brand \notin x
      BY <1>0, <2>1, <2>4, <2>6 DEF RunInv
    <3>3. OneRowPerBrand(ranking'.scored)
      <4> SUFFICES ASSUME NEW r \in ranking'.scored, NEW s \in ranking'.scored, r.brand = s.brand
                   PROVE  r = s
        BY DEF OneRowPerBrand
      <4>1. CASE r \in new /\ s \in new
        BY <2>4, <4>1
      <4>2. CASE r \in ranking.scored /\ s \in ranking.scored
        BY <1>0, <4>2 DEF RunInv, OneRowPerBrand
      <4>3. ~(r \in new /\ s \in ranking.scored) /\ ~(s \in new /\ r \in ranking.scored)
        BY <1>0, <2>1, <2>4 DEF RunInv
      <4> QED BY <2>6, <4>1, <4>2, <4>3
    <3> QED BY <3>1, <3>2, <3>3 DEF RunInv
  <2> QED BY <1>0, <2>1, <2>7, <2>8 DEF RanksInv
<1>3. CASE RankingUnavailable
  BY <1>0, <1>3 DEF RankingUnavailable, NoRanking, RanksInv, RankingsTypeOK, RunInv, OneRowPerBrand
<1>4. CASE StoreRanking
  <2> DEFINE v == ranking.version
             rows == RowsOf(ranking.scored)
  <2>1. v \in Versions /\ ranked' = [ranked EXCEPT ![v] = rows] /\ ranking' = NoRanking /\ blocked' = blocked
    BY <1>0, <1>4 DEF StoreRanking, RankingsTypeOK
  <2>2. /\ rows \subseteq [brand : RankBrands, confidence : Confidences, rank : 1 .. Cardinality(RankBrands)]
        /\ InOrder(rows)
    BY <1>0, RowsInOrder DEF RankingsTypeOK, RunInv
  <2> HIDE DEF rows
  <2>3. RankingsTypeOK'
    BY <1>0, <2>1, <2>2 DEF RankingsTypeOK, NoRanking
  <2>4. RunInv'
    BY <2>1 DEF RunInv, NoRanking, OneRowPerBrand
  <2>5. \A w \in Versions : InOrder(ranked'[w])
    BY <1>0, <2>1, <2>2 DEF RankingsTypeOK
  <2> QED BY <2>3, <2>4, <2>5 DEF RanksInv
<1>5. ASSUME NEW b \in RankBrands, BlockOrUnblock(b) PROVE RanksInv'
  BY <1>0, <1>5 DEF BlockOrUnblock, RanksInv, RankingsTypeOK, RunInv
<1>6. CASE UNCHANGED rankingsVars
  BY <1>0, <1>6 DEF rankingsVars, RanksInv, RankingsTypeOK, RunInv
<1> QED BY <1>1, <1>2, <1>3, <1>4, <1>5, <1>6 DEF RankingsNext

\* The rows a creator sees: no brand and no rank twice, ranked as they score, none that is
\* blocked now, and as many as the dashboard says.
ShownInOrder ==
    /\ \A v \in Versions :
         /\ \A r, s \in ShownRows(v) : r # s => r.brand # s.brand /\ r.rank # s.rank
         /\ \A r, s \in ShownRows(v) : r.rank < s.rank <=> Better(r, s)
         /\ \A r \in ShownRows(v) : r.brand \notin blocked
    /\ BrandMatches = Cardinality(ShownRows("v3"))

LEMMA RanksShow == RanksInv => ShownInOrder
<1> SUFFICES ASSUME RanksInv PROVE ShownInOrder
  OBVIOUS
<1>1. ASSUME NEW v \in Versions
      PROVE  /\ \A r, s \in ShownRows(v) : r # s => r.brand # s.brand /\ r.rank # s.rank
             /\ \A r, s \in ShownRows(v) : r.rank < s.rank <=> Better(r, s)
             /\ \A r \in ShownRows(v) : r.brand \notin blocked
  <2>1. InOrder(ranked[v]) /\ ranked[v] \subseteq [brand : RankBrands, confidence : Confidences,
                                                   rank : 1 .. Cardinality(RankBrands)]
    BY DEF RanksInv, RankingsTypeOK
  <2>2. ShownRows(v) \subseteq ranked[v] /\ \A r \in ShownRows(v) : r.brand \notin blocked
    BY DEF ShownRows
  <2>3. \A r, s \in ranked[v] : r # s => r.brand # s.brand /\ (r.rank < s.rank \/ s.rank < r.rank)
    BY <2>1 DEF InOrder, OneRowPerBrand
  <2>4. \A r \in ranked[v] : r.rank \in Int
    <3>1. \A n \in 1 .. Cardinality(RankBrands) : n \in Int
      OBVIOUS
    <3> QED BY <2>1, <3>1
  <2>5. \A r, s \in ranked[v] : r # s => r.brand # s.brand /\ r.rank # s.rank
    BY <2>3, <2>4
  <2> QED BY <2>1, <2>2, <2>5 DEF InOrder
<1>2. BrandMatches = Cardinality(ShownRows("v3"))
  <2> DEFINE S == ShownRows("v3")
             B == {r.brand : r \in {q \in ranked["v3"] : q.confidence >= MinMatchConfidence}} \ blocked
             f == [r \in S |-> r.brand]
  <2>1. "v3" \in Versions
    BY DEF Versions
  <2>2. \A r, s \in S : r # s => r.brand # s.brand
    BY <1>1, <2>1
  <2>3. S = {r \in ranked["v3"] : r.brand \notin blocked /\ r.confidence >= MinMatchConfidence}
    BY DEF ShownRows
  <2>4. B = {r.brand : r \in S}
    BY <2>3
  <2>5. B \subseteq RankBrands
    BY <2>1, <2>4, <2>3 DEF RanksInv, RankingsTypeOK
  <2>6. IsFiniteSet(B)
    BY <2>5, RankingsAssumption, FS_Subset
  <2> HIDE DEF S, B
  <2>7. f \in Injection(S, B) /\ f \in Surjection(S, B)
    BY <2>2, <2>4 DEF Injection, IsInjective, Surjection
  <2>8. Cardinality(S) = Cardinality(B)
    BY <2>6, <2>7, FS_Injection
  <2> QED BY <2>8 DEF S, B, BrandMatches
<1> QED BY <1>1, <1>2 DEF ShownInOrder

-----------------------------------------------------------------------------
\* The rows of a set with a rank of their own can be listed by it: a row's place is the
\* number of rows before it, and the places of n rows are 1 .. n.
LEMMA Listed ==
    ASSUME NEW S, IsFiniteSet(S), \A r \in S : r.rank \in Int,
           \A r, s \in S : r # s => r.rank # s.rank
    PROVE  \E l \in [1 .. Cardinality(S) -> S] :
              IsInjective(l) /\ \A i, j \in DOMAIN l : i < j => l[i].rank <= l[j].rank
<1> DEFINE n == Cardinality(S)
           before(s) == {r \in S : r.rank < s.rank}
           p == [s \in S |-> Cardinality(before(s)) + 1]
           l == [i \in 1 .. n |-> CHOOSE s \in S : p[s] = i]
<1>1. n \in Nat
  BY FS_CardinalityType
<1>2. ASSUME NEW s \in S
      PROVE  /\ IsFiniteSet(before(s)) /\ Cardinality(before(s)) \in Nat
             /\ p[s] \in 1 .. n
  <2>1. before(s) \subseteq S \ {s} /\ S \ {s} \subseteq S
    OBVIOUS
  <2>2. Cardinality(S \ {s}) = n - 1 /\ IsFiniteSet(S \ {s})
    BY FS_RemoveElement
  <2>3. IsFiniteSet(before(s)) /\ Cardinality(before(s)) <= n - 1 /\ Cardinality(before(s)) \in Nat
    BY <2>1, <2>2, FS_Subset, FS_CardinalityType
  <2> HIDE DEF before, n
  <2> QED BY <1>1, <2>3
<1>3. ASSUME NEW r \in S, NEW s \in S, r.rank < s.rank
      PROVE  p[r] < p[s]
  <2>1. before(r) \subseteq before(s) /\ r \in before(s) /\ r \notin before(r)
    BY <1>3
  <2>2. IsFiniteSet(before(s)) /\ Cardinality(before(s)) \in Nat /\ Cardinality(before(r)) \in Nat
    BY <1>2
  <2> HIDE DEF before
  <2>3. Cardinality(before(r)) < Cardinality(before(s))
    BY <2>1, <2>2, FS_Subset
  <2> QED BY <2>2, <2>3
<1>4. p \in [S -> 1 .. n]
  BY <1>2
<1> HIDE DEF p, before, n
<1>5. \A r, s \in S : p[r] = p[s] => r = s
  <2> TAKE r, s \in S
  <2>1. p[r] \in Int /\ p[s] \in Int
    BY <1>2
  <2> QED BY <1>3, <2>1
<1>6. p \in Surjection(S, 1 .. n)
  <2>1. p \in Injection(S, 1 .. n)
    BY <1>4, <1>5 DEF Injection, IsInjective
  <2>2. IsFiniteSet(1 .. n) /\ Cardinality(1 .. n) = n
    BY <1>1, FS_Interval
  <2> QED BY <2>1, <2>2, FS_Injection DEF n
<1>7. \A i \in 1 .. n : l[i] \in S /\ p[l[i]] = i
  BY <1>6 DEF Surjection
<1>8. l \in [1 .. n -> S] /\ IsInjective(l)
  BY <1>7 DEF IsInjective
<1>9. ASSUME NEW i \in 1 .. n, NEW j \in 1 .. n, i < j
      PROVE  l[i].rank <= l[j].rank
  <2>1. ~(p[l[j]] < p[l[i]]) /\ l[i] \in S /\ l[j] \in S
    BY <1>7, <1>9
  <2>2. ~(l[j].rank < l[i].rank)
    <3> HIDE DEF l
    <3> QED BY <1>3, <2>1
  <2>3. l[i].rank \in Int /\ l[j].rank \in Int
    BY <2>1
  <2> HIDE DEF l
  <2> QED BY <2>2, <2>3
<1>10. DOMAIN l = 1 .. n
  OBVIOUS
<1> HIDE DEF l
<1> QED BY <1>8, <1>9, <1>10 DEF n

LEMMA RanksSorted == RanksInv => ShownIsRanked
<1> SUFFICES ASSUME RanksInv PROVE ShownIsRanked
  OBVIOUS
<1>0. ShownInOrder
  BY RanksShow
<1>1. ASSUME NEW v \in Versions
      PROVE  \A i, j \in DOMAIN ShownList(v) : i < j => Better(ShownList(v)[i], ShownList(v)[j])
  <2> DEFINE S == ShownRows(v)
             L == ShownList(v)
  <2>1. S \subseteq ranked[v] /\ ranked[v] \subseteq [brand : RankBrands, confidence : Confidences,
                                                      rank : 1 .. Cardinality(RankBrands)]
    BY DEF ShownRows, RanksInv, RankingsTypeOK
  <2>2. \A r \in S : r.brand \in RankBrands /\ r.rank \in Int
    <3>1. \A m \in 1 .. Cardinality(RankBrands) : m \in Int
      OBVIOUS
    <3> QED BY <2>1, <3>1
  <2>3. \A r, s \in S : r # s => r.brand # s.brand /\ r.rank # s.rank
    BY <1>0 DEF ShownInOrder
  <2>4. IsFiniteSet(S)
    <3> DEFINE f == [r \in S |-> r.brand]
    <3>1. f \in Injection(S, RankBrands)
      BY <2>2, <2>3 DEF Injection, IsInjective
    <3> QED BY <3>1, RankingsAssumption, FS_Injection
  <2>5. L \in [1 .. Cardinality(S) -> S] /\ IsInjective(L)
        /\ \A i, j \in DOMAIN L : i < j => L[i].rank <= L[j].rank
    <3>1. \E l \in [1 .. Cardinality(S) -> S] :
             IsInjective(l) /\ \A i, j \in DOMAIN l : i < j => l[i].rank <= l[j].rank
      BY <2>2, <2>3, <2>4, Listed
    <3>2. L = CHOOSE l \in [1 .. Cardinality(S) -> S] :
                 IsInjective(l) /\ \A i, j \in DOMAIN l : i < j => l[i].rank <= l[j].rank
      BY DEF ShownList
    <3> HIDE DEF S, L
    <3> QED BY <3>1, <3>2
  <2>6. \A r, s \in S : r.rank < s.rank => Better(r, s)
    BY <1>0 DEF ShownInOrder
  <2> HIDE DEF S, L
  <2>7. ASSUME NEW i \in DOMAIN L, NEW j \in DOMAIN L, i < j PROVE Better(L[i], L[j])
    <3>1. L[i] \in S /\ L[j] \in S /\ i # j /\ L[i].rank <= L[j].rank
      <4>1. DOMAIN L = 1 .. Cardinality(S)
        BY <2>5
      <4>2. \A m, k \in 1 .. Cardinality(S) : m < k => m # k
        OBVIOUS
      <4> QED BY <2>5, <2>7, <4>1, <4>2
    <3>2. L[i] # L[j]
      BY <2>5, <3>1 DEF IsInjective
    <3>3. L[i].rank < L[j].rank
      BY <2>2, <2>3, <3>1, <3>2
    <3> QED BY <2>6, <3>1, <3>3
  <2> QED BY <2>7 DEF L
<1> QED BY <1>0, <1>1 DEF ShownInOrder, ShownIsRanked

-----------------------------------------------------------------------------
(* MatchRules                                                              *)

\* A verdict was reached by the rules for the pair it is shown for, a pair of the tables.
VerdictInv == verdict = NoVerdict \/ (matchPair \in MatchPairs /\ verdict = Match(matchPair.creator, matchPair.brand))

\* The rules are asked for a pair of the tables.
MatchRulesStep == matchPair \in MatchPairs /\ MatchRulesNext

LEMMA VerdictNext ==
    VerdictInv /\ [MatchRulesStep]_matchRulesVars => VerdictInv'
<1> SUFFICES ASSUME VerdictInv, [MatchRulesStep]_matchRulesVars PROVE VerdictInv'
  OBVIOUS
<1>1. CASE MatchRulesStep
  <2>1. verdict' = Match(matchPair.creator, matchPair.brand) /\ matchPair' = matchPair
    BY <1>1 DEF MatchRulesStep, MatchRulesNext
  <2>2. matchPair' \in MatchPairs /\ verdict' = Match(matchPair'.creator, matchPair'.brand)
    BY <1>1, <2>1 DEF MatchRulesStep
  <2> QED BY <2>2 DEF VerdictInv
<1>2. CASE UNCHANGED matchRulesVars
  <2>1. verdict' = verdict /\ matchPair' = matchPair
    BY <1>2 DEF matchRulesVars
  <2>2. verdict' = NoVerdict \/ (matchPair' \in MatchPairs /\ verdict' = Match(matchPair'.creator, matchPair'.brand))
    BY <2>1 DEF VerdictInv
  <2> QED BY <2>2 DEF VerdictInv
<1> QED BY <1>1, <1>2

LEMMA TierHasPartner ==
    ASSUME NEW creator, NEW brand
    PROVE  LET t == NicheTier(creator, brand).tier IN
           /\ t \in {1, 3} => \E p \in brand.partners : p.sure /\ p.niche \in creator.niches
           /\ t = 3 => SameNiche(creator, brand)
           /\ t = 1 => Bridged(creator, brand) \/ brand.niche = "none"
<1> DEFINE sure == {p \in OfTheirNiche(creator, brand) : p.sure}
           number == Cardinality({p.who : p \in sure})
           t == NicheTier(creator, brand).tier
<1>1. \A p \in sure : p \in brand.partners /\ p.sure /\ p.niche \in creator.niches
                      /\ p \in OfTheirNiche(creator, brand)
  BY DEF OfTheirNiche, Collaborators, ReverseOf
<1>2. number > 0 => sure # {}
  <2>1. sure = {} => {p.who : p \in sure} = {}
    OBVIOUS
  <2> HIDE DEF sure
  <2>2. sure = {} => number = 0
    BY <2>1, FS_EmptySet
  <2> HIDE DEF number
  <2> QED BY <2>2
<1>3. CASE SameNiche(creator, brand)
  <2>1. t = IF \E p \in sure : p.niche = brand.niche THEN 3 ELSE 2
    BY <1>3 DEF NicheTier
  <2> HIDE DEF sure, t
  <2>2. t \in {2, 3} /\ (t = 3 => sure # {})
    BY <2>1
  <2>3. t # 1 /\ (t \in {1, 3} => \E p \in brand.partners : p.sure /\ p.niche \in creator.niches)
    BY <1>1, <2>2
  <2> QED BY <1>3, <2>3 DEF t
<1>4. CASE ~SameNiche(creator, brand)
  <2>1. t = IF number > 0 THEN 1 ELSE 0
    BY <1>4 DEF NicheTier
  <2>2. t # 3 /\ (t = 1 => sure # {})
    <3> HIDE DEF sure, t, number
    <3> QED BY <1>2, <2>1
  <2>3. sure # {} => OfTheirNiche(creator, brand) # {}
    BY <1>1
  <2> HIDE DEF sure, t, number
  <2>4. t = 1 => Bridged(creator, brand) \/ brand.niche = "none"
    BY <1>4, <2>2, <2>3 DEF Bridged, SameNiche
  <2>5. t \in {1, 3} => \E p \in brand.partners : p.sure /\ p.niche \in creator.niches
    BY <1>1, <2>2
  <2> QED BY <2>2, <2>4, <2>5 DEF t
<1> QED BY <1>3, <1>4

\* The numbers up to n.
UpTo(n) == {k \in Nat : k <= n}

LEMMA Quotient ==
    ASSUME NEW n \in Nat \ {0}, NEW a \in Int
    PROVE  a \div n \in Int /\ n * (a \div n) <= a /\ a < n * (a \div n + 1)
BY SMTT(30)

LEMMA Share ==
    ASSUME NEW n \in Nat \ {0}, NEW a \in 0 .. n
    PROVE  (5000 * a) \div n \in UpTo(5000)
<1> USE DEF UpTo
<1> DEFINE q == (5000 * a) \div n
<1>1. q \in Int /\ n * q <= 5000 * a /\ 5000 * a < n * (q + 1)
  BY Quotient
<1> HIDE DEF q
<1>2. q >= 0
  <2> SUFFICES ASSUME q <= -1 PROVE FALSE
    BY <1>1
  <2>1. n * (q + 1) <= 0
    BY <1>1, SMTT(30)
  <2> QED BY <1>1, <2>1
<1>3. q <= 5000
  <2> SUFFICES ASSUME q >= 5001 PROVE FALSE
    BY <1>1
  <2>1. n * 5001 <= n * q
    BY <1>1, SMTT(30)
  <2> QED BY <1>1, <2>1
<1> QED BY <1>1, <1>2, <1>3 DEF q

LEMMA Least ==
    ASSUME NEW a \in Nat, NEW b \in Nat
    PROVE  Min({a, b}) \in 0 .. b
<1>1. \E x \in {a, b} : \A y \in {a, b} : x <= y
  OBVIOUS
<1>2. Min({a, b}) \in {a, b} /\ \A y \in {a, b} : Min({a, b}) <= y
  BY <1>1, Zenon DEF Min
<1> QED BY <1>2

LEMMA Most ==
    ASSUME NEW a \in Int
    PROVE  Max({a, -a}) \in Nat
<1>1. \E x \in {a, -a} : \A y \in {a, -a} : x >= y
  OBVIOUS
<1>2. Max({a, -a}) \in {a, -a} /\ \A y \in {a, -a} : Max({a, -a}) >= y
  BY <1>1, Zenon DEF Max
<1> QED BY <1>2

LEMMA TierPoints ==
    ASSUME NEW creator, NEW brand, IsFiniteSet(brand.partners)
    PROVE  NicheTier(creator, brand).points \in UpTo(10000)
<1> USE DEF UpTo
<1> DEFINE sure == {p \in OfTheirNiche(creator, brand) : p.sure}
           who == {p.who : p \in sure}
           number == Cardinality(who)
           t == NicheTier(creator, brand).points
<1>1. number \in Nat
  <2>1. sure \subseteq brand.partners
    BY DEF OfTheirNiche, Collaborators, ReverseOf
  <2>2. IsFiniteSet(sure)
    BY <2>1, FS_Subset
  <2> DEFINE f == [p \in sure |-> p.who]
  <2> HIDE DEF sure
  <2>3. f \in Surjection(sure, who)
    BY DEF Surjection
  <2> HIDE DEF f, who
  <2>4. IsFiniteSet(who)
    BY <2>2, <2>3, FS_Surjection
  <2> QED BY <2>4, FS_CardinalityType
<1>2. Min({2000 * number, 10000}) \in UpTo(10000)
  <2> DEFINE all == 2000 * number
  <2>1. all \in Nat /\ 10000 \in Nat
    <3> HIDE DEF number
    <3> QED BY <1>1, SMT
  <2> HIDE DEF all
  <2>2. Min({all, 10000}) \in UpTo(10000)
    BY <2>1, Least, SMT
  <2> QED BY <2>2, SMT DEF all
<1>3. t = IF SameNiche(creator, brand)
            THEN IF \E p \in sure : p.niche = brand.niche THEN 10000 ELSE 5000
            ELSE IF number > 0 THEN Min({2000 * number, 10000}) ELSE 0
  BY SMT DEF NicheTier
<1> HIDE DEF number, t, sure
<1> QED BY <1>2, <1>3, SMT DEF t

LEMMA SizeInRange ==
    ASSUME NEW creator, NEW brand, brand.average \in Int, creator.followers \in Int
    PROVE  SizePoints(creator, brand) \in UpTo(5000)
<1> USE DEF UpTo
<1> DEFINE avg == brand.average
           away == Max({creator.followers - brand.average, brand.average - creator.followers})
           left == avg - 4 * away
           close == (5000 * left) \div avg
<1>1. CASE ~NearSize(creator, brand)
  BY <1>1, SMT DEF SizePoints
<1>2. CASE NearSize(creator, brand)
  <2>1. avg # 0 /\ avg \in Int /\ 4 * away <= avg
    BY <1>2 DEF NearSize
  <2>2. away \in Nat
    <3> DEFINE a == creator.followers - brand.average
    <3>1. a \in Int /\ brand.average - creator.followers = -a
      OBVIOUS
    <3>2. away = Max({a, -a})
      BY <3>1
    <3> HIDE DEF a, away
    <3> QED BY <3>1, <3>2, Most
  <2>3. SizePoints(creator, brand) \in {close, (close * 50) \div 80}
    BY <1>2 DEF SizePoints
  <2>4. avg \in Nat \ {0} /\ left \in 0 .. avg
    <3> HIDE DEF away
    <3> QED BY <2>1, <2>2, SMT
  <2> HIDE DEF left, avg
  <2>5. close \in UpTo(5000)
    BY <2>4, Share
  <2> HIDE DEF close
  <2> DEFINE part80 == (close * 50) \div 80
  <2>6. part80 \in UpTo(5000)
    BY <2>5, SMT
  <2> HIDE DEF part80
  <2>7. SizePoints(creator, brand) = close \/ SizePoints(creator, brand) = part80
    BY <2>3, SMT DEF part80
  <2> QED BY <2>5, <2>6, <2>7, SMT
<1> QED BY <1>1, <1>2

LEMMA ScoreInRange ==
    ASSUME matchPair \in MatchPairs
    PROVE  Score(matchPair.creator, matchPair.brand) \in 5500 .. 10000
<1> DEFINE creator == matchPair.creator
           brand == matchPair.brand
           p == Points(creator, brand)
           t == NicheTier(creator, brand).points
<1> USE DEF UpTo
<1>0. IsFiniteSet(brand.partners) /\ brand.average \in Int /\ creator.followers \in Int
  BY MatchRulesAssumption
<1> HIDE DEF creator, brand
<1>1. t \in UpTo(10000) /\ SizePoints(creator, brand) \in UpTo(5000)
  BY <1>0, TierPoints, SizeInRange
<1>2. RecentPriority(brand) \in UpTo(100)
  BY SMT DEF RecentPriority
<1>3. SimilarPriority(creator, brand) \in {78, 70, 65, 0}
  BY Zenon DEF SimilarPriority
<1>4. NicheCreatorPoints(creator, brand) \in {0, 4666, 7000}
  BY SMT DEF NicheCreatorPoints
<1>5. /\ p.recent_partnership = 80 * RecentPriority(brand)
      /\ p.niche_creators = NicheCreatorPoints(creator, brand)
      /\ p.similar_partners = (6000 * SimilarPriority(creator, brand)) \div 78
      /\ p.same_niche \in {0, 5000} /\ p.creator_size = SizePoints(creator, brand)
      /\ p.follower_range \in {0, 4000} /\ p.verified_contact \in {0, 4000} /\ p.tag_overlap \in {0, 2000}
      /\ p.youtube_sponsor \in {0, 2000} /\ p.brand_tier \in {0, 875, 1000} /\ p.latest_product \in {0, 1000}
  BY SMT DEF Points
<1>6. p.similar_partners \in UpTo(6000)
  BY <1>3, <1>5, SMT
<1>7. p.recent_partnership \in UpTo(8000)
  BY <1>2, <1>5, SMT
<1> DEFINE r == p.recent_partnership
           n == p.niche_creators
           l == p.similar_partners
           m == p.same_niche
           z == p.creator_size
           f == p.follower_range
           c == p.verified_contact
           g == p.tag_overlap
           y == p.youtube_sponsor
           b == p.brand_tier
           w == p.latest_product
<1>8. t \in UpTo(10000) /\ r \in UpTo(8000) /\ n \in UpTo(7000) /\ l \in UpTo(6000)
  BY <1>1, <1>4, <1>5, <1>6, <1>7, SMT
<1>9. /\ m \in UpTo(5000) /\ z \in UpTo(5000) /\ f \in UpTo(4000) /\ c \in UpTo(4000)
      /\ g \in UpTo(2000) /\ y \in UpTo(2000) /\ b \in UpTo(1000) /\ w \in UpTo(1000)
  BY <1>1, <1>5, SMT
<1>10. Score(creator, brand) = 5500 + (9 * (t + r + n + l + m + z + f + c + g + y + b + w)) \div 110
  BY SMT DEF Score
<1> DEFINE score == Score(creator, brand)
<1> HIDE DEF p, t, r, n, l, m, z, f, c, g, y, b, w, score
<1> DEFINE sum == t + r + n + l + m + z + f + c + g + y + b + w
<1>11. sum \in UpTo(55000)
  BY <1>8, <1>9, SMT
<1>12. score = 5500 + (9 * sum) \div 110
  BY <1>10, SMT DEF score
<1> HIDE DEF sum
<1>13. (9 * sum) \div 110 \in UpTo(4500)
  BY <1>11, SMT
<1>14. score \in 5500 .. 10000
  BY <1>12, <1>13, SMT
<1> QED BY <1>14, SMT DEF score, creator, brand

LEMMA VerdictExplains == VerdictInv => ShownIsExplained
<1> DEFINE creator == matchPair.creator
           brand == matchPair.brand
<1> SUFFICES ASSUME VerdictInv, verdict.shown
             PROVE  /\ creator.niches # {} /\ brand.niche \notin creator.niches \cup {"none"} =>
                         "niche_bridge" \in verdict.groups \/ brand.niche \notin CoreNiches
                    /\ verdict.tier \in {1, 3} => \E p \in brand.partners : p.sure /\ p.niche \in creator.niches
                    /\ verdict.tier = 3 => {"same_niche"} \subseteq verdict.groups
                    /\ verdict.tier = 1 => "niche_bridge" \in verdict.groups \/ brand.niche = "none"
                    /\ verdict.total \in 5500 .. 10000
  BY SMT DEF ShownIsExplained
<1>1. ~NoVerdict.shown
  BY DEF NoVerdict
<1>2. verdict = Match(creator, brand) /\ matchPair \in MatchPairs
  BY <1>1 DEF VerdictInv
<1>s. Score(creator, brand) \in 5500 .. 10000
  BY <1>2, ScoreInRange
<1> HIDE DEF creator, brand
<1>3. HardFilters(creator, brand, TRUE)
  BY <1>1, <1>2 DEF Match
<1>4. /\ verdict.groups = Taglines(creator, brand) /\ verdict.tier = NicheTier(creator, brand).tier
      /\ verdict.total = Score(creator, brand)
  BY <1>2, <1>3 DEF Match
<1>5. Bridged(creator, brand) => "niche_bridge" \in Taglines(creator, brand)
  BY DEF Taglines
<1>6. SameNiche(creator, brand) => "same_niche" \in Taglines(creator, brand)
  <2> SUFFICES ASSUME SameNiche(creator, brand) PROVE "same_niche" \in Taglines(creator, brand)
    OBVIOUS
  <2>1. "same_niche" \in DOMAIN Points(creator, brand) /\ Points(creator, brand).same_niche = 5000
    BY SMT DEF Points
  <2>2. "same_niche" # "niche_creators" /\ Points(creator, brand)["same_niche"] > 0
    BY <2>1
  <2> QED BY <2>1, <2>2 DEF Taglines
<1>7. creator.niches # {} /\ brand.niche \notin creator.niches \cup {"none"} =>
        Bridged(creator, brand) \/ brand.niche \notin CoreNiches
  BY <1>3 DEF HardFilters, NicheFits, NicheExempt, Bridged
<1>8. verdict.total \in 5500 .. 10000
  BY <1>s, <1>4
<1>9. /\ creator.niches # {} /\ brand.niche \notin creator.niches \cup {"none"} =>
           "niche_bridge" \in verdict.groups \/ brand.niche \notin CoreNiches
      /\ verdict.tier \in {1, 3} => \E p \in brand.partners : p.sure /\ p.niche \in creator.niches
      /\ verdict.tier = 3 => "same_niche" \in verdict.groups
      /\ verdict.tier = 1 => "niche_bridge" \in verdict.groups \/ brand.niche = "none"
  BY <1>4, <1>5, <1>6, <1>7, TierHasPartner
<1> QED BY <1>8, <1>9

LEMMA VerdictInit == (MatchRulesInit \/ verdict = NoVerdict) => VerdictInv
BY DEF MatchRulesInit, VerdictInv

-----------------------------------------------------------------------------
(* The services side by side                                               *)

ServicesInv ==
    /\ part \in Parts /\ (part = "matches" => matchPair \in MatchPairs)
    /\ AccountsInv /\ EditsInv /\ PostsInv /\ ContactsInv
    /\ CacheInv /\ RequestsInv /\ VerdictInv /\ RanksInv

LEMMA ServicesInitInv == ServicesInit => ServicesInv
<1> SUFFICES ASSUME ServicesInit PROVE ServicesInv
  OBVIOUS
<1>1. /\ part \in Parts /\ (part = "matches" => matchPair \in MatchPairs) /\ AccountsInit /\ PitchEditsInit /\ CreatorPostsInit /\ ContactsInit
      /\ NicheCacheInit /\ RequestLimitsInit /\ RankingsInit
      /\ MatchRulesInit \/ verdict = NoVerdict
  BY DEF ServicesInit, MatchRulesInit
<1> QED
  BY <1>1, InitInv, EditsInit, PostsInit, ContactsInitInv, CacheInit, RequestsInit, VerdictInit, RanksInit
     DEF ServicesInv

\* A step of one service is a step of that service's module and none of the others'.
LEMMA ServicesNextInv == ServicesInv /\ [ServicesNext]_servicesVars => ServicesInv'
<1> SUFFICES ASSUME ServicesInv, [ServicesNext]_servicesVars PROVE ServicesInv'
  OBVIOUS
<1>1. /\ part' = part
      /\ [AccountsNext]_accountsVars /\ [PitchEditsNext]_pitchEditsVars
      /\ [CreatorPostsNext]_creatorPostsVars /\ [ContactsNext]_contactsVars
      /\ [NicheCacheNext]_nicheCacheVars /\ [RequestLimitsNext]_requestLimitsVars
      /\ [MatchRulesStep]_matchRulesVars /\ [RankingsNext]_rankingsVars
      /\ (part = "matches" => matchPair' = matchPair)
  BY DEF ServicesNext, servicesVars, ServicesInv, MatchRulesStep, MatchRulesNext, matchRulesVars
<1> QED
  BY <1>1, NextInv, EditsNext, PostsNext, ContactsNextInv, CacheNext, RequestsNext, VerdictNext, RanksNext
     DEF ServicesInv

LEMMA ServicesHold == ServicesSpec => []ServicesInv
BY ServicesInitInv, ServicesNextInv, PTL DEF ServicesSpec

\* Every state of the services and of the matching has its type, for any accounts, calls,
\* pitches, posts, brands, requests and limits (app.py, auth.py, contact_access.py, matcher.py).
THEOREM ServicesTypeCorrect == ServicesSpec => []ServicesTypeOK
<1>1. ServicesInv => ServicesTypeOK
  BY DEF ServicesInv, ServicesTypeOK, AccountsInv, EditsInv, PostsInv, ContactsInv, CacheInv, RequestsInv, RanksInv
<1> QED BY <1>1, ServicesHold, PTL

\* Whatever the rows of the pairs, the brands and the runs of the rankings, a brand is shown
\* for what its rows say, its score lies in 55%..100%, and the AI's ranking is shown as one
\* run left it (matcher.py:304-400, match_text.py:181-225, scoring.py:104-215, app.py:2036-2085).
THEOREM MatchesExplained == ServicesSpec => []MatchesSound
<1>1. ServicesInv => MatchesSound
  BY VerdictExplains, RanksSorted DEF ServicesInv, MatchesSound
<1> QED BY <1>1, ServicesHold, PTL
=============================================================================
